\* One player and the automatic cash-outs, with a crash and a shutdown.
CONSTANTS
    Bets = {"m", "a"}
    Handlers = {"h1"}
    Loop = "loop"  None = None
    Target <- MCTarget
    Asks <- MCAsks
    Points <- MCPoints
    MaxMult = 4
    MinFlight = 3
    MaxFlight = 3
    MaxTime = 3
    MaxCrashes = 1
    Stoppable = TRUE
SPECIFICATION FairSpec
PROPERTIES
    FlightsEnd

\* Nothing fails: a button pressed while the automatic cash-out is under way.
CONSTANTS
    Bets = {"m", "a"}
    Handlers = {"h1", "h2"}
    Loop = "loop"  None = None
    Target <- MCTarget
    Asks <- MCAsks
    Points <- MCPoints
    MaxMult = 4
    MinFlight = 3
    MaxFlight = 3
    MaxTime = 3
    MaxCrashes = 0
    Stoppable = FALSE
SPECIFICATION Spec
INVARIANTS
    PaidOnce

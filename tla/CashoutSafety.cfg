\* Two players press the button, one of them against an automatic target, in
\* flights that crash at once, inside MinFlight and at the end, with a crash of
\* the process and a shutdown.
CONSTANTS
    Bets = {"m", "a"}
    Handlers = {"h1", "h2"}
    Loop = "loop"  None = None
    Target <- MCTarget
    Asks <- MCAsks
    Points <- MCPoints
    MaxMult = 4
    MinFlight = 3
    MaxFlight = 3
    MaxTime = 3
    MaxCrashes = 1
    Stoppable = TRUE
SPECIFICATION Spec
INVARIANTS
    TypeOK
    PaidAsFlown
    AnnouncedIsOwed
    RepeatedCashoutPaysOnce

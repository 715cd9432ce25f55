\* One round, a crash, a shutdown and late packets, under fairness.
CONSTANTS
    b1 = b1  b2 = b2  odd = odd  even = even  None = None
    Bets = {b1, b2}
    Outcomes = {odd, even}
    Pick <- MCPick
    MaxRounds = 1
    MaxCrashes = 1
    MaxStops = 1
    MaxFaults = 0
    LateDelivery = TRUE
SPECIFICATION FairSpec
PROPERTIES
    DebtsEnd
    RoundsClose

\* Two rounds, a crash and a database error, either of which may interrupt
\* recovery from the other, and packets that arrive after the engine gave up.
CONSTANTS
    b1 = b1  b2 = b2  odd = odd  even = even  None = None
    Bets = {b1, b2}
    Outcomes = {odd, even}
    Pick <- MCPick
    MaxRounds = 2
    MaxCrashes = 1
    MaxStops = 0
    MaxFaults = 1
    LateDelivery = TRUE
SPECIFICATION Spec
INVARIANTS
    TypeOK
    StakeGoesOneWay
    WinsAreOwedOrPaid
    RecoveryIsComplete
PROPERTIES
    SettlementIsFinal

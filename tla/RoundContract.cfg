\* Two rounds in which nothing fails but the answers of the wallet.
CONSTANTS
    b1 = b1  b2 = b2  odd = odd  even = even  None = None
    Bets = {b1, b2}
    Outcomes = {odd, even}
    Pick <- MCPick
    MaxRounds = 2
    MaxCrashes = 0
    MaxStops = 0
    MaxFaults = 0
    LateDelivery = FALSE
SPECIFICATION FairSpec
INVARIANTS
    RowsAgree
PROPERTIES
    KeepsContract
    RejectedStakeIsReturned

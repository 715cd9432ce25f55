\* A crash between the operator's credit and the write of the bet row.
CONSTANTS
    b1 = b1  b2 = b2  odd = odd  even = even  None = None
    Bets = {b1, b2}
    Outcomes = {odd, even}
    Pick <- MCPick
    MaxRounds = 1
    MaxCrashes = 1
    MaxStops = 0
    MaxFaults = 0
    LateDelivery = FALSE
SPECIFICATION Spec
INVARIANTS
    CreditedOnce

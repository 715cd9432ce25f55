SPECIFICATION Spec
CONSTANTS
    None = None
    Bad = Bad
    Nobody = Nobody
    Callers = {c1, c2}
    Boot = c1
    Patches = {p1, p2}
    Wants <- WantSet
    Hands = {h1}
    MaxLevers = 2
    Requests = {r1, r2}
    UuidOf <- SameUuid
    Routes = {x1, x2}
    MaxFaults = 1
    Sockets = {k1, k2}
    Seats = {s1, s2}
    MaxAttempts = 2
    Bets = {b1, b2, b3}
    Stakes = {1, 2}
    Prizes = {3}
    SessionWager = 3
    SessionLoss = 2
    DailyWager = 4
    DailyLoss = 3
    ByteBits = 2
INVARIANTS
    EnginesAreControlled
    
    PresenceIsShown
    
PROPERTIES
    LeversWork
    BalanceTold
CHECK_DEADLOCK FALSE

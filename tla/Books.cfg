SPECIFICATION Spec
CONSTANTS
    Writers = {w1, w2}
    MaxDays = 3
    MaxEvents = 3
    Txs <- SomeTxs
    MaxDay = 2
    MaxCalls = 3
    Minor = 1000
    MaxRows = 5
    MaxTime = 2
    Limit = 1
    Operators <- TwoOperators
    Currencies = {"x", "y"}
    Stake = 2
    Win = 5
    MaxBets = 2
    MaxHour = 3
    DayHours = 2
    Newest = 1
    LowN = 4
    P99 = 300
    MaxRounds = 3
    MaxConfig = 2
INVARIANTS
    ChainIsEvidence
    TotalsReconcile
    PagesMissOnlyCursors
    
    EvidenceAgrees
SYMMETRY WriterSymmetry
CHECK_DEADLOCK FALSE

SPECIFICATION DeliverySpec
\* Nothing is left to do when all jobs are closed and all deliveries have ended.
CHECK_DEADLOCK FALSE
CONSTANTS
    Jobs = {j}
    NoJob = NoJob
    Procs = {p1, p2}
    MaxAttempts = 2
    LockTtl = 2
    BackoffCap = 2
    ExhaustedWait = 2
    Slow = FALSE
    MaxFaults = 1
    MaxOutages = 2
    None = None
    Seed = 3
    Requests <- OneRoundTwice
    Players = {"alice"}
    Events = {e}
    Subs = {s}
    Hands = {h1, h2}
    MaxRotations = 1
    MaxReplays = 2
INVARIANTS
    JobsSettleOnce
    WalletsAddUp
    DeliveriesAreOwned
PROPERTIES
    NothingTwice
    QueuesDrain

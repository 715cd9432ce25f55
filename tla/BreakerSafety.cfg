\* Four calls in flight at once against a threshold of two.
CONSTANTS
    Calls = {c1, c2, c3, c4}
    Threshold = 2
    Cooldown = 3
SPECIFICATION FairSpec
INVARIANTS
    NeverJammed
PROPERTIES
    NeverStuckOpen

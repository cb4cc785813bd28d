\* Four blocks through two permits, three tries each, two connections refused.
SPECIFICATION FairSpec
CONSTANTS
    Members = {1, 2, 3, 4}
    Jobs = 2
    Retries = 3
    MaxOutages = 2
INVARIANTS
    PoolInv
    RaiseIsEarned
PROPERTIES
    BatchEnds
CHECK_DEADLOCK FALSE

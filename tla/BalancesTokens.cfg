\* Two tokens of one holder, which one post cannot hold both.
CONSTANTS
    Addresses = {alice}
    TokenIds = {t1, t2}
    Amounts = {0, 1, 2}
    MaxLevel = 2
    MaxBatch = 2
    MaxForks = 0
    MaxCrashes = 1
    NoRecord = NoRecord
SPECIFICATION FairSpec
INVARIANTS
    ChangesReachThePost
PROPERTIES
    OutboxDrains

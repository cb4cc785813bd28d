\* One token, as the code is written for ("Only for token_id 10"), one holder; three blocks of
\* which the last ones are replaced once, so that a batch may have a block of the old branch, a
\* forward batch may lie below its anchor with a gap, and the holder's balance moves named,
\* unnamed, and back; two deaths.
CONSTANTS
    Addresses = {alice}
    TokenIds = {t1}
    Amounts = {0, 1}
    MaxLevel = 3
    MaxBatch = 2
    MaxForks = 1
    MaxCrashes = 2
    NoRecord = NoRecord
SPECIFICATION Spec
INVARIANTS
    BalancesInv
    HoldersConverge
PROPERTIES
    PostsAreCurrent

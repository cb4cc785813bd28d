\* The crawl on a chain that forks twice, one or two blocks deep, with prompt answers
\* and one death: what of the final branch it indexes, and that it gets everywhere.
CONSTANTS
    BatchSize = 1
    UntilBlock = 0
    StartLevel = 1
    MaxLevel = 6
    MaxLag = 0
    MaxCrashes = 1
    NoBlock = NoBlock
    MaxReorgs = 2
    MaxDepth = 2
SPECIFICATION ForkFairSpec
INVARIANTS
    ForkInv
    HolesAreDeepForks
PROPERTIES
    EventuallySynced
    HeadIsFollowed
    BranchIsIndexed

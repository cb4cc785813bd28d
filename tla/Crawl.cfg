\* The crawl under crashes and lagging heads.  batch_size is 3, so a sweep of
\* more than 4 blocks takes several batches; the chain starts too short for the
\* first sweep and grows past it.
CONSTANTS
    BatchSize = 2
    UntilBlock = 1
    StartLevel = 1
    MaxLevel = 10
    MaxLag = 2
    MaxCrashes = 2
    NoBlock = NoBlock
SPECIFICATION Spec
INVARIANTS
    CrawlInv
    NoHoles
    MemoryMirrorsStore
    BackwardStaysOnChain
    SyncedIsComplete
PROPERTIES
    WindowOnlyGrows
    ImplementsPromise

\* The events of EventStore.cfg, two saves, one death, one reset and two check tasks; limits
\* of one to three events, of which max_limit lets two through.
SPECIFICATION FairSpec
CONSTANTS
    k1 = k1  k2 = k2  k3 = k3  s1 = s1  s2 = s2  o1 = o1  o2 = o2
    a1 = a1  a2 = a2  b0 = b0  b1 = b1  b1x = b1x  b2 = b2  t1 = t1  t2 = t2
    Missing = Missing
    Keys = {k1, k2, k3}
    Sources = {s1, s2}
    Operations = {o1, o2}
    Addresses = {a1, a2}
    Blocks <- MCBlocks
    Events <- MCEvents
    Batches <- MCBatches
    Lasting <- MCLasting
    SourceLies <- MCSourceLies
    TrustedHas <- MCTrustedHas
    TrustedLies <- MCTrustedLies
    Slots = {1, 2}
    MaxSaves = 2
    MaxCrashes = 1
    MaxResets = 1
    MaxErrors = 0
    KeyOrder <- MCKeyOrder
    Kind <- MCKind
    MaxLimit = 2
    None = None
    Queries <- MCQueries
INVARIANTS
    FilteredAnswersAreExact
    PagesMissNothing
    
    StatsCoverAnswers
PROPERTIES
    AnswersShowVerdicts
    DanglingIsRepaired

\* Events of two sources, a fork of one block, batches of one and two blocks; two deaths and
\* one reset at any point, one trusted endpoint request given up, two check tasks.
SPECIFICATION Spec
CONSTANTS
    k1 = k1  k2 = k2  k3 = k3  s1 = s1  s2 = s2  o1 = o1  o2 = o2
    a1 = a1  a2 = a2  b0 = b0  b1 = b1  b1x = b1x  b2 = b2
    Missing = Missing
    Keys = {k1, k2, k3}
    Sources = {s1, s2}
    Operations = {o1, o2}
    Addresses = {a1, a2}
    Blocks <- MCBlocks
    Events <- MCEvents
    Batches <- MCBatches
    Lasting <- MCLasting
    SourceLies <- MCSourceLies
    TrustedHas <- MCTrustedHas
    TrustedLies <- MCTrustedLies
    Slots = {1, 2}
    MaxSaves = 2
    MaxCrashes = 2
    MaxResets = 1
    MaxErrors = 1
INVARIANTS
    StoreInv
    EventsAreFindable
    DanglingIsOwed
    AckedAreStored
    AccountsWithinGlobal
    VerdictsAreEarned

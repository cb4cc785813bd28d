--------------------------- MODULE FetchPoolProofs ---------------------------
(***************************************************************************)
(* That no ending of a task takes a permit with it, and that a batch only  *)
(* fails for a block that used up its tries, for every batch, any number   *)
(* of permits and of tries.                                                *)
(***************************************************************************)
EXTENDS FetchPool, FiniteSetTheorems, TLAPS

USE DEF Holding, Ended

\* The tasks inside the semaphore are finitely many.
LEMMA HoldersFinite == IsFiniteSet(Holders) /\ Cardinality(Holders) \in Nat
<1>1. Holders \subseteq Members
    BY DEF Holders
<1>2. IsFiniteSet(Holders)
    BY <1>1, MembersAssumption, FS_Subset
<1>3. QED
    BY <1>2, FS_CardinalityType

\* A task that enters the semaphore's block is one holder more.
LEMMA OneMore ==
    ASSUME TypeOK, NEW m \in Members, NEW place \in Holding,
           at[m] \notin Holding, MoveTo(m, place)
    PROVE  Cardinality(Holders') = Cardinality(Holders) + 1
<1>1. Holders' = Holders \cup {m} /\ m \notin Holders
    BY DEF Holders, MoveTo, TypeOK
<1>2. QED
    BY <1>1, HoldersFinite, FS_AddElement

\* A task that leaves it is one less.
LEMMA OneLess ==
    ASSUME TypeOK, NEW m \in Members, NEW place \in Ended, at[m] \in Holding, MoveTo(m, place)
    PROVE  Cardinality(Holders') = Cardinality(Holders) - 1 /\ Cardinality(Holders) > 0
<1>1. Holders' = Holders \ {m} /\ m \in Holders
    BY DEF Holders, MoveTo, TypeOK
<1>2. QED
    BY <1>1, HoldersFinite, FS_RemoveElement, FS_EmptySet

\* A task that changes place inside it changes nothing.
LEMMA SameHolders ==
    ASSUME TypeOK, NEW m \in Members, NEW place \in Holding, at[m] \in Holding, MoveTo(m, place)
    PROVE  Holders' = Holders
BY DEF Holders, MoveTo, TypeOK

\* The semaphore is full at the start, and no try is spent.
LEMMA PoolInit == Init => PoolInv
<1> SUFFICES ASSUME Init PROVE PoolInv
    OBVIOUS
<1>1. TypeOK /\ CountInv /\ OutcomeInv
    BY JobsAssumption, RetriesAssumption DEF Init, TypeOK, CountInv, OutcomeInv
<1>2. Holders = {}
    BY DEF Init, Holders
<1>3. PermitsAddUp
    BY <1>2, FS_EmptySet, JobsAssumption DEF PermitsAddUp, Init
<1>4. QED
    BY <1>1, <1>3 DEF PoolInv

\* No step loses a permit or a try.
LEMMA PoolNext == PoolInv /\ [Next]_vars => PoolInv'
<1> SUFFICES ASSUME PoolInv, [Next]_vars PROVE PoolInv'
    OBVIOUS
<1> USE JobsAssumption, RetriesAssumption, HoldersFinite DEF PoolInv
<1>1. ASSUME NEW m \in Members, Acquire(m) PROVE PoolInv'
    <2>1. Cardinality(Holders') = Cardinality(Holders) + 1
        BY <1>1, OneMore DEF Acquire
    <2>2. PermitsAddUp'
        BY <1>1, <2>1 DEF Acquire, PermitsAddUp, TypeOK
    <2>3. TypeOK'
        BY <1>1 DEF Acquire, MoveTo, TypeOK
    <2>4. CountInv' /\ OutcomeInv'
        BY <1>1 DEF Acquire, MoveTo, TypeOK, CountInv, OutcomeInv
    <2>5. QED
        BY <2>2, <2>3, <2>4
<1>2. ASSUME NEW m \in Members, Answer(m) PROVE PoolInv'
    <2>1. Cardinality(Holders') = Cardinality(Holders) - 1 /\ Cardinality(Holders) > 0
        BY <1>2, OneLess DEF Answer, Leave
    <2>2. PermitsAddUp'
        BY <1>2, <2>1 DEF Answer, Leave, PermitsAddUp, TypeOK
    <2>3. TypeOK'
        BY <1>2, <2>1, <2>2 DEF Answer, Leave, MoveTo, TypeOK, PermitsAddUp
    <2>4. CountInv' /\ OutcomeInv'
        BY <1>2 DEF Answer, Leave, MoveTo, TypeOK, CountInv, OutcomeInv
    <2>5. QED
        BY <2>2, <2>3, <2>4
<1>3. ASSUME NEW m \in Members, Refuse(m) \/ Disconnect(m) \/ Reconnect(m) PROVE PoolInv'
    <2>1. Holders' = Holders
        BY <1>3, SameHolders DEF Refuse, Disconnect, Reconnect
    <2>2. PermitsAddUp'
        BY <1>3, <2>1 DEF Refuse, Disconnect, Reconnect, PermitsAddUp
    <2>3. TypeOK'
        BY <1>3 DEF Refuse, Disconnect, Reconnect, AfterOutage, MoveTo, TypeOK
    <2>4. CountInv' /\ OutcomeInv'
        BY <1>3 DEF Refuse, Disconnect, Reconnect, AfterOutage, MoveTo, TypeOK, CountInv, OutcomeInv
    <2>5. QED
        BY <2>2, <2>3, <2>4
<1>4. ASSUME NEW m \in Members, CoolDown(m) PROVE PoolInv'
    <2>1. retry[m] \in 1..Retries /\ retry[m] - 1 \in 0..Retries
        BY <1>4 DEF CoolDown, CountInv, TypeOK
    <2>2. CountInv' /\ OutcomeInv'
        BY <1>4, <2>1 DEF CoolDown, TriesLeft, Leave, MoveTo, TypeOK, CountInv, OutcomeInv
    <2>3. CASE retry[m] - 1 = 0
        <3>1. Cardinality(Holders') = Cardinality(Holders) - 1 /\ Cardinality(Holders) > 0
            BY <1>4, <2>3, OneLess DEF CoolDown, TriesLeft, Leave
        <3>2. PermitsAddUp'
            BY <1>4, <2>3, <3>1 DEF CoolDown, TriesLeft, Leave, PermitsAddUp, TypeOK
        <3>3. TypeOK'
            BY <1>4, <2>1, <2>3, <3>1, <3>2
            DEF CoolDown, TriesLeft, Leave, MoveTo, TypeOK, PermitsAddUp
        <3>4. QED
            BY <2>2, <3>2, <3>3
    <2>4. CASE retry[m] - 1 # 0
        <3>1. Holders' = Holders
            BY <1>4, <2>4, SameHolders DEF CoolDown, TriesLeft
        <3>2. PermitsAddUp'
            BY <1>4, <2>4, <3>1 DEF CoolDown, TriesLeft, PermitsAddUp
        <3>3. TypeOK'
            BY <1>4, <2>1, <2>4 DEF CoolDown, TriesLeft, MoveTo, TypeOK
        <3>4. QED
            BY <2>2, <3>2, <3>3
    <2>5. QED
        BY <2>3, <2>4
<1>5. ASSUME Return \/ Raise PROVE PoolInv'
    <2>1. Holders' = Holders /\ UNCHANGED <<permits, at, retry, refused, outages>>
        BY <1>5 DEF Return, Raise, Holders
    <2>2. QED
        BY <1>5, <2>1 DEF Return, Raise, PermitsAddUp, TypeOK, CountInv, OutcomeInv
<1>6. CASE Shutdown
    <2>1. Holders' = {}
        BY <1>6 DEF Shutdown, Holders
    <2>2. PermitsAddUp'
        BY <1>6, <2>1, FS_EmptySet DEF Shutdown, PermitsAddUp, TypeOK
    <2>3. TypeOK'
        BY <1>6 DEF Shutdown, TypeOK, PermitsAddUp
    <2>4. CountInv'
        BY <1>6 DEF Shutdown, TypeOK, CountInv
    <2>5. OutcomeInv'
        BY <1>6 DEF Shutdown, OutcomeInv, TypeOK
    <2>6. QED
        BY <2>2, <2>3, <2>4, <2>5
<1>7. CASE UNCHANGED vars
    BY <1>7 DEF vars, PermitsAddUp, Holders, TypeOK, CountInv, OutcomeInv
<1>8. QED
    BY <1>1, <1>2, <1>3, <1>4, <1>5, <1>6, <1>7 DEF Next, MemberStep

\* However the tasks of a batch interleave and end, permits and holders add up and tries
\* are spent one per counted failure.
THEOREM PoolInvariance == Spec => []PoolInv
<1>1. QED
    BY PoolInit, PoolNext, PTL DEF Spec

\* The process never goes down for a batch none of whose blocks used up its tries.
THEOREM RaisesAreEarned == Spec => []RaiseIsEarned
<1>1. PoolInv => RaiseIsEarned
    <2> SUFFICES ASSUME PoolInv, outcome \in {"raised", "down"}
                 PROVE  \E m \in Members : refused[m] = Retries
        BY DEF RaiseIsEarned
    <2>1. PICK m \in Members : at[m] = "failed"
        BY DEF PoolInv, OutcomeInv
    <2>2. retry[m] = 0 /\ retry[m] + refused[m] = Retries
        BY <2>1, RetriesAssumption DEF PoolInv, CountInv, TypeOK
    <2>3. QED
        BY <2>2 DEF PoolInv, TypeOK
<1>2. QED
    BY <1>1, PoolInvariance, PTL
=============================================================================

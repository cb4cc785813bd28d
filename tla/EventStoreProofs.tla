-------------------------- MODULE EventStoreProofs --------------------------
(***************************************************************************)
(* Machine-checked proofs about EventStore: StoreInv is inductive, and the *)
(* safety properties that follow from it hold for every set of events,     *)
(* forks, batches and verdicts and for every bound.                        *)
(***************************************************************************)
EXTENDS EventStore, FiniteSetTheorems, TLAPS

\* The events of any set of blocks are finitely many, so the counters stay natural numbers.
LEMMA CountsAreNaturals ==
    ASSUME NEW S \in SUBSET Events
    PROVE  Cardinality(S) \in Nat
BY EventAssumption, FS_Subset, FS_CardinalityType

\* The empty databases of a first start satisfy the invariant.
LEMMA InitEstablishes == Init => DataInv
<1>. SUFFICES ASSUME Init PROVE DataInv
  OBVIOUS
<1>1. TypeOK
  <2>1. eventDB \in [Keys -> Record \cup {Missing}] /\ account_counter \in [Sources -> Nat]
    BY DEF Init
  <2>2. tasks \in [Slots -> SUBSET Events]
    BY DEF Init, NoTasks
  <2>3. crashes \in 0..MaxCrashes /\ resets \in 0..MaxResets /\ errors \in 0..MaxErrors
    BY BoundAssumption DEF Init
  <2>. QED BY <2>1, <2>2, <2>3 DEF Init, TypeOK
<1>2. Stored = {} /\ EventsOf(batch) = {} /\ EventsOf(blockDB) = {}
  BY DEF Init, Stored, EventsOf
<1>3. SaveInv /\ KeptInv
  BY <1>2 DEF Init, SaveInv, KeptInv
<1>4. AckedInv
  BY DEF Init, AckedInv, BlocksToKeep, EventsOf
<1>5. EventsAreFindable /\ VerdictsAreEarned
  BY <1>2 DEF EventsAreFindable, VerdictsAreEarned
<1>6. DanglingIsOwed
  BY DEF Init, DanglingIsOwed, Indexed
<1>. QED BY <1>1, <1>3, <1>4, <1>5, <1>6 DEF DataInv

\* Putting one more event in the main index keeps the invariant.
LEMMA WriteIndexPreserves ==
    ASSUME DataInv, NEW e \in Events, WriteIndex(e)
    PROVE  DataInv'
<1> USE DEF WriteIndex, rest, counters, counts
<1>1. /\ e \in EventsOf(batch) /\ e.key \in Keys
      /\ e.source \in Sources /\ e.operation \in Operations /\ e.block \in Blocks
  BY EventAssumption DEF DataInv, SaveInv
<1>2. TypeOK'
  BY <1>1 DEF DataInv, TypeOK, IndexEntries
<1>3. SaveInv'
  BY DEF DataInv, SaveInv, IndexEntries, WildcardEntries, EventsOf, KeysOf, Stored, BlocksToKeep
<1>4. KeptInv' /\ AckedInv'
  BY DEF DataInv, KeptInv, AckedInv, EventsOf, Stored, BlocksToKeep
<1>5. EventsAreFindable' /\ VerdictsAreEarned'
  BY DEF DataInv, EventsAreFindable, VerdictsAreEarned, Stored, IndexEntries, WildcardEntries
<1>6. DanglingIsOwed'
  <2>1. Indexed' \subseteq Indexed \cup {e.key}
    BY DEF Indexed, IndexEntries
  <2>. QED BY <2>1, <1>1 DEF DataInv, DanglingIsOwed, Stored, KeysOf, EventsOf
<1>. QED BY <1>2, <1>3, <1>4, <1>5, <1>6 DEF DataInv

\* So does putting it in the wildcard index.
LEMMA WriteWildcardIndexPreserves ==
    ASSUME DataInv, NEW e \in Events, WriteWildcardIndex(e)
    PROVE  DataInv'
<1> USE DEF WriteWildcardIndex, rest, counters, counts
<1>1. e \in EventsOf(batch) /\ e.key \in Keys /\ e.addresses \subseteq Addresses
  BY EventAssumption DEF DataInv, SaveInv
<1>2. TypeOK'
  BY <1>1 DEF DataInv, TypeOK, WildcardEntries
<1>3. SaveInv'
  BY DEF DataInv, SaveInv, IndexEntries, WildcardEntries, EventsOf, KeysOf, Stored, BlocksToKeep
<1>4. KeptInv' /\ AckedInv'
  BY DEF DataInv, KeptInv, AckedInv, EventsOf, Stored, BlocksToKeep
<1>5. EventsAreFindable' /\ VerdictsAreEarned'
  BY DEF DataInv, EventsAreFindable, VerdictsAreEarned, Stored, IndexEntries, WildcardEntries
<1>6. DanglingIsOwed'
  <2>1. Indexed' \subseteq Indexed \cup {e.key}
    BY DEF Indexed, WildcardEntries
  <2>. QED BY <2>1, <1>1 DEF DataInv, DanglingIsOwed, Stored, KeysOf, EventsOf
<1>. QED BY <1>2, <1>3, <1>4, <1>5, <1>6 DEF DataInv

\* What writing a set of events leaves under each key: an event of the set, without marks,
\* or what was there.
LEMMA WhatIsWritten ==
    ASSUME TypeOK, NEW es \in SUBSET Events
    PROVE  /\ Written(es) \in [Keys -> Record \cup {Missing}]
           /\ \A k \in KeysOf(es) :
                  /\ Written(es)[k] # Missing
                  /\ Written(es)[k].event \in es /\ Written(es)[k].event.key = k
                  /\ ~Written(es)[k].verified /\ ~Written(es)[k].untrusted
           /\ \A k \in Keys \ KeysOf(es) : Written(es)[k] = eventDB[k]
<1>1. KeysOf(es) \subseteq Keys
  BY EventAssumption DEF KeysOf
<1>2. ASSUME NEW k \in KeysOf(es)
      PROVE  LET e == CHOOSE f \in es : f.key = k IN e \in es /\ e.key = k
  BY <1>2 DEF KeysOf
<1>3. ASSUME NEW k \in KeysOf(es)
      PROVE  /\ Written(es)[k] \in Record
             /\ Written(es)[k].event \in es /\ Written(es)[k].event.key = k
             /\ ~Written(es)[k].verified /\ ~Written(es)[k].untrusted
  BY <1>1, <1>2, <1>3 DEF Written, Record
<1>4. \A k \in Keys \ KeysOf(es) : Written(es)[k] = eventDB[k]
  BY DEF Written
<1>5. Written(es) = [k \in Keys |-> Written(es)[k]]
  BY DEF Written
<1>6. \A k \in Keys : Written(es)[k] \in Record \cup {Missing}
  BY <1>3, <1>4 DEF TypeOK
<1>. QED BY <1>1, <1>3, <1>4, <1>5, <1>6, MissingAssumption DEF Record

\* The events of the batch go in when all of them are indexed, and lose their marks.
LEMMA WriteEventsPreserves ==
    ASSUME DataInv, WriteEvents
    PROVE  DataInv'
<1> USE DEF WriteEvents, AllIndexed, rest, indexes, counters, saving, counts
<1> DEFINE es == EventsOf(batch)
<1>1. es \in SUBSET Events /\ TypeOK
  BY DEF EventsOf, DataInv
<1>2. /\ eventDB' \in [Keys -> Record \cup {Missing}]
      /\ \A k \in KeysOf(es) :
             /\ eventDB'[k] # Missing
             /\ eventDB'[k].event \in es /\ eventDB'[k].event.key = k
             /\ ~eventDB'[k].verified /\ ~eventDB'[k].untrusted
      /\ \A k \in Keys \ KeysOf(es) : eventDB'[k] = eventDB[k]
  <2>. HIDE DEF es
  <2>1. eventDB' = Written(es)
    BY DEF es
  <2>. QED BY <1>1, <2>1, WhatIsWritten
<1>3. KeysOf(es) \subseteq Keys
  BY EventAssumption DEF KeysOf, EventsOf
<1>4. Stored' = Stored \cup KeysOf(es)
  BY <1>2, <1>3 DEF Stored
<1>5. TypeOK'
  BY <1>2 DEF DataInv, TypeOK
<1>6. SaveInv'
  BY <1>4 DEF DataInv, SaveInv, EventsOf, BlocksToKeep
<1>7. KeptInv' /\ AckedInv'
  BY <1>4 DEF DataInv, KeptInv, AckedInv, EventsOf, BlocksToKeep
<1>8. \A f \in es : IndexEntries(f) \subseteq eventIndexDB /\ WildcardEntries(f) \subseteq eventWildcardIndexDB
  BY DEF DataInv, SaveInv
<1>9. EventsAreFindable'
  <2>. SUFFICES ASSUME NEW k \in Stored'
                PROVE  /\ eventDB'[k].event.key = k
                       /\ IndexEntries(eventDB'[k].event) \subseteq eventIndexDB
                       /\ WildcardEntries(eventDB'[k].event) \subseteq eventWildcardIndexDB
    BY DEF EventsAreFindable, IndexEntries, WildcardEntries
  <2>1. CASE k \in KeysOf(es)
    <3>. HIDE DEF es
    <3>. QED BY <2>1, <1>2, <1>8
  <2>2. CASE k \notin KeysOf(es)
    <3>1. k \in Keys \ KeysOf(es) /\ k \in Stored /\ eventDB'[k] = eventDB[k]
      BY <2>2, <1>2, <1>4 DEF Stored
    <3>. QED BY <3>1 DEF DataInv, EventsAreFindable
  <2>. QED BY <2>1, <2>2
<1>10. VerdictsAreEarned'
  <2>. SUFFICES ASSUME NEW k \in Stored'
                PROVE  /\ eventDB'[k].verified =>
                              \E e \in Events : e.key = k /\ e \notin SourceLies /\ PassesTrusted(e)
                       /\ eventDB'[k].untrusted =>
                              \E e \in Events : e.key = k /\ (e \in SourceLies \/ ~PassesTrusted(e))
    BY DEF VerdictsAreEarned, PassesTrusted
  <2>1. CASE k \in KeysOf(es)
    BY <2>1, <1>2
  <2>2. CASE k \notin KeysOf(es)
    <3>1. k \in Keys \ KeysOf(es) /\ k \in Stored /\ eventDB'[k] = eventDB[k]
      BY <2>2, <1>2, <1>4 DEF Stored
    <3>. QED BY <3>1 DEF DataInv, VerdictsAreEarned
  <2>. QED BY <2>1, <2>2
<1>11. DanglingIsOwed'
  BY <1>4 DEF DataInv, DanglingIsOwed, Indexed, EventsOf
<1>. QED BY <1>5, <1>6, <1>7, <1>9, <1>10, <1>11 DEF DataInv

\* The steps that leave the events and their indexes alone keep what is said of them alone,
\* provided no block leaves both the batch and the owed ones.
LEMMA UntouchedDatabases ==
    ASSUME DataInv, UNCHANGED <<eventDB, indexes>>,
           \A b \in owed \cup batch : b \in owed' \cup batch' \/ KeysOf(EventsOf({b})) \subseteq Stored
    PROVE  EventsAreFindable' /\ VerdictsAreEarned' /\ DanglingIsOwed'
<1>1. EventsAreFindable' /\ VerdictsAreEarned'
  BY DEF DataInv, EventsAreFindable, VerdictsAreEarned, Stored, indexes
<1>2. Indexed' = Indexed /\ Stored' = Stored
  BY DEF Indexed, Stored, indexes
<1>3. KeysOf(EventsOf(owed \cup batch)) \subseteq Stored \cup KeysOf(EventsOf(owed' \cup batch'))
  BY DEF KeysOf, EventsOf
<1>. QED BY <1>1, <1>2, <1>3 DEF DataInv, DanglingIsOwed, KeysOf, EventsOf

\* Keeping the batch's blocks, its events being stored already.
LEMMA WriteBlocksPreserves ==
    ASSUME DataInv, WriteBlocks
    PROVE  DataInv'
<1> USE DEF WriteBlocks, rest, counters, saving, counts
<1>1. TypeOK'
  BY EventAssumption DEF DataInv, TypeOK, indexes, BlocksToKeep, EventsOf
<1>2. SaveInv'
  BY DEF DataInv, SaveInv, indexes, Stored, EventsOf, BlocksToKeep, KeysOf
<1>3. KeptInv'
  <2>1. \A e \in EventsOf(blockDB') : e \in EventsOf(blockDB) \/ e.block \in BlocksToKeep(batch)
    BY DEF EventsOf
  <2>2. \A e \in Events : e.block \in BlocksToKeep(batch) => e.key \in Stored
    BY DEF DataInv, SaveInv, EventsOf, BlocksToKeep, KeysOf
  <2>3. \A e \in EventsOf(blockDB') : e \in Events
    BY DEF EventsOf
  <2>4. Stored' = Stored
    BY DEF Stored
  <2>. QED BY <2>1, <2>2, <2>3, <2>4 DEF DataInv, KeptInv
<1>4. AckedInv'
  BY DEF DataInv, AckedInv, BlocksToKeep, EventsOf
<1>5. EventsAreFindable' /\ VerdictsAreEarned' /\ DanglingIsOwed'
  BY UntouchedDatabases
<1>. QED BY <1>1, <1>2, <1>3, <1>4, <1>5 DEF DataInv

\* Counting the batch, in the global counter or in a source's.
LEMMA CountingPreserves ==
    ASSUME DataInv, PutGlobalCounter \/ \E s \in Sources : PutAccountCounter(s)
    PROVE  DataInv'
<1>1. /\ UNCHANGED <<eventDB, indexes, blockDB, batch, todo, half, rest>>
      /\ step' \in {"global", "accounts"} /\ step \in {"global", "accounts"}
  BY DEF PutGlobalCounter, PutAccountCounter, rest
<1>2. TypeOK'
  <2>1. CASE PutGlobalCounter
    <3>1. Cardinality(EventsOf(batch)) \in Nat
      BY CountsAreNaturals DEF EventsOf
    <3>2. global_counter' \in Nat /\ uncounted' \subseteq Sources /\ account_counter' = account_counter
      BY <2>1, <3>1, EventAssumption DEF PutGlobalCounter, BatchCount, DataInv, TypeOK, EventsOf
    <3>. QED BY <1>1, <3>2 DEF DataInv, TypeOK, rest, counts, indexes
  <2>2. ASSUME NEW s \in Sources, PutAccountCounter(s) PROVE TypeOK'
    <3>1. Cardinality(EventsFrom(s)) \in Nat
      BY CountsAreNaturals DEF EventsOf, EventsFrom
    <3>2. /\ account_counter' \in [Sources -> Nat] /\ uncounted' \subseteq Sources
          /\ global_counter' = global_counter
      BY <2>2, <3>1 DEF PutAccountCounter, NewCount, DataInv, TypeOK
    <3>. QED BY <1>1, <3>2 DEF DataInv, TypeOK, rest, counts, indexes
  <2>. QED BY <2>1, <2>2
<1>3. SaveInv'
  BY <1>1 DEF DataInv, SaveInv, indexes, rest, Stored, EventsOf, BlocksToKeep, KeysOf
<1>4. KeptInv' /\ AckedInv'
  BY <1>1 DEF DataInv, KeptInv, AckedInv, rest, EventsOf, Stored, BlocksToKeep
<1>5. EventsAreFindable' /\ VerdictsAreEarned' /\ DanglingIsOwed'
  BY <1>1, UntouchedDatabases DEF rest
<1>. QED BY <1>2, <1>3, <1>4, <1>5 DEF DataInv

\* A save that returns has stored its events and kept its blocks.
LEMMA SaveReturnsPreserves ==
    ASSUME DataInv, SaveReturns
    PROVE  DataInv'
<1> USE DEF SaveReturns, databases, counters, counts
<1>1. TypeOK'
  BY DEF DataInv, TypeOK, indexes, EventsOf
<1>2. SaveInv'
  BY DEF DataInv, SaveInv, indexes, Stored, EventsOf, BlocksToKeep, KeysOf
<1>3. KeptInv'
  <2>1. \A e \in Events : e.block \in batch => e.key \in Stored
    BY DEF DataInv, SaveInv, EventsOf, KeysOf
  <2>2. \A e \in EventsOf(blockDB) : e \in Events
    BY DEF EventsOf
  <2>. QED BY <2>1, <2>2 DEF DataInv, KeptInv, EventsOf, Stored
<1>4. AckedInv'
  BY DEF DataInv, SaveInv, AckedInv, BlocksToKeep, EventsOf
<1>5. EventsAreFindable' /\ VerdictsAreEarned' /\ DanglingIsOwed'
  <2>1. \A b \in batch : KeysOf(EventsOf({b})) \subseteq Stored
    BY DEF DataInv, SaveInv, EventsOf, KeysOf
  <2>. QED BY <2>1, UntouchedDatabases
<1>. QED BY <1>1, <1>2, <1>3, <1>4, <1>5 DEF DataInv

\* A start wipes events and indexes together, or nothing.
LEMMA StartPreserves ==
    ASSUME DataInv, Start
    PROVE  DataInv'
<1> USE DEF Start, Wiped, counters, indexes, saving, counts
<1>1. step = "idle"
  BY DEF DataInv, SaveInv, TypeOK
<1>2. TypeOK'
  BY DEF DataInv, TypeOK
<1>3. CASE reset_db
  <2>1. Stored' = {} /\ Indexed' = {}
    BY <1>3 DEF Stored, Indexed
  <2>2. SaveInv' /\ KeptInv'
    BY <1>1, <1>3 DEF DataInv, SaveInv, KeptInv, EventsOf
  <2>3. AckedInv'
    BY DEF DataInv, AckedInv, BlocksToKeep, EventsOf
  <2>4. EventsAreFindable' /\ VerdictsAreEarned' /\ DanglingIsOwed'
    BY <2>1 DEF EventsAreFindable, VerdictsAreEarned, DanglingIsOwed
  <2>. QED BY <1>2, <2>2, <2>3, <2>4 DEF DataInv
<1>4. CASE ~reset_db
  <2>1. SaveInv'
    BY <1>1, <1>4 DEF DataInv, SaveInv, EventsOf
  <2>2. KeptInv' /\ AckedInv'
    BY <1>4 DEF DataInv, KeptInv, AckedInv, BlocksToKeep, EventsOf, Stored
  <2>3. EventsAreFindable' /\ VerdictsAreEarned' /\ DanglingIsOwed'
    BY <1>4, UntouchedDatabases
  <2>. QED BY <1>2, <2>1, <2>2, <2>3 DEF DataInv
<1>. QED BY <1>3, <1>4

\* Everything else run.start does, and a death: no database is written.
LEMMA ControlPreserves ==
    ASSUME DataInv,
           \/ Ready \/ EndRebuild \/ Die \/ RequestReset
           \/ \E b \in Blocks : RebuildNext(b)
           \/ \E bs \in Batches : Save(bs)
    PROVE  DataInv'
<1> USE DEF databases, counters, indexes, saving, counts
<1>1. /\ UNCHANGED <<databases, acked>>
      /\ owed \cup batch \subseteq owed' \cup batch'
      /\ TypeOK' /\ SaveInv' /\ KeptInv'
  <2>1. CASE Ready
    <3>1. TypeOK' /\ UNCHANGED <<databases, acked, owed, batch>>
      BY <2>1 DEF Ready, DataInv, TypeOK
    <3>2. SaveInv'
      BY <2>1 DEF Ready, DataInv, SaveInv, EventsOf, Stored, BlocksToKeep
    <3>3. KeptInv'
      BY <2>1 DEF Ready, DataInv, KeptInv, EventsOf, Stored
    <3>. QED BY <3>1, <3>2, <3>3
  <2>2. CASE EndRebuild
    <3>1. TypeOK' /\ UNCHANGED <<databases, acked, owed, batch>>
      BY <2>2 DEF EndRebuild, DataInv, TypeOK
    <3>2. SaveInv'
      BY <2>2 DEF EndRebuild, DataInv, SaveInv, EventsOf, Stored, BlocksToKeep
    <3>3. KeptInv'
      BY <2>2 DEF EndRebuild, DataInv, SaveInv, KeptInv, EventsOf, Stored
    <3>. QED BY <3>1, <3>2, <3>3
  <2>3. CASE Die
    <3>1. TypeOK' /\ UNCHANGED <<databases, acked>> /\ owed' = owed \cup batch
      BY <2>3, BoundAssumption DEF Die, DataInv, TypeOK, NoTasks
    <3>2. SaveInv'
      BY <2>3 DEF Die, SaveInv, EventsOf
    <3>3. KeptInv'
      BY <2>3 DEF Die, DataInv, TypeOK, KeptInv, EventsOf, Stored
    <3>. QED BY <3>1, <3>2, <3>3
  <2>4. CASE RequestReset
    <3>1. TypeOK' /\ UNCHANGED <<databases, acked, owed, batch>>
      BY <2>4, BoundAssumption DEF RequestReset, DataInv, TypeOK
    <3>2. SaveInv' /\ KeptInv'
      BY <2>4 DEF RequestReset, DataInv, SaveInv, KeptInv, EventsOf, Stored, BlocksToKeep
    <3>. QED BY <3>1, <3>2
  <2>5. ASSUME NEW b \in Blocks, RebuildNext(b)
        PROVE  /\ UNCHANGED <<databases, acked>>
               /\ owed \cup batch \subseteq owed' \cup batch'
               /\ TypeOK' /\ SaveInv' /\ KeptInv'
    <3>1. batch = {}
      BY <2>5 DEF RebuildNext, DataInv, SaveInv
    <3>2. TypeOK' /\ UNCHANGED <<databases, acked, owed>>
      BY <2>5 DEF RebuildNext, BeginSave, DataInv, TypeOK, EventsOf
    <3>3. SaveInv'
      BY <2>5 DEF RebuildNext, BeginSave, SaveInv
    <3>4. KeptInv'
      BY <2>5, <3>1 DEF RebuildNext, BeginSave, DataInv, KeptInv, EventsOf, Stored
    <3>. QED BY <3>1, <3>2, <3>3, <3>4
  <2>6. ASSUME NEW bs \in Batches, Save(bs)
        PROVE  /\ UNCHANGED <<databases, acked>>
               /\ owed \cup batch \subseteq owed' \cup batch'
               /\ TypeOK' /\ SaveInv' /\ KeptInv'
    <3>1. batch = {}
      BY <2>6 DEF Save, DataInv, SaveInv
    <3>2. TypeOK' /\ UNCHANGED <<databases, acked, owed>>
      BY <2>6, BatchAssumption DEF Save, BeginSave, DataInv, TypeOK, EventsOf
    <3>3. SaveInv'
      BY <2>6 DEF Save, BeginSave, SaveInv
    <3>4. KeptInv'
      BY <2>6, <3>1 DEF Save, BeginSave, DataInv, KeptInv, EventsOf, Stored
    <3>. QED BY <3>1, <3>2, <3>3, <3>4
  <2>. QED BY <2>1, <2>2, <2>3, <2>4, <2>5, <2>6
<1>2. AckedInv'
  BY <1>1 DEF DataInv, AckedInv, BlocksToKeep, EventsOf
<1>3. EventsAreFindable' /\ VerdictsAreEarned' /\ DanglingIsOwed'
  BY <1>1, UntouchedDatabases
<1>. QED BY <1>1, <1>2, <1>3 DEF DataInv

\* A mark put on a record leaves the event in it, and the other records alone.
LEMMA MarkAlone ==
    ASSUME TypeOK, NEW e \in Events, NEW mark \in {"verified", "untrusted"},
           eventDB' = Judged(e, mark)
    PROVE  /\ eventDB' \in [Keys -> Record \cup {Missing}]
           /\ \A k \in Keys : eventDB'[k] = Missing <=> eventDB[k] = Missing
           /\ \A k \in Keys : eventDB[k] # Missing => eventDB'[k].event = eventDB[k].event
           /\ \A k \in Keys, m \in {"verified", "untrusted"} :
                  eventDB[k] # Missing => (eventDB'[k][m] => eventDB[k][m] \/ (k = e.key /\ m = mark))
<1>3. e.key \in Keys
  BY EventAssumption
<1>1. CASE eventDB[e.key] = Missing
  BY <1>1 DEF Judged, TypeOK
<1>2. CASE eventDB[e.key] # Missing
  <2>1. eventDB \in [Keys -> Record \cup {Missing}] /\ eventDB[e.key] \in Record
    BY <1>2, <1>3 DEF TypeOK
  <2>2. eventDB' = [eventDB EXCEPT ![e.key] = [eventDB[e.key] EXCEPT ![mark] = TRUE]]
    BY <1>2 DEF Judged
  <2>3. /\ [eventDB[e.key] EXCEPT ![mark] = TRUE] \in Record
        /\ [eventDB[e.key] EXCEPT ![mark] = TRUE].event = eventDB[e.key].event
        /\ \A m \in {"verified", "untrusted"} :
               [eventDB[e.key] EXCEPT ![mark] = TRUE][m] => eventDB[e.key][m] \/ m = mark
    BY <2>1 DEF Record
  <2>4. [eventDB[e.key] EXCEPT ![mark] = TRUE] # Missing
    BY <2>3, MissingAssumption DEF Record
  <2> DEFINE r == [eventDB[e.key] EXCEPT ![mark] = TRUE]
  <2>5. /\ eventDB'[e.key] = r
        /\ \A k \in Keys \ {e.key} : eventDB'[k] = eventDB[k]
        /\ eventDB' \in [Keys -> Record \cup {Missing}]
    <3>. r \in Record
      BY <2>3
    <3>1. eventDB' = [eventDB EXCEPT ![e.key] = r]
      BY <2>2
    <3>. HIDE DEF r
    <3>. QED BY <3>1, <2>1, <1>3
  <2>6. /\ r # Missing /\ r.event = eventDB[e.key].event
        /\ \A m \in {"verified", "untrusted"} : r[m] => eventDB[e.key][m] \/ m = mark
    BY <2>3, <2>4
  <2>. HIDE DEF r
  <2>. QED BY <2>5, <2>6, <1>2
<1>. QED BY <1>1, <1>2

\* A verdict marks a record and leaves the event in it.
LEMMA VerdictPreserves ==
    ASSUME DataInv, NEW t \in Slots, NEW e \in Events, Untrust(t, e) \/ Trust(t, e)
    PROVE  DataInv'
<1>1. PICK mark \in {"verified", "untrusted"} :
          /\ eventDB' = Judged(e, mark)
          /\ mark = "verified" => e \notin SourceLies /\ PassesTrusted(e)
          /\ mark = "untrusted" => e \in SourceLies \/ ~PassesTrusted(e)
  BY DEF Untrust, Trust, Untrusted
<1>2. /\ UNCHANGED <<indexes, blockDB, counters, reset_db, phase, step, saving, rebuild,
                      acked, owed, counts>>
      /\ tasks' = [tasks EXCEPT ![t] = tasks[t] \ {e}]
  BY DEF Untrust, Trust, LeftAfter
<1>4. /\ eventDB' \in [Keys -> Record \cup {Missing}]
      /\ \A k \in Keys : eventDB'[k] = Missing <=> eventDB[k] = Missing
      /\ \A k \in Keys : eventDB[k] # Missing => eventDB'[k].event = eventDB[k].event
      /\ \A k \in Keys, m \in {"verified", "untrusted"} :
             eventDB[k] # Missing => (eventDB'[k][m] => eventDB[k][m] \/ (k = e.key /\ m = mark))
  BY <1>1, MarkAlone DEF DataInv
<1>5. Stored' = Stored
  BY <1>4 DEF Stored
<1>6. TypeOK'
  BY <1>2, <1>4 DEF DataInv, TypeOK, indexes, counters, saving, counts
<1>7. SaveInv' /\ KeptInv' /\ AckedInv'
  BY <1>2, <1>5 DEF DataInv, SaveInv, KeptInv, AckedInv, indexes, saving, EventsOf, BlocksToKeep
<1>8. EventsAreFindable'
  BY <1>2, <1>4, <1>5 DEF DataInv, EventsAreFindable, Stored, indexes, IndexEntries, WildcardEntries
<1>9. DanglingIsOwed'
  BY <1>2, <1>5 DEF DataInv, DanglingIsOwed, Indexed, indexes, saving
<1>10. VerdictsAreEarned'
  <2>. SUFFICES ASSUME NEW k \in Stored
                PROVE  /\ eventDB'[k].verified =>
                              \E f \in Events : f.key = k /\ f \notin SourceLies /\ PassesTrusted(f)
                       /\ eventDB'[k].untrusted =>
                              \E f \in Events : f.key = k /\ (f \in SourceLies \/ ~PassesTrusted(f))
    BY <1>5 DEF VerdictsAreEarned, PassesTrusted
  <2>1. /\ eventDB'[k].verified => eventDB[k].verified \/ (k = e.key /\ mark = "verified")
        /\ eventDB'[k].untrusted => eventDB[k].untrusted \/ (k = e.key /\ mark = "untrusted")
    BY <1>4 DEF Stored
  <2>. QED BY <2>1, <1>1 DEF DataInv, VerdictsAreEarned
<1>. QED BY <1>6, <1>7, <1>8, <1>9, <1>10 DEF DataInv

\* A check task that gives up writes nothing.
LEMMA GiveUpPreserves ==
    ASSUME DataInv, NEW t \in Slots, NEW e \in Events, GiveUp(t, e)
    PROVE  DataInv'
<1> USE DEF GiveUp, databases, counters, indexes, saving, counts
<1>1. TypeOK'
  BY BoundAssumption DEF DataInv, TypeOK
<1>2. SaveInv' /\ KeptInv' /\ AckedInv'
  BY DEF DataInv, SaveInv, KeptInv, AckedInv, EventsOf, BlocksToKeep, Stored
<1>3. EventsAreFindable' /\ VerdictsAreEarned' /\ DanglingIsOwed'
  BY UntouchedDatabases
<1>. QED BY <1>1, <1>2, <1>3 DEF DataInv

\* Every step keeps DataInv.
LEMMA DataPreserved == DataInv /\ [Next]_vars => DataInv'
<1>. SUFFICES ASSUME DataInv, [Next]_vars PROVE DataInv'
  OBVIOUS
<1>1. CASE Start
  BY <1>1, StartPreserves
<1>2. CASE \/ Ready \/ EndRebuild \/ Die \/ RequestReset
           \/ \E b \in Blocks : RebuildNext(b)
           \/ \E bs \in Batches : Save(bs)
  BY <1>2, ControlPreserves
<1>3. CASE (\E bs \in Batches : SaveNothing(bs)) \/ UNCHANGED vars
  <2>1. UNCHANGED vars
    BY <1>3 DEF SaveNothing
  <2>. QED BY <2>1 DEF vars, DataInv, TypeOK, SaveInv, KeptInv, AckedInv, EventsAreFindable,
           DanglingIsOwed, VerdictsAreEarned, Stored, Indexed, counts, EventsOf, BlocksToKeep
<1>4. CASE SaveSteps
  BY <1>4, WriteIndexPreserves, WriteWildcardIndexPreserves, WriteEventsPreserves,
     WriteBlocksPreserves, CountingPreserves, SaveReturnsPreserves DEF SaveSteps
<1>5. CASE \E t \in Slots, e \in Events : Untrust(t, e) \/ Trust(t, e) \/ GiveUp(t, e)
  BY <1>5, VerdictPreserves, GiveUpPreserves
<1>. QED BY <1>1, <1>2, <1>3, <1>4, <1>5 DEF Next

-----------------------------------------------------------------------------
\* What the databases owe to the saves: LedgerInv.

\* Different sets of events have finitely many keys, no more than there are events.
LEMMA KeysAreCounted ==
    ASSUME NEW es \in SUBSET Events
    PROVE  IsFiniteSet(KeysOf(es)) /\ Cardinality(KeysOf(es)) \in Nat
           /\ Cardinality(KeysOf(es)) <= Cardinality(es)
<1> DEFINE f == [e \in es |-> e.key]
<1>1. IsFiniteSet(es)
  BY EventAssumption, FS_Subset
<1>2. f \in Surjection(es, KeysOf(es))
  BY DEF Surjection, KeysOf
<1>3. IsFiniteSet(KeysOf(es)) /\ Cardinality(KeysOf(es)) <= Cardinality(es)
  <2>. HIDE DEF f
  <2>. QED BY <1>1, <1>2, FS_Surjection
<1>. QED BY <1>3, FS_CardinalityType

\* Fewer events have no more keys, ...
LEMMA FewerKeys ==
    ASSUME NEW es \in SUBSET Events, NEW fs \in SUBSET es
    PROVE  Cardinality(KeysOf(fs)) <= Cardinality(KeysOf(es))
<1>1. KeysOf(fs) \in SUBSET KeysOf(es)
  BY DEF KeysOf
<1>. QED BY <1>1, KeysAreCounted, FS_Subset

\* ... and each event adds at most one.
LEMMA MoreKeys ==
    ASSUME NEW es \in SUBSET Events, NEW fs \in SUBSET Events
    PROVE  Cardinality(KeysOf(es \cup fs)) <= Cardinality(KeysOf(es)) + Cardinality(fs)
<1>1. KeysOf(es \cup fs) = KeysOf(es) \cup KeysOf(fs)
  BY DEF KeysOf
<1>2. /\ IsFiniteSet(KeysOf(es)) /\ IsFiniteSet(KeysOf(fs))
      /\ Cardinality(KeysOf(es)) \in Nat /\ Cardinality(KeysOf(fs)) \in Nat
      /\ Cardinality(KeysOf(fs)) <= Cardinality(fs) /\ Cardinality(fs) \in Nat
  BY KeysAreCounted, CountsAreNaturals
<1>3. Cardinality(KeysOf(es) \cup KeysOf(fs)) <= Cardinality(KeysOf(es)) + Cardinality(KeysOf(fs))
  <2>1. Cardinality(KeysOf(es) \cap KeysOf(fs)) \in Nat
    BY <1>2, FS_Intersection, FS_CardinalityType
  <2>2. Cardinality(KeysOf(es) \cup KeysOf(fs)) =
            Cardinality(KeysOf(es)) + Cardinality(KeysOf(fs)) - Cardinality(KeysOf(es) \cap KeysOf(fs))
    BY <1>2, FS_Union
  <2>. QED BY <1>2, <2>1, <2>2
<1>4. Cardinality(KeysOf(es) \cup KeysOf(fs)) \in Nat
  BY <1>2, FS_Union, FS_CardinalityType
<1>5. Cardinality(KeysOf(es) \cup KeysOf(fs)) <= Cardinality(KeysOf(es)) + Cardinality(fs)
  BY <1>2, <1>3, <1>4
<1>. QED BY <1>1, <1>5

\* The entries and records that were traced stay so when no event, entry or save is forgotten.
LEMMA TracesStay ==
    ASSUME TracedInv, UNCHANGED indexes, Stored' = Stored,
           \A k \in Stored : eventDB'[k].event = eventDB[k].event,
           acked \cup owed \cup batch \subseteq acked' \cup owed' \cup batch',
           \A b \in owed \cup batch : b \in owed' \cup batch' \/ KeysOf(EventsOf({b})) \subseteq Stored
    PROVE  TracedInv'
<1>1. \A e \in EventsOf(acked \cup owed \cup batch) : e \in EventsOf(acked' \cup owed' \cup batch')
  BY DEF EventsOf
<1>2. \A e \in EventsOf(owed \cup batch) : e \in EventsOf(owed' \cup batch') \/ e.key \in Stored
  BY DEF EventsOf, KeysOf
<1>3. \A e \in Events : \A p \in IndexEntries(e) \cup WildcardEntries(e) : p[2] = e.key
  BY DEF IndexEntries, WildcardEntries
<1>4. \A e \in EventsOf(owed \cup batch) : e \in Events
  BY DEF EventsOf
<1>5. \A k \in Stored' : eventDB'[k].event \in EventsOf(acked' \cup owed' \cup batch')
  BY <1>1 DEF TracedInv
<1>6. \A p \in eventIndexDB :
          /\ \E e \in EventsOf(acked' \cup owed' \cup batch') : p \in IndexEntries(e)
          /\ p[2] \in Stored \/ \E e \in EventsOf(owed' \cup batch') : p \in IndexEntries(e)
  BY <1>1, <1>2, <1>3, <1>4 DEF TracedInv
<1>7. \A p \in eventWildcardIndexDB :
          /\ \E e \in EventsOf(acked' \cup owed' \cup batch') : p \in WildcardEntries(e)
          /\ p[2] \in Stored \/ \E e \in EventsOf(owed' \cup batch') : p \in WildcardEntries(e)
  BY <1>1, <1>2, <1>3, <1>4 DEF TracedInv
<1> DEFINE es == EventsOf(acked' \cup owed' \cup batch')
           fs == EventsOf(owed' \cup batch')
<1>8. EventsOf(acked \cup owed \cup batch)' = es /\ EventsOf(owed \cup batch)' = fs
  BY DEF EventsOf
<1>9. UNCHANGED <<eventIndexDB, eventWildcardIndexDB>>
  BY DEF indexes
<1>. HIDE DEF es, fs
<1>10. /\ \A k \in Stored' : eventDB'[k].event \in es
       /\ \A p \in eventIndexDB' :
              /\ \E e \in es : p \in IndexEntries(e)
              /\ p[2] \in Stored' \/ \E e \in fs : p \in IndexEntries(e)
       /\ \A p \in eventWildcardIndexDB' :
              /\ \E e \in es : p \in WildcardEntries(e)
              /\ p[2] \in Stored' \/ \E e \in fs : p \in WildcardEntries(e)
  BY <1>5, <1>6, <1>7, <1>9 DEF es, fs
<1>. QED BY <1>8, <1>10 DEF TracedInv, IndexEntries, WildcardEntries

\* Every step traces the entries and records it makes to the batch under way.
LEMMA TracedPreserved == DataInv /\ TracedInv /\ [Next]_vars => TracedInv'
<1>. SUFFICES ASSUME DataInv, TracedInv, [Next]_vars PROVE TracedInv'
  OBVIOUS
<1> DEFINE Quiet == /\ UNCHANGED indexes /\ Stored' = Stored
                    /\ \A k \in Stored : eventDB'[k].event = eventDB[k].event
                    /\ acked \cup owed \cup batch \subseteq acked' \cup owed' \cup batch'
                    /\ \A b \in owed \cup batch :
                           b \in owed' \cup batch' \/ KeysOf(EventsOf({b})) \subseteq Stored
<1>1. Quiet => TracedInv'
  BY TracesStay
<1>2. ASSUME UNCHANGED <<eventDB, indexes, acked, owed, batch>> PROVE Quiet
  BY <1>2 DEF indexes, Stored
<1>3. ASSUME UNCHANGED <<eventDB, indexes, acked>>, owed \cup batch \subseteq owed' \cup batch'
      PROVE  Quiet
  BY <1>3 DEF indexes, Stored
<1>. HIDE DEF Quiet
<1>4. CASE Start
  <2>1. CASE reset_db
    BY <1>4, <2>1 DEF Start, Wiped, TracedInv, Stored
  <2>2. CASE ~reset_db
    BY <1>4, <2>2, <1>1, <1>2 DEF Start, Wiped, saving, counts, indexes
  <2>. QED BY <2>1, <2>2
<1>5. CASE Ready \/ EndRebuild \/ RequestReset
  BY <1>5, <1>1, <1>2 DEF Ready, EndRebuild, RequestReset, databases, saving, indexes
<1>6. CASE Die
  BY <1>6, <1>1, <1>3 DEF Die, databases
<1>7. CASE (\E b \in Blocks : RebuildNext(b)) \/ (\E bs \in Batches : Save(bs))
  <2>1. batch = {}
    BY <1>7 DEF RebuildNext, Save, DataInv, SaveInv
  <2>. QED BY <1>7, <2>1, <1>1, <1>3 DEF RebuildNext, Save, BeginSave, databases
<1>8. CASE (\E bs \in Batches : SaveNothing(bs)) \/ UNCHANGED vars
  BY <1>8, <1>1, <1>2 DEF SaveNothing, vars, indexes
<1>9. ASSUME NEW e \in Events, WriteIndex(e) PROVE TracedInv'
  <2>1. e \in EventsOf(batch)
    BY <1>9 DEF WriteIndex, DataInv, SaveInv
  <2>2. /\ eventIndexDB' = eventIndexDB \cup IndexEntries(e)
        /\ UNCHANGED <<eventDB, eventWildcardIndexDB, batch, acked, owed>>
    BY <1>9 DEF WriteIndex, rest
  <2>3. e \in EventsOf(owed \cup batch) /\ e \in EventsOf(acked \cup owed \cup batch)
    BY <2>1 DEF EventsOf
  <2>. QED BY <2>2, <2>3 DEF TracedInv, Stored, EventsOf, IndexEntries, WildcardEntries
<1>10. ASSUME NEW e \in Events, WriteWildcardIndex(e) PROVE TracedInv'
  <2>1. e \in EventsOf(batch)
    BY <1>10 DEF WriteWildcardIndex, DataInv, SaveInv
  <2>2. /\ eventWildcardIndexDB' = eventWildcardIndexDB \cup WildcardEntries(e)
        /\ UNCHANGED <<eventDB, eventIndexDB, batch, acked, owed>>
    BY <1>10 DEF WriteWildcardIndex, rest
  <2>3. e \in EventsOf(owed \cup batch) /\ e \in EventsOf(acked \cup owed \cup batch)
    BY <2>1 DEF EventsOf
  <2>. QED BY <2>2, <2>3 DEF TracedInv, Stored, EventsOf, IndexEntries, WildcardEntries
<1>11. CASE WriteEvents
  <2> DEFINE es == EventsOf(batch)
  <2>1. es \in SUBSET Events /\ TypeOK
    BY DEF EventsOf, DataInv
  <2>2. UNCHANGED <<indexes, batch, acked, owed>> /\ eventDB' = Written(es)
    BY <1>11 DEF WriteEvents, rest, saving
  <2>3. /\ \A k \in KeysOf(es) : eventDB'[k] # Missing /\ eventDB'[k].event \in es
        /\ \A k \in Keys \ KeysOf(es) : eventDB'[k] = eventDB[k]
    <3>. HIDE DEF es
    <3>. QED BY <2>1, <2>2, WhatIsWritten
  <2>4. Stored \subseteq Stored' /\ \A e \in es : e \in EventsOf(acked \cup owed \cup batch)
    BY <2>3 DEF Stored, EventsOf
  <2>5. \A k \in Stored' : eventDB'[k].event \in EventsOf(acked \cup owed \cup batch)
    <3>. SUFFICES ASSUME NEW k \in Stored'
                  PROVE  eventDB'[k].event \in EventsOf(acked \cup owed \cup batch)
      OBVIOUS
    <3>1. CASE k \in KeysOf(es)
      <4>. HIDE DEF es
      <4>. QED BY <3>1, <2>3, <2>4
    <3>2. CASE k \notin KeysOf(es)
      <4>. HIDE DEF es
      <4>. QED BY <3>2, <2>3 DEF Stored, TracedInv
    <3>. QED BY <3>1, <3>2
  <2>. QED BY <2>2, <2>4, <2>5 DEF TracedInv, indexes, EventsOf, IndexEntries, WildcardEntries
<1>12. CASE WriteBlocks \/ PutGlobalCounter \/ \E s \in Sources : PutAccountCounter(s)
  BY <1>12, <1>1, <1>2 DEF WriteBlocks, PutGlobalCounter, PutAccountCounter, rest, saving, indexes
<1>13. CASE SaveReturns
  <2>1. /\ UNCHANGED <<eventDB, indexes>> /\ batch' = {}
        /\ acked' = acked \cup batch /\ owed' = owed \ batch
    BY <1>13 DEF SaveReturns, databases
  <2>2. \A b \in batch : KeysOf(EventsOf({b})) \subseteq Stored
    BY <1>13 DEF SaveReturns, DataInv, SaveInv, EventsOf, KeysOf
  <2>3. Quiet
    BY <2>1, <2>2 DEF Quiet, indexes, Stored
  <2>. QED BY <2>3, <1>1
<1>14. ASSUME NEW t \in Slots, NEW e \in Events, Untrust(t, e) \/ Trust(t, e) PROVE TracedInv'
  <2>1. /\ eventDB' = Judged(e, "untrusted") \/ eventDB' = Judged(e, "verified")
        /\ UNCHANGED <<indexes, batch, acked, owed>>
    BY <1>14 DEF Untrust, Trust, Untrusted, saving
  <2>2. /\ \A k \in Keys : eventDB'[k] = Missing <=> eventDB[k] = Missing
        /\ \A k \in Keys : eventDB[k] # Missing => eventDB'[k].event = eventDB[k].event
    BY <2>1, MarkAlone DEF DataInv
  <2>3. Quiet
    BY <2>1, <2>2 DEF Quiet, Stored
  <2>. QED BY <2>3, <1>1
<1>15. CASE \E t \in Slots, e \in Events : GiveUp(t, e)
  BY <1>15, <1>1, <1>2 DEF GiveUp, databases, saving, indexes
<1>. QED BY <1>4, <1>5, <1>6, <1>7, <1>8, <1>9, <1>10, <1>11, <1>12, <1>13, <1>14, <1>15
         DEF Next, SaveSteps

\* The events of the batch that the sources' counters do not have yet.
Uncounted(es, ss) == {e \in es : e.source \in ss}

\* Counting a source's events moves them from the ones not counted to the counted ones.
LEMMA CountingMoves ==
    ASSUME DataInv, CountersInv, NEW s \in Sources, PutAccountCounter(s)
    PROVE  CountersInv'
<1> DEFINE fresh == Uncounted(EventsOf(batch), uncounted)
           left == Uncounted(EventsOf(batch), uncounted')
           from == account_counter[s] + 1
           to == account_counter[s] + Cardinality(EventsFrom(s))
           added == {s} \X (from..to)
<1>1. /\ s \in uncounted /\ step = "accounts" /\ step' = "accounts"
      /\ account_counter' = [account_counter EXCEPT ![s] = account_counter[s] + Cardinality(EventsFrom(s))]
      /\ uncounted' = uncounted \ {s}
      /\ UNCHANGED <<batch, global_counter>>
  BY DEF PutAccountCounter, NewCount
<1>2. /\ account_counter \in [Sources -> Nat] /\ global_counter \in Nat
      /\ Cardinality(EventsFrom(s)) \in Nat /\ IsFiniteSet(EventsFrom(s))
  BY CountsAreNaturals, EventAssumption, FS_Subset DEF DataInv, TypeOK, EventsFrom, EventsOf
<1>3. Credits' \subseteq Credits \cup added
  <2>1. \A r \in Sources : r # s => account_counter'[r] = account_counter[r]
    BY <1>1, <1>2
  <2>2. account_counter'[s] = to
    BY <1>1, <1>2
  <2>. HIDE DEF to
  <2>3. \A p \in Credits' : \E r \in Sources : p \in {r} \X (1..account_counter'[r])
    BY DEF Credits
  <2>. SUFFICES ASSUME NEW r \in Sources, NEW i \in 1..account_counter'[r]
                PROVE  <<r, i>> \in Credits \cup added
    BY <2>3
  <2>4. CASE r # s
    BY <2>4, <2>1 DEF Credits
  <2>5. CASE r = s /\ i <= account_counter[s]
    <3>1. i \in 1..account_counter[s]
      BY <2>5, <2>2, <1>2
    <3>. QED BY <3>1, <2>5 DEF Credits
  <2>6. CASE r = s /\ i > account_counter[s]
    <3>1. i \in from..to
      BY <2>6, <2>2, <1>2 DEF to
    <3>. QED BY <3>1, <2>6
  <2>. QED BY <2>4, <2>5, <2>6, <1>2
<1>4. IsFiniteSet(added) /\ Cardinality(added) = Cardinality(EventsFrom(s))
  <2>1. IsFiniteSet(from..to) /\ Cardinality(from..to) = Cardinality(EventsFrom(s))
    <3>1. from \in Int /\ to \in Int
      BY <1>2
    <3>2. IsFiniteSet(from..to) /\ Cardinality(from..to) = IF from > to THEN 0 ELSE to - from + 1
      <4>. HIDE DEF from, to
      <4>. QED BY <3>1, FS_Interval
    <3>. QED BY <3>2, <1>2
  <2>2. IsFiniteSet({s}) /\ Cardinality({s}) = 1
    BY FS_Singleton
  <2>3. IsFiniteSet(added) /\ Cardinality(added) = Cardinality({s}) * Cardinality(from..to)
    <3>. HIDE DEF from, to
    <3>. QED BY <2>1, <2>2, FS_Product
  <2>. QED BY <2>1, <2>2, <2>3, <1>2
<1>5. /\ IsFiniteSet(Credits') /\ Cardinality(Credits') \in Nat /\ Cardinality(Credits) \in Nat
      /\ Cardinality(Credits') <= Cardinality(Credits) + Cardinality(EventsFrom(s))
  <2>. HIDE DEF added
  <2>1. IsFiniteSet(Credits) /\ Cardinality(Credits) \in Nat
    BY FS_CardinalityType DEF CountersInv
  <2>2. IsFiniteSet(Credits \cup added) /\ Cardinality(Credits \cup added) \in Nat
    BY <2>1, <1>4, FS_Union, FS_CardinalityType
  <2>3. Cardinality(Credits \cap added) \in Nat
    BY <2>1, FS_Intersection, FS_CardinalityType
  <2>4. Cardinality(Credits \cup added) <= Cardinality(Credits) + Cardinality(EventsFrom(s))
    <3>1. Cardinality(Credits \cup added)
              = Cardinality(Credits) + Cardinality(added) - Cardinality(Credits \cap added)
      BY <2>1, <1>4, FS_Union
    <3>. QED BY <3>1, <2>1, <2>3, <1>2, <1>4
  <2>5. IsFiniteSet(Credits') /\ Cardinality(Credits') <= Cardinality(Credits \cup added)
    BY <2>2, <1>3, FS_Subset
  <2>6. Cardinality(Credits') \in Nat
    BY <2>5, FS_CardinalityType
  <2>. QED BY <2>1, <2>2, <2>4, <2>5, <2>6, <1>2
<1>6. Cardinality(fresh) = Cardinality(left) + Cardinality(EventsFrom(s))
      /\ Cardinality(left) \in Nat /\ Cardinality(fresh) \in Nat
  <2>1. fresh \in SUBSET Events /\ left \in SUBSET Events
    BY DEF Uncounted, EventsOf
  <2>2. IsFiniteSet(left) /\ Cardinality(left) \in Nat /\ Cardinality(fresh) \in Nat
    BY <2>1, CountsAreNaturals, EventAssumption, FS_Subset
  <2>3. fresh = left \cup EventsFrom(s) /\ left \cap EventsFrom(s) = {}
    BY <1>1 DEF Uncounted, EventsFrom
  <2>. HIDE DEF fresh, left
  <2>4. Cardinality(left \cup EventsFrom(s))
            = Cardinality(left) + Cardinality(EventsFrom(s)) - Cardinality(left \cap EventsFrom(s))
    BY <2>2, <1>2, FS_Union
  <2>5. Cardinality(left \cap EventsFrom(s)) = 0
    BY <2>3, FS_EmptySet
  <2>. QED BY <2>2, <2>3, <2>4, <2>5, <1>2
<1>7. Cardinality(Credits) + Cardinality(fresh) <= global_counter
  BY DEF CountersInv, Uncounted
<1>8. Cardinality(Credits') + Cardinality(left) <= global_counter'
  <2>. HIDE DEF fresh, left
  <2>. QED BY <1>1, <1>2, <1>5, <1>6, <1>7
<1>9. left = {e \in EventsOf(batch)' : e.source \in uncounted'}
  BY <1>1 DEF Uncounted, EventsOf
<1>. QED BY <1>1, <1>5, <1>8, <1>9 DEF CountersInv

\* No step makes the sources' counters run ahead of the global one.
LEMMA CountersPreserved == DataInv /\ CountersInv /\ [Next]_vars => CountersInv'
<1>. SUFFICES ASSUME DataInv, CountersInv, [Next]_vars PROVE CountersInv'
  OBVIOUS
<1>1. ASSUME UNCHANGED <<counters, uncounted>>, uncounted = {} PROVE CountersInv'
  <2>1. {e \in EventsOf(batch) : e.source \in uncounted} = {}
        /\ {e \in EventsOf(batch)' : e.source \in uncounted'} = {}
    BY <1>1
  <2>2. Credits' = Credits /\ global_counter' = global_counter
    BY <1>1 DEF Credits, counters
  <2>. QED BY <1>1, <2>1, <2>2 DEF CountersInv
<1>2. ASSUME UNCHANGED <<counters, uncounted, batch, step>> PROVE CountersInv'
  BY <1>2 DEF CountersInv, Credits, counters, EventsOf
<1>3. ASSUME account_counter' = [s \in Sources |-> 0], global_counter' = 0, uncounted' = {}
      PROVE  CountersInv'
  <2>1. Credits' = {} /\ {e \in EventsOf(batch)' : e.source \in uncounted'} = {}
    BY <1>3 DEF Credits
  <2>. QED BY <1>3, <2>1, FS_EmptySet DEF CountersInv
<1>4. step \in {"idle", "index", "blocks", "global"} => uncounted = {}
  BY DEF CountersInv
<1>5. phase \in {"down", "waiting"} => uncounted = {} /\ step = "idle"
  BY <1>4 DEF DataInv, SaveInv, TypeOK
<1>6. CASE Start
  BY <1>6, <1>1, <1>3, <1>5 DEF Start, saving, counters
<1>7. CASE Ready \/ EndRebuild \/ RequestReset
  BY <1>7, <1>2 DEF Ready, EndRebuild, RequestReset, databases, saving
<1>8. CASE Die
  <2>1. global_counter' = global_counter /\ Credits' = Credits /\ uncounted' = {} /\ step' = "idle"
    BY <1>8 DEF Die, databases, counters, Credits
  <2>2. {e \in EventsOf(batch)' : e.source \in uncounted'} = {}
    BY <2>1
  <2>3. Cardinality({e \in EventsOf(batch) : e.source \in uncounted}) \in Nat
    BY CountsAreNaturals DEF EventsOf
  <2>4. Cardinality(Credits) \in Nat /\ global_counter \in Nat
    BY FS_CardinalityType DEF CountersInv, DataInv, TypeOK
  <2>5. Cardinality(Credits) <= global_counter
    BY <2>3, <2>4 DEF CountersInv
  <2>. QED BY <2>1, <2>2, <2>4, <2>5, FS_EmptySet DEF CountersInv
<1>9. CASE (\E b \in Blocks : RebuildNext(b)) \/ (\E bs \in Batches : Save(bs))
  BY <1>9, <1>1, <1>4 DEF RebuildNext, Save, BeginSave, databases
<1>10. CASE (\E bs \in Batches : SaveNothing(bs)) \/ UNCHANGED vars
  BY <1>10, <1>2 DEF SaveNothing, vars, counters
<1>11. CASE \E e \in Events : WriteIndex(e) \/ WriteWildcardIndex(e)
  BY <1>11, <1>2 DEF WriteIndex, WriteWildcardIndex
<1>12. CASE WriteEvents \/ WriteBlocks
  BY <1>12, <1>1, <1>4 DEF WriteEvents, WriteBlocks, saving
<1>13. CASE PutGlobalCounter
  <2>1. /\ global_counter' = global_counter + Cardinality(EventsOf(batch))
        /\ uncounted' = {e.source : e \in EventsOf(batch)} /\ uncounted = {}
        /\ UNCHANGED <<account_counter, batch>> /\ step' = "accounts"
    BY <1>13, <1>4 DEF PutGlobalCounter, BatchCount
  <2>2. Credits' = Credits /\ EventsOf(batch)' = EventsOf(batch)
    BY <2>1 DEF Credits, EventsOf
  <2>3. {e \in EventsOf(batch)' : e.source \in uncounted'} = EventsOf(batch)
    BY <2>1, <2>2
  <2>4. /\ Cardinality(Credits) \in Nat /\ global_counter \in Nat
        /\ Cardinality(EventsOf(batch)) \in Nat
    BY FS_CardinalityType, CountsAreNaturals DEF CountersInv, DataInv, TypeOK, EventsOf
  <2>5. Cardinality(Credits) <= global_counter
    <3>1. {e \in EventsOf(batch) : e.source \in uncounted} = {}
      BY <2>1
    <3>. QED BY <3>1, <2>4, FS_EmptySet DEF CountersInv
  <2> DEFINE late == {e \in EventsOf(batch)' : e.source \in uncounted'}
  <2>6. Cardinality(Credits') + Cardinality(late) <= global_counter'
    <3>1. late = EventsOf(batch)
      BY <2>3
    <3>. HIDE DEF late
    <3>. QED BY <3>1, <2>1, <2>2, <2>4, <2>5
  <2>. QED BY <2>1, <2>2, <2>6 DEF CountersInv
<1>14. CASE \E s \in Sources : PutAccountCounter(s)
  BY <1>14, CountingMoves
<1>15. CASE SaveReturns
  BY <1>15, <1>1 DEF SaveReturns, databases
<1>16. CASE \E t \in Slots, e \in Events : Untrust(t, e) \/ Trust(t, e) \/ GiveUp(t, e)
  BY <1>16, <1>2 DEF Untrust, Trust, GiveUp, databases, saving
<1>. QED BY <1>6, <1>7, <1>8, <1>9, <1>10, <1>11, <1>12, <1>13, <1>14, <1>15, <1>16
         DEF Next, SaveSteps

\* Fewer events are covered by no smaller counters.
LEMMA CoversLess ==
    ASSUME NEW m \in Nat, NEW n \in Nat, m <= n, NEW es \in SUBSET Events, NEW fs \in SUBSET es,
           m >= Cardinality(KeysOf(es))
    PROVE  n >= Cardinality(KeysOf(fs))
<1>1. fs \in SUBSET Events
  OBVIOUS
<1>. QED BY <1>1, FewerKeys, KeysAreCounted

\* Counters that stay as they are cover fewer events of fewer sources.
LEMMA CoverStays ==
    ASSUME DataInv, UNCHANGED counters,
           NEW es \in SUBSET Events, NEW fs \in SUBSET es,
           NEW ss \in SUBSET Sources, NEW rs \in SUBSET ss,
           Covers(es, ss)
    PROVE  Covers(fs, rs)'
<1>1. global_counter \in Nat /\ global_counter' = global_counter
      /\ \A s \in Sources : account_counter[s] \in Nat /\ account_counter'[s] = account_counter[s]
  BY DEF DataInv, TypeOK, counters
<1>2. global_counter >= Cardinality(KeysOf(fs))
  BY <1>1, CoversLess DEF Covers
<1>3. ASSUME NEW s \in rs
      PROVE  account_counter[s] >= Cardinality(KeysOf({e \in fs : e.source = s}))
  <2>1. {e \in es : e.source = s} \in SUBSET Events
        /\ {e \in fs : e.source = s} \in SUBSET {e \in es : e.source = s}
    OBVIOUS
  <2>2. account_counter[s] >= Cardinality(KeysOf({e \in es : e.source = s}))
    BY DEF Covers
  <2>. QED BY <1>1, <2>1, <2>2, CoversLess
<1>. QED BY <1>1, <1>2, <1>3 DEF Covers, KeysOf

\* A batch counted globally: the events counted before and the batch's are covered, of a
\* source the batch does not have too.
LEMMA GlobalCount ==
    ASSUME DataInv, CoverInv, PutGlobalCounter
    PROVE  CoverInv'
<1> DEFINE es == EventsOf(Counted)
           bs == EventsOf(batch)
<1>1. /\ global_counter' = global_counter + Cardinality(bs)
      /\ uncounted' = {e.source : e \in bs}
      /\ UNCHANGED <<account_counter, batch, phase, rebuild, blockDB, acked>>
      /\ step' = "accounts" /\ phase \in {"rebuild", "run"}
  BY DEF PutGlobalCounter, BatchCount, rest, DataInv, SaveInv
<1>2. es \in SUBSET Events /\ bs \in SUBSET Events
      /\ EventsOf(Counted)' = es /\ EventsOf(Counted \cup batch)' = es \cup bs
  BY <1>1 DEF EventsOf, Counted
<1>3. Covers(es, Sources)
  BY <1>1 DEF CoverInv
<1>4. global_counter \in Nat /\ \A s \in Sources : account_counter[s] \in Nat
  BY DEF DataInv, TypeOK
<1>. HIDE DEF es, bs
<1>5. Cardinality(bs) \in Nat /\ Cardinality(KeysOf(es)) \in Nat
      /\ Cardinality(KeysOf(es \cup bs)) \in Nat
      /\ Cardinality(KeysOf(es \cup bs)) <= Cardinality(KeysOf(es)) + Cardinality(bs)
  BY <1>2, CountsAreNaturals, KeysAreCounted, MoreKeys
<1>6. global_counter' >= Cardinality(KeysOf(es)) /\ global_counter' >= Cardinality(KeysOf(es \cup bs))
  BY <1>1, <1>3, <1>4, <1>5 DEF Covers
<1>7. \A s \in Sources : account_counter'[s] >= Cardinality(KeysOf({e \in es : e.source = s}))
  BY <1>1, <1>3 DEF Covers
<1>8. \A s \in Sources \ uncounted' :
          account_counter'[s] >= Cardinality(KeysOf({e \in es \cup bs : e.source = s}))
  <2>. TAKE s \in Sources \ uncounted'
  <2>1. {e \in es \cup bs : e.source = s} = {e \in es : e.source = s}
    BY <1>1
  <2>. QED BY <2>1, <1>7
<1>9. Covers(EventsOf(Counted), Sources)' /\ Covers(EventsOf(Counted \cup batch), Sources \ uncounted)'
  BY <1>2, <1>6, <1>7, <1>8 DEF Covers
<1>. QED BY <1>1, <1>9 DEF CoverInv

\* The events of a source counted: they are covered together with those counted before.
LEMMA AccountCount ==
    ASSUME DataInv, CoverInv, NEW s \in Sources, PutAccountCounter(s)
    PROVE  CoverInv'
<1> DEFINE es == EventsOf(Counted)
           bs == EventsOf(batch)
           of(fs, r) == {e \in fs : e.source = r}
<1>1. /\ account_counter' = [account_counter EXCEPT ![s] = account_counter[s] + Cardinality(of(bs, s))]
      /\ s \in uncounted /\ uncounted' = uncounted \ {s}
      /\ UNCHANGED <<global_counter, batch, phase, rebuild, blockDB, acked>>
      /\ step = "accounts" /\ step' = "accounts" /\ phase \in {"rebuild", "run"}
  BY DEF PutAccountCounter, NewCount, EventsFrom, rest, DataInv, SaveInv
<1>2. es \in SUBSET Events /\ bs \in SUBSET Events
      /\ EventsOf(Counted)' = es /\ EventsOf(Counted \cup batch)' = es \cup bs
      /\ EventsOf(Counted \cup batch) = es \cup bs
  BY <1>1 DEF EventsOf, Counted
<1>3. Covers(es, Sources) /\ Covers(es \cup bs, Sources \ uncounted)
  BY <1>1, <1>2 DEF CoverInv
<1>4. account_counter \in [Sources -> Nat]
  BY DEF DataInv, TypeOK
<1>. HIDE DEF es, bs
<1>5. \A r \in Sources : /\ of(es, r) \in SUBSET Events /\ of(bs, r) \in SUBSET Events
                         /\ of(es \cup bs, r) = of(es, r) \cup of(bs, r)
  BY <1>2
<1>6. /\ Cardinality(of(bs, s)) \in Nat
      /\ Cardinality(KeysOf(of(es, s))) \in Nat
      /\ Cardinality(KeysOf(of(es \cup bs, s))) \in Nat
      /\ Cardinality(KeysOf(of(es \cup bs, s)))
             <= Cardinality(KeysOf(of(es, s))) + Cardinality(of(bs, s))
  <2>1. of(es \cup bs, s) \in SUBSET Events
    BY <1>2
  <2>. HIDE DEF of
  <2>. QED BY <2>1, <1>5, CountsAreNaturals, KeysAreCounted, MoreKeys
<1>7. /\ account_counter'[s] = account_counter[s] + Cardinality(of(bs, s))
      /\ \A r \in Sources \ {s} : account_counter'[r] = account_counter[r]
  BY <1>1, <1>4
<1>8. \A r \in Sources : account_counter'[r] >= Cardinality(KeysOf(of(es, r)))
  <2>1. \A r \in Sources : account_counter[r] >= Cardinality(KeysOf(of(es, r)))
    BY <1>3 DEF Covers
  <2>. HIDE DEF of
  <2>. QED BY <2>1, <1>4, <1>6, <1>7
<1>9. \A r \in Sources \ uncounted' : account_counter'[r] >= Cardinality(KeysOf(of(es \cup bs, r)))
  <2>1. \A r \in Sources \ uncounted : account_counter[r] >= Cardinality(KeysOf(of(es \cup bs, r)))
    BY <1>3 DEF Covers
  <2>2. account_counter[s] >= Cardinality(KeysOf(of(es, s)))
    BY <1>3 DEF Covers
  <2>. HIDE DEF of
  <2>. SUFFICES ASSUME NEW r \in Sources \ uncounted'
                PROVE  account_counter'[r] >= Cardinality(KeysOf(of(es \cup bs, r)))
    OBVIOUS
  <2>3. CASE r = s
    BY <2>3, <2>2, <1>4, <1>6, <1>7
  <2>4. CASE r # s
    BY <2>4, <2>1, <1>1, <1>7
  <2>. QED BY <2>3, <2>4
<1>10. Covers(EventsOf(Counted), Sources)' /\ Covers(EventsOf(Counted \cup batch), Sources \ uncounted)'
  BY <1>1, <1>2, <1>3, <1>8, <1>9 DEF Covers
<1>. QED BY <1>1, <1>10 DEF CoverInv

\* No step leaves an event that is counted as saved out of the counters.
LEMMA CoverPreserved == DataInv /\ CoverInv /\ [Next]_vars => CoverInv'
<1>. SUFFICES ASSUME DataInv, CoverInv, [Next]_vars PROVE CoverInv'
  OBVIOUS
<1>1. \A xs : EventsOf(xs) \in SUBSET Events
  BY DEF EventsOf
<1>2. /\ step = "idle" => batch = {}
      /\ step # "idle" => phase \in {"rebuild", "run"}
      /\ phase = "rebuild" => reset_db
  BY DEF DataInv, SaveInv, KeptInv
<1>3. ASSUME UNCHANGED <<counters, phase, reset_db, rebuild, batch, acked, blockDB, uncounted>>,
             step' = step \/ step' # "accounts",
             phase = "waiting" /\ Stored = {} /\ Indexed = {} => Stored' = {} /\ Indexed' = {}
      PROVE  CoverInv'
  BY <1>3 DEF CoverInv, Covers, counters, Counted, EventsOf
<1>4. CASE Start
  <2>1. step' = "idle" /\ phase = "down" /\ phase' = "waiting" /\ reset_db' = reset_db /\ acked' = acked
    BY <1>4, <1>2 DEF Start
  <2>2. CASE reset_db
    <3>1. Stored' = {} /\ Indexed' = {}
      BY <1>4, <2>2 DEF Start, Wiped, Stored, Indexed
    <3>. QED BY <2>1, <2>2, <3>1 DEF CoverInv
  <2>3. CASE ~reset_db
    <3>1. Covers(EventsOf(acked), Sources) /\ UNCHANGED counters
      BY <1>4, <2>1, <2>3 DEF CoverInv, Counted, Start
    <3>2. Covers(EventsOf(Counted), Sources)'
      BY <2>1, <3>1 DEF Covers, counters, Counted, EventsOf
    <3>. QED BY <2>1, <3>2 DEF CoverInv
  <2>. QED BY <2>2, <2>3
<1>5. CASE Ready
  <2>1. /\ phase = "waiting" /\ UNCHANGED <<counters, step, batch, acked, blockDB, reset_db>>
        /\ step = "idle" /\ batch = {}
    BY <1>5, <1>2 DEF Ready, databases, saving
  <2>2. CASE reset_db
    <3>1. phase' = "rebuild" /\ rebuild' = blockDB
      BY <1>5, <2>2 DEF Ready
    <3>2. EventsOf(Counted)' = {}
      BY <2>1, <3>1 DEF Counted, EventsOf
    <3>3. /\ KeysOf({}) = {} /\ global_counter' \in Nat
          /\ \A s \in Sources : account_counter'[s] \in Nat
          /\ \A s \in Sources : {e \in {} : e.source = s} = {}
      BY <2>1 DEF KeysOf, DataInv, TypeOK, counters
    <3>4. Covers(EventsOf(Counted), Sources)'
      BY <3>2, <3>3, FS_EmptySet DEF Covers
    <3>. QED BY <2>1, <3>1, <3>4 DEF CoverInv
  <2>3. CASE ~reset_db
    <3>1. phase' = "run" /\ Covers(EventsOf(acked), Sources)
      BY <1>5, <2>1, <2>3 DEF Ready, CoverInv, Counted
    <3>2. Covers(EventsOf(Counted), Sources)'
      BY <2>1, <3>1 DEF Covers, counters, Counted, EventsOf
    <3>. QED BY <2>1, <3>1, <3>2 DEF CoverInv
  <2>. QED BY <2>2, <2>3
<1>6. CASE EndRebuild
  <2>1. /\ phase = "rebuild" /\ phase' = "run" /\ rebuild = {} /\ batch = {}
        /\ step' = "idle" /\ UNCHANGED <<counters, acked>>
    BY <1>6, <1>2 DEF EndRebuild, databases
  <2>2. Covers(EventsOf(blockDB), Sources)
    BY <2>1 DEF CoverInv, Counted
  <2>3. EventsOf(acked) \in SUBSET EventsOf(blockDB)
    BY DEF DataInv, AckedInv, BlocksToKeep, EventsOf
  <2>4. Covers(EventsOf(acked), Sources)'
    <3>1. global_counter' >= Cardinality(KeysOf(EventsOf(acked)))
          /\ \A s \in Sources :
                 account_counter'[s] >= Cardinality(KeysOf({e \in EventsOf(acked) : e.source = s}))
      BY <1>1, <2>1, <2>2, <2>3, CoverStays DEF Covers
    <3>. QED BY <3>1, <2>1 DEF Covers, EventsOf
  <2>. QED BY <2>1, <2>4 DEF CoverInv, Counted
<1>7. CASE Die
  <2>1. /\ phase' = "down" /\ step' = "idle" /\ UNCHANGED <<counters, acked, reset_db>>
    BY <1>7 DEF Die, databases
  <2>2. CASE reset_db
    BY <2>1, <2>2 DEF CoverInv
  <2>3. CASE ~reset_db
    <3>1. Covers(EventsOf(acked), Sources)
      BY <1>2, <2>3 DEF CoverInv, Counted
    <3>2. Covers(EventsOf(Counted), Sources)'
      BY <2>1, <3>1 DEF Covers, counters, Counted, EventsOf
    <3>. QED BY <2>1, <3>2 DEF CoverInv
  <2>. QED BY <2>2, <2>3
<1>8. CASE RequestReset
  <2>1. /\ UNCHANGED <<counters, phase, rebuild, batch, acked, blockDB, uncounted, step>>
        /\ UNCHANGED <<eventDB, indexes>> /\ reset_db' = TRUE
    BY <1>8 DEF RequestReset, databases, saving
  <2>2. Stored' = Stored /\ Indexed' = Indexed
    BY <2>1 DEF Stored, Indexed, indexes
  <2>. QED BY <2>1, <2>2 DEF CoverInv, Covers, counters, Counted, EventsOf
<1>9. ASSUME NEW b \in Blocks, RebuildNext(b) PROVE CoverInv'
  <2>1. /\ UNCHANGED <<counters, phase, acked, blockDB>> /\ step' = "index"
        /\ phase = "rebuild" /\ batch = {} /\ batch' = {b} /\ rebuild' = rebuild \ {b} /\ b \in rebuild
    BY <1>9, <1>2 DEF RebuildNext, BeginSave, databases
  <2>2. rebuild' \cup batch' = rebuild \cup batch
    BY <2>1
  <2>3. EventsOf(Counted)' = EventsOf(Counted)
    BY <2>1, <2>2 DEF Counted, EventsOf
  <2>. QED BY <2>1, <2>2, <2>3 DEF CoverInv, Covers, counters
<1>10. ASSUME NEW bs \in Batches, Save(bs) PROVE CoverInv'
  <2>1. /\ UNCHANGED <<counters, phase, acked>> /\ step' = "index" /\ phase = "run"
    BY <1>10 DEF Save, BeginSave, databases
  <2>2. EventsOf(Counted)' = EventsOf(Counted)
    BY <2>1 DEF Counted, EventsOf
  <2>. QED BY <2>1, <2>2 DEF CoverInv, Covers, counters
<1>11. CASE (\E bs \in Batches : SaveNothing(bs)) \/ UNCHANGED vars
  BY <1>11, <1>3 DEF SaveNothing, vars, counters, Stored, Indexed
<1>12. CASE (\E e \in Events : WriteIndex(e) \/ WriteWildcardIndex(e)) \/ WriteEvents
  <2>1. step = "index" /\ phase # "waiting"
    BY <1>12, <1>2 DEF WriteIndex, WriteWildcardIndex, WriteEvents
  <2>. QED BY <1>12, <2>1, <1>3 DEF WriteIndex, WriteWildcardIndex, WriteEvents, rest, saving
<1>13. CASE WriteBlocks
  <2>1. /\ UNCHANGED <<counters, phase, rebuild, batch, acked>>
        /\ step' = "global" /\ phase \in {"rebuild", "run"}
        /\ blockDB' = blockDB \cup BlocksToKeep(batch)
    BY <1>13, <1>2 DEF WriteBlocks, rest, saving
  <2>2. BlocksToKeep(batch) \subseteq batch
    BY DEF BlocksToKeep, EventsOf
  <2>3. EventsOf(Counted)' = EventsOf(Counted)
    BY <2>1, <2>2 DEF Counted, EventsOf
  <2>. QED BY <2>1, <2>3 DEF CoverInv, Covers, counters
<1>14. CASE PutGlobalCounter
  BY <1>14, GlobalCount
<1>15. CASE \E s \in Sources : PutAccountCounter(s)
  BY <1>15, AccountCount
<1>16. CASE SaveReturns
  <2>1. /\ UNCHANGED <<counters, phase, rebuild, blockDB, reset_db>> /\ step' = "idle"
        /\ step = "accounts" /\ uncounted = {} /\ batch' = {} /\ acked' = acked \cup batch
        /\ phase \in {"rebuild", "run"}
    BY <1>16 DEF SaveReturns, databases
  <2> DEFINE es == EventsOf(Counted \cup batch)
             fs == EventsOf(Counted')
  <2>2. es \in SUBSET Events /\ fs \in SUBSET es
    BY <2>1 DEF Counted, EventsOf
  <2>3. Covers(es, Sources)
    BY <2>1 DEF CoverInv
  <2>4. EventsOf(Counted)' = fs
    BY DEF EventsOf
  <2>5. global_counter' >= Cardinality(KeysOf(fs))
        /\ \A s \in Sources : account_counter'[s] >= Cardinality(KeysOf({e \in fs : e.source = s}))
    <3>. HIDE DEF es, fs
    <3>. QED BY <2>1, <2>2, <2>3, CoverStays DEF Covers
  <2>6. Covers(EventsOf(Counted), Sources)'
    <3>. HIDE DEF fs
    <3>. QED BY <2>4, <2>5 DEF Covers
  <2>. QED BY <2>1, <2>6 DEF CoverInv
<1>17. CASE \E t \in Slots, e \in Events : Untrust(t, e) \/ Trust(t, e) \/ GiveUp(t, e)
  <2>1. PICK t \in Slots, e \in Events : Untrust(t, e) \/ Trust(t, e) \/ GiveUp(t, e)
    BY <1>17
  <2>2. UNCHANGED <<counters, phase, reset_db, rebuild, batch, acked, blockDB, uncounted, step, indexes>>
    BY <2>1 DEF Untrust, Trust, GiveUp, databases, saving
  <2>3. \A k \in Keys : eventDB'[k] = Missing <=> eventDB[k] = Missing
    BY <2>1, MarkAlone DEF Untrust, Untrusted, Trust, GiveUp, databases, DataInv
  <2>4. Stored' = Stored /\ Indexed' = Indexed
    BY <2>2, <2>3 DEF Stored, Indexed, indexes
  <2>. QED BY <2>2, <2>4, <1>3
<1>. QED BY <1>4, <1>5, <1>6, <1>7, <1>8, <1>9, <1>10, <1>11, <1>12, <1>13, <1>14, <1>15, <1>16, <1>17
         DEF Next, SaveSteps

\* Empty databases owe nothing.
LEMMA InitOwesNothing == Init => LedgerInv
<1>. SUFFICES ASSUME Init PROVE LedgerInv
  OBVIOUS
<1>1. TracedInv
  BY DEF Init, TracedInv, Stored
<1>2. CountersInv
  <2>1. Credits = {} /\ {e \in EventsOf(batch) : e.source \in uncounted} = {}
    BY DEF Init, Credits
  <2>. QED BY <2>1, FS_EmptySet DEF Init, CountersInv
<1>3. CoverInv
  <2>1. EventsOf(Counted) = {} /\ KeysOf({}) = {} /\ \A s \in Sources : {e \in {} : e.source = s} = {}
    BY DEF Init, Counted, EventsOf, KeysOf
  <2>2. Covers(EventsOf(Counted), Sources)
    BY <2>1, FS_EmptySet DEF Init, Covers
  <2>. QED BY <2>2 DEF Init, CoverInv
<1>. QED BY <1>1, <1>2, <1>3 DEF LedgerInv

\* StoreInv holds in every reachable state.
THEOREM Invariance == Spec => []StoreInv
<1>1. Init => StoreInv
  BY InitEstablishes, InitOwesNothing DEF StoreInv
<1>2. StoreInv /\ [Next]_vars => StoreInv'
  BY DataPreserved, TracedPreserved, CountersPreserved, CoverPreserved DEF StoreInv, LedgerInv
<1>. QED BY <1>1, <1>2, PTL DEF Spec

\* Acknowledged blocks are kept, and while the indexer runs the events of kept blocks are stored.
LEMMA KeptBlocksAreStored == StoreInv => AckedAreStored
<1>. SUFFICES ASSUME StoreInv, phase = "run"
              PROVE  KeysOf(EventsOf(acked)) \subseteq Stored /\ BlocksToKeep(acked) \subseteq blockDB
  BY DEF AckedAreStored
<1>1. \A e \in EventsOf(acked) : e \in EventsOf(blockDB)
  BY DEF StoreInv, DataInv, AckedInv, BlocksToKeep, EventsOf
<1>. QED BY <1>1 DEF StoreInv, DataInv, AckedInv, KeptInv, KeysOf

\* Every stored event can be found under each of its index entries, whenever the process
\* dies (event.py, write_batch).
THEOREM StoredEventsAreFindable == Spec => []EventsAreFindable
<1>1. StoreInv => EventsAreFindable
  BY DEF StoreInv, DataInv
<1>. QED BY <1>1, Invariance, PTL

\* Index entries without their event belong to a block whose save is under way or owed.
THEOREM DanglingEntriesAreOwed == Spec => []DanglingIsOwed
<1>1. StoreInv => DanglingIsOwed
  BY DEF StoreInv, DataInv
<1>. QED BY <1>1, Invariance, PTL

\* No mark is on a record that no occurrence of the event earned (check_events).
THEOREM MarksAreEarned == Spec => []VerdictsAreEarned
<1>1. StoreInv => VerdictsAreEarned
  BY DEF StoreInv, DataInv
<1>. QED BY <1>1, Invariance, PTL

\* While the indexer runs, deaths and resets have lost nothing of what was saved.
THEOREM NothingSavedIsLost == Spec => []AckedAreStored
<1>. QED BY KeptBlocksAreStored, Invariance, PTL

\* The counters of the sources never add up to more than the global one (event.py, do_stats).
THEOREM SourcesWithinGlobal == Spec => []AccountsWithinGlobal
<1>1. StoreInv => AccountsWithinGlobal
  <2>. SUFFICES ASSUME StoreInv PROVE Cardinality(Credits) <= global_counter
    BY DEF AccountsWithinGlobal
  <2>1. Cardinality({e \in EventsOf(batch) : e.source \in uncounted}) \in Nat
    BY CountsAreNaturals DEF EventsOf
  <2>2. Cardinality(Credits) \in Nat /\ global_counter \in Nat
    BY FS_CardinalityType DEF StoreInv, LedgerInv, CountersInv, DataInv, TypeOK
  <2>. QED BY <2>1, <2>2 DEF StoreInv, LedgerInv, CountersInv
<1>. QED BY <1>1, Invariance, PTL

=============================================================================

----------------------------- MODULE EventStore -----------------------------
(***************************************************************************)
(* What becomes of the events of the blocks Indexer.execute hands over:    *)
(* Indexer.index and eventStorage.save_events write five LevelDB databases *)
(* one after the other, check_events then judges each event in a task of   *)
(* its own, and run.start may wipe and rebuild the databases.  The process *)
(* may die between any two writes.                                         *)
(*                                                                         *)
(* An event is what get_events makes of one internal operation of one      *)
(* block.  Two events of different blocks share a key when a fork put the  *)
(* same operation in two blocks of one level.  A batch holds one block per *)
(* level, so its keys differ and it is a set; the order in which its       *)
(* events are indexed, counted and checked is left open.                   *)
(***************************************************************************)
EXTENDS Integers, FiniteSets

CONSTANTS
    Blocks,         \* block hashes
    Keys,           \* what build_event_key returns, and the _id hashed from it
    Sources,        \* contracts that emit events
    Operations,     \* operation hashes
    Addresses,      \* what events hold under pkh, from, to, owner, ... (wildcard index)
    Events,         \* the events the chain and its forks contain
    Batches,        \* sets of blocks the crawl may hand over together
    Lasting,        \* blocks no reorganisation replaces while a save of theirs is owed
    SourceLies,     \* events whose operation fails check_operation as first fetched
    TrustedHas,     \* events whose operation the trusted endpoint's block contains
    TrustedLies,    \* those of them whose operation fails check_operation there
    Slots,          \* bound: check tasks alive together
    MaxSaves,       \* bound: batches handed over, retries after a crash excepted
    MaxCrashes,     \* bound: process deaths
    MaxResets,      \* bound: reset_db files put down
    MaxErrors,      \* bound: trusted endpoint requests given up
    Missing         \* no record under this key

ASSUME EventAssumption ==
    /\ Events \subseteq [key : Keys, block : Blocks, source : Sources,
                         operation : Operations, addresses : SUBSET Addresses]
    /\ \A e, f \in Events : e.key = f.key =>
           /\ e.source = f.source /\ e.operation = f.operation
           /\ e.block = f.block => e = f
    /\ IsFiniteSet(Events)
ASSUME BatchAssumption ==
    /\ Batches \subseteq SUBSET Blocks
    /\ \A b \in Batches : \A e, f \in Events :
           e.block \in b /\ f.block \in b /\ e.key = f.key => e = f
ASSUME LastingAssumption == Lasting \subseteq Blocks
ASSUME TrustAssumption ==
    SourceLies \subseteq Events /\ TrustedHas \subseteq Events /\ TrustedLies \subseteq TrustedHas
ASSUME BoundAssumption ==
    /\ Slots \subseteq Nat /\ IsFiniteSet(Slots)
    /\ {MaxSaves, MaxCrashes, MaxResets, MaxErrors} \subseteq Nat
ASSUME MissingAssumption == Missing \notin [event : Events, verified : BOOLEAN, untrusted : BOOLEAN]

VARIABLES
    eventDB,                \* key -> event and its verdict marks
    eventIndexDB,           \* <<source, operation or block, key>> pairs
    eventWildcardIndexDB,   \* <<_id or address, key>> pairs
    blockDB,                \* blocks that have events
    global_counter,         \* indexingStatsDB: events saved
    account_counter,        \* indexingStatsDB: events saved, per source
    reset_db,               \* the reset_db file is there
    phase,                  \* how far run.start got: "down", "waiting", "rebuild", "run"
    step,                   \* the next database save_events writes, or "idle"
    batch,                  \* the blocks whose events are being saved
    todo,                   \* the batch's events write_index has yet to reach
    half,                   \* the event write_index has put in the main index only
    uncounted,              \* the sources do_stats has yet to reach
    rebuild,                \* blocks _reset has yet to index again
    tasks,                  \* check tasks: events left to each
    acked,                  \* blocks whose save_events has returned, ever
    owed,                   \* blocks whose save_events a death cut short, not saved since
    saves, crashes, resets, errors      \* to bound them

saving == <<batch, todo, half, uncounted>>
indexes == <<eventIndexDB, eventWildcardIndexDB>>
counters == <<global_counter, account_counter>>
databases == <<eventDB, indexes, blockDB, counters>>
counts == <<saves, crashes, resets, errors>>
rest == <<reset_db, phase, rebuild, tasks, acked, owed, counts>>  \* what no write touches
vars == <<eventDB, eventIndexDB, eventWildcardIndexDB, blockDB, global_counter,
          account_counter, reset_db, phase, step, batch, todo, half, uncounted, rebuild,
          tasks, acked, owed, saves, crashes, resets, errors>>

Record == [event : Events, verified : BOOLEAN, untrusted : BOOLEAN]

TypeOK ==
    /\ eventDB \in [Keys -> Record \cup {Missing}]
    /\ eventIndexDB \subseteq (Sources \cup Operations \cup Blocks) \X Keys
    /\ eventWildcardIndexDB \subseteq (Keys \cup Addresses) \X Keys
    /\ blockDB \subseteq Blocks
    /\ global_counter \in Nat /\ account_counter \in [Sources -> Nat]
    /\ reset_db \in BOOLEAN
    /\ phase \in {"down", "waiting", "rebuild", "run"}
    /\ step \in {"idle", "index", "blocks", "global", "accounts"}
    /\ batch \subseteq Blocks /\ todo \subseteq Events /\ half \subseteq Events
    /\ uncounted \subseteq Sources
    /\ rebuild \subseteq Blocks
    /\ tasks \in [Slots -> SUBSET Events]
    /\ acked \subseteq Blocks /\ owed \subseteq Blocks
    /\ saves \in Nat /\ crashes \in 0..MaxCrashes
    /\ resets \in 0..MaxResets /\ errors \in 0..MaxErrors

NoTasks == [t \in Slots |-> {}]

Init ==
    /\ eventDB = [k \in Keys |-> Missing]
    /\ eventIndexDB = {} /\ eventWildcardIndexDB = {} /\ blockDB = {}
    /\ global_counter = 0 /\ account_counter = [s \in Sources |-> 0]
    /\ reset_db = FALSE
    /\ phase = "down" /\ step = "idle"
    /\ batch = {} /\ todo = {} /\ half = {} /\ uncounted = {} /\ rebuild = {}
    /\ tasks = NoTasks
    /\ acked = {} /\ owed = {}
    /\ saves = 0 /\ crashes = 0 /\ resets = 0 /\ errors = 0

EventsOf(bs) == {e \in Events : e.block \in bs}
KeysOf(es) == {e.key : e \in es}
Stored == {k \in Keys : eventDB[k] # Missing}

-----------------------------------------------------------------------------
\* The databases, written in the order of eventStorage.write_batch: both indexes
\* of every event, the events in one batch, the blocks, the counters.

IndexEntries(e) == {e.source, e.operation, e.block} \X {e.key}
\* fault: key and value swapped in the put
WildcardEntries_Swapped(e) == {e.key} \X ({e.key} \cup e.addresses)
WildcardEntries(e) == ({e.key} \cup e.addresses) \X {e.key}

\* fault: blocks found in the index are taken for saved
BeginSave_SkipsIndexed(bs) ==
    /\ step' = "index"
    /\ batch' = {b \in bs : \E e \in EventsOf({b}) : ~(IndexEntries(e) \subseteq eventIndexDB)}
    /\ todo' = EventsOf(batch') /\ half' = {}
    /\ UNCHANGED <<databases, uncounted>>

\* index calls save_events; the awaits inside it never suspend, so no other task runs
\* before it returns, but the process may die between any two of its writes.
BeginSave(bs) ==
    /\ step' = "index" /\ batch' = bs
    /\ todo' = EventsOf(bs) /\ half' = {}
    /\ UNCHANGED <<databases, uncounted>>

WriteIndex(e) ==
    /\ step = "index" /\ half = {} /\ e \in todo
    /\ eventIndexDB' = eventIndexDB \cup IndexEntries(e)
    /\ todo' = todo \ {e} /\ half' = {e}
    /\ UNCHANGED <<eventDB, eventWildcardIndexDB, blockDB, counters, step, batch, uncounted, rest>>

WriteWildcardIndex(e) ==
    /\ step = "index" /\ half = {e}
    /\ eventWildcardIndexDB' = eventWildcardIndexDB \cup WildcardEntries(e)
    /\ half' = {}
    /\ UNCHANGED <<eventDB, eventIndexDB, blockDB, counters, step, batch, todo, uncounted, rest>>

\* A record put again loses the marks of an earlier verdict: get_events makes it
\* with verified FALSE.
Written(es) ==
    [k \in Keys |-> IF k \in KeysOf(es)
                    THEN [event |-> CHOOSE e \in es : e.key = k,
                          verified |-> FALSE, untrusted |-> FALSE]
                    ELSE eventDB[k]]

\* The batch is written when the loop over its events ends.
AllIndexed_NotAwaited == half = {}
AllIndexed == half = {} /\ todo = {}

WriteEvents ==
    /\ step = "index" /\ AllIndexed
    /\ eventDB' = Written(EventsOf(batch))
    /\ step' = "blocks"
    /\ UNCHANGED <<indexes, blockDB, counters, saving, rest>>

\* Only blocks that have events are kept.
BlocksToKeep(bs) == {e.block : e \in EventsOf(bs)}

WriteBlocks ==
    /\ step = "blocks"
    /\ blockDB' = blockDB \cup BlocksToKeep(batch)
    /\ step' = "global"
    /\ UNCHANGED <<eventDB, indexes, counters, saving, rest>>

BatchCount_Blocks == Cardinality(batch)
BatchCount == Cardinality(EventsOf(batch))

PutGlobalCounter ==
    /\ step = "global"
    /\ global_counter' = global_counter + BatchCount
    /\ step' = "accounts"
    /\ uncounted' = {e.source : e \in EventsOf(batch)}
    /\ UNCHANGED <<eventDB, indexes, blockDB, account_counter, batch, todo, half, rest>>

EventsFrom(s) == {e \in EventsOf(batch) : e.source = s}

NewCount_NotAdded(s) == Cardinality(EventsFrom(s))
NewCount(s) == account_counter[s] + Cardinality(EventsFrom(s))

PutAccountCounter(s) ==
    /\ step = "accounts" /\ s \in uncounted
    /\ account_counter' = [account_counter EXCEPT ![s] = NewCount(s)]
    /\ uncounted' = uncounted \ {s}
    /\ UNCHANGED <<eventDB, indexes, blockDB, global_counter, step, batch, todo, half, rest>>

\* save_events returns; index starts a check task, unless _reset called it.
SaveReturns ==
    /\ step = "accounts" /\ uncounted = {}
    /\ \/ /\ phase = "run"
          /\ \E t \in Slots : tasks[t] = {} /\ tasks' = [tasks EXCEPT ![t] = EventsOf(batch)]
       \/ phase = "rebuild" /\ tasks' = tasks
    /\ step' = "idle" /\ batch' = {}
    /\ acked' = acked \cup batch
    /\ owed' = owed \ batch
    /\ UNCHANGED <<databases, reset_db, phase, todo, half, uncounted, rebuild, counts>>

-----------------------------------------------------------------------------
\* run.start, and what stops it.

\* What the rmtree of an index leaves of it.
Wiped_Kept(entries) == entries
Wiped(entries) == IF reset_db THEN {} ELSE entries

\* The process starts: a reset_db file wipes the databases blocks can rebuild.  A death
\* between two rmtree calls is undone by the next start, the file being still there.
Start ==
    /\ phase = "down"
    /\ phase' = "waiting"
    /\ eventIndexDB' = Wiped(eventIndexDB)
    /\ eventWildcardIndexDB' = Wiped(eventWildcardIndexDB)
    /\ IF reset_db
       THEN /\ eventDB' = [k \in Keys |-> Missing]
            /\ global_counter' = 0 /\ account_counter' = [s \in Sources |-> 0]
       ELSE UNCHANGED <<eventDB, counters>>
    /\ UNCHANGED <<blockDB, reset_db, step, saving, rebuild, tasks, acked, owed, counts>>

\* fault: the file goes before the rebuild
Ready_RemovesFile ==
    /\ phase = "waiting"
    /\ IF reset_db THEN phase' = "rebuild" /\ rebuild' = blockDB
                   ELSE phase' = "run" /\ rebuild' = {}
    /\ reset_db' = FALSE
    /\ UNCHANGED <<databases, step, saving, tasks, acked, owed, counts>>

\* The aleph instance is ready; the file is looked for a second time.
Ready ==
    /\ phase = "waiting"
    /\ IF reset_db THEN phase' = "rebuild" /\ rebuild' = blockDB
                   ELSE phase' = "run" /\ rebuild' = {}
    /\ UNCHANGED <<databases, reset_db, step, saving, tasks, acked, owed, counts>>

\* _reset indexes the events of the blocks kept, one block at a time ...
RebuildNext(b) ==
    /\ phase = "rebuild" /\ step = "idle" /\ b \in rebuild
    /\ BeginSave({b})
    /\ rebuild' = rebuild \ {b}
    /\ UNCHANGED <<reset_db, phase, tasks, acked, owed, counts>>

\* ... and the file goes only when all of them are done.
EndRebuild ==
    /\ phase = "rebuild" /\ step = "idle" /\ rebuild = {}
    /\ reset_db' = FALSE
    /\ phase' = "run"
    /\ UNCHANGED <<databases, step, saving, rebuild, tasks, acked, owed, counts>>

\* The crawl hands over a batch: a new one, or again one a death cut short.
Save(bs) ==
    /\ phase = "run" /\ step = "idle" /\ EventsOf(bs) # {}
    /\ \E t \in Slots : tasks[t] = {}
    /\ \/ saves < MaxSaves /\ saves' = saves + 1
       \/ bs \cap owed # {} /\ saves' = saves
    /\ BeginSave(bs)
    /\ UNCHANGED <<reset_db, phase, rebuild, tasks, acked, owed, crashes, resets, errors>>

\* A batch without events: index does nothing.
SaveNothing(bs) ==
    /\ phase = "run" /\ step = "idle" /\ EventsOf(bs) = {}
    /\ UNCHANGED vars

Die ==
    /\ phase # "down" /\ crashes < MaxCrashes
    /\ crashes' = crashes + 1
    /\ phase' = "down" /\ step' = "idle"
    /\ batch' = {} /\ todo' = {} /\ half' = {} /\ uncounted' = {} /\ rebuild' = {}
    /\ tasks' = NoTasks
    /\ owed' = owed \cup batch
    /\ UNCHANGED <<databases, reset_db, acked, saves, resets, errors>>

\* The operator may put the file down at any time.
RequestReset ==
    /\ ~reset_db /\ resets < MaxResets
    /\ reset_db' = TRUE /\ resets' = resets + 1
    /\ UNCHANGED <<databases, phase, step, saving, rebuild, tasks, acked, owed, saves,
                   crashes, errors>>

-----------------------------------------------------------------------------
\* check_events.  trust_event and untrust_event work on whatever record the key has.

Judged(e, mark) ==
    IF eventDB[e.key] = Missing THEN eventDB
    ELSE [eventDB EXCEPT ![e.key][mark] = TRUE]

\* Nothing found at the trusted endpoint counts as nothing against the event.
PassesTrusted(e) == e \notin TrustedLies

\* fault: a failed check falls through to trust_event
Untrusted_FallsThrough(e) ==
    IF eventDB[e.key] = Missing THEN eventDB
    ELSE [eventDB EXCEPT ![e.key].untrusted = TRUE, ![e.key].verified = TRUE]
Untrusted(e) == Judged(e, "untrusted")

\* continue: the task goes on with the events left.
LeftAfter_Return(t, e) == {}
LeftAfter(t, e) == tasks[t] \ {e}

Checking(t, e) == step = "idle" /\ e \in tasks[t]

\* pass 1, on the operation as first fetched, or pass 2, on the trusted endpoint's
Untrust(t, e) ==
    /\ Checking(t, e) /\ (e \in SourceLies \/ ~PassesTrusted(e))
    /\ eventDB' = Untrusted(e)
    /\ tasks' = [tasks EXCEPT ![t] = LeftAfter(t, e)]
    /\ UNCHANGED <<indexes, blockDB, counters, reset_db, phase, step, saving, rebuild, acked, owed, counts>>

Trust(t, e) ==
    /\ Checking(t, e) /\ e \notin SourceLies /\ PassesTrusted(e)
    /\ eventDB' = Judged(e, "verified")
    /\ tasks' = [tasks EXCEPT ![t] = @ \ {e}]
    /\ UNCHANGED <<indexes, blockDB, counters, reset_db, phase, step, saving, rebuild, acked, owed, counts>>

\* get_json gives up and raises: the task ends, the events left to it unjudged.
GiveUp(t, e) ==
    /\ Checking(t, e) /\ e \notin SourceLies /\ errors < MaxErrors
    /\ errors' = errors + 1
    /\ tasks' = [tasks EXCEPT ![t] = {}]
    /\ UNCHANGED <<databases, reset_db, phase, step, saving, rebuild, acked, owed, saves,
                   crashes, resets>>

SaveSteps ==
    \/ \E e \in Events : WriteIndex(e) \/ WriteWildcardIndex(e)
    \/ WriteEvents \/ WriteBlocks \/ PutGlobalCounter
    \/ \E s \in Sources : PutAccountCounter(s)
    \/ SaveReturns

Next ==
    \/ Start \/ Ready \/ EndRebuild \/ Die \/ RequestReset
    \/ \E b \in Blocks : RebuildNext(b)
    \/ \E bs \in Batches : Save(bs) \/ SaveNothing(bs)
    \/ SaveSteps
    \/ \E t \in Slots, e \in Events : Untrust(t, e) \/ Trust(t, e) \/ GiveUp(t, e)

Spec == Init /\ [][Next]_vars

\* The supervisor restarts the process, and the event loop runs every task that is not
\* waiting.  The crawl asks for the levels of a sweep until its save returns (NoHoles), but is
\* given the blocks of the branch of the moment: only those that last are sure to come again.
FairSpec ==
    /\ Spec
    /\ WF_vars(Start) /\ WF_vars(Ready) /\ WF_vars(EndRebuild)
    /\ WF_vars(\E b \in Blocks : RebuildNext(b))
    /\ WF_vars(\E bs \in Batches : bs \subseteq Lasting /\ bs \cap owed # {} /\ Save(bs))
    /\ WF_vars(SaveSteps)
    /\ \A t \in Slots : WF_vars(\E e \in Events : Untrust(t, e) \/ Trust(t, e))

-----------------------------------------------------------------------------
\* Properties

\* Whatever the moment the process dies, an event that is stored can be found under its
\* source, its operation, its block, its _id and each of its addresses: write_batch
\* indexes before it stores, and a reset wipes the three together.
EventsAreFindable ==
    \A k \in Stored :
        /\ eventDB[k].event.key = k
        /\ IndexEntries(eventDB[k].event) \subseteq eventIndexDB
        /\ WildcardEntries(eventDB[k].event) \subseteq eventWildcardIndexDB

Indexed == {p[2] : p \in eventIndexDB \cup eventWildcardIndexDB}

\* The GraphQL resolvers decode what eventDB has under an index entry without looking:
\* an entry whose event is not there fails the query.  Only a block whose save is under
\* way, or was cut short by a death and not repeated since, leaves such entries.
DanglingIsOwed == Indexed \subseteq Stored \cup KeysOf(EventsOf(owed \cup batch))

\* While the indexer runs, every event handed over in a batch that was saved is stored and
\* its block kept, whatever deaths and resets came between: _reset rebuilds from blockDB
\* all that the wipe took, and reset_db goes last.
AckedAreStored ==
    phase = "run" =>
        /\ KeysOf(EventsOf(acked)) \subseteq Stored
        /\ BlocksToKeep(acked) \subseteq blockDB

\* What the sources' counters say, one element for each event counted.
Credits == UNION {{s} \X (1..account_counter[s]) : s \in Sources}

\* The counters of the sources never add up to more than the global one, which do_stats
\* puts first.
AccountsWithinGlobal == Cardinality(Credits) <= global_counter

\* A mark stands for a verdict check_events came to on an occurrence of that event, in this
\* block or in a fork of it; the two marks together take two occurrences.
VerdictsAreEarned ==
    \A k \in Stored :
        /\ eventDB[k].verified =>
               \E e \in Events : e.key = k /\ e \notin SourceLies /\ PassesTrusted(e)
        /\ eventDB[k].untrusted =>
               \E e \in Events : e.key = k /\ (e \in SourceLies \/ ~PassesTrusted(e))

\* Contradicted by the code (indexer.py:190, "pass 2 compare and check with trusted
\* endpoint"): a verified event is one whose operation the trusted endpoint has, and found
\* in order.
VerifiedWasCompared ==
    \A k \in Stored : eventDB[k].verified =>
        \E e \in TrustedHas \ TrustedLies : e.key = k

\* Index entries a death left without their event do not stay so, for the batch comes again,
\* unless a reorganisation has taken their block away meanwhile: nothing repairs those.
DanglingIsRepaired == []<>(Indexed \subseteq Stored \cup KeysOf(EventsOf(owed \ Lasting)))

-----------------------------------------------------------------------------
\* The invariant that carries the proofs (EventStoreProofs)

\* How far the save under way has come.
SaveInv ==
    /\ step = "idle" => batch = {}
    /\ step # "index" => todo = {} /\ half = {}
    /\ step # "idle" => phase \in {"rebuild", "run"}
    /\ todo \subseteq EventsOf(batch) /\ half \subseteq EventsOf(batch)
    /\ \A e \in EventsOf(batch) \ todo :
           /\ IndexEntries(e) \subseteq eventIndexDB
           /\ e \notin half => WildcardEntries(e) \subseteq eventWildcardIndexDB
    /\ step \in {"blocks", "global", "accounts"} => KeysOf(EventsOf(batch)) \subseteq Stored
    /\ step \in {"global", "accounts"} => BlocksToKeep(batch) \subseteq blockDB

\* Events of kept blocks are stored, but for those a reset has yet to come to.
KeptInv ==
    /\ phase = "rebuild" => reset_db
    /\ \A e \in EventsOf(blockDB) :
           \/ e.key \in Stored
           \/ reset_db /\ phase \in {"down", "waiting"}
           \/ phase = "rebuild" /\ e.block \in rebuild \cup batch

\* The blocks whose save returned are kept.
AckedInv == BlocksToKeep(acked) \subseteq blockDB

\* What the databases hold: the type of the state, what holds of the save under way, of the
\* blocks kept and acknowledged, and the three safety properties that hold at every step.
DataInv ==
    /\ TypeOK /\ SaveInv /\ KeptInv /\ AckedInv
    /\ EventsAreFindable /\ DanglingIsOwed /\ VerdictsAreEarned

\* Records and index entries come from the events of saves, made, cut short or under way; an
\* entry without its event from one that did not get through.
TracedInv ==
    /\ \A k \in Stored : eventDB[k].event \in EventsOf(acked \cup owed \cup batch)
    /\ \A p \in eventIndexDB :
           /\ \E e \in EventsOf(acked \cup owed \cup batch) : p \in IndexEntries(e)
           /\ p[2] \in Stored \/ \E e \in EventsOf(owed \cup batch) : p \in IndexEntries(e)
    /\ \A p \in eventWildcardIndexDB :
           /\ \E e \in EventsOf(acked \cup owed \cup batch) : p \in WildcardEntries(e)
           /\ p[2] \in Stored \/ \E e \in EventsOf(owed \cup batch) : p \in WildcardEntries(e)

\* What the global counter has over the sources' leaves room for those do_stats has yet to
\* reach.
CountersInv ==
    /\ IsFiniteSet(Credits)
    /\ Cardinality(Credits) + Cardinality({e \in EventsOf(batch) : e.source \in uncounted})
           <= global_counter
    /\ step # "accounts" => uncounted = {}

\* The counters are no less than the keys of some events, in all and for some sources.
Covers(es, sources) ==
    /\ global_counter >= Cardinality(KeysOf(es))
    /\ \A s \in sources : account_counter[s] >= Cardinality(KeysOf({e \in es : e.source = s}))

\* The blocks saved since the counters were zero.
Counted == IF phase = "rebuild" THEN blockDB \ (rebuild \cup batch) ELSE acked

\* The counters cover what was saved, or they have just been wiped together with the events,
\* or are going to be.
CoverInv ==
    /\ \/ phase = "down" /\ reset_db
       \/ phase = "waiting" /\ reset_db /\ Stored = {} /\ Indexed = {}
       \/ Covers(EventsOf(Counted), Sources)
    /\ phase = "rebuild" => rebuild \cup batch \subseteq blockDB
    /\ step = "accounts" => Covers(EventsOf(Counted \cup batch), Sources \ uncounted)

LedgerInv == TracedInv /\ CountersInv /\ CoverInv

\* The inductive invariant: the databases, and what they owe to the saves.
StoreInv == DataInv /\ LedgerInv

=============================================================================

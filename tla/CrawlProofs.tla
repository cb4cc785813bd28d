---------------------------- MODULE CrawlProofs ----------------------------
(***************************************************************************)
(* Proofs about Crawl for every batch size, every until_block, every chain *)
(* length and lag and any number of crashes.                               *)
(***************************************************************************)
EXTENDS Crawl, TLAPS

USE BatchSizeAssumption, UntilBlockAssumption, ChainAssumption, CrashAssumption,
    NoBlockAssumption

\* The initial state satisfies every part of the inductive invariant.
LEMMA InitEstablishes == Init => CrawlInv
<1> SUFFICES ASSUME Init PROVE CrawlInv
    OBVIOUS
<1> USE DEF Init, AtRest, Blank, NoBatch, NoEnds
<1>1. TypeOK
    BY DEF TypeOK, Window
<1>2. NoHoles /\ StateInv
    BY DEF NoHoles, StateInv, MemoryMirrorsStore, HasWindow
<1>3. PendingInv /\ ForwardInv /\ OpeningInv /\ AnchorInv /\ BackwardInv
    BY DEF PendingInv, ForwardInv, OpeningInv, AnchorInv, BackwardInv
<1>4. QED
    BY <1>1, <1>2, <1>3 DEF CrawlInv

\* Loading the stored state changes no block in it.
LEMMA BeginRunPreserves == CrawlInv /\ BeginRun => CrawlInv'
<1> SUFFICES ASSUME CrawlInv, BeginRun PROVE CrawlInv'
    OBVIOUS
<1> USE DEF CrawlInv, BeginRun, chain, durable, sweep
<1>1. TypeOK'
    BY DEF TypeOK
<1>2. NoHoles' /\ StateInv'
    BY DEF NoHoles, StateInv, MemoryMirrorsStore, HasWindow, Blank, Window, TypeOK
<1>3. PendingInv' /\ ForwardInv' /\ OpeningInv' /\ AnchorInv' /\ BackwardInv'
    BY DEF PendingInv, ForwardInv, OpeningInv, AnchorInv, BackwardInv, AtRest, NoBatch, NoEnds,
       InFlight, HasWindow
<1>4. QED
    BY <1>1, <1>2, <1>3

\* A backward sweep is only ever entered above level 0 and above the blocks it asks for.
LEMMA BackwardBlocksBounds ==
    ASSUME NEW oldest \in Nat
    PROVE  /\ BackwardBlocks(oldest) \in Nat
           /\ BackwardBlocks(oldest) <= oldest
           /\ BackwardBlocks(oldest) <= batch_size
BY DEF BackwardBlocks, batch_size

\* Whatever precedes it, StartBackward ends in a good state if the window it finds
\* is complete: shared by the two ways into the backward sweep.
LEMMA StartBackwardPreserves ==
    ASSUME NEW oldest, StartBackward(oldest), oldest = stored_state'.oldest_block,
           fetcher_state' = stored_state', stored_state' \in Window,
           HasWindow(stored_state'), StateInv', NoHoles',
           top' \in 0..MaxLevel, indexed' \in SUBSET Nat, crashes' \in 0..MaxCrashes
    PROVE  CrawlInv'
<1>1. oldest \in Nat /\ oldest <= top' /\ top' \in Nat
    BY DEF Window, StateInv, HasWindow
<1>2. CASE EndRun
    BY <1>2
    DEF EndRun, LeaveSweep, CrawlInv, TypeOK, StateInv, PendingInv, ForwardInv, OpeningInv,
        AnchorInv, BackwardInv, AtRest, NoBatch, NoEnds
<1>3. CASE BackwardBlocks(oldest) > 0 /\ EnterSweep("backward", oldest, BackwardBlocks(oldest))
    <2>1. /\ BackwardBlocks(oldest) \in Nat
          /\ BackwardBlocks(oldest) <= oldest /\ BackwardBlocks(oldest) <= batch_size
        BY <1>1, BackwardBlocksBounds
    <2>2. TypeOK'
        BY <1>1, <1>3, <2>1 DEF EnterSweep, TypeOK, NoBatch, NoEnds
    <2>3. PendingInv' /\ ForwardInv' /\ OpeningInv' /\ AnchorInv' /\ BackwardInv'
        BY <1>1, <1>3, <2>1
        DEF EnterSweep, PendingInv, ForwardInv, OpeningInv, AnchorInv, BackwardInv,
            HasWindow, batch_size
    <2>4. QED
        BY <2>2, <2>3 DEF CrawlInv
<1>4. QED
    BY <1>2, <1>3 DEF StartBackward

\* A head above the recent block starts a forward sweep; any other head leads
\* to the backward sweep, from an index that has a window.
LEMMA HeadArrivesPreserves ==
    ASSUME CrawlInv, NEW level \in ServedHeads, HeadArrives(level)
    PROVE  CrawlInv'
<1> USE DEF CrawlInv, HeadArrives, chain, durable
<1>1. level \in Nat /\ level <= top /\ top \in Nat
    BY DEF TypeOK, ServedHeads, Served
<1>2. fetcher_state = stored_state /\ pc = "head"
    BY DEF StateInv
<1>3. CASE ForwardBlocks(level) > 0 /\ EnterSweep("forward", level, ForwardBlocks(level))
    <2>1. ForwardBlocks(level) \in Nat
        BY <1>1, <1>3 DEF ForwardBlocks, batch_size, TypeOK, Window
    <2>2. TypeOK'
        BY <1>1, <1>3, <2>1 DEF EnterSweep, TypeOK, NoBatch, NoEnds
    <2>3. NoHoles' /\ StateInv'
        BY <1>2, <1>3 DEF EnterSweep, NoHoles, StateInv, MemoryMirrorsStore, HasWindow
    <2>4. PendingInv' /\ AnchorInv' /\ BackwardInv'
        BY <1>1, <1>3, <2>1 DEF EnterSweep, PendingInv, AnchorInv, BackwardInv
    <2>5. ForwardInv' /\ OpeningInv'
        BY <1>1, <1>2, <1>3, <2>1
        DEF EnterSweep, ForwardInv, OpeningInv, HasWindow, StateInv, TypeOK, Window,
            ForwardBlocks
    <2>6. QED
        BY <2>2, <2>3, <2>4, <2>5
<1>4. CASE ForwardBlocks(level) <= 0 /\ StartBackward(fetcher_state.oldest_block)
    <2>1. HasWindow(stored_state)
        BY <1>1, <1>2, <1>4
        DEF ForwardBlocks, batch_size, HasWindow, StateInv, TypeOK, Window
    <2>2. StateInv' /\ NoHoles'
        BY <1>2 DEF StateInv, NoHoles, MemoryMirrorsStore, HasWindow
    <2>3. QED
        BY <1>2, <1>4, <2>1, <2>2, StartBackwardPreserves DEF TypeOK, HasWindow
<1>5. QED
    BY <1>3, <1>4

\* A batch is never empty and never longer than what is pending.
LEMMA BatchLengthBounds ==
    ASSUME pending_blocks \in Nat, pending_blocks > 0
    PROVE  BatchLength \in 1..pending_blocks
BY DEF BatchLength, batch_size

\* A sweep of at most batch_size blocks is fetched in one batch.
LEMMA OneBatch ==
    ASSUME pending_blocks \in Nat, pending_blocks <= batch_size
    PROVE  BatchLength = pending_blocks
BY DEF BatchLength, batch_size

\* The batch that arrives extends the levels reached by exactly its length.
LEMMA FetchBatchPreserves == CrawlInv /\ FetchBatch => CrawlInv'
<1> SUFFICES ASSUME CrawlInv, FetchBatch PROVE CrawlInv'
    OBVIOUS
<1> USE DEF CrawlInv, FetchBatch, chain, durable
<1>1. /\ pending_blocks \in Nat /\ pending_blocks > 0 /\ from_block \in Nat
      /\ direction \in {"forward", "backward"} /\ from_block <= top /\ top \in Nat
    BY DEF TypeOK, PendingInv
<1>2. BatchLength \in 1..pending_blocks
    BY <1>1, BatchLengthBounds
<1>3. NoHoles' /\ StateInv'
    BY DEF NoHoles, StateInv, MemoryMirrorsStore, HasWindow
<1>4. CASE direction = "forward"
    <2> DEFINE low == from_block - pending_blocks
    <2>1. low \in low..(low + BatchLength - 1) /\ low \in Int
        BY <1>1, <1>2
    <2>2. low \in Served
        BY <1>4, <2>1 DEF Requested
    <2>3. /\ blocks'.first = from_block /\ blocks'.last = low + BatchLength - 1
          /\ blocks'.levels = (low..(low + BatchLength - 1)) \cup {from_block}
          /\ low \in Nat
        BY <1>4, <2>2 DEF NextBatch, Requested, Served
    <2>4. TypeOK'
        BY <1>1, <1>2, <1>4, <2>3 DEF TypeOK, NextBatch
    <2>5. PendingInv' /\ AnchorInv' /\ BackwardInv'
        BY <1>1, <1>2, <1>4, <2>3 DEF PendingInv, AnchorInv, BackwardInv, NoEnds
    <2>6. ForwardInv'
        BY <1>1, <1>2, <1>4, <2>3 DEF ForwardInv, HasWindow, InFlight, TypeOK, Window
    <2>7. OpeningInv'
        <3> SUFFICES ASSUME ~HasWindow(stored_state) PROVE OpeningInv'
            BY DEF OpeningInv, HasWindow
        <3>1. pending_blocks = batch_size /\ ends = NoEnds
            BY <1>4 DEF OpeningInv
        <3>2. BatchLength = pending_blocks
            BY <1>1, <3>1, OneBatch
        <3>3. QED
            BY <1>1, <1>2, <1>4, <2>3, <3>1, <3>2 DEF OpeningInv
    <2>8. QED
        BY <1>3, <2>4, <2>5, <2>6, <2>7
<1>5. CASE direction = "backward"
    <2>1. pending_blocks <= batch_size /\ pending_blocks <= from_block /\ ends = NoEnds
        BY <1>5 DEF BackwardInv
    <2>2. BatchLength = pending_blocks
        BY <1>1, <2>1, OneBatch
    <2>3. /\ blocks'.first = from_block - 1 /\ blocks'.last = from_block - BatchLength
          /\ blocks'.levels = (from_block - BatchLength)..(from_block - 1)
        BY <1>5 DEF NextBatch, Requested
    <2>4. TypeOK'
        BY <1>1, <1>2, <1>5, <2>1, <2>2, <2>3 DEF TypeOK, NextBatch
    <2>5. PendingInv' /\ AnchorInv' /\ ForwardInv' /\ OpeningInv'
        BY <1>1, <1>2, <1>5 DEF PendingInv, AnchorInv, ForwardInv, OpeningInv
    <2>6. BackwardInv'
        BY <1>1, <1>2, <1>5, <2>1, <2>2, <2>3 DEF BackwardInv, HasWindow
    <2>7. QED
        BY <1>3, <2>4, <2>5, <2>6
<1>6. QED
    BY <1>1, <1>4, <1>5

\* Execute turns what is in flight into what is indexed.
LEMMA ExecutePreserves == CrawlInv /\ Execute => CrawlInv'
<1> SUFFICES ASSUME CrawlInv, Execute PROVE CrawlInv'
    OBVIOUS
<1> USE DEF CrawlInv, Execute, chain
<1>1. /\ pending_blocks \in Nat /\ from_block \in Nat /\ from_block <= top /\ top \in Nat
      /\ direction \in {"forward", "backward"}
    BY DEF TypeOK, PendingInv
<1>2. TypeOK'
    BY DEF TypeOK, NoBatch
<1>3. NoHoles' /\ StateInv'
    BY DEF NoHoles, StateInv, MemoryMirrorsStore, HasWindow
<1>4. /\ blocks.first # NoBlock => ends' # NoEnds
      /\ ends = NoEnds => ends'.first = blocks.first /\ ends'.last = blocks.last
      /\ ends # NoEnds => ends' = ends
    BY DEF NoEnds
<1>5. CASE direction = "forward"
    <2>1. blocks.first = from_block /\ from_block \in blocks.levels
        BY <1>5 DEF AnchorInv
    <2>2. PendingInv'
        BY <1>1, <1>4, <1>5, <2>1 DEF PendingInv
    <2>3. AnchorInv' /\ BackwardInv'
        BY <1>4, <1>5, <2>1 DEF AnchorInv, BackwardInv
    <2>4. ForwardInv'
        BY <1>5 DEF ForwardInv, HasWindow, InFlight
    <2>5. OpeningInv'
        BY <1>1, <1>4, <1>5 DEF OpeningInv, HasWindow
    <2>6. QED
        BY <1>2, <1>3, <2>2, <2>3, <2>4, <2>5
<1>6. CASE direction = "backward"
    <2>1. /\ pending_blocks = 0 /\ ends = NoEnds
          /\ blocks.last \in 0..(from_block - 1)
          /\ blocks.levels = blocks.last..(from_block - 1)
        BY <1>6 DEF BackwardInv
    <2>2. PendingInv'
        BY <1>1, <1>4, <1>6, <2>1 DEF PendingInv, NoEnds
    <2>3. AnchorInv' /\ ForwardInv' /\ OpeningInv'
        BY <1>6 DEF AnchorInv, ForwardInv, OpeningInv
    <2>4. BackwardInv'
        BY <1>1, <1>4, <1>6, <2>1 DEF BackwardInv, HasWindow
    <2>5. QED
        BY <1>2, <1>3, <2>2, <2>3, <2>4
<1>7. QED
    BY <1>1, <1>5, <1>6

\* A forward sweep that ends has filled the gap between the recent block and
\* the head it started from.
LEMMA CommitForwardPreserves == CrawlInv /\ CommitForward => CrawlInv'
<1> SUFFICES ASSUME CrawlInv, CommitForward PROVE CrawlInv'
    OBVIOUS
<1> USE DEF CrawlInv, CommitForward, chain
<1>1. /\ pending_blocks = 0 /\ ends # NoEnds /\ fetcher_state = stored_state
      /\ from_block \in Nat /\ from_block <= top /\ top \in Nat
      /\ ends.first = from_block /\ from_block \in indexed
    BY DEF PendingInv, StateInv, AnchorInv, TypeOK
<1>2. fetcher_state' = stored_state' /\ stored_state'.recent_block = from_block
    BY <1>1 DEF UpdatedMemory, UpdatedStore, WithBlocks
<1>3. CASE HasWindow(stored_state)
    <2>1. /\ stored_state.oldest_block \in Nat /\ stored_state.recent_block \in Nat
          /\ stored_state.oldest_block <= stored_state.recent_block
        BY <1>3 DEF HasWindow, StateInv, TypeOK, Window
    <2>2. stored_state'.oldest_block = stored_state.oldest_block
        BY <1>1, <2>1 DEF UpdatedStore, WithBlocks, OldestReported
    <2>3. /\ from_block > stored_state.recent_block
          /\ stored_state.recent_block..(from_block - 1) \subseteq indexed
        BY <1>1, <1>3 DEF ForwardInv, InFlight
    <2>4. NoHoles'
        BY <1>1, <1>2, <1>3, <2>1, <2>2, <2>3 DEF NoHoles, HasWindow
    <2>5. StateInv' /\ HasWindow(stored_state') /\ stored_state' \in Window
        BY <1>1, <1>2, <2>1, <2>2, <2>3
        DEF StateInv, MemoryMirrorsStore, HasWindow, UpdatedStore, WithBlocks, Window
    <2>6. QED
        BY <1>2, <2>4, <2>5, StartBackwardPreserves DEF TypeOK
<1>4. CASE ~HasWindow(stored_state)
    <2>1. from_block > 0 /\ ends.last = from_block - 1 /\ ends.last \in indexed
        BY <1>4 DEF OpeningInv
    <2>2. stored_state'.oldest_block = from_block - 1
        BY <1>1, <1>4, <2>1
        DEF UpdatedStore, WithBlocks, OldestReported, HasWindow, StateInv
    <2>3. NoHoles'
        BY <1>1, <1>2, <2>1, <2>2 DEF NoHoles
    <2>4. StateInv' /\ HasWindow(stored_state') /\ stored_state' \in Window
        BY <1>1, <1>2, <2>1, <2>2
        DEF StateInv, MemoryMirrorsStore, HasWindow, UpdatedStore, WithBlocks, Window
    <2>5. QED
        BY <1>2, <2>3, <2>4, StartBackwardPreserves DEF TypeOK
<1>5. QED
    BY <1>3, <1>4

\* A backward sweep that ends has filled the levels just below the window.
LEMMA CommitBackwardPreserves == CrawlInv /\ CommitBackward => CrawlInv'
<1> SUFFICES ASSUME CrawlInv, CommitBackward PROVE CrawlInv'
    OBVIOUS
<1> USE DEF CrawlInv, CommitBackward, chain
<1>1. /\ fetcher_state = stored_state /\ HasWindow(stored_state)
      /\ from_block = stored_state.oldest_block
      /\ ends.last \in 0..(from_block - 1)
      /\ ends.last..(from_block - 1) \subseteq indexed
    BY DEF StateInv, BackwardInv
<1>2. /\ stored_state.oldest_block \in Nat /\ stored_state.recent_block \in Nat
      /\ stored_state.oldest_block <= stored_state.recent_block
      /\ stored_state.recent_block <= top /\ top \in Nat
    BY <1>1 DEF HasWindow, StateInv, TypeOK, Window
<1>3. /\ fetcher_state' = stored_state'
      /\ stored_state' = [recent_block |-> stored_state.recent_block,
                          oldest_block |-> ends.last]
    BY <1>1, <1>2 DEF UpdatedMemory, UpdatedStore, WithBlocks
<1>4. NoHoles'
    BY <1>1, <1>2, <1>3 DEF NoHoles, HasWindow
<1>5. StateInv'
    BY <1>1, <1>2, <1>3 DEF StateInv, MemoryMirrorsStore, HasWindow
<1>6. TypeOK'
    BY <1>1, <1>2, <1>3 DEF TypeOK, EndRun, LeaveSweep, NoBatch, NoEnds, Window
<1>7. PendingInv' /\ ForwardInv' /\ OpeningInv' /\ AnchorInv' /\ BackwardInv'
    BY DEF EndRun, LeaveSweep, PendingInv, ForwardInv, OpeningInv, AnchorInv, BackwardInv,
           AtRest
<1>8. QED
    BY <1>4, <1>5, <1>6, <1>7

\* A death leaves the stored window and the index as they are.
LEMMA LoseMemoryPreserves ==
    CrawlInv /\ LoseMemory /\ crashes' \in 0..MaxCrashes => CrawlInv'
<1> SUFFICES ASSUME CrawlInv, LoseMemory, crashes' \in 0..MaxCrashes PROVE CrawlInv'
    OBVIOUS
<1> USE DEF CrawlInv, LoseMemory, LeaveSweep, chain, durable
<1>1. TypeOK'
    BY DEF TypeOK, Blank, Window, NoBatch, NoEnds
<1>2. NoHoles' /\ StateInv'
    BY DEF NoHoles, StateInv, MemoryMirrorsStore, HasWindow
<1>3. PendingInv' /\ ForwardInv' /\ OpeningInv' /\ AnchorInv' /\ BackwardInv'
    BY DEF PendingInv, ForwardInv, OpeningInv, AnchorInv, BackwardInv, AtRest
<1>4. QED
    BY <1>1, <1>2, <1>3

\* A longer chain disturbs no part of the invariant, and nor does a restart.
LEMMA BakePreserves == CrawlInv /\ Bake => CrawlInv'
<1> SUFFICES ASSUME CrawlInv, Bake PROVE CrawlInv'
    OBVIOUS
<1> USE DEF CrawlInv, Bake, durable, sweep
<1>1. top \in Nat /\ top' \in 0..MaxLevel /\ top' = top + 1
    BY DEF TypeOK
<1>2. TypeOK'
    BY <1>1 DEF TypeOK
<1>3. NoHoles' /\ StateInv'
    BY <1>1 DEF NoHoles, StateInv, MemoryMirrorsStore, HasWindow, TypeOK, Window
<1>4. PendingInv'
    BY <1>1 DEF PendingInv, AtRest
<1>5. ForwardInv' /\ OpeningInv' /\ AnchorInv' /\ BackwardInv'
    BY DEF ForwardInv, OpeningInv, AnchorInv, BackwardInv, HasWindow, InFlight
<1>6. QED
    BY <1>2, <1>3, <1>4, <1>5

\* Starting the process again changes nothing but pc.
LEMMA RestartPreserves == CrawlInv /\ Restart => CrawlInv'
<1> SUFFICES ASSUME CrawlInv, Restart PROVE CrawlInv'
    OBVIOUS
<1> USE DEF CrawlInv, Restart, chain, durable, sweep
<1>1. TypeOK'
    BY DEF TypeOK
<1>2. NoHoles' /\ StateInv'
    BY DEF NoHoles, StateInv, MemoryMirrorsStore, HasWindow
<1>3. PendingInv' /\ ForwardInv' /\ OpeningInv' /\ AnchorInv' /\ BackwardInv'
    BY DEF PendingInv, AtRest, ForwardInv, OpeningInv, AnchorInv, BackwardInv
<1>4. QED
    BY <1>1, <1>2, <1>3

\* CrawlInv is inductive: it holds of every reachable state, whatever the constants.
THEOREM Invariance == Spec => []CrawlInv
<1>1. CrawlInv /\ [Next]_vars => CrawlInv'
    <2> SUFFICES ASSUME CrawlInv, [Next]_vars PROVE CrawlInv'
        OBVIOUS
    <2>1. CASE BeginRun
        BY <2>1, BeginRunPreserves
    <2>2. CASE SomeHeadArrives
        BY <2>2, HeadArrivesPreserves DEF SomeHeadArrives
    <2>3. CASE FetchBatch
        BY <2>3, FetchBatchPreserves
    <2>4. CASE Execute
        BY <2>4, ExecutePreserves
    <2>5. CASE CommitForward
        BY <2>5, CommitForwardPreserves
    <2>6. CASE CommitBackward
        BY <2>6, CommitBackwardPreserves
    <2>7. CASE FetchRefused
        BY <2>7, LoseMemoryPreserves DEF FetchRefused, CrawlInv, TypeOK
    <2>8. CASE Die
        BY <2>8, LoseMemoryPreserves DEF Die, CrawlInv, TypeOK
    <2>9. CASE Bake \/ Restart
        BY <2>9, BakePreserves, RestartPreserves
    <2>10. CASE UNCHANGED vars
        BY <2>10
        DEF vars, CrawlInv, TypeOK, NoHoles, StateInv, MemoryMirrorsStore, HasWindow,
            PendingInv, AtRest, ForwardInv, InFlight, OpeningInv, AnchorInv, BackwardInv
    <2>11. QED
        BY <2>1, <2>2, <2>3, <2>4, <2>5, <2>6, <2>7, <2>8, <2>9, <2>10 DEF Next
<1>2. QED
    BY InitEstablishes, <1>1, PTL DEF Spec

-----------------------------------------------------------------------------
(* What the inductive invariant gives.                                     *)

\* No published window has a hole, at any moment of any run.
THEOREM WindowHasNoHoles == Spec => []NoHoles
<1>1. CrawlInv => NoHoles
    BY DEF CrawlInv
<1>2. QED
    BY Invariance, <1>1, PTL

\* The copy in memory never disagrees with the stored state.
THEOREM MemoryIsNeverStale == Spec => []MemoryMirrorsStore
<1>1. CrawlInv => MemoryMirrorsStore
    BY DEF CrawlInv, StateInv
<1>2. QED
    BY Invariance, <1>1, PTL

\* The backward crawl ends at the genesis block: it never asks for a level below it.
THEOREM BackwardIsInRange == Spec => []BackwardStaysOnChain
<1>1. CrawlInv => BackwardStaysOnChain
    <2> SUFFICES ASSUME CrawlInv, pc = "fetch", direction = "backward"
                 PROVE  Requested \subseteq Served
        BY DEF BackwardStaysOnChain
    <2>1. /\ pending_blocks \in Nat /\ pending_blocks > 0
          /\ pending_blocks <= batch_size /\ pending_blocks <= from_block
          /\ from_block \in Nat /\ from_block <= top /\ top \in Nat
        BY DEF CrawlInv, TypeOK, PendingInv, BackwardInv
    <2>2. BatchLength = pending_blocks
        BY <2>1, OneBatch
    <2>3. QED
        BY <2>1, <2>2 DEF Requested, Served
<1>2. QED
    BY Invariance, <1>1, PTL

\* A database that index_status calls synced holds every level it should.
THEOREM SyncedDatabasesAreComplete == Spec => []SyncedIsComplete
<1>1. CrawlInv => SyncedIsComplete
    <2> SUFFICES ASSUME CrawlInv, HasWindow(stored_state), IndexStatus = "synced",
                        NEW level \in 0..stored_state.recent_block, level >= UntilBlock
                 PROVE  level \in indexed
        BY DEF SyncedIsComplete
    <2>1. stored_state.oldest_block \in Nat /\ stored_state.recent_block \in Nat
        BY DEF CrawlInv, StateInv, TypeOK, Window, HasWindow
    <2>2. stored_state.oldest_block <= UntilBlock \/ stored_state.oldest_block = 0
        BY DEF IndexStatus
    <2>3. level \in stored_state.oldest_block..stored_state.recent_block
        BY <2>1, <2>2
    <2>4. QED
        BY <2>3 DEF CrawlInv, NoHoles
<1>2. QED
    BY Invariance, <1>1, PTL

\* The two actions that write the stored state give it a larger, complete window;
\* no other action touches it, and none takes a level out of the index.
LEMMA StepShape ==
    ASSUME CrawlInv, [Next]_vars
    PROVE  \/ stored_state' = stored_state /\ indexed \subseteq indexed'
           \/ CommitForward \/ CommitBackward
<1>1. CASE BeginRun
    BY <1>1 DEF BeginRun, durable
<1>2. CASE SomeHeadArrives
    BY <1>2 DEF SomeHeadArrives, HeadArrives, durable
<1>3. CASE FetchBatch \/ Execute
    BY <1>3 DEF FetchBatch, Execute, durable
<1>4. CASE FetchRefused \/ Die
    BY <1>4 DEF FetchRefused, Die, LoseMemory, durable
<1>5. CASE Bake \/ Restart \/ UNCHANGED vars
    BY <1>5 DEF Bake, Restart, vars, durable
<1>6. QED
    BY <1>1, <1>2, <1>3, <1>4, <1>5 DEF Next

\* A commit opens the window or widens it, and leaves what is indexed alone.
LEMMA CommitShape ==
    ASSUME CrawlInv, CommitForward \/ CommitBackward
    PROVE  /\ indexed' = indexed
           /\ stored_state'.recent_block \in Nat /\ stored_state'.oldest_block \in Nat
           /\ HasWindow(stored_state) =>
                /\ stored_state.recent_block \in Nat /\ stored_state.oldest_block \in Nat
                /\ stored_state'.recent_block >= stored_state.recent_block
                /\ stored_state'.oldest_block <= stored_state.oldest_block
                /\ \/ stored_state'.recent_block > stored_state.recent_block
                   \/ stored_state'.oldest_block < stored_state.oldest_block
<1> USE DEF CrawlInv
<1>1. HasWindow(stored_state) =>
          stored_state.recent_block \in Nat /\ stored_state.oldest_block \in Nat
    BY DEF HasWindow, StateInv, TypeOK, Window
<1>2. CASE CommitForward
    <2>1. /\ ends.first = from_block /\ from_block \in Nat /\ pending_blocks = 0
          /\ fetcher_state = stored_state
        BY <1>2 DEF CommitForward, PendingInv, AnchorInv, StateInv, TypeOK
    <2>2. HasWindow(stored_state) => from_block > stored_state.recent_block
        BY <1>2 DEF CommitForward, ForwardInv
    <2>3. ~HasWindow(stored_state) => ends.last = from_block - 1 /\ from_block > 0
        BY <1>2 DEF CommitForward, OpeningInv
    <2>4. stored_state'.recent_block = from_block
        BY <1>2, <2>1 DEF CommitForward, UpdatedStore, WithBlocks
    <2>5. HasWindow(stored_state) => stored_state'.oldest_block = stored_state.oldest_block
        BY <1>1, <1>2, <2>1 DEF CommitForward, UpdatedStore, WithBlocks, OldestReported
    <2>6. ~HasWindow(stored_state) => stored_state'.oldest_block = from_block - 1
        BY <1>2, <2>1, <2>3
        DEF CommitForward, UpdatedStore, WithBlocks, OldestReported, HasWindow, StateInv
    <2>7. QED
        BY <1>1, <1>2, <2>1, <2>2, <2>3, <2>4, <2>5, <2>6 DEF CommitForward
<1>3. CASE CommitBackward
    <2>1. /\ HasWindow(stored_state) /\ from_block = stored_state.oldest_block
          /\ ends.last \in 0..(from_block - 1)
        BY <1>3 DEF CommitBackward, BackwardInv
    <2>2. /\ stored_state'.recent_block = stored_state.recent_block
          /\ stored_state'.oldest_block = ends.last
        BY <1>1, <1>3, <2>1 DEF CommitBackward, UpdatedStore, WithBlocks
    <2>3. QED
        BY <1>1, <1>3, <2>1, <2>2 DEF CommitBackward
<1>4. QED
    BY <1>2, <1>3

\* Neither end of the stored window ever moves inwards.
THEOREM StoredWindowOnlyGrows == Spec => WindowOnlyGrows
<1>1. CrawlInv /\ [Next]_vars => [WindowGrows]_vars
    <2> SUFFICES ASSUME CrawlInv, [Next]_vars PROVE WindowGrows
        OBVIOUS
    <2>1. CASE stored_state' = stored_state
        BY <2>1 DEF WindowGrows, HasWindow, CrawlInv, StateInv, TypeOK, Window
    <2>2. CASE CommitForward \/ CommitBackward
        BY <2>2, CommitShape DEF WindowGrows, HasWindow
    <2>3. QED
        BY <2>1, <2>2, StepShape
<1>2. QED
    BY Invariance, <1>1, PTL DEF Spec, WindowOnlyGrows

\* Crawl implements IndexWindow: batches are Index steps, the first commit opens
\* the window and every later one extends it.
THEOREM Refinement == Spec => ImplementsPromise
<1>1. Init => Promise!Init
    BY DEF Init, Promise!Init, Blank
<1>2. CrawlInv /\ CrawlInv' /\ [Next]_vars => [Promise!Next]_Promise!vars
    <2> SUFFICES ASSUME CrawlInv, CrawlInv', [Next]_vars
                 PROVE  [Promise!Next]_Promise!vars
        OBVIOUS
    <2>1. CASE stored_state' = stored_state /\ indexed \subseteq indexed'
        BY <2>1 DEF Promise!Next, Promise!Index
    <2>2. CASE CommitForward \/ CommitBackward
        <3>1. HasWindow(stored_state)'
            BY <2>2, CommitShape DEF HasWindow
        <3>2. /\ stored_state'.oldest_block..stored_state'.recent_block \subseteq indexed'
              /\ stored_state'.oldest_block <= stored_state'.recent_block
            BY <3>1 DEF CrawlInv, NoHoles, StateInv, HasWindow
        <3>3. CASE HasWindow(stored_state)
            BY <2>2, <3>2, <3>3, CommitShape DEF Promise!Next, Promise!Extend, HasWindow
        <3>4. CASE ~HasWindow(stored_state)
            BY <2>2, <3>2, <3>4, CommitShape DEF Promise!Next, Promise!Open, HasWindow
        <3>5. QED
            BY <3>3, <3>4
    <2>3. QED
        BY <2>1, <2>2, StepShape
<1>3. QED
    BY Invariance, <1>1, <1>2, PTL DEF Spec, ImplementsPromise, Promise!Spec

=============================================================================

------------------------------- MODULE Crawl -------------------------------
(***************************************************************************)
(* The crawl of src/src/indexer.py: one coroutine, woken by setInterval,   *)
(* that sweeps the chain forward from the last head it saw and backward    *)
(* from the oldest block it knows, and records how far it got in           *)
(* fetcher_state.  The process may die at any point and be started again;  *)
(* stored_state and indexed survive, everything else is memory.            *)
(*                                                                         *)
(* Blocks are their levels here (a chain without forks), and indexed is    *)
(* the set of levels for which Indexer.execute has returned.               *)
(***************************************************************************)
EXTENDS Integers

CONSTANTS
    BatchSize,      \* config.batch_size
    UntilBlock,     \* config.until_block
    StartLevel,     \* the chain's head when the indexer is first started
    MaxLevel,       \* bound: the chain stops growing here
    MaxLag,         \* how far behind the chain's head an RPC answer may be
    MaxCrashes,     \* bound: process deaths that the chain's age does not explain
    NoBlock         \* Python's None

ASSUME BatchSizeAssumption == BatchSize \in Nat
ASSUME UntilBlockAssumption == UntilBlock \in Int
ASSUME ChainAssumption ==
    /\ StartLevel \in Nat /\ MaxLevel \in Nat /\ MaxLag \in Nat
    /\ StartLevel <= MaxLevel
ASSUME CrashAssumption == MaxCrashes \in Nat
ASSUME NoBlockAssumption == NoBlock \notin Int

VARIABLES
    top,            \* the chain's head level
    stored_state,   \* fetcherStateDB's record
    indexed,        \* levels whose events and balances are in the databases
    crashes,        \* process deaths so far, to bound them
    pc,             \* where Indexer.run is suspended, or "idle", or "down"
    fetcher_state,  \* Indexer.fetcher_state
    pending_blocks, \* Indexer.pending_blocks
    direction,      \* of the sweep in progress
    from_block,     \* the sweep's anchor: current_head or oldest_block
    blocks,         \* the batch gather_with_concurrency returned
    ends            \* fetch_blocks' _blocks, of which only the ends are used

chain == <<top>>
durable == <<stored_state, indexed>>
sweep == <<direction, from_block, blocks, ends>>
vars == <<top, stored_state, indexed, crashes, pc, fetcher_state,
          pending_blocks, direction, from_block, blocks, ends>>

Window == [recent_block : Nat \cup {NoBlock}, oldest_block : Nat \cup {NoBlock}]
Blank == [recent_block |-> NoBlock, oldest_block |-> NoBlock]

\* A list of blocks: its first, its last, and the set of all of them.
NoBatch == [first |-> NoBlock, last |-> NoBlock, levels |-> {}]
NoEnds == [first |-> NoBlock, last |-> NoBlock]

TypeOK ==
    /\ top \in 0..MaxLevel
    /\ stored_state \in Window /\ fetcher_state \in Window
    /\ indexed \in SUBSET Nat
    /\ crashes \in 0..MaxCrashes
    /\ pc \in {"down", "idle", "head", "fetch", "execute", "commit"}
    /\ pending_blocks \in Nat
    /\ direction \in {"none", "forward", "backward"}
    /\ from_block \in Nat \cup {NoBlock}
    /\ blocks \in [first : Nat \cup {NoBlock}, last : Nat \cup {NoBlock},
                   levels : SUBSET Nat]
    /\ ends \in [first : Nat \cup {NoBlock}, last : Nat \cup {NoBlock}]

\* Indexer.batch_size: one more than the configured size.
batch_size == BatchSize + 1

AtRest ==
    /\ direction = "none" /\ from_block = NoBlock
    /\ blocks = NoBatch /\ ends = NoEnds

Init ==
    /\ top = StartLevel
    /\ stored_state = Blank
    /\ indexed = {}
    /\ crashes = 0
    /\ pc = "idle"
    /\ fetcher_state = Blank
    /\ pending_blocks = 0
    /\ AtRest

-----------------------------------------------------------------------------
(* How run moves from one sweep to the next.                               *)

\* The sweep's locals go out of scope.
LeaveSweep ==
    /\ direction' = "none" /\ from_block' = NoBlock
    /\ blocks' = NoBatch /\ ends' = NoEnds

\* return from run with the counter reset for the next one.
EndRun ==
    /\ pc' = "idle"
    /\ pending_blocks' = 0
    /\ LeaveSweep

\* Enter fetch_blocks(from, dir) with n blocks pending.
EnterSweep(dir, from, n) ==
    /\ pc' = "fetch"
    /\ pending_blocks' = n
    /\ direction' = dir
    /\ from_block' = from
    /\ blocks' = NoBatch
    /\ ends' = NoEnds

\* Blocks the forward sweep fetches below a head at this level: down to and
\* including the recent block, or one batch when the index is empty.
ForwardBlocks_SkipsRecent(level) ==
    IF NoBlock \in {fetcher_state.recent_block, fetcher_state.oldest_block}
    THEN batch_size ELSE level - fetcher_state.recent_block - 1
ForwardBlocks(level) ==
    IF NoBlock \in {fetcher_state.recent_block, fetcher_state.oldest_block}
    THEN batch_size ELSE level - fetcher_state.recent_block

\* Blocks the backward sweep fetches below the oldest block: never past level 0.
BackwardBlocks_Unclamped(oldest) == batch_size
BackwardBlocks_WholeBatches(oldest) == IF oldest < batch_size THEN 0 ELSE batch_size
BackwardBlocks(oldest) == IF oldest < batch_size THEN oldest ELSE batch_size

\* The rest of run once the forward sweep is over and oldest is known.
StartBackward(oldest) ==
    \/ /\ oldest <= UntilBlock \/ BackwardBlocks(oldest) <= 0
       /\ EndRun
    \/ /\ oldest > UntilBlock /\ BackwardBlocks(oldest) > 0
       /\ EnterSweep("backward", oldest, BackwardBlocks(oldest))

-----------------------------------------------------------------------------
(* The batches of a sweep.                                                 *)

\* _fetch_blocks stops at the limit, or one block after batch_size.
BatchLength ==
    IF pending_blocks > batch_size + 1 THEN batch_size + 1 ELSE pending_blocks

\* The levels asked for in the next batch.  A forward sweep takes the indexes
\* below the anchor in decreasing order, so that its batches join up.
Requested_NotReversed == (from_block - BatchLength)..(from_block - 1)
Requested ==
    IF direction = "forward"
    THEN (from_block - pending_blocks)..(from_block - pending_blocks + BatchLength - 1)
    ELSE (from_block - BatchLength)..(from_block - 1)

\* The list handed to execute: a forward batch starts with the anchor itself.
NextBatch ==
    IF direction = "forward"
    THEN [first |-> from_block,
          last |-> from_block - pending_blocks + BatchLength - 1,
          levels |-> Requested \cup {from_block}]
    ELSE [first |-> from_block - 1,
          last |-> from_block - BatchLength,
          levels |-> Requested]

\* Levels the RPC endpoint can serve, and those it may answer for "head".
Served == 0..top
ServedHeads == {level \in Served : level >= top - MaxLag}

\* update_fetcher_state, in memory and in the store: None leaves a field alone.
WithBlocks(state, recent, oldest) ==
    [recent_block |-> IF recent = NoBlock THEN state.recent_block ELSE recent,
     oldest_block |-> IF oldest = NoBlock THEN state.oldest_block ELSE oldest]
UpdatedMemory(recent, oldest) == WithBlocks(fetcher_state, recent, oldest)
UpdatedStore_RecentOnly(recent, oldest) == WithBlocks(stored_state, recent, NoBlock)
UpdatedStore(recent, oldest) == WithBlocks(stored_state, recent, oldest)

\* The oldest block a forward sweep reports: only the first one reports any.
OldestReported_Always == ends.last
OldestReported ==
    IF fetcher_state.oldest_block = NoBlock THEN ends.last ELSE NoBlock

-----------------------------------------------------------------------------
(* The actions of the indexer: each ends where the coroutine is suspended, *)
(* or where a crash makes a difference.                                    *)

\* setInterval calls _run: run reloads the state it has lost and asks for the head.
BeginRun ==
    /\ pc = "idle"
    /\ fetcher_state' = IF fetcher_state.recent_block = NoBlock
                        THEN stored_state ELSE fetcher_state
    /\ pc' = "head"
    /\ UNCHANGED <<chain, durable, crashes, pending_blocks, sweep>>

\* The head arrives: sweep forward below it, or go straight to the backward
\* sweep when it is not above the recent block.
HeadArrives(level) ==
    /\ pc = "head"
    /\ \/ /\ ForwardBlocks(level) > 0
          /\ EnterSweep("forward", level, ForwardBlocks(level))
       \/ /\ ForwardBlocks(level) <= 0
          /\ StartBackward(fetcher_state.oldest_block)
    /\ UNCHANGED <<chain, durable, crashes, fetcher_state>>

\* A whole batch arrives, in the order it was asked for.
FetchBatch ==
    /\ pc = "fetch"
    /\ Requested \subseteq Served
    /\ blocks' = NextBatch
    /\ pending_blocks' = pending_blocks - BatchLength
    /\ pc' = "execute"
    /\ UNCHANGED <<chain, durable, crashes, fetcher_state, direction, from_block, ends>>

\* execute saves the batch's objects; the ends of the first batch are kept.
Execute ==
    /\ pc = "execute"
    /\ indexed' = indexed \cup blocks.levels
    /\ ends' = IF ends = NoEnds
               THEN [first |-> blocks.first, last |-> blocks.last] ELSE ends
    /\ blocks' = NoBatch
    /\ pc' = IF pending_blocks > 0 THEN "fetch" ELSE "commit"
    /\ UNCHANGED <<chain, stored_state, crashes, fetcher_state, pending_blocks,
                   direction, from_block>>

\* The end of forward_run, then on to the backward sweep.
CommitForward ==
    /\ pc = "commit" /\ direction = "forward"
    /\ fetcher_state' = UpdatedMemory(ends.first, OldestReported)
    /\ stored_state' = UpdatedStore(ends.first, OldestReported)
    /\ StartBackward(fetcher_state'.oldest_block)
    /\ UNCHANGED <<chain, indexed, crashes>>

\* The end of backward_run, and of run.
CommitBackward ==
    /\ pc = "commit" /\ direction = "backward"
    /\ fetcher_state' = UpdatedMemory(NoBlock, ends.last)
    /\ stored_state' = UpdatedStore(NoBlock, ends.last)
    /\ EndRun
    /\ UNCHANGED <<chain, indexed, crashes>>

\* The process ends: all that is not in a database is lost.
LoseMemory ==
    /\ pc' = "down"
    /\ fetcher_state' = Blank
    /\ pending_blocks' = 0
    /\ LeaveSweep
    /\ UNCHANGED <<chain, durable>>

\* A block the chain does not have: get_json gives up, run raises, shutdown exits.
FetchRefused ==
    /\ pc = "fetch"
    /\ ~(Requested \subseteq Served)
    /\ LoseMemory
    /\ UNCHANGED crashes

\* Any other death: an RPC that fails ten times, /application/__force_exit, a kill.
Die ==
    /\ pc # "down"
    /\ crashes < MaxCrashes
    /\ crashes' = crashes + 1
    /\ LoseMemory

-----------------------------------------------------------------------------
(* The environment: the chain, and whoever starts the process again.       *)

Bake ==
    /\ top < MaxLevel
    /\ top' = top + 1
    /\ UNCHANGED <<durable, crashes, pc, fetcher_state, pending_blocks, sweep>>

Restart ==
    /\ pc = "down"
    /\ pc' = "idle"
    /\ UNCHANGED <<chain, durable, crashes, fetcher_state, pending_blocks, sweep>>

SomeHeadArrives == \E level \in ServedHeads : HeadArrives(level)

Next ==
    \/ BeginRun
    \/ SomeHeadArrives
    \/ FetchBatch
    \/ Execute
    \/ CommitForward
    \/ CommitBackward
    \/ FetchRefused
    \/ Die
    \/ Bake
    \/ Restart

Spec == Init /\ [][Next]_vars

\* The event loop runs every coroutine that can run, RPC answers arrive, the
\* chain grows, and a stopped process is started again.
Fairness ==
    /\ WF_vars(BeginRun) /\ WF_vars(SomeHeadArrives)
    /\ WF_vars(FetchBatch) /\ WF_vars(FetchRefused)
    /\ WF_vars(Execute) /\ WF_vars(CommitForward) /\ WF_vars(CommitBackward)
    /\ WF_vars(Bake) /\ WF_vars(Restart)

FairSpec == Spec /\ Fairness

-----------------------------------------------------------------------------
(* What resolve_index_status tells a client from the stored state.         *)

\* The clock that turns "synced" into "down" is left out.
IndexStatus_OffByOne ==
    IF stored_state.oldest_block <= UntilBlock + 1 \/ stored_state.oldest_block = 0
    THEN "synced" ELSE "in_progress"
IndexStatus ==
    IF stored_state.oldest_block <= UntilBlock \/ stored_state.oldest_block = 0
    THEN "synced" ELSE "in_progress"

-----------------------------------------------------------------------------
(* Safety.                                                                 *)

HasWindow(state) == state.recent_block # NoBlock

\* "avoid holes" (indexer.py:84): every level between the stored oldest and
\* recent blocks has been executed, whatever batches the sweeps were cut into,
\* wherever the process died and however the head it was served moved.
NoHoles ==
    HasWindow(stored_state) =>
        stored_state.oldest_block..stored_state.recent_block \subseteq indexed

\* The state in memory is the stored one, or has yet to be loaded: update_fetcher_state
\* writes the two separately and a restart loses only one.
MemoryMirrorsStore == fetcher_state \in {stored_state, Blank}

\* A backward sweep never asks for a level the chain does not have, even when
\* fewer than batch_size levels are left below the oldest block.
BackwardStaysOnChain ==
    pc = "fetch" /\ direction = "backward" => Requested \subseteq Served

\* index_status says "synced" only of a database that holds every level from
\* until_block (or the genesis block) up to the recent block.
SyncedIsComplete ==
    HasWindow(stored_state) /\ IndexStatus = "synced" =>
        \A level \in 0..stored_state.recent_block :
            level >= UntilBlock => level \in indexed

\* The stored window never shrinks: no lagging head takes recent_block back, no
\* later forward sweep takes oldest_block forward again.
WindowGrows ==
    HasWindow(stored_state) =>
        /\ HasWindow(stored_state')
        /\ stored_state'.recent_block >= stored_state.recent_block
        /\ stored_state'.oldest_block <= stored_state.oldest_block
WindowOnlyGrows == [][WindowGrows]_vars

\* Crawl implements the window its readers are promised.
Promise == INSTANCE IndexWindow WITH
    recent <- stored_state.recent_block,
    oldest <- stored_state.oldest_block
ImplementsPromise == Promise!Spec

-----------------------------------------------------------------------------
(* Liveness, when answers do not lag (MaxLag = 0) and deaths are finite.   *)

\* The backward crawl gets to until_block, or to the genesis block.
EventuallySynced == <>[](HasWindow(stored_state) /\ IndexStatus = "synced")

\* The recent block catches up with every head the chain has had.
HeadIsFollowed ==
    \A level \in 0..MaxLevel :
        (top >= level) ~> (HasWindow(stored_state) /\ stored_state.recent_block >= level)

-----------------------------------------------------------------------------
(* The inductive invariant behind NoHoles: what each suspension point of a *)
(* sweep has already fetched and executed.                                 *)

\* In a sweep the state in memory is the stored one; both blocks are known or neither.
StateInv ==
    /\ MemoryMirrorsStore
    /\ pc \notin {"idle", "down"} => fetcher_state = stored_state
    /\ stored_state.recent_block = NoBlock <=> stored_state.oldest_block = NoBlock
    /\ HasWindow(stored_state) =>
           /\ stored_state.oldest_block <= stored_state.recent_block
           /\ stored_state.recent_block <= top

\* Between sweeps nothing is pending ("reset counter for next run"); in one,
\* the counter says which point of it is reached.
PendingInv ==
    /\ pc \in {"idle", "down", "head"} => pending_blocks = 0 /\ AtRest
    /\ pc \in {"fetch", "execute", "commit"} =>
           direction \in {"forward", "backward"} /\ from_block \in 0..top
    /\ pc = "fetch" => pending_blocks > 0
    /\ pc = "commit" => pending_blocks = 0 /\ ends # NoEnds

\* Levels fetched in this sweep that execute has not saved yet.
InFlight == IF pc = "execute" THEN blocks.levels ELSE {}

\* A sweep up from a known recent block has everything from there to its cursor.
ForwardInv ==
    direction = "forward" /\ HasWindow(stored_state) =>
        /\ from_block > stored_state.recent_block
        /\ pending_blocks <= from_block - stored_state.recent_block
        /\ stored_state.recent_block..(from_block - pending_blocks - 1)
               \subseteq indexed \cup InFlight

\* The sweep that opens the index is one batch, and reports its last block.
OpeningInv ==
    direction = "forward" /\ ~HasWindow(stored_state) =>
        /\ pc = "fetch" => pending_blocks = batch_size /\ ends = NoEnds
        /\ pc = "execute" =>
               /\ pending_blocks = 0 /\ ends = NoEnds /\ from_block > 0
               /\ blocks.last = from_block - 1 /\ blocks.last \in blocks.levels
        /\ pc = "commit" =>
               from_block > 0 /\ ends.last = from_block - 1 /\ ends.last \in indexed

\* The anchor of a forward sweep is in every batch, and first in it.
AnchorInv ==
    direction = "forward" =>
        /\ pc = "execute" => blocks.first = from_block /\ from_block \in blocks.levels
        /\ ends # NoEnds => ends.first = from_block /\ from_block \in indexed

\* A backward sweep is one batch, anchored at the stored oldest block.
BackwardInv ==
    direction = "backward" =>
        /\ HasWindow(stored_state) /\ from_block = stored_state.oldest_block
        /\ pc = "fetch" =>
               pending_blocks <= batch_size /\ pending_blocks <= from_block /\ ends = NoEnds
        /\ pc = "execute" =>
               /\ pending_blocks = 0 /\ ends = NoEnds
               /\ blocks.last \in 0..(from_block - 1)
               /\ blocks.levels = blocks.last..(from_block - 1)
        /\ pc = "commit" =>
               /\ ends.last \in 0..(from_block - 1)
               /\ ends.last..(from_block - 1) \subseteq indexed

CrawlInv ==
    /\ TypeOK /\ NoHoles
    /\ StateInv /\ PendingInv
    /\ ForwardInv /\ OpeningInv /\ AnchorInv /\ BackwardInv
=============================================================================

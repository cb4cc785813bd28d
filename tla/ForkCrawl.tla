----------------------------- MODULE ForkCrawl -----------------------------
(***************************************************************************)
(* The crawl of Crawl.tla on a chain that forks.  A level now has versions: *)
(* a reorganisation replaces the last blocks of the branch by others of the *)
(* same levels, and the endpoint serves the branch of the moment.  The     *)
(* indexer asks for levels, block by block, and looks at no block's        *)
(* predecessor; what it has executed is a set of blocks of several         *)
(* branches.  Every step is a step of Crawl together with what it does to  *)
(* the blocks themselves, so that ForkSpec implements Crawl's Spec.        *)
(***************************************************************************)
EXTENDS Crawl

CONSTANTS
    MaxReorgs,      \* bound: reorganisations
    MaxDepth        \* bound: blocks one reorganisation replaces

ASSUME ReorgAssumption == MaxReorgs \in Nat /\ MaxDepth \in Nat

VARIABLES
    branch,     \* version of each level's block on the branch of the moment
    reorgs,     \* reorganisations so far: also the newest version
    anchor,     \* version of current_head, the head this sweep started from
    hand,       \* blocks of the current batch that have arrived
    saved,      \* blocks execute has handed to the stores
    deep        \* levels at which a block that had a successor was replaced

forks == <<branch, reorgs, deep>>
fork_vars == <<vars, branch, reorgs, anchor, hand, saved, deep>>

Blocks == Nat \X Nat
BlockAt(level) == <<level, branch[level]>>
LevelsOf(bs) == {b[1] : b \in bs}

ForkTypeOK ==
    /\ branch \in [0..MaxLevel -> Nat]
    /\ reorgs \in 0..MaxReorgs
    /\ anchor \in Nat
    /\ hand \subseteq Blocks /\ saved \subseteq Blocks
    /\ deep \subseteq 0..MaxLevel

ForkInit ==
    /\ Init
    /\ branch = [level \in 0..MaxLevel |-> 0]
    /\ reorgs = 0 /\ anchor = 0
    /\ hand = {} /\ saved = {} /\ deep = {}

-----------------------------------------------------------------------------
(* The steps of the crawl, with the blocks they handle.                    *)

\* get_block('head') returns the branch's block of that level; a forward sweep
\* keeps it as its anchor, a backward one only uses the level of its own.
ForkHeadArrives ==
    /\ SomeHeadArrives
    /\ anchor' = IF direction' = "forward" THEN branch[from_block'] ELSE anchor
    /\ hand' = {}
    /\ UNCHANGED <<forks, saved>>

\* One get_block(level) of the batch is answered, in any order.
BlockArrives(level) ==
    /\ pc = "fetch"
    /\ level \in (Requested \cap Served) \ LevelsOf(hand)
    /\ hand' = hand \cup {BlockAt(level)}
    /\ UNCHANGED <<vars, forks, anchor, saved>>

\* blocks.insert(0, from_block): the anchor is handed over as it was then.
WithAnchor == IF direction = "forward" THEN {<<from_block, anchor>>} ELSE {}

\* The last of the batch is there.
ForkFetchBatch ==
    /\ FetchBatch
    /\ LevelsOf(hand) = Requested
    /\ hand' = hand \cup WithAnchor
    /\ UNCHANGED <<forks, anchor, saved>>

ForkExecute ==
    /\ Execute
    /\ saved' = saved \cup hand
    /\ hand' = {}
    /\ UNCHANGED <<forks, anchor>>

\* The sweep or the process ends, and with it the blocks it holds.
ForkCommit ==
    /\ CommitForward \/ CommitBackward
    /\ UNCHANGED <<forks, anchor, hand, saved>>

ForkDies ==
    /\ FetchRefused \/ Die
    /\ hand' = {}
    /\ UNCHANGED <<forks, anchor, saved>>

ForkOther ==
    /\ BeginRun \/ Bake \/ Restart
    /\ UNCHANGED <<forks, anchor, hand, saved>>

\* The chain switches to a branch that parts depth blocks below the head: the
\* head alone is replaced when depth is 1.
Reorg(depth) ==
    /\ reorgs < MaxReorgs /\ depth <= top
    /\ reorgs' = reorgs + 1
    /\ branch' = [level \in 0..MaxLevel |->
                     IF level > top - depth /\ level <= top THEN reorgs + 1 ELSE branch[level]]
    /\ deep' = deep \cup (top - depth + 1)..(top - 1)
    /\ UNCHANGED <<vars, anchor, hand, saved>>

ForkNext ==
    \/ ForkHeadArrives
    \/ \E level \in 0..MaxLevel : BlockArrives(level)
    \/ ForkFetchBatch
    \/ ForkExecute
    \/ ForkCommit
    \/ ForkDies
    \/ ForkOther
    \/ \E depth \in 1..MaxDepth : Reorg(depth)

ForkSpec == ForkInit /\ [][ForkNext]_fork_vars

\* As in Crawl: what can run runs, every answer comes, the chain grows, a stopped
\* process is started again.  Reorganisations and deaths are owed to nobody.
ForkFairness ==
    /\ WF_fork_vars(BeginRun /\ ForkOther) /\ WF_fork_vars(ForkHeadArrives)
    /\ \A level \in 0..MaxLevel : WF_fork_vars(BlockArrives(level))
    /\ WF_fork_vars(ForkFetchBatch) /\ WF_fork_vars(ForkExecute) /\ WF_fork_vars(ForkCommit)
    /\ WF_fork_vars(FetchRefused /\ ForkDies)
    /\ WF_fork_vars(Bake /\ ForkOther) /\ WF_fork_vars(Restart /\ ForkOther)

ForkFairSpec == ForkSpec /\ ForkFairness

-----------------------------------------------------------------------------
(* Properties.                                                             *)

\* The level's block of the branch of the moment has been executed, or the level is
\* one a reorganisation went below.
Covered(level) == BlockAt(level) \in saved \/ level \in deep

\* A reorganisation of the head alone is always made good: below the stored recent
\* block, the index misses a block of the current branch only where a block that
\* already had a successor was replaced, wherever in a sweep that happened.  The
\* forward sweep fetches the recent level again for that (indexer.py:32, 86).
HolesAreDeepForks ==
    HasWindow(stored_state) =>
        \A level \in stored_state.oldest_block..(stored_state.recent_block - 1) : Covered(level)

\* With finitely many reorganisations and deaths the index ends up with every block of
\* the final branch below the head, but for the levels of deep reorganisations: neither
\* a stale anchor nor a batch that mixes two branches is left in its place.
BranchIsIndexed ==
    <>[](\A level \in 0..(MaxLevel - 1) : level >= UntilBlock => Covered(level))

-----------------------------------------------------------------------------
(* The inductive invariant behind HolesAreDeepForks: Crawl's, read for     *)
(* blocks instead of levels.                                               *)

\* Covered, counting the blocks of a batch that is about to be executed.
Secured(level) == Covered(level) \/ (pc = "execute" /\ BlockAt(level) \in hand)

\* What has arrived of a batch was asked for, and is still on the branch unless a
\* reorganisation went below it: a batch lies below a block of the chain.
HandInv ==
    /\ pc \notin {"fetch", "execute"} => hand = {}
    /\ pc = "fetch" => \A b \in hand :
           b[1] \in Requested /\ (b = BlockAt(b[1]) \/ b[1] \in deep)

\* A sweep up from a known recent block has secured all below its cursor.
ForwardForkInv ==
    direction = "forward" /\ HasWindow(stored_state) =>
        \A level \in stored_state.recent_block..(from_block - pending_blocks - 1) : Secured(level)

\* The sweep that opens the index, and a backward sweep, have secured what they report.
ReportForkInv ==
    /\ direction = "forward" /\ ~HasWindow(stored_state) /\ pc \in {"execute", "commit"} =>
           Secured(from_block - 1)
    /\ direction = "backward" /\ pc = "execute" =>
           \A level \in blocks.levels : Secured(level)
    /\ direction = "backward" /\ pc = "commit" =>
           \A level \in ends.last..(from_block - 1) : Secured(level)

ForkInv ==
    /\ ForkTypeOK /\ HandInv
    /\ ForwardForkInv /\ ReportForkInv
    /\ HolesAreDeepForks
=============================================================================

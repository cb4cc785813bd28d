-------------------------- MODULE ForkCrawlProofs --------------------------
(***************************************************************************)
(* Proofs about ForkCrawl, for any number and depth of reorganisations:    *)
(* the crawl of blocks implements the crawl of levels, whose invariant it  *)
(* inherits, and below the recent block only deep forks leave holes.       *)
(***************************************************************************)
EXTENDS ForkCrawl, CrawlProofs

USE BatchSizeAssumption, UntilBlockAssumption, ChainAssumption, CrashAssumption,
    NoBlockAssumption, ReorgAssumption

\* Every step of the crawl of blocks is a step of the crawl of levels, or leaves it alone.
LEMMA ForkStepIsCrawlStep == [ForkNext]_fork_vars => [Next]_vars
<1> SUFFICES ASSUME [ForkNext]_fork_vars PROVE [Next]_vars
    OBVIOUS
<1>1. CASE ForkHeadArrives \/ ForkFetchBatch \/ ForkExecute
    BY <1>1 DEF ForkHeadArrives, ForkFetchBatch, ForkExecute, Next
<1>2. CASE ForkCommit \/ ForkDies \/ ForkOther
    BY <1>2 DEF ForkCommit, ForkDies, ForkOther, Next
<1>3. CASE \E level \in 0..MaxLevel : BlockArrives(level)
    BY <1>3 DEF BlockArrives
<1>4. CASE \E depth \in 1..MaxDepth : Reorg(depth)
    BY <1>4 DEF Reorg
<1>5. CASE UNCHANGED fork_vars
    BY <1>5 DEF fork_vars
<1>6. QED
    BY <1>1, <1>2, <1>3, <1>4, <1>5 DEF ForkNext

\* The crawl of a chain that forks implements the crawl of one that does not: what is
\* proved of levels holds of it.
THEOREM ForksImplementCrawl == ForkSpec => Spec
<1>1. ForkInit => Init
    BY DEF ForkInit
<1>2. QED
    BY <1>1, ForkStepIsCrawlStep, PTL DEF ForkSpec, Spec

-----------------------------------------------------------------------------
(* How blocks stay covered.                                                *)

\* The initial state holds no block at all.
LEMMA ForkInitEstablishes == ForkInit => ForkInv
<1> SUFFICES ASSUME ForkInit PROVE ForkInv
    OBVIOUS
<1> USE DEF ForkInit, Init, AtRest, Blank
<1>1. ForkTypeOK
    BY DEF ForkTypeOK
<1>2. HandInv /\ ForwardForkInv /\ ReportForkInv /\ HolesAreDeepForks
    BY DEF HandInv, ForwardForkInv, ReportForkInv, HolesAreDeepForks, HasWindow
<1>3. QED
    BY <1>1, <1>2 DEF ForkInv

\* Where no block changes and nothing leaves the store or the list of deep forks,
\* covered levels stay covered.
LEMMA CoveredStays ==
    ASSUME NEW level, Covered(level), branch' = branch, saved \subseteq saved', deep \subseteq deep'
    PROVE  Covered(level)'
BY DEF Covered, BlockAt

\* A reorganisation leaves what is below the head's level as it was, or lists it.
LEMMA ReorgSpares ==
    ASSUME CrawlInv, ForkInv, NEW depth \in 1..MaxDepth, Reorg(depth), NEW level \in 0..(top - 1)
    PROVE  BlockAt(level)' = BlockAt(level) \/ level \in deep'
<1>0. top \in 0..MaxLevel
    BY DEF CrawlInv, TypeOK
<1>1. top \in Nat /\ MaxLevel \in Nat /\ depth \in Nat /\ level \in 0..MaxLevel
    BY <1>0
<1>2. CASE level > top - depth
    <2>1. level \in (top - depth + 1)..(top - 1)
        BY <1>1, <1>2
    <2>2. QED
        BY <2>1 DEF Reorg
<1>3. CASE ~(level > top - depth)
    BY <1>1, <1>3 DEF Reorg, BlockAt
<1>4. QED
    BY <1>2, <1>3

\* The window's levels, and those of a sweep, are below the head.
LEMMA BelowHead ==
    ASSUME CrawlInv
    PROVE  /\ top \in Nat /\ top <= MaxLevel
           /\ HasWindow(stored_state) =>
                /\ stored_state.recent_block \in Nat /\ stored_state.oldest_block \in Nat
                /\ stored_state.recent_block <= top
           /\ pc \in {"fetch", "execute", "commit"} =>
                from_block \in Nat /\ from_block <= top /\ pending_blocks \in Nat
           /\ pc \notin {"fetch", "execute", "commit"} => direction = "none"
BY DEF CrawlInv, TypeOK, StateInv, PendingInv, HasWindow, Window, AtRest

\* The levels a batch asks for are below the sweep's anchor.
LEMMA RequestedBelowAnchor ==
    ASSUME CrawlInv, pc = "fetch", NEW level \in Requested
    PROVE  level < from_block
<1>1. from_block \in Nat /\ pending_blocks \in Nat /\ pending_blocks > 0
    BY DEF CrawlInv, TypeOK, PendingInv
<1>2. BatchLength \in Nat /\ BatchLength <= pending_blocks
    BY <1>1 DEF BatchLength, batch_size
<1>3. QED
    BY <1>1, <1>2 DEF Requested

-----------------------------------------------------------------------------
(* One lemma per action.                                                   *)

\* A forward sweep starts at the recent block, with nothing below its cursor to secure.
LEMMA HeadPreserves == CrawlInv /\ ForkInv /\ CrawlInv' /\ ForkHeadArrives => ForkInv'
<1> SUFFICES ASSUME CrawlInv, ForkInv, CrawlInv', ForkHeadArrives PROVE ForkInv'
    OBVIOUS
<1> PICK level \in ServedHeads : HeadArrives(level)
    BY DEF ForkHeadArrives, SomeHeadArrives
<1> USE DEF ForkHeadArrives, forks
<1>1. /\ stored_state' = stored_state /\ hand' = {}
      /\ fetcher_state = stored_state /\ top \in Nat /\ level \in 0..top
    BY DEF HeadArrives, durable, CrawlInv, StateInv, ServedHeads, Served, TypeOK
<1>2. \/ /\ pc' = "fetch" /\ direction' = "forward" /\ from_block' = level
         /\ pending_blocks' = ForwardBlocks(level)
      \/ pc' \in {"fetch", "idle"} /\ direction' # "forward"
    BY DEF HeadArrives, EnterSweep, StartBackward, EndRun, LeaveSweep
<1>3. ForkTypeOK'
    <2>1. direction' = "forward" => from_block' \in 0..MaxLevel
        BY <1>1, <1>2 DEF CrawlInv, TypeOK
    <2>2. QED
        BY <1>1, <2>1 DEF ForkInv, ForkTypeOK
<1>4. HandInv'
    BY <1>1 DEF HandInv
<1>5. ForwardForkInv'
    <2> SUFFICES ASSUME direction' = "forward", HasWindow(stored_state)
                 PROVE  \A l \in stored_state.recent_block..(from_block' - pending_blocks' - 1) :
                            Secured(l)'
        BY <1>1 DEF ForwardForkInv
    <2>1. stored_state.recent_block \in Nat /\ stored_state.oldest_block \in Nat
        BY BelowHead
    <2>2. from_block' - pending_blocks' = stored_state.recent_block
        BY <1>1, <1>2, <2>1 DEF ForwardBlocks
    <2>3. QED
        BY <2>1, <2>2
<1>6. ReportForkInv'
    BY <1>2 DEF ReportForkInv
<1>7. HolesAreDeepForks'
    BY <1>1 DEF ForkInv, HolesAreDeepForks, Covered, BlockAt
<1>8. QED
    BY <1>3, <1>4, <1>5, <1>6, <1>7 DEF ForkInv

\* A block that arrives is the branch's.
LEMMA ArrivalPreserves ==
    ASSUME CrawlInv, ForkInv, NEW level \in 0..MaxLevel, BlockArrives(level)
    PROVE  ForkInv'
<1> USE DEF BlockArrives, forks, vars
<1>1. ForkTypeOK'
    BY DEF ForkInv, ForkTypeOK, Blocks, BlockAt
<1>2. HandInv'
    <2>1. Requested' = Requested
        BY DEF Requested, BatchLength
    <2>2. BlockAt(level)[1] = level
        BY DEF BlockAt
    <2>3. \A b \in hand' : b[1] \in Requested /\ (b = BlockAt(b[1]) \/ b[1] \in deep)
        BY <2>2 DEF ForkInv, HandInv
    <2>4. \A l : BlockAt(l)' = BlockAt(l)
        BY DEF BlockAt
    <2>5. QED
        BY <2>1, <2>3, <2>4 DEF HandInv
<1>3. ForwardForkInv' /\ ReportForkInv' /\ HolesAreDeepForks'
    BY DEF ForkInv, ForwardForkInv, ReportForkInv, HolesAreDeepForks, Secured, Covered, BlockAt
<1>4. QED
    BY <1>1, <1>2, <1>3 DEF ForkInv

\* A complete batch secures the levels it was asked for.
LEMMA BatchPreserves == CrawlInv /\ ForkInv /\ CrawlInv' /\ ForkFetchBatch => ForkInv'
<1> SUFFICES ASSUME CrawlInv, ForkInv, CrawlInv', ForkFetchBatch PROVE ForkInv'
    OBVIOUS
<1> USE DEF ForkFetchBatch, FetchBatch, forks
<1>1. /\ from_block \in Nat /\ from_block <= MaxLevel
      /\ pending_blocks \in Nat /\ pending_blocks > 0 /\ top \in Nat
    BY DEF CrawlInv, TypeOK, PendingInv
<1>2. /\ BatchLength \in Nat /\ BatchLength <= pending_blocks
      /\ pending_blocks <= batch_size => BatchLength = pending_blocks
    BY <1>1, OneBatch DEF BatchLength, batch_size
<1>3. ASSUME NEW level \in Requested PROVE Secured(level)'
    <2>1. PICK b \in hand : b[1] = level
        BY DEF LevelsOf
    <2>2. b = BlockAt(level) \/ level \in deep
        BY <2>1 DEF ForkInv, HandInv
    <2>3. QED
        BY <2>1, <2>2 DEF Secured, Covered, BlockAt
<1>4. ForkTypeOK'
    BY <1>1 DEF ForkInv, ForkTypeOK, WithAnchor, Blocks
<1>5. HandInv'
    BY DEF HandInv
<1>6. ForwardForkInv'
    <2> SUFFICES ASSUME direction = "forward", HasWindow(stored_state),
                        NEW l \in stored_state.recent_block..(from_block - pending_blocks' - 1)
                 PROVE  Secured(l)'
        BY DEF ForwardForkInv, durable
    <2>1. stored_state.recent_block \in Nat
        BY BelowHead
    <2>2. CASE l \in stored_state.recent_block..(from_block - pending_blocks - 1)
        BY <2>2 DEF ForkInv, ForwardForkInv, Secured, Covered, BlockAt
    <2>3. CASE l \in (from_block - pending_blocks)..(from_block - pending_blocks + BatchLength - 1)
        BY <1>3, <2>3 DEF Requested
    <2>4. QED
        BY <1>1, <1>2, <2>1, <2>2, <2>3
<1>7. ReportForkInv'
    <2>1. CASE direction = "forward"
        <3> SUFFICES ASSUME ~HasWindow(stored_state) PROVE Secured(from_block - 1)'
            BY <2>1 DEF ReportForkInv, durable
        <3>1. pending_blocks = batch_size
            BY <2>1 DEF CrawlInv, OpeningInv
        <3>2. from_block - 1 \in Requested
            BY <1>1, <1>2, <2>1, <3>1 DEF Requested, batch_size
        <3>3. QED
            BY <1>3, <3>2
    <2>2. CASE direction = "backward"
        BY <1>3, <2>2 DEF ReportForkInv, NextBatch
    <2>3. QED
        BY <2>1, <2>2 DEF ReportForkInv
<1>8. HolesAreDeepForks'
    BY DEF ForkInv, HolesAreDeepForks, Covered, BlockAt, durable
<1>9. QED
    BY <1>4, <1>5, <1>6, <1>7, <1>8 DEF ForkInv

\* execute turns what is secured into what is covered.
LEMMA ExecutionPreserves == CrawlInv /\ ForkInv /\ ForkExecute => ForkInv'
<1> SUFFICES ASSUME CrawlInv, ForkInv, ForkExecute PROVE ForkInv'
    OBVIOUS
<1> USE DEF ForkExecute, Execute, forks
<1>1. ASSUME NEW level, Secured(level) PROVE Secured(level)' /\ Covered(level)'
    BY <1>1 DEF Secured, Covered, BlockAt
<1>2. ForkTypeOK' /\ HandInv'
    BY DEF ForkInv, ForkTypeOK, HandInv
<1>3. ForwardForkInv'
    BY <1>1 DEF ForkInv, ForwardForkInv
<1>4. ReportForkInv'
    <2>1. CASE direction = "forward"
        BY <1>1, <2>1 DEF ForkInv, ReportForkInv
    <2>2. CASE direction = "backward"
        <3>1. ends' = [first |-> blocks.first, last |-> blocks.last]
              /\ blocks.levels = blocks.last..(from_block - 1)
            BY <2>2 DEF CrawlInv, BackwardInv
        <3>2. QED
            BY <1>1, <2>2, <3>1 DEF ForkInv, ReportForkInv
    <2>3. QED
        BY <2>1, <2>2 DEF ReportForkInv
<1>5. HolesAreDeepForks'
    BY <1>1 DEF ForkInv, HolesAreDeepForks, Secured
<1>6. QED
    BY <1>2, <1>3, <1>4, <1>5 DEF ForkInv

\* A commit publishes levels the sweep has covered.
LEMMA CommitPreserves == CrawlInv /\ ForkInv /\ ForkCommit => ForkInv'
<1> SUFFICES ASSUME CrawlInv, ForkInv, ForkCommit PROVE ForkInv'
    OBVIOUS
<1> USE DEF ForkCommit, forks
<1>1. /\ pc = "commit" /\ pending_blocks = 0 /\ from_block \in Nat
      /\ hand = {} /\ fetcher_state = stored_state
      /\ HasWindow(stored_state) =>
             stored_state.recent_block \in Nat /\ stored_state.oldest_block \in Nat
    BY BelowHead
    DEF CommitForward, CommitBackward, CrawlInv, PendingInv, StateInv, ForkInv, HandInv
<1>2. /\ direction' # "forward"
      /\ pc' \in {"idle", "fetch"}
    BY DEF CommitForward, CommitBackward, StartBackward, EnterSweep, EndRun, LeaveSweep
<1>3. \A level : Secured(level) = Covered(level) /\ Covered(level)' = Covered(level)
    BY <1>1 DEF Secured, Covered, BlockAt
<1>4. HolesAreDeepForks'
    <2> SUFFICES ASSUME NEW level \in stored_state'.oldest_block..(stored_state'.recent_block - 1),
                        HasWindow(stored_state')
                 PROVE  Covered(level)
        BY <1>3 DEF HolesAreDeepForks
    <2>1. CASE CommitForward /\ HasWindow(stored_state)
        <3>1. /\ stored_state'.recent_block = from_block
              /\ stored_state'.oldest_block = stored_state.oldest_block
              /\ from_block > stored_state.recent_block
            BY <1>1, <2>1
            DEF CommitForward, UpdatedStore, WithBlocks, OldestReported, CrawlInv, AnchorInv,
                PendingInv, ForwardInv, StateInv
        <3>2. CASE level \in stored_state.oldest_block..(stored_state.recent_block - 1)
            BY <2>1, <3>2 DEF ForkInv, HolesAreDeepForks
        <3>3. CASE level \in stored_state.recent_block..(from_block - 1)
            <4>1. level \in stored_state.recent_block..(from_block - pending_blocks - 1)
                BY <1>1, <3>3
            <4>2. QED
                BY <1>3, <2>1, <4>1 DEF ForkInv, ForwardForkInv, CommitForward
        <3>4. QED
            BY <1>1, <2>1, <3>1, <3>2, <3>3
    <2>2. CASE CommitForward /\ ~HasWindow(stored_state)
        <3>1. /\ stored_state'.recent_block = from_block
              /\ stored_state'.oldest_block = from_block - 1
            BY <1>1, <2>2
            DEF CommitForward, UpdatedStore, WithBlocks, OldestReported, CrawlInv, AnchorInv,
                PendingInv, OpeningInv, StateInv, HasWindow
        <3>2. level = from_block - 1
            BY <1>1, <3>1
        <3>3. QED
            BY <1>1, <1>3, <2>2, <3>2 DEF ForkInv, ReportForkInv, CommitForward
    <2>3. CASE CommitBackward
        <3>1. /\ HasWindow(stored_state) /\ from_block = stored_state.oldest_block
              /\ ends.last \in 0..(from_block - 1)
            BY <1>1, <2>3 DEF CommitBackward, CrawlInv, BackwardInv
        <3>2. /\ stored_state'.recent_block = stored_state.recent_block
              /\ stored_state'.oldest_block = ends.last
            BY <1>1, <2>3, <3>1 DEF CommitBackward, UpdatedStore, WithBlocks
        <3>3. CASE level \in ends.last..(from_block - 1)
            BY <1>1, <1>3, <2>3, <3>3 DEF ForkInv, ReportForkInv, CommitBackward
        <3>4. CASE level \in stored_state.oldest_block..(stored_state.recent_block - 1)
            BY <3>1, <3>4 DEF ForkInv, HolesAreDeepForks
        <3>5. QED
            BY <1>1, <3>1, <3>2, <3>3, <3>4
    <2>4. QED
        BY <2>1, <2>2, <2>3
<1>5. ForkTypeOK' /\ HandInv'
    BY <1>1 DEF ForkInv, ForkTypeOK, HandInv
<1>6. ForwardForkInv' /\ ReportForkInv'
    BY <1>2 DEF ForwardForkInv, ReportForkInv
<1>7. QED
    BY <1>4, <1>5, <1>6 DEF ForkInv

\* A death, a restart, a new head: no block and no window changes.
LEMMA QuietPreserves ==
    ASSUME CrawlInv, CrawlInv', ForkInv, ForkDies \/ ForkOther
    PROVE  ForkInv'
<1>1. /\ stored_state' = stored_state
      /\ UNCHANGED <<branch, reorgs, deep, anchor, saved>>
      /\ hand' = {} \/ hand' = hand
    BY DEF ForkDies, ForkOther, FetchRefused, Die, LoseMemory, BeginRun, Bake, Restart, forks,
           durable, chain, sweep
<1>2. \A level : Covered(level)' = Covered(level)
    BY <1>1 DEF Covered, BlockAt
<1>3. ForkTypeOK' /\ HolesAreDeepForks'
    BY <1>1, <1>2 DEF ForkInv, ForkTypeOK, HolesAreDeepForks
<1>4. CASE pc' \in {"down", "idle", "head"}
    <2>1. hand' = {}
        BY <1>4 DEF ForkDies, ForkOther, FetchRefused, Die, LoseMemory, BeginRun, Bake, Restart,
                    durable, chain, sweep, ForkInv, HandInv
    <2>2. direction' = "none"
        BY <1>4 DEF CrawlInv, PendingInv, AtRest
    <2>3. HandInv' /\ ForwardForkInv' /\ ReportForkInv'
        BY <2>1, <2>2 DEF HandInv, ForwardForkInv, ReportForkInv
    <2>4. QED
        BY <1>3, <2>3 DEF ForkInv
<1>5. CASE pc' \in {"fetch", "execute", "commit"}
    <2>1. UNCHANGED <<pc, direction, from_block, pending_blocks, blocks, ends, hand>>
        BY <1>5 DEF ForkDies, ForkOther, FetchRefused, Die, LoseMemory, BeginRun, Bake, Restart,
                    durable, sweep
    <2>2. \A level : Secured(level)' = Secured(level)
        BY <1>1, <1>2, <2>1 DEF Secured, BlockAt
    <2>3. Requested' = Requested /\ \A level : BlockAt(level)' = BlockAt(level)
        BY <1>1, <2>1 DEF Requested, BatchLength, BlockAt
    <2>4. HandInv'
        BY <1>1, <2>1, <2>3 DEF HandInv, ForkInv
    <2>5. ForwardForkInv' /\ ReportForkInv'
        BY <1>1, <2>1, <2>2 DEF ForwardForkInv, ReportForkInv, ForkInv
    <2>6. QED
        BY <1>3, <2>4, <2>5 DEF ForkInv
<1>6. QED
    BY <1>4, <1>5 DEF CrawlInv, TypeOK

\* A reorganisation changes covered levels only below the head's, and lists those.
LEMMA ReorgPreserves ==
    ASSUME CrawlInv, ForkInv, NEW depth \in 1..MaxDepth, Reorg(depth)
    PROVE  ForkInv'
<1> USE DEF Reorg, vars
<1>1. top \in Nat /\ top <= MaxLevel /\ depth \in Nat /\ MaxLevel \in Nat
    BY DEF CrawlInv, TypeOK
<1>2. ASSUME NEW level \in Nat, level < top
      PROVE  /\ Covered(level) => Covered(level)'
             /\ Secured(level) => Secured(level)'
             /\ BlockAt(level)' = BlockAt(level) \/ level \in deep'
    <2>1. BlockAt(level)' = BlockAt(level) \/ level \in deep'
        BY <1>1, <1>2, ReorgSpares
    <2>2. QED
        BY <2>1 DEF Covered, Secured
<1>3. ForkTypeOK'
    <2>1. branch' \in [0..MaxLevel -> Nat] /\ reorgs' \in 0..MaxReorgs
        BY DEF ForkInv, ForkTypeOK
    <2>2. deep' \subseteq 0..MaxLevel
        BY <1>1 DEF ForkInv, ForkTypeOK
    <2>3. QED
        BY <2>1, <2>2 DEF ForkInv, ForkTypeOK
<1>4. HandInv'
    <2>1. Requested' = Requested
        BY DEF Requested, BatchLength
    <2>2. ASSUME pc = "fetch", NEW b \in hand
          PROVE  b[1] \in Requested /\ (b = BlockAt(b[1])' \/ b[1] \in deep')
        <3>1. b[1] \in Requested /\ (b = BlockAt(b[1]) \/ b[1] \in deep)
            BY <2>2 DEF ForkInv, HandInv
        <3>2. b[1] \in Nat /\ from_block \in Nat /\ from_block <= top /\ b[1] < from_block
            BY <2>2, <3>1, RequestedBelowAnchor, BelowHead DEF ForkInv, ForkTypeOK, Blocks
        <3>3. BlockAt(b[1])' = BlockAt(b[1]) \/ b[1] \in deep'
            BY <1>1, <1>2, <3>2
        <3>4. QED
            BY <3>1, <3>3
    <2>3. QED
        BY <2>1, <2>2 DEF HandInv, ForkInv
<1>5. ForwardForkInv'
    <2> SUFFICES ASSUME direction = "forward", HasWindow(stored_state),
                        NEW level \in stored_state.recent_block..(from_block - pending_blocks - 1)
                 PROVE  Secured(level)'
        BY DEF ForwardForkInv
    <2>1. level \in Nat /\ level < top
        BY <1>1, BelowHead
    <2>2. QED
        BY <1>2, <2>1 DEF ForkInv, ForwardForkInv
<1>6. ReportForkInv'
    <2>1. CASE direction = "forward" /\ ~HasWindow(stored_state) /\ pc \in {"execute", "commit"}
        <3>1. from_block - 1 \in Nat /\ from_block - 1 < top
            BY <1>1, <2>1, BelowHead DEF CrawlInv, OpeningInv
        <3>2. QED
            BY <1>2, <2>1, <3>1 DEF ForkInv, ReportForkInv
    <2>2. CASE direction = "backward" /\ pc = "execute"
        <3>1. \A level \in blocks.levels : level \in Nat /\ level < top
            BY <1>1, <2>2, BelowHead DEF CrawlInv, BackwardInv
        <3>2. QED
            BY <1>2, <2>2, <3>1 DEF ForkInv, ReportForkInv
    <2>3. CASE direction = "backward" /\ pc = "commit"
        <3>1. \A level \in ends.last..(from_block - 1) : level \in Nat /\ level < top
            BY <1>1, <2>3, BelowHead DEF CrawlInv, BackwardInv
        <3>2. QED
            BY <1>2, <2>3, <3>1 DEF ForkInv, ReportForkInv
    <2>4. QED
        BY <2>1, <2>2, <2>3 DEF ReportForkInv
<1>7. HolesAreDeepForks'
    <2> SUFFICES ASSUME HasWindow(stored_state),
                        NEW level \in stored_state.oldest_block..(stored_state.recent_block - 1)
                 PROVE  Covered(level)'
        BY DEF HolesAreDeepForks
    <2>1. level \in Nat /\ level < top
        BY <1>1, BelowHead
    <2>2. QED
        BY <1>2, <2>1 DEF ForkInv, HolesAreDeepForks
<1>8. QED
    BY <1>3, <1>4, <1>5, <1>6, <1>7 DEF ForkInv

-----------------------------------------------------------------------------

\* ForkInv is inductive relative to CrawlInv, which the crawl of levels provides.
THEOREM ForkInvariance == ForkSpec => []ForkInv
<1>1. CrawlInv /\ CrawlInv' /\ ForkInv /\ [ForkNext]_fork_vars => ForkInv'
    <2> SUFFICES ASSUME CrawlInv, CrawlInv', ForkInv, [ForkNext]_fork_vars PROVE ForkInv'
        OBVIOUS
    <2>1. CASE ForkHeadArrives
        BY <2>1, HeadPreserves
    <2>2. CASE \E level \in 0..MaxLevel : BlockArrives(level)
        BY <2>2, ArrivalPreserves
    <2>3. CASE ForkFetchBatch
        BY <2>3, BatchPreserves
    <2>4. CASE ForkExecute
        BY <2>4, ExecutionPreserves
    <2>5. CASE ForkCommit
        BY <2>5, CommitPreserves
    <2>6. CASE ForkDies \/ ForkOther
        BY <2>6, QuietPreserves
    <2>7. CASE \E depth \in 1..MaxDepth : Reorg(depth)
        BY <2>7, ReorgPreserves
    <2>8. CASE UNCHANGED fork_vars
        BY <2>8
        DEF fork_vars, vars, ForkInv, ForkTypeOK, HandInv, ForwardForkInv, ReportForkInv,
            HolesAreDeepForks, Secured, Covered, BlockAt, Requested, BatchLength
    <2>9. QED
        BY <2>1, <2>2, <2>3, <2>4, <2>5, <2>6, <2>7, <2>8 DEF ForkNext
<1>2. ForkSpec => []CrawlInv
    BY ForksImplementCrawl, Invariance, PTL
<1>3. QED
    BY ForkInitEstablishes, <1>1, <1>2, PTL DEF ForkSpec

\* Reorganisations of the head alone leave no hole below the recent block.
THEOREM OnlyDeepForksLeaveHoles == ForkSpec => []HolesAreDeepForks
<1>1. ForkInv => HolesAreDeepForks
    BY DEF ForkInv
<1>2. QED
    BY ForkInvariance, <1>1, PTL
=============================================================================

# A TLA+ model of the Tezos event indexer

The indexer crawls a Tezos chain through an RPC endpoint, stores the events its contracts
emit and the balances of one token contract in LevelDB databases, checks what it stored
against a second endpoint, posts changed balances to aleph.im, and answers GraphQL queries.
This directory models its state machines in TLA+, checks them with TLC on small instances
and proves the main invariants with TLAPS for all values of their parameters.

Source paths below are relative to the repository: `src/indexer.py`, `run.py`, and so on.

## The system

Everything runs in one process and one asyncio event loop. `run.start` opens the databases,
waits for the aleph instance to be ready, rebuilds what a `reset_db` file asks for, and
starts `setInterval(5, _run)`. Each call of `Indexer.run` makes a forward and a backward
sweep. Two properties of the code shape all models:

- a coroutine can be interrupted by another only at an `await` that really suspends (an HTTP
  request, a sleep). `save_events` has awaits that never do, so it is atomic for the other
  tasks, but not for a crash;
- the process may stop at any moment (`/application/__force_exit`, an RPC request that failed
  ten times and ends in `shutdown`, a kill). Each database write survives by itself; nothing
  ties several of them together.

| component | source | state | operations |
|---|---|---|---|
| Crawl | `indexer.py` | `fetcher_state`, `pending_blocks`, `current_head`; `fetcherStateDB` | `run`, `forward_run`, `backward_run`, `batch_run`, `fetch_blocks`, `execute`, `update_fetcher_state` |
| Event store | `storage/event.py` | `eventDB`, `eventIndexDB`, `eventWildcardIndexDB`, `blockDB`, `indexingStatsDB` | `save_events`, `write_batch`, `write_index`, `write_blocks`, `do_stats`, `trust_event`, `untrust_event` |
| Verification tasks | `indexer.py`, `tezos/client.py` | one task per saved batch | `check_events`, `check_operation`, `get_operation` |
| Start, reset, rebuild | `run.py`, `indexer.py` | the `reset_db` file | `start`, `_reset` |
| Balances | `tezos/client.py`, `storage/event.py` | `tokenHolderDB`, `tokenHolderChangedDB` | `get_balances`, `save_balances`, `save_changed_balances` |
| Balance publication | `utils/aleph_balance_tracker.py` | none of its own | `monitor_process`, `update_balances` |
| Supervision | `run.py`, `utils/common.py` | `running` | `setInterval`, `_run`, `shutdown` |
| RPC client | `tezos/client.py` | retry counter | `get_json`, `get_block`, `get_operation` |
| Fetch pool | `utils/common.py` | a semaphore | `gather_with_concurrency` |
| Aleph instance readiness | `storage/common.py` | `instance` record, `event` | `check`, `initialize_handler`, `subscribe`, `update` |
| Replication | `storage/common.py` | `db_instance` | `Storage.__getattr__`, `on_db_event`, `pubsub_handler` |
| Queries | `graphql/server.py` | none | `resolve_events`, `resolve_index_status`, `resolve_stats` |

How they meet: the crawl hands each batch of blocks to `execute`, which passes it to the event
store and to the balances; the event store's return starts a verification task, which writes
marks back into the event store while the crawl goes on; the balances fill an outbox that the
publication empties; the supervisor restarts the crawl every five seconds and ends the process
when it raises; queries read all databases at any moment the event loop is free; in `server`
mode every `put` is also sent to replicas.

What makes each hard, and what correct means:

- **Crawl**: deaths between the batches of a sweep and between saving and committing, heads
  that lag, the two ends of the chain. *The stored window has no hole, only grows, reaches both
  ends; "synced" is only said of a complete database.*
- **Event store, verification, reset**: deaths between writes, forks that overwrite an event,
  check tasks that run while batches are saved, a wipe and rebuild that may itself die. *What
  is stored is findable, what was saved comes back, dangling index entries are repaired as long
  as the chain keeps their block, counters err only upwards, marks are earned.*
- **Balances and publication**: readings taken at a moving head, deaths between the table and
  its outbox, between a post and its deletion. blocks that move
  balances of accounts they do not name. *The table converges for every account the chain names,
  changes get posted but for exactly known losses, posts are current, the outbox drains.*
- **Fetch pool and RPC client**: tasks that hold their permit while they cool down, two kinds of
  failure of which one is counted, an exception that leaves the other tasks running. *Permits are
  never lost, only a block that failed on every try ends the process, every batch ends.*
- **Readiness**: configurations from an operator and from the environment, a subscription whose
  answer is lost, deaths inside the handler, an exception that ends the polling task. *Which ready
  instances lack a subscription is exactly known; what is ready starts.*
- **Replication**: writes that are not broadcast, broadcasts that are dropped, a death between
  broadcast and write. *A replica never shows an event without a verdict, and agrees with the
  server on every key whose last write got through.*
- **Queries**: index entries of other forks, entries without events, filters that refill pages.
  *Filtered answers are exactly the stored events asked for, the pages of a state miss nothing,
  queries fail only on a batch that is owed.*

## The modules

### Crawl (`Crawl.tla`, abstract `IndexWindow.tla`, proofs `CrawlProofs.tla`)

`pc` is the point where `Indexer.run` is suspended: waiting for the head, for a batch, between
a batch's arrival and the end of `execute`, between the last batch and `update_fetcher_state`.
`HeadArrives` computes `pending_blocks` (`ForwardBlocks`) and enters the forward sweep, or the
backward one (`StartBackward`, `BackwardBlocks`). `FetchBatch` asks for the levels `_fetch_blocks`
generates (`Requested`: a forward sweep from the lowest level up, "avoid holes") and `Execute`
stands for `Indexer.execute`. `CommitForward` and `CommitBackward` write `fetcher_state` in
memory and in the store. `FetchRefused` is a request for a block the chain does not have; `Die`
any other death; both lose the memory. A block is its level: this chain has no forks.

`IndexWindow` says what readers may rely on: a window of levels is published only when all of
it is indexed, and is only ever replaced by a larger one. `ImplementsPromise` is
`Promise!Spec` under the mapping `recent <- stored_state.recent_block`,
`oldest <- stored_state.oldest_block`.

### ForkCrawl (`ForkCrawl.tla`, proofs `ForkCrawlProofs.tla`)

Crawl once more, on blocks instead of levels. `branch` says which version of each level the
endpoint serves; `Reorg` replaces the last one or more of them. The blocks of a batch arrive one at
a time (`BlockArrives`), so a batch may mix two branches; a forward sweep hands its anchor over
as it was when the head arrived (`WithAnchor`). Every step is a step of `Crawl` together with what
it does to the blocks, which makes `ForkSpec => Spec` a theorem: whatever the chain does, no level
is skipped. Which *blocks* are missing is `HolesAreDeepForks`: the forward sweep asks for the recent
level again (`pending_blocks` reaches down to it), which makes good a fork of the head alone and no
deeper one. `deep` is a ghost: the levels at which a block that had a successor was replaced.

### FetchPool (`FetchPool.tla`, proofs `FetchPoolProofs.tla`)

One call of `gather_with_concurrency` over `get_block`s: `at` is where each task is suspended
(`queued` for the semaphore, `asking`, `cooling` for 10 s, `disconnected` for 120 s) or how it
ended. `retry` travels through the recursive calls of `get_json`; `Reconnect` hands it on as it
was. `Raise` is gather's first exception, after which the other tasks go on until `Shutdown`
cancels them.

### Readiness (`Readiness.tla`, instance `MCReadiness.tla`, proofs `ReadinessProofs.tla`)

`record` is what the database `__aleph_application` holds, `instance` its copy in memory. `Launch`
is `initialize_aleph_event_storage`, `CheckWakes` one turn of `check` and, beyond `PollLimit`, its
call of `load_default_config`, `Start` what `run.start` does after `on_ready`. `initialize_handler`
runs through `EnterHandler`, `PostAccepted` / `PostRefused` / `PostRaises`, `RecordSubscription` and
`SetReady`; it never suspends (`requests.post` blocks the loop), so only `Die` cuts it. A
configuration is its subscription (what `subscribe` hashes) and its mode. `accepted` and `unheard`
are ghosts: how often the pubsub server took a subscription, and how often the record missed it;
`excused` are the subscriptions a ready instance may lack, for one of three reasons.

### Replication (`Replication.tla`, proofs `ReplicationProofs.tla`)

A server, one replica and the messages between them (`flight`). `SaveBatch` is a write batch, which
`on_db_event` ignores; `Put` is the broadcast and `FinishPut` the write that follows it; `Deliver` is
the replica's `pubsub_handler`. `missed` is a ghost: keys whose last write did not get through.
`Restart` may wipe the event databases, `Switch` is a re-initialisation with another
`running_mode`, which broadcasting follows at once (while `start` looks at it only once).

### Query (`Query.tla` over `EventStore`, instance `MCQuery.tla`, proofs `QueryProofs.tla`)

The resolvers change nothing and never suspend, so they are operators of the state of `EventStore`,
evaluated in every state in which the event loop is free (`Served`). `Scan` is
`get_events_iterator`, `DirectAnswer` the early return of `resolve_events`, `FilteredAnswer` its loop,
batch by batch (`data[n]` is what it has kept after n batches, `last` the batch it ends with), `EventById`, `FirstEvent` and `TotalEvents` what `resolve_event` and
`resolve_stats` read. An entry without its event fails the query, as `None.decode()` does.

`Matching` is what a query asks for of the *stored* events, whatever the indexes have of them, so
`FilteredAnswersAreExact` fails if a write order, a death, a reset or a fork leaves an index without
an entry, and not only if the loop loses one. `PagesMissNothing` compares the pages of one state. A
client sends one request per page, and a save in between puts events in front (newest first without
an address; of the backward crawl, under an address): the next page then repeats events and the new
ones are not seen. The API offers no cursor that would rule this out, and no property claims it.

### EventStore (`EventStore.tla`, instance `MCEventStore.tla`, proofs `EventStoreProofs.tla`)

An event is a record of its key, block, source, operation and wildcard addresses. Events of
different blocks share a key when a fork put one operation in two blocks of a level, which is
how `build_event_key` makes them collide. `step` is the database `save_events` writes next:
`WriteIndex` and `WriteWildcardIndex` for each event, `WriteEvents` for the batch,
`WriteBlocks`, `PutGlobalCounter`, `PutAccountCounter` for each source, `SaveReturns`. `Die` may
come between any two; verification tasks (`Trust`, `Untrust`, `GiveUp`) only run when `step` is
idle. `phase` follows `run.start`: `Start` wipes when the file is there, `Ready` looks again,
`RebuildNext` and `EndRebuild` are `_reset`. `RequestReset` puts the file down at any time.
The ghost variables `acked` (blocks whose save returned) and `owed` (blocks whose save a death
cut short) are only read by properties, and by the guard that lets an owed batch be saved
again without counting against the bound. `Lasting` are the blocks no reorganisation replaces while
a save of theirs is owed; only fairness and `DanglingIsRepaired` speak of it.

Inputs that the code gets from outside are constants: `SourceLies` (events whose operation fails
`check_operation` in the block as fetched), `TrustedHas` and `TrustedLies` (what the trusted
endpoint's block contains, and what fails there).

### Balances (`Balances.tla`, proofs `BalancesProofs.tla`)

`get_balances` reads the accounts that `get_token_holders` finds in a block: those a direct
transfer names, or an internal `tokens` call (mint, burn). It does not find an account whose balance
an internal transfer moves, nor one that a replaced block had named and its successor does not. So
`Bake` adds a block that names any accounts and leaves any balances, `Replace` lets the chain replace
its last blocks, moving balances in any way, and the ghost `unnamed` keeps the accounts that moved
last without a block of the chain naming them. The table may be wrong about those, until a
block names them again, and `HoldersConverge` is about all others.

`HandOver` gives `get_balances` a batch: in the order of a forward sweep, its anchor first and, when
the sweep has several batches, with a gap below the anchor; or in the order of a backward one. A
batch may hold blocks that the chain has replaced since (`current` are those it has not), or that
were executed before a death. `Read` reads one account at the head of that moment, in any order;
between two accounts of one token the code does not suspend (`IsUnderWay`), but the chain moves on.
`SaveHolders` and `SaveChanged` are the two write batches of `save_balances`; `Post` and `Delete` are
a pass of `monitor_process`, which repeats (`pc = "monitor"`) until the outbox is empty. `Recheck` is
the balances half of `_reset`, which a death repeats from its start, since the reset file is still
there. `posted` is what readers of the posts saw last. `dropped` is a ghost: accounts a change of
which is known to be lost, because a death fell between `SaveHolders` and `SaveChanged`, or because
`balances[address]` in a post holds one of several tokens of an address.

## What the runs check

| run | instance | shows |
|---|---|---|
| `crawl` | batch_size 3, levels 0..10 from a head at 1, heads up to 2 behind, 2 deaths | `NoHoles`, `WindowOnlyGrows`, `MemoryMirrorsStore`, `BackwardStaysOnChain`, `SyncedIsComplete`, the refinement `ImplementsPromise`, and `CrawlInv`, the inductive invariant of the proofs |
| `fork_crawl` | batch_size 2, levels 0..6 from a head at 1, 2 reorganisations of 1 or 2 blocks, 1 death, no lag | `HolesAreDeepForks`, `EventuallySynced`, `HeadIsFollowed`, `BranchIsIndexed`, and the inductive `ForkInv` |
| `event_store` | 4 blocks (one a fork, one without events), 4 events under 3 keys, batches of one and two, 2 tasks, 2 new saves, 2 deaths, 1 reset, 1 failed request | `EventsAreFindable`, `DanglingIsOwed`, `AckedAreStored`, `AccountsWithinGlobal`, `VerdictsAreEarned` and the inductive `StoreInv` |
| `verified_uncompared` | 1 save | a violation: see the finding below |
| `balances` | 1 holder of 1 token, 3 blocks, batches of 2, 1 reorganisation of up to 3 blocks, 2 deaths | `HoldersConverge`, `PostsAreCurrent` and the inductive `BalancesInv` |
| `balance_tokens` | 2 tokens of one holder, balances 0 to 2, 2 blocks, 1 death, no reorganisation | `ChangesReachThePost`, `OutboxDrains` |
| `fetch_pool` | 4 blocks, 2 permits, 3 tries, 2 refused connections | `RaiseIsEarned`, `BatchEnds`, and the inductive `PoolInv` with `PermitsAddUp` |
| `readiness` | 3 subscriptions, one without a server, a default, 2 polls before it, 3 requests, 2 deaths, launched by uvicorn | `ReadyIsSubscribed`, `SubscribedOnce`, `ReadyStarts`, and the inductive `ReadyInv` |
| `readiness_python` | `python run.py`, no default, no death | a violation: see the findings |
| `replication` | 1 event with 2 occurrences, 3 fetcher states, 3 messages on their way, 1 lost, 2 stops, 2 switches | `ReplicaShowsOnlyJudged`, `StateCatchesUp`, and the inductive `ReplicationInv` with `ReplicaConverges` |
| `queries` | the events of `event_store`, 2 saves, 1 death, 1 reset, 2 tasks; 60 queries with limits 1 to 3 under a `max_limit` of 2 | `FilteredAnswersAreExact`, `PagesMissNothing`, `QueriesFailOnlyOwed`, `StatsCoverAnswers`, `AnswersShowVerdicts`, `DanglingIsRepaired` |
| `query_wildcard` | 1 save, 2 kinds of wildcard queries | a violation: see the findings |

Why the bounds are enough. In `crawl` a sweep of more than four blocks is cut into several
batches, so ten levels give forward sweeps of up to three batches and backward sweeps that end
with a clamped one; the chain starts shorter than the first sweep, so that is refused first.
Two deaths let one fall into the work that repeats another's. In `fork_crawl` the sweeps are of two
blocks and more, so a reorganisation can fall before, between and after the blocks of a batch and
between two batches; two of them let one undo what another's repair did, and depth 2 is the least
that leaves a hole. In `fetch_pool` there are more blocks than permits, so some wait through the
others' cool-downs, and a block can fail, be disconnected and fail again. In `readiness` two
subscriptions with a server let configurations alternate, and two deaths let one follow a
re-launch. In `replication` three messages let a verdict, a state and a second verdict of one key be
on their way together. In `queries` three keys with a limit of one make filtered queries read four
batches; the death of a rebuild, which takes two, is left to `event_store`. In `event_store` the batch of two
blocks has events of two sources, one of them also in a fork saved before or after, so that
deaths, overwritten records and stale tasks combine; two deaths, because one is what lets a
reset begin and the other falls into its rebuild. In `balances` two deaths let an old change be posted
after a newer one was dropped: without the exception for `dropped`, `PostsAreCurrent` fails there.
Three blocks are the fewest with a gap between a forward batch and its anchor, and one
reorganisation lets a block in hand be an abandoned one, or moves a balance back unnamed: without
the exception for `unnamed`, `HoldersConverge` fails there. It has one account, since
`tokenHolderDB` treats accounts independently; two of them share batches, posts and deletes in
`balance_tokens`, and the proofs have any number.

**Fairness.** `Crawl!FairSpec` and `ForkFairSpec` have weak fairness of every step of the coroutine
(the event loop runs what can run and RPC answers arrive or are given up), of the chain's growth
and of the restart. Deaths and reorganisations are not fair, and finite. The restart is owed to whoever
runs the program: `docker/docker-compose.yaml:18` says `restart: no`, so all liveness is
conditional on an operator or supervisor outside the repository that starts a stopped process.
`EventStore!FairSpec` adds that a batch a death cut short is handed over again if its blocks are
`Lasting`: the crawl asks for the levels of a sweep until it has committed `fetcher_state`, after
`execute` (`NoHoles` and the liveness properties of `ForkCrawl`), but what it is given is the branch
of the moment, so nothing hands over an abandoned block. In the runs `b1x` is the block the chain abandons;
its save may be cut short and repeated or not, and the entries it leaves may dangle for ever.
`Balances!FairSpec` is weak fairness of the pipeline as a whole, which is sequential, and of the
restart, and strong fairness of handing over a batch with a block of the chain that is not executed
(`HandOverNew`), since other batches come in between; it is used where no block is replaced
(`MaxForks = 0`). In the event store the number of new batches
is finite, so check tasks, which wait for the event loop to be free, need no more than weak
fairness: in the code the loop is free whenever the crawl waits for the network. `FetchPool` assumes
that a request gets some answer, a failure included, and that refused connections are finite.
`Readiness` assumes that the operator initialises an instance whose route is served.
`Replication` has strong fairness of `PutState`, because other puts come in between: the crawl
reaches the end of a sweep again and again.

**Findings.**

- `check_events` says "pass 2 compare and check with trusted endpoint" (`src/indexer.py:190`) but
  trusts an event whose operation the trusted block does not contain: `get_operation` returns None
  and `trust_event` runs. `VerifiedWasCompared` is violated by a save and a check.
- The README's way of running locally is `python run.py` (`README.md:32`), but launched so, the
  process serves `/pubsub/initialize` only after `on_ready`; without a default pubsub configuration,
  which `.env.default` has not, a new instance waits for ever (`EventuallyStarted`). The container's
  command is the same.
- The schema says a `wildcard_address` "can be any address, source or a supported event metadata
  address" (`graphql/server.py:22`), but no source is written to the wildcard index, and together
  with another criterion the wildcard index is searched for the wrong value: both queries miss
  stored events (`WildcardIsAnyAddress`).

Behaviour that surprised us and contradicts no statement in the repository:

- a death between the two writes of `save_balances` loses the publication of that change until
  the balance changes again (`dropped`); a change still in the outbox is then posted late;
- a backward sweep stores today's balance under an old level; the later forward block finds no
  difference, so the newest height posted may carry an older balance;
- an internal transfer of the token moves a balance that no block names, and a replaced block
  moves one back: `tokenHolderDB` and the posts keep the old balance until a block names the account
  again (`unnamed`);
- index entries of a block whose save a death cut short stay without their event for ever if a
  reorganisation takes the block away before the crawl comes back, and queries for them fail;
- counters count events again each time their block is saved: every forward sweep repeats the
  recent block, and the first one hands it over twice;
- events lose their verdict when saved again, and those a reset rebuilds get none;
- after a fork an abandoned block's hash still finds the event that replaced its event, by a query
  with that one criterion only (with two, the filter removes it);
- the default configuration, once its time has come, replaces whatever an operator's initialisation
  put there during the last sleep of `check`;
- replicas hold events only from their verdict on, and never learn of index entries, blocks,
  balances, or of a wipe;
- a ready instance that is given another configuration stays ready if subscribing then fails.

## What is proved

Eight modules prove, for every value of the constants that satisfies the modules' assumptions:

- `Spec => []CrawlInv`, and from it `NoHoles`, `MemoryMirrorsStore`, `BackwardStaysOnChain`,
  `SyncedIsComplete`, the action property `WindowOnlyGrows` and the refinement
  `Spec => Promise!Spec`;
- `Spec => []StoreInv`, and from it `EventsAreFindable`, `DanglingIsOwed`, `VerdictsAreEarned`,
  `AckedAreStored` and `AccountsWithinGlobal`;
- from `StoreInv` too, of the answers of `Query`: `FilteredAnswersAreExact`, `PagesMissNothing`,
  `QueriesFailOnlyOwed` and `StatsCoverAnswers`, for every order of keys, limit, skip and query;
- `ForkSpec => Spec`, by which all theorems of the crawl hold on a chain that forks, and
  `ForkSpec => []ForkInv`, from it `HolesAreDeepForks`;
- `Spec => []PoolInv` and `RaiseIsEarned` of the fetch pool;
- `Spec => []ReadyInv`, and from it `ReadyIsSubscribed` and `SubscribedOnce`;
- `Spec => []ReplicationInv`, with `ReplicaConverges` in it, and from it `ReplicaShowsOnlyJudged`;
- `Spec => []BalancesInv`, and from it `HoldersConverge`, `ChangesReachThePost` and `PostsAreCurrent`.

`NoHoles` alone is not inductive: a commit publishes levels because of what the sweep did
before. `CrawlInv` therefore says what every suspension point has behind it. `ForwardInv`: a sweep
up from a known recent block has executed, or holds in hand, everything from that block to its
cursor `from_block - pending_blocks - 1`. `OpeningInv`: the sweep that opens the index is one
batch, and what it reports as oldest is its last block. `AnchorInv`: the head is in the first
batch. `BackwardInv`: a backward sweep is one batch that touches the stored oldest block.
`PendingInv`: nothing is pending between runs. `StateInv`: memory and store agree.

`AckedAreStored` speaks of the running indexer only; across a wipe it needs `KeptInv`: every
event of a kept block is stored, or the reset file is still there, or the rebuild has it ahead.
`SaveInv` records how far the save under way has come: what has left `todo` is indexed, after
`WriteEvents` the batch is stored, after `WriteBlocks` its blocks are kept. There is one lemma per
action, and one (`UntouchedDatabases`) for all steps that write no event and no index.

`StoreInv` has a second half, `LedgerInv`, for what the databases owe to the saves. `TracedInv`: every
record and index entry comes from an event of a save that returned, was cut short or is under way,
and an entry without its event from one of the latter two; it takes this to say which keys a page
may show and which a query may fail on. `CountersInv`: `AccountsWithinGlobal` is not inductive,
because `do_stats` adds to the global counter first; what the global counter is ahead is at least the
events of the sources in `uncounted`. `CoverInv`: the counters are no less than the distinct keys
saved since they were zero (`Counted`: during a rebuild the kept blocks done so far), or they are
as empty as the events, or about to be wiped. A batch saved again is counted again, so the
counters bound the keys and do not equal them.

The proofs about `Query` say first what its operators do, by induction over a set of sequences or of
naturals (`SeqSetInduction`, `NatSetInduction`): `Only` filters and commutes with concatenation
(`OnlyConcat`), slices that meet make one (`SliceAdjacent`), pages of a limit partition a sequence
(`PagesPartition`). The loop of `resolve_events` then has a closed form: after n batches it has kept
what the filter keeps of the first n * limit entries (`SearchIsPrefix`). It ends with a full page,
which later entries cannot change, or with an empty batch, after which there is nothing left
(`LoopAnswersPage`), so its page is the page of all that the filter lets through of the scan. That
this is all that is asked for of the stored events is where `EventsAreFindable` comes in: what is searched
is the source, the operation or the block of every event asked for (`SearchedIsOfAsked`), so the
index has an entry for each of them (`AskedIsIndexed`), and filtering the scan gives `Matching`, in
its order (`MatchingIsScanned`, by `OnlyOfOnly` and `OnlyOfReverse`). The rest relates
the index searched to the events of unfiltered queries: with one criterion the entries under it include those of all
stored events that meet it and are all of keys some saved event had that meets it (`OneCriterion`, `AskedIsScanned`, `ScannedWasAsked`), and when no save is owed
and the indexer runs, what is stored of a source is what was saved (`StoredIsSaved`).

`ForkInv` reads `CrawlInv` for blocks: `HandInv` says that what has arrived of a batch is still on the
branch, or a reorganisation went below it, because a batch always lies below a block the chain
has; `ForwardForkInv` and `ReportForkInv` carry that through `execute` to the commit. `PoolInv` needs
`CountInv`, tries left plus failures are constant but for the one still cooling down. `ReadyInv` needs
`HandlerInv`, what the record holds at each point of the handler, and `MirrorInv`, memory is the
record. `ReplicaConverges` speaks of the last message of a key (`Upcoming`); its proof has a lemma
each for appending, delivering and losing a message. `BalancesInv` has two halves. `HoldersInv`, of the
accounts not in `unnamed`: a wrong balance in the table is owed by a block of the chain that is not
done, and unless one of those is still ahead of the batch in hand, every reading of the batch is the
balance at the head, so that whichever `save_balances` keeps is right. A balance that moves makes its
account named by a block that is not done or puts it in `unnamed`, which is what carries the
invariant over `Bake` and `Replace`. `OutboxInv`: the outbox is behind the table only for what is in
`changed` or known to be dropped, which is what makes deleting a posted key harmless.

Assumptions: `BatchSize` is a natural number, the levels and bounds are naturals, sentinels
differ from data; the set of events is finite, events with one key agree on source and
operation and within one block are the same event, a batch has no two events with one key; the semaphore has at least one permit. `QueryProofs` also
uses that the order of keys lists each key once, that a hash or address of one kind is none of
another (contracts, operations and blocks have prefixes of their own, an `_id` is a bare hash), and
that limits and skips are naturals.

Only model-checked: all liveness, which is outside the prover's reach, as is `ENABLED`:
`EventuallySynced`, `HeadIsFollowed`, `BranchIsIndexed`, `BatchEnds`, `ReadyStarts`, `StateCatchesUp`,
`OutboxDrains`, `AnswersShowVerdicts` and `DanglingIsRepaired`. Every invariant and action property of
a passing run is a theorem.

## Not modelled

- Michelson decoding, `normalize`, `create_event`, `check_operation` and hashing: data conversions,
  whose results are constants of the modules.
- The text of a type pattern: a `%` in the middle of it is stripped differently from one event to the
  next by `resolve_events`; the model has patterns with jokers at the ends only. Negative limits and
  skips, empty strings as criteria.
- The clock in `resolve_index_status` (ten minutes without a block) and `last_event` of an address,
  which is its first one (`#@TODO fix reverse` in `get_events`).
- The pubsub server: it keeps the order, may lose messages, and does not send a server its own
  (`pubsub_handler` looks at no sender); messages of raw bytes are encoded by the JSON library in use.
- The endpoint serves the branch of the moment; two endpoints that disagree are only seen in
  the verdicts.
- The `running` flag, which `setInterval` never lets matter because it waits for `_run`;
  `recreate_events_index`, `save`, `search_event`, `parse_event` and
  `check_duplicated_events_operation_hash`, which the application never calls; configuration, schema
  types, deployment scripts, containers and the prototype `main.py`.

## Plan

1. `Indexer`: Crawl, EventStore and Balances composed, so that the retry assumptions of
   `EventStore!FairSpec` and `Balances!FairSpec` become theorems of the crawl.
2. FetchPool shown to implement the single step `FetchBatch` of Crawl.
3. Replication over several replicas, with a replica that is promoted: the window its fetcher state
   claims against the events it never received.

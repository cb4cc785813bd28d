------------------------------ MODULE Balances ------------------------------
(***************************************************************************)
(* The balances branch of Indexer.execute: get_balances reads the balance  *)
(* of every holder a batch's blocks touch, save_balances keeps those that  *)
(* changed in tokenHolderDB and puts them in an outbox,                    *)
(* tokenHolderChangedDB, and monitor_process posts the outbox to aleph, a  *)
(* level at a time, deleting what it has posted.  The three are written    *)
(* one after the other and the process may die in between.                 *)
(*                                                                         *)
(* A balance is read at the chain's head, whatever block is indexed, one   *)
(* request per account, while the chain grows or replaces its last blocks. *)
(*                                                                         *)
(* Which accounts are read is decided by the block: get_token_holders      *)
(* finds those that a direct transfer names, or an internal call of tokens *)
(* (mint, burn).  It does not find those whose balance an internal         *)
(* transfer moved, nor those that a replaced block no longer moves: the    *)
(* variable unnamed has the accounts that moved last in such a way, and    *)
(* the table need not have their balance.                                  *)
(***************************************************************************)
EXTENDS Integers, SequencesExt

CONSTANTS
    Addresses,
    TokenIds,       \* config.token_ids
    Amounts,        \* bound: the balances an account may have
    MaxLevel,       \* bound: the chain stops growing here
    MaxBatch,       \* bound: the blocks of a batch
    MaxForks,       \* bound: reorganisations
    MaxCrashes,     \* bound: process deaths
    NoRecord        \* Python's None: nothing under this key

ASSUME AmountAssumption == 0 \in Amounts /\ Amounts \subseteq Nat
ASSUME BoundAssumption ==
    MaxLevel \in Nat /\ MaxBatch \in Nat \ {0} /\ MaxForks \in Nat /\ MaxCrashes \in Nat
ASSUME NoRecordAssumption == NoRecord \notin Amounts \cup [balance : Amounts, level : 1..MaxLevel]

VARIABLES
    top,                    \* the chain's head level
    balance,                \* of each account at the head
    named,                  \* the accounts get_token_holders finds in each block of the chain
    replaced,               \* and in the block each of them replaced last
    unnamed,                \* accounts that moved last without a block of the chain naming them
    tokenHolderDB,          \* account -> its last known balance and the block it was read for
    tokenHolderChangedDB,   \* the outbox
    posted,                 \* the last balance posted of each account
    pc,                     \* where execute is, or "idle", or "down"
    batch,                  \* the blocks in hand, in the order execute got them
    current,                \* those of them that the chain has not replaced
    unread,                 \* <<level, account>> pairs get_balances has yet to read
    readings,               \* what it read, per level and account
    changed,                \* changed_balances: records to put in the outbox
    posting,                \* keys_to_delete
    recheck,                \* levels _reset has yet to read again
    done,                   \* levels of which the chain's block is executed
    dropped,                \* accounts a change of which left the outbox unposted or never got there
    forks, crashes          \* to bound them

memory == <<pc, batch, unread, readings, changed, posting, recheck>>
chain == <<top, balance, named, replaced, unnamed, forks>>
vars == <<top, balance, named, replaced, unnamed, tokenHolderDB, tokenHolderChangedDB, posted,
          pc, batch, current, unread, readings, changed, posting, recheck, done, dropped,
          forks, crashes>>

Accounts == TokenIds \X Addresses
Record == [balance : Amounts, level : 1..MaxLevel]
NoRecords == [a \in Accounts |-> NoRecord]
NoReadings == [level \in 1..MaxLevel |-> NoRecords]

TypeOK ==
    /\ top \in 0..MaxLevel /\ balance \in [Accounts -> Amounts]
    /\ named \in [1..MaxLevel -> SUBSET Accounts]
    /\ replaced \in [1..MaxLevel -> (SUBSET Accounts) \cup {NoRecord}]
    /\ unnamed \subseteq Accounts
    /\ tokenHolderDB \in [Accounts -> Record \cup {NoRecord}]
    /\ tokenHolderChangedDB \in [Accounts -> Record \cup {NoRecord}]
    /\ posted \in [Accounts -> Amounts]
    /\ pc \in {"down", "idle", "read", "changed", "monitor", "delete"}
    /\ batch \in Seq(1..MaxLevel)
    /\ unread \subseteq (1..MaxLevel) \X Accounts
    /\ readings \in [1..MaxLevel -> [Accounts -> Amounts \cup {NoRecord}]]
    /\ changed \in [Accounts -> Record \cup {NoRecord}]
    /\ posting \subseteq Accounts
    /\ recheck \subseteq 1..MaxLevel /\ done \subseteq 1..MaxLevel /\ current \subseteq 1..MaxLevel
    /\ dropped \subseteq Accounts
    /\ forks \in 0..MaxForks /\ crashes \in 0..MaxCrashes

Init ==
    /\ top = 0 /\ balance = [a \in Accounts |-> 0]
    /\ named = [level \in 1..MaxLevel |-> {}]
    /\ replaced = [level \in 1..MaxLevel |-> NoRecord] /\ unnamed = {}
    /\ tokenHolderDB = NoRecords /\ tokenHolderChangedDB = NoRecords
    /\ posted = [a \in Accounts |-> 0]
    /\ pc = "idle" /\ batch = <<>> /\ current = {} /\ unread = {} /\ readings = NoReadings
    /\ changed = NoRecords /\ posting = {} /\ recheck = {}
    /\ done = {} /\ dropped = {} /\ forks = 0 /\ crashes = 0

Under(table) == {a \in Accounts : table[a] # NoRecord}

\* Put the records of one table over those of another: one write batch.
Over(new, old) == [a \in Accounts |-> IF new[a] # NoRecord THEN new[a] ELSE old[a]]

-----------------------------------------------------------------------------
\* The chain.  A block leaves the accounts with any balances, those it does not name too.

Moved(paid) == {a \in Accounts : paid[a] # balance[a]}

Bake ==
    /\ top < MaxLevel
    /\ top' = top + 1
    /\ \E found \in SUBSET Accounts, paid \in [Accounts -> Amounts] :
           /\ named' = [named EXCEPT ![top'] = found]
           /\ balance' = paid
           /\ unnamed' = (unnamed \cup Moved(paid)) \ found
    /\ UNCHANGED <<replaced, forks, tokenHolderDB, tokenHolderChangedDB, posted, memory,
                   current, done, dropped, crashes>>

\* The blocks from a level on are replaced: what they moved is moved back or in another way.
Replace(low) ==
    /\ forks < MaxForks /\ forks' = forks + 1
    /\ \E found \in [low..top -> SUBSET Accounts], paid \in [Accounts -> Amounts] :
           /\ named' = [level \in 1..MaxLevel |->
                  IF level \in low..top THEN found[level] ELSE named[level]]
           /\ balance' = paid
           /\ unnamed' = (unnamed \cup Moved(paid) \cup UNION {named[level] : level \in low..top})
                         \ UNION {found[level] : level \in low..top}
    /\ replaced' = [level \in 1..MaxLevel |->
           IF level \in low..top THEN named[level] ELSE replaced[level]]
    /\ done' = done \ (low..top) /\ current' = current \ (low..top)
    /\ UNCHANGED <<top, tokenHolderDB, tokenHolderChangedDB, posted, memory, dropped, crashes>>

-----------------------------------------------------------------------------
\* index_balances

\* The accounts get_token_holders finds in a block in hand, which may be one that was
\* replaced since it was fetched.
Found(level, fresh) == IF level \in fresh THEN named[level] ELSE replaced[level]

BeginRead(levels) ==
    /\ pc' = "read"
    /\ batch' = levels
    /\ \E fresh \in SUBSET ToSet(levels) :
           /\ \A level \in ToSet(levels) : Found(level, fresh) # NoRecord
           /\ current' = fresh
           /\ unread' = {p \in ToSet(levels) \X Accounts : p[2] \in Found(p[1], fresh)}
    /\ readings' = NoReadings
    /\ UNCHANGED <<chain, tokenHolderDB, tokenHolderChangedDB, posted, changed, posting,
                   recheck, done, dropped, crashes>>

\* The crawl's batches: forward, the sweep's anchor and then upwards from the lowest, in a
\* sweep of several batches with a gap between; or downwards.
Forward(anchor, low, high) == <<anchor>> \o [i \in 1..(high - low + 1) |-> low + i - 1]
Backward(low, high) == [i \in 1..(high - low + 1) |-> high - i + 1]

\* Any of them may come, also blocks that were executed before a death cut the sweep short.
HandOver(anchor, low, high) ==
    /\ pc = "idle" /\ recheck = {}
    /\ low <= high /\ high - low < MaxBatch /\ high <= top
    /\ \/ high < anchor /\ anchor <= top /\ BeginRead(Forward(anchor, low, high))
       \/ BeginRead(Backward(low, high))

\* _reset reads the block of every holder's record again, one at a time.
Recheck(level) ==
    /\ pc = "idle" /\ level \in recheck
    /\ BeginRead(<<level>>)

\* get_balances awaits once per token of a block; from then on its requests, one per
\* account, block the event loop.
IsUnderWay(level, token) ==
    \E a, b \in Accounts :
        /\ a[1] = token /\ <<level, a>> \in unread
        /\ b[1] = token /\ readings[level][b] # NoRecord

\* An account is read at the head of the moment its request is answered.
Read(level, a) ==
    /\ pc = "read" /\ <<level, a>> \in unread
    /\ \A l \in 1..MaxLevel, token \in TokenIds :
           IsUnderWay(l, token) => l = level /\ token = a[1]
    /\ readings' = [readings EXCEPT ![level][a] = balance[a]]
    /\ unread' = unread \ {<<level, a>>}
    /\ UNCHANGED <<chain, tokenHolderDB, tokenHolderChangedDB, posted, pc, batch, current,
                   changed, posting, recheck, done, dropped, crashes>>

\* save_balances compares a reading with what the database had before the batch.
IsChange_NeverZero(a, amount) ==
    /\ amount # 0
    /\ tokenHolderDB[a] # NoRecord => amount # tokenHolderDB[a].balance
IsChange(a, amount) ==
    IF tokenHolderDB[a] = NoRecord THEN amount # 0
                                   ELSE amount # tokenHolderDB[a].balance

\* Where in the batch an account's balance is read and changed.
ChangedAt(a) == {i \in DOMAIN batch : /\ readings[batch[i]][a] # NoRecord
                                      /\ IsChange(a, readings[batch[i]][a])}
ReadAs(a, level) == [balance |-> readings[level][a], level |-> level]

\* Of the changes to one account in the batch the last in the list is kept.
Change_TakesNone(a) == IF batch = <<>> THEN NoRecord ELSE ReadAs(a, Last(batch))
Change(a) == IF ChangedAt(a) = {} THEN NoRecord ELSE ReadAs(a, batch[Max(ChangedAt(a))])
Changes == [a \in Accounts |-> Change(a)]

\* index_balances returns, to execute or to _reset.
IndexReturns ==
    /\ pc' = "idle" /\ batch' = <<>> /\ current' = {}
    /\ \/ recheck = {} /\ done' = done \cup current /\ recheck' = {}
       \/ recheck # {} /\ done' = done /\ recheck' = recheck \ ToSet(batch)

\* index_balances does nothing of an empty list.
NothingRead ==
    /\ pc = "read" /\ unread = {} /\ readings = NoReadings
    /\ IndexReturns
    /\ UNCHANGED <<chain, tokenHolderDB, tokenHolderChangedDB, posted, unread, readings,
                   changed, posting, dropped, crashes>>

\* monitor_process runs after every save_balances, changes or not.
AfterHolders_NoMonitor == IF Changes = NoRecords THEN "idle" ELSE "changed"
AfterHolders == IF Changes = NoRecords THEN "monitor" ELSE "changed"

SaveHolders ==
    /\ pc = "read" /\ unread = {} /\ readings # NoReadings
    /\ tokenHolderDB' = Over(Changes, tokenHolderDB)
    /\ changed' = Changes
    /\ pc' = AfterHolders
    /\ readings' = NoReadings
    /\ UNCHANGED <<chain, tokenHolderChangedDB, posted, batch, current, unread, posting,
                   recheck, done, dropped, crashes>>

\* A change still in the outbox gives way to the newer one.
Outbox_KeepsOld == Over(tokenHolderChangedDB, changed)
Outbox == Over(changed, tokenHolderChangedDB)

SaveChanged ==
    /\ pc = "changed"
    /\ tokenHolderChangedDB' = Outbox
    /\ changed' = NoRecords
    /\ pc' = "monitor"
    /\ UNCHANGED <<chain, tokenHolderDB, posted, batch, current, unread, readings, posting,
                   recheck, done, dropped, crashes>>

-----------------------------------------------------------------------------
\* monitor_process

IsCurrent(a) == tokenHolderChangedDB[a].balance = tokenHolderDB[a].balance

OfLevel(level) == {a \in Under(tokenHolderChangedDB) : tokenHolderChangedDB[a].level = level}

\* balances has one entry for an address: of several of its tokens only one is in the post.
OnePerAddress(group) ==
    {s \in SUBSET group : /\ {a[2] : a \in s} = {a[2] : a \in group}
                          /\ \A a, b \in s : a[2] = b[2] => a = b}

KeysToDelete_All(level) == Under(tokenHolderChangedDB)
KeysToDelete(level) == OfLevel(level)

\* Post every account in the outbox whose level is that of the first.
Post(level) ==
    /\ pc = "monitor" /\ OfLevel(level) # {}
    /\ posting' = KeysToDelete(level)
    /\ \E post \in OnePerAddress(OfLevel(level)) :
           /\ posted' = [a \in Accounts |-> IF a \in post THEN tokenHolderChangedDB[a].balance
                                                          ELSE posted[a]]
           /\ dropped' = (dropped \ {a \in post : IsCurrent(a)}) \cup (OfLevel(level) \ post)
    /\ pc' = "delete"
    /\ UNCHANGED <<chain, tokenHolderDB, tokenHolderChangedDB, batch, current, unread,
                   readings, changed, recheck, done, crashes>>

Delete(a) ==
    /\ pc = "delete" /\ a \in posting
    /\ tokenHolderChangedDB' = [tokenHolderChangedDB EXCEPT ![a] = NoRecord]
    /\ posting' = posting \ {a}
    /\ pc' = IF posting' = {} THEN "monitor" ELSE pc    \* pending_balances < total
    /\ UNCHANGED <<chain, tokenHolderDB, posted, batch, current, unread, readings, changed,
                   recheck, done, dropped, crashes>>

MonitorReturns ==
    /\ pc = "monitor" /\ Under(tokenHolderChangedDB) = {}
    /\ IndexReturns
    /\ UNCHANGED <<chain, tokenHolderDB, tokenHolderChangedDB, posted, unread, readings,
                   changed, posting, dropped, crashes>>

-----------------------------------------------------------------------------
\* Deaths: a post that raises is one.  Changes not yet in the outbox are forgotten: the next
\* reading equals tokenHolderDB's.  The crawl comes back to the batch, fetcher_state being
\* behind it, and _reset to its levels, the reset_db file being there still.

Die ==
    /\ pc # "down" /\ crashes < MaxCrashes
    /\ crashes' = crashes + 1
    /\ dropped' = dropped \cup Under(changed)
    /\ done' = IF recheck = {} THEN done \ ToSet(batch) ELSE done
    /\ pc' = "down" /\ batch' = <<>> /\ current' = {} /\ unread' = {} /\ readings' = NoReadings
    /\ changed' = NoRecords /\ posting' = {}
    /\ UNCHANGED <<chain, tokenHolderDB, tokenHolderChangedDB, posted, recheck>>

\* With a reset_db file there is a _reset first; it does not wipe these databases.
Restart ==
    /\ pc = "down"
    /\ pc' = "idle"
    /\ \/ recheck = {} /\ recheck' = {}
       \/ recheck' = {tokenHolderDB[a].level : a \in Under(tokenHolderDB)}
    /\ UNCHANGED <<chain, tokenHolderDB, tokenHolderChangedDB, posted, batch, current, unread,
                   readings, changed, posting, done, dropped, crashes>>

Indexing ==
    \/ \E level \in 1..MaxLevel : Recheck(level) \/ Post(level)
    \/ \E level \in 1..MaxLevel, a \in Accounts : Read(level, a)
    \/ NothingRead \/ SaveHolders \/ SaveChanged \/ MonitorReturns
    \/ \E a \in Accounts : Delete(a)

\* The crawl finds no new block.
NoBlockToHandOver ==
    /\ pc = "idle" /\ recheck = {} /\ 1..top \subseteq done
    /\ UNCHANGED vars

Next ==
    \/ Bake \/ \E low \in 1..top : Replace(low)
    \/ \E anchor, low, high \in 1..MaxLevel : HandOver(anchor, low, high)
    \/ Indexing \/ NoBlockToHandOver \/ Die \/ Restart

Spec == Init /\ [][Next]_vars

\* A batch of the chain with a block that is not executed.
HandOverNew ==
    \E anchor, low, high \in 1..MaxLevel :
        HandOver(anchor, low, high) /\ ToSet(batch') = current' /\ ~(current' \subseteq done)

\* On a chain that replaces no block (MaxForks = 0) the crawl hands over every block until
\* its execute returns; posts are answered, the process is started again; the chain may stop.
FairSpec == Spec /\ WF_vars(Indexing) /\ SF_vars(HandOverNew) /\ WF_vars(Restart)

-----------------------------------------------------------------------------
\* What the properties rest on

Known(a) == IF tokenHolderDB[a] = NoRecord THEN 0 ELSE tokenHolderDB[a].balance

\* Only blocks the chain has are in hand, done or named by a record.
LevelsInv ==
    /\ done \cup ToSet(batch) \cup recheck \subseteq 1..top
    /\ current \subseteq ToSet(batch)
    /\ \A a \in Under(tokenHolderDB) : tokenHolderDB[a].level <= top

\* An account's balance is known, or some block that names it is not done, or none does.
Owed(a) == \E level \in (1..top) \ done : a \in named[level]
Ahead(a) == \E level \in (1..top) \ (done \cup current) : a \in named[level]
Fresh(a) == \A level \in 1..MaxLevel : readings[level][a] \in {NoRecord, balance[a]}
InHand(a) ==
    /\ pc = "read"
    /\ \E level \in ToSet(batch) : <<level, a>> \in unread \/ readings[level][a] # NoRecord
HoldersInv ==
    \A a \in Accounts \ unnamed :
        /\ Known(a) = balance[a] \/ Owed(a)
        /\ Ahead(a) \/ (Fresh(a) /\ (Known(a) = balance[a] \/ InHand(a)))

\* Between save_balances' two writes the list of changes agrees with the table; the outbox
\* is behind the table only for what is in that list, or known to be dropped.
OutboxInv ==
    /\ pc # "changed" => changed = NoRecords
    /\ pc # "delete" => posting = {}
    /\ \A a \in Under(changed) : tokenHolderDB[a] = changed[a]
    /\ \A a \in Under(tokenHolderChangedDB) :
           /\ tokenHolderDB[a] # NoRecord
           /\ IsCurrent(a) \/ changed[a] # NoRecord \/ a \in dropped
    /\ \A a \in posting :
           /\ tokenHolderChangedDB[a] # NoRecord
           /\ posted[a] = tokenHolderChangedDB[a].balance \/ a \in dropped

-----------------------------------------------------------------------------
\* Properties

\* A balance is read at the head, not at the block that is indexed, in any order and more
\* than once, from blocks that may be replaced; still, once every block of the chain as it is
\* has been executed, tokenHolderDB has the balance at the head of every account, whatever
\* died on the way, but of those that moved last without a block of the chain naming them:
\* by an internal transfer, or because a block that names them was replaced.
HoldersConverge ==
    pc = "idle" /\ done = 1..top =>
        \A a \in Accounts \ unnamed : balance[a] = Known(a)

\* A balance that is not the one last posted is on its way to the post, but for the changes
\* known to be dropped: by a death between the two writes of save_balances, or by another
\* token of the same address in the same post.
ChangesReachThePost ==
    \A a \in Under(tokenHolderDB) :
        \/ posted[a] = tokenHolderDB[a].balance
        \/ tokenHolderChangedDB[a] # NoRecord /\ IsCurrent(a)
        \/ changed[a] # NoRecord
        \/ a \in dropped

\* Every variable keeps its type, and at every step the table is right of an account the
\* chain names, or a block that names it is still to be done, and the outbox is behind the
\* table only where known.
BalancesInv == TypeOK /\ LevelsInv /\ HoldersInv /\ OutboxInv /\ ChangesReachThePost

\* A post never takes an account back to a balance tokenHolderDB no longer has (dropped
\* changes excepted: what was in the outbox before such a change is posted late).
PostsAreCurrent ==
    [][\A a \in Accounts :
           posted'[a] # posted[a] => a \in dropped \/ posted'[a] = tokenHolderDB[a].balance]_vars

\* What is in the outbox leaves it, also what a death left there: monitor_process posts the
\* whole of it every time a batch names a holder.
OutboxDrains ==
    \A a \in Accounts : tokenHolderChangedDB[a] # NoRecord ~> tokenHolderChangedDB[a] = NoRecord

=============================================================================

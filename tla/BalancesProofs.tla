--------------------------- MODULE BalancesProofs ---------------------------
(***************************************************************************)
(* That the table of balances and the posts are right whatever dies on the *)
(* way, for every set of tokens, addresses and amounts, any length of      *)
(* chain and of batch, and any number of deaths.                           *)
(***************************************************************************)
EXTENDS Balances, SequenceTheorems, WellFoundedInduction, TLAPS

\* A record is not None, and nothing that is read is.
LEMMA NoneIsApart == NoRecord \notin Record /\ NoRecord \notin Amounts
BY NoRecordAssumption DEF Record

\* A set of positions in a list has a last one.
LEMMA LastPosition ==
    ASSUME NEW n \in Nat, NEW S \in SUBSET (1..n), S # {}
    PROVE  Max(S) \in S
<1> DEFINE T == {n - i : i \in S}
<1>1. T \subseteq Nat /\ T # {}
    <2>1. \A i \in S : n - i \in Nat
        OBVIOUS
    <2>2. PICK i \in S : TRUE
        OBVIOUS
    <2>3. n - i \in T
        BY <2>2
    <2>4. QED
        BY <2>1, <2>3
<1>2. PICK least \in T : \A y \in T : ~(<<y, least>> \in OpToRel(<, Nat))
    BY <1>1, NatLessThanWellFounded, WFMin
<1>3. \A y \in T : ~(y < least)
    BY <1>1, <1>2 DEF OpToRel
<1>4. PICK x \in S : least = n - x
    BY <1>2
<1>5. \A y \in S : x >= y
    <2> TAKE y \in S
    <2>1. ~(n - y < n - x)
        BY <1>3, <1>4
    <2>2. QED
        BY <2>1
<1>6. QED
    BY <1>5 DEF Max

\* A list of levels has levels in it.
LEMMA BatchOfLevels ==
    TypeOK => \A i \in 1..Len(batch) : batch[i] \in 1..MaxLevel /\ batch[i] \in ToSet(batch)
<1> SUFFICES ASSUME TypeOK, NEW i \in 1..Len(batch)
            PROVE  batch[i] \in 1..MaxLevel /\ batch[i] \in ToSet(batch)
    OBVIOUS
<1>1. batch \in Seq(1..MaxLevel)
    BY DEF TypeOK
<1>2. batch[i] \in 1..MaxLevel
    BY <1>1, ElementOfSeq
<1>3. QED
    BY <1>1, <1>2 DEF ToSet

\* What save_balances writes for an account: nothing if no reading differs, or a reading of
\* the batch that does.
LEMMA ChangeIsAReading ==
    ASSUME TypeOK, NEW a \in Accounts
    PROVE  \/ /\ Change(a) = NoRecord
              /\ \A level \in ToSet(batch) :
                     readings[level][a] # NoRecord => ~IsChange(a, readings[level][a])
           \/ \E level \in ToSet(batch) :
                  /\ readings[level][a] # NoRecord /\ IsChange(a, readings[level][a])
                  /\ Change(a) = [balance |-> readings[level][a], level |-> level]
                  /\ Change(a) \in Record
<1>1. DOMAIN batch = 1..Len(batch) /\ Len(batch) \in Nat
    BY DEF TypeOK
<1>2. CASE ChangedAt(a) = {}
    BY <1>2, <1>1 DEF Change, ChangedAt, ToSet
<1>3. CASE ChangedAt(a) # {}
    <2> DEFINE last == Max(ChangedAt(a))
    <2>1. ChangedAt(a) \subseteq 1..Len(batch)
        BY <1>1 DEF ChangedAt
    <2>2. last \in ChangedAt(a)
        BY <1>1, <1>3, <2>1, LastPosition
    <2>3. batch[last] \in ToSet(batch) /\ batch[last] \in 1..MaxLevel
        BY <1>1, <2>1, <2>2, BatchOfLevels
    <2>4. readings[batch[last]][a] # NoRecord /\ IsChange(a, readings[batch[last]][a])
        BY <2>2 DEF ChangedAt
    <2>5. readings[batch[last]][a] \in Amounts
        BY <2>3, <2>4 DEF TypeOK
    <2>6. Change(a) = [balance |-> readings[batch[last]][a], level |-> batch[last]]
        BY <1>3 DEF Change, ReadAs
    <2>7. QED
        BY <2>3, <2>4, <2>5, <2>6 DEF Record
<1>4. QED
    BY <1>2, <1>3

\* Hence the list of changes is a table, and so is a table it is put over.
LEMMA ChangesType == TypeOK => Changes \in [Accounts -> Record \cup {NoRecord}]
BY ChangeIsAReading DEF Changes

\* Records put over others are records.
LEMMA OverType ==
    ASSUME NEW new \in [Accounts -> Record \cup {NoRecord}],
           NEW old \in [Accounts -> Record \cup {NoRecord}]
    PROVE  Over(new, old) \in [Accounts -> Record \cup {NoRecord}]
BY DEF Over

\* The lists the crawl hands over are lists of blocks the chain has.
LEMMA BatchOfRange ==
    ASSUME NEW n \in 1..MaxLevel, NEW anchor \in 1..n, NEW low \in 1..n, NEW high \in 1..n,
           low <= high, NEW levels,
           levels = Forward(anchor, low, high) \/ levels = Backward(low, high)
    PROVE  levels \in Seq(1..MaxLevel) /\ ToSet(levels) \subseteq 1..n
<1> USE BoundAssumption
<1>1. CASE levels = Backward(low, high)
    BY <1>1 DEF Backward, ToSet
<1>2. CASE levels = Forward(anchor, low, high)
    <2> DEFINE rest == [i \in 1..(high - low + 1) |-> low + i - 1]
    <2>1. rest \in Seq(1..n) /\ <<anchor>> \in Seq(1..n)
        OBVIOUS
    <2>2. levels \in Seq(1..n)
        BY <1>2, <2>1 DEF Forward
    <2>3. 1..n \subseteq 1..MaxLevel
        OBVIOUS
    <2>4. QED
        BY <2>2, <2>3 DEF ToSet
<1>3. QED
    BY <1>1, <1>2

\* So is every list that is taken up, by the crawl or by _reset.
LEMMA HandedOver ==
    ASSUME TypeOK, NEW anchor \in 1..MaxLevel, NEW low \in 1..MaxLevel, NEW high \in 1..MaxLevel,
           HandOver(anchor, low, high)
    PROVE  \E levels \in Seq(1..MaxLevel) : ToSet(levels) \subseteq 1..top /\ BeginRead(levels)
<1>1. top \in 1..MaxLevel /\ low \in 1..top /\ high \in 1..top /\ low <= high
    BY BoundAssumption DEF HandOver, TypeOK
<1>2. CASE anchor <= top /\ BeginRead(Forward(anchor, low, high))
    BY <1>1, <1>2, BatchOfRange
<1>3. CASE BeginRead(Backward(low, high))
    BY <1>1, <1>3, BatchOfRange
<1>4. QED
    BY <1>2, <1>3 DEF HandOver

-----------------------------------------------------------------------------
\* The invariant.

\* Nothing is read, known or posted at the start.
LEMMA BalancesInit == Init => BalancesInv
<1> SUFFICES ASSUME Init PROVE BalancesInv
    OBVIOUS
<1> USE AmountAssumption, BoundAssumption DEF Init, NoRecords
<1>1. TypeOK
    <2>1. NoReadings \in [1..MaxLevel -> [Accounts -> Amounts \cup {NoRecord}]]
        BY DEF NoReadings
    <2>2. named \in [1..MaxLevel -> SUBSET Accounts]
        OBVIOUS
    <2>3. replaced \in [1..MaxLevel -> (SUBSET Accounts) \cup {NoRecord}]
        <3> DEFINE Values == (SUBSET Accounts) \cup {NoRecord}
        <3>1. NoRecord \in Values
            OBVIOUS
        <3> HIDE DEF Values
        <3>2. replaced \in [1..MaxLevel -> Values]
            BY <3>1
        <3>3. QED
            BY <3>2 DEF Values
    <2>4. QED
        BY <2>1, <2>2, <2>3 DEF TypeOK
<1>2. ToSet(batch) = {}
    BY DEF ToSet
<1>3. LevelsInv
    BY <1>2 DEF LevelsInv, Under
<1>4. HoldersInv
    BY DEF HoldersInv, Known, Fresh, NoReadings
<1>5. OutboxInv /\ ChangesReachThePost
    BY DEF OutboxInv, ChangesReachThePost, Under
<1>6. QED
    BY <1>1, <1>3, <1>4, <1>5 DEF BalancesInv

\* Taking a list of blocks up keeps the types.
LEMMA ReadBegins ==
    ASSUME TypeOK, NEW levels \in Seq(1..MaxLevel), ToSet(levels) \subseteq 1..MaxLevel,
           BeginRead(levels)
    PROVE  TypeOK'
<1>1. NoReadings \in [1..MaxLevel -> [Accounts -> Amounts \cup {NoRecord}]]
    BY DEF NoReadings, NoRecords
<1>2. current' \subseteq 1..MaxLevel /\ unread' \subseteq (1..MaxLevel) \X Accounts
    BY DEF BeginRead
<1>3. UNCHANGED chain
    BY DEF BeginRead
<1>4. QED
    BY <1>1, <1>2, <1>3 DEF BeginRead, chain, TypeOK

\* Every variable keeps its type.
LEMMA TypeNext == BalancesInv /\ [Next]_vars => TypeOK'
<1> SUFFICES ASSUME BalancesInv, [Next]_vars PROVE TypeOK'
    OBVIOUS
<1> USE AmountAssumption, BoundAssumption DEF BalancesInv, chain, memory
<1>a. NoReadings \in [1..MaxLevel -> [Accounts -> Amounts \cup {NoRecord}]]
      /\ NoRecords \in [Accounts -> Record \cup {NoRecord}]
    BY DEF NoReadings, NoRecords
<1>b. <<>> \in Seq(1..MaxLevel)
    OBVIOUS
<1>1. CASE Bake
    <2>1. PICK found \in SUBSET Accounts, paid \in [Accounts -> Amounts] :
              /\ named' = [named EXCEPT ![top'] = found]
              /\ balance' = paid
              /\ unnamed' = (unnamed \cup Moved(paid)) \ found
        BY <1>1 DEF Bake
    <2>2. unnamed' \subseteq Accounts
        BY <2>1 DEF Moved, TypeOK
    <2>3. named' \in [1..MaxLevel -> SUBSET Accounts] /\ top' \in 0..MaxLevel
        BY <1>1, <2>1 DEF Bake, TypeOK
    <2>4. QED
        BY <1>1, <2>1, <2>2, <2>3 DEF Bake, TypeOK
<1>1r. ASSUME NEW low \in 1..top, Replace(low) PROVE TypeOK'
    <2>1. PICK found \in [low..top -> SUBSET Accounts], paid \in [Accounts -> Amounts] :
              /\ named' = [level \in 1..MaxLevel |->
                     IF level \in low..top THEN found[level] ELSE named[level]]
              /\ balance' = paid
              /\ unnamed' = (unnamed \cup Moved(paid) \cup UNION {named[level] : level \in low..top})
                            \ UNION {found[level] : level \in low..top}
        BY <1>1r DEF Replace
    <2>2. unnamed' \subseteq Accounts
        <3>1. \A level \in low..top : named[level] \subseteq Accounts
            BY DEF TypeOK
        <3>2. QED
            BY <2>1, <3>1 DEF Moved, TypeOK
    <2>3. named' \in [1..MaxLevel -> SUBSET Accounts]
        BY <2>1 DEF TypeOK
    <2>4. replaced' \in [1..MaxLevel -> (SUBSET Accounts) \cup {NoRecord}]
        BY <1>1r DEF Replace, TypeOK
    <2>5. forks' \in 0..MaxForks /\ done' \subseteq 1..MaxLevel /\ current' \subseteq 1..MaxLevel
        BY <1>1r DEF Replace, TypeOK
    <2>6. QED
        BY <1>1r, <2>1, <2>2, <2>3, <2>4, <2>5 DEF Replace, TypeOK
<1>2. ASSUME NEW anchor \in 1..MaxLevel, NEW low \in 1..MaxLevel, NEW high \in 1..MaxLevel,
             HandOver(anchor, low, high)
      PROVE  TypeOK'
    <2>1. 1..top \subseteq 1..MaxLevel
        BY DEF TypeOK
    <2>2. QED
        BY <1>2, <2>1, HandedOver, ReadBegins
<1>3. ASSUME NEW level \in 1..MaxLevel, Recheck(level) PROVE TypeOK'
    <2>1. <<level>> \in Seq(1..MaxLevel) /\ ToSet(<<level>>) = {level}
        BY DEF ToSet
    <2>2. QED
        BY <1>3, <2>1, ReadBegins DEF Recheck
<1>4. ASSUME NEW level \in 1..MaxLevel, Post(level) PROVE TypeOK'
    <2>1. PICK post \in OnePerAddress(OfLevel(level)) :
              /\ posted' = [a \in Accounts |-> IF a \in post THEN tokenHolderChangedDB[a].balance
                                                             ELSE posted[a]]
              /\ dropped' = (dropped \ {a \in post : IsCurrent(a)}) \cup (OfLevel(level) \ post)
        BY <1>4 DEF Post
    <2>2. OfLevel(level) \subseteq Under(tokenHolderChangedDB) /\ post \subseteq OfLevel(level)
        BY DEF OfLevel, OnePerAddress
    <2>3. \A a \in Under(tokenHolderChangedDB) :
              a \in Accounts /\ tokenHolderChangedDB[a].balance \in Amounts
        BY DEF Under, TypeOK, Record
    <2>4. posted' \in [Accounts -> Amounts]
        BY <2>1, <2>2, <2>3 DEF TypeOK
    <2>5. dropped' \subseteq Accounts /\ posting' \subseteq Accounts
        BY <1>4, <2>1, <2>2, <2>3 DEF Post, KeysToDelete, TypeOK
    <2>6. QED
        BY <1>4, <2>4, <2>5 DEF Post, TypeOK
<1>5. ASSUME NEW level \in 1..MaxLevel, NEW a \in Accounts, Read(level, a) PROVE TypeOK'
    <2>1. balance[a] \in Amounts
        BY DEF TypeOK
    <2>2. readings' = [readings EXCEPT ![level][a] = balance[a]]
        BY <1>5 DEF Read
    <2>3. readings' \in [1..MaxLevel -> [Accounts -> Amounts \cup {NoRecord}]]
        BY <2>1, <2>2 DEF TypeOK
    <2>4. QED
        BY <1>5, <2>3 DEF Read, TypeOK
<1>6. CASE NothingRead \/ MonitorReturns
    <2>1. IndexReturns /\ ToSet(batch) \subseteq 1..MaxLevel
        BY <1>6 DEF NothingRead, MonitorReturns, LevelsInv, TypeOK
    <2>2. done' \subseteq 1..MaxLevel /\ recheck' \subseteq 1..MaxLevel
        BY <2>1 DEF IndexReturns, TypeOK
    <2>3. QED
        BY <1>6, <1>b, <2>1, <2>2 DEF NothingRead, MonitorReturns, IndexReturns, TypeOK
<1>7. CASE SaveHolders
    <2>1. AfterHolders \in {"monitor", "changed"}
        BY DEF AfterHolders
    <2>2. QED
        BY <1>7, <1>a, <2>1, ChangesType, OverType DEF SaveHolders, TypeOK
<1>8. CASE SaveChanged
    BY <1>8, <1>a, OverType DEF SaveChanged, Outbox, TypeOK
<1>9. ASSUME NEW a \in Accounts, Delete(a) PROVE TypeOK'
    BY <1>9 DEF Delete, TypeOK
<1>10. CASE Die
    <2>1. dropped' \subseteq Accounts /\ done' \subseteq 1..MaxLevel
        BY <1>10 DEF Die, Under, TypeOK
    <2>2. QED
        BY <1>10, <1>a, <1>b, <2>1 DEF Die, TypeOK
<1>11. CASE Restart
    <2>1. \A a \in Under(tokenHolderDB) : tokenHolderDB[a].level \in 1..MaxLevel
        BY DEF Under, TypeOK, Record
    <2>2. recheck' \subseteq 1..MaxLevel
        BY <1>11, <2>1 DEF Restart
    <2>3. QED
        BY <1>11, <2>2 DEF Restart, TypeOK
<1>12. CASE UNCHANGED vars
    BY <1>12 DEF vars, TypeOK
<1>13. QED
    BY <1>1, <1>1r, <1>2, <1>3, <1>4, <1>5, <1>6, <1>7, <1>8, <1>9, <1>10, <1>11, <1>12
    DEF Next, Indexing, NoBlockToHandOver

\* Nothing names a level the chain does not have.
LEMMA LevelsNext == BalancesInv /\ [Next]_vars => LevelsInv'
<1> SUFFICES ASSUME BalancesInv, [Next]_vars PROVE LevelsInv'
    OBVIOUS
<1> USE DEF BalancesInv, LevelsInv, chain, memory
<1>a. top \in 0..MaxLevel /\ MaxLevel \in Nat
    BY BoundAssumption DEF TypeOK
<1>b. \A a \in Under(tokenHolderDB) : tokenHolderDB[a].level \in 1..top
    BY <1>a DEF Under, TypeOK, Record
<1>c. ToSet(<<>>) = {}
    BY DEF ToSet
<1>1. CASE Bake
    <2>1. top' = top + 1 /\ UNCHANGED <<done, batch, current, recheck, tokenHolderDB>>
        BY <1>1 DEF Bake
    <2>2. 1..top \subseteq 1..top' /\ ToSet(batch') = ToSet(batch)
        BY <1>a, <2>1
    <2>3. \A a \in Under(tokenHolderDB)' : tokenHolderDB'[a].level <= top'
        BY <1>a, <1>b, <2>1 DEF Under
    <2>4. QED
        BY <2>1, <2>2, <2>3
<1>1r. ASSUME NEW low \in 1..top, Replace(low) PROVE LevelsInv'
    BY <1>1r DEF Replace, Under
<1>t. ASSUME NEW levels \in Seq(1..MaxLevel), ToSet(levels) \subseteq 1..top, BeginRead(levels)
      PROVE  LevelsInv'
    BY <1>t DEF BeginRead, Under
<1>2. ASSUME NEW anchor \in 1..MaxLevel, NEW low \in 1..MaxLevel, NEW high \in 1..MaxLevel,
             HandOver(anchor, low, high)
      PROVE  LevelsInv'
    BY <1>2, <1>t, HandedOver
<1>3. ASSUME NEW level \in 1..MaxLevel, Recheck(level) PROVE LevelsInv'
    <2>1. <<level>> \in Seq(1..MaxLevel) /\ ToSet(<<level>>) = {level} /\ level \in 1..top
        BY <1>3 DEF ToSet, Recheck
    <2>2. QED
        BY <1>3, <2>1, <1>t DEF Recheck
<1>4. CASE NothingRead \/ MonitorReturns
    <2>1. /\ ToSet(batch') = {} /\ current' = {}
          /\ done' \cup recheck' \subseteq done \cup ToSet(batch) \cup recheck
        BY <1>4, <1>c DEF NothingRead, MonitorReturns, IndexReturns
    <2>2. UNCHANGED <<top, tokenHolderDB>>
        BY <1>4 DEF NothingRead, MonitorReturns
    <2>3. QED
        BY <2>1, <2>2 DEF Under
<1>5. CASE SaveHolders
    <2>1. /\ UNCHANGED <<top, batch, current, recheck, done>>
          /\ tokenHolderDB' = Over(Changes, tokenHolderDB)
        BY <1>5 DEF SaveHolders
    <2>2. ASSUME NEW a \in Accounts, tokenHolderDB'[a] # NoRecord
          PROVE  tokenHolderDB'[a].level <= top
        <3>1. CASE Change(a) = NoRecord
            BY <1>b, <2>1, <2>2, <3>1 DEF Over, Changes, Under
        <3>2. CASE Change(a) # NoRecord
            <4>1. tokenHolderDB'[a] = Change(a)
                BY <2>1, <3>2 DEF Over, Changes
            <4>2. Change(a).level \in ToSet(batch)
                BY <3>2, ChangeIsAReading
            <4>3. QED
                BY <1>a, <4>1, <4>2
        <3>3. QED
            BY <3>1, <3>2
    <2>3. ToSet(batch') = ToSet(batch)
        BY <2>1
    <2>4. QED
        BY <2>1, <2>2, <2>3 DEF Under
<1>6. CASE Die
    BY <1>6, <1>c DEF Die, Under
<1>7. CASE Restart
    <2>1. recheck' \subseteq 1..top
        BY <1>7, <1>b DEF Restart
    <2>2. QED
        BY <1>7, <2>1 DEF Restart, Under
<1>8. ASSUME UNCHANGED <<top, tokenHolderDB, batch, current, recheck, done>> PROVE LevelsInv'
    BY <1>8 DEF Under
<1>9. ASSUME NEW level \in 1..MaxLevel, Post(level) PROVE LevelsInv'
    BY <1>8, <1>9 DEF Post
<1>10. ASSUME NEW level \in 1..MaxLevel, NEW a \in Accounts, Read(level, a) PROVE LevelsInv'
    BY <1>8, <1>10 DEF Read
<1>11. CASE SaveChanged \/ UNCHANGED vars
    BY <1>8, <1>11 DEF SaveChanged, vars
<1>12. ASSUME NEW a \in Accounts, Delete(a) PROVE LevelsInv'
    BY <1>8, <1>12 DEF Delete
<1>13. QED
    BY <1>1, <1>1r, <1>2, <1>3, <1>4, <1>5, <1>6, <1>7, <1>9, <1>10, <1>11, <1>12
    DEF Next, Indexing, NoBlockToHandOver

\* A pass of monitor_process posts what the table has, or what is known to be dropped.
LEMMA PostStep ==
    ASSUME BalancesInv, NEW level \in 1..MaxLevel, Post(level), NEW a \in Accounts
    PROVE  /\ a \in OfLevel(level) =>
                  \/ a \in dropped'
                  \/ posted'[a] = tokenHolderChangedDB[a].balance /\ IsCurrent(a)
           /\ a \notin OfLevel(level) =>
                  posted'[a] = posted[a] /\ (a \in dropped' <=> a \in dropped)
           /\ posted'[a] # posted[a] => a \in dropped \/ posted'[a] = tokenHolderDB[a].balance
<1>1. PICK post \in OnePerAddress(OfLevel(level)) :
          /\ posted' = [b \in Accounts |-> IF b \in post THEN tokenHolderChangedDB[b].balance
                                                         ELSE posted[b]]
          /\ dropped' = (dropped \ {b \in post : IsCurrent(b)}) \cup (OfLevel(level) \ post)
    BY DEF Post
<1>2. post \subseteq OfLevel(level)
    BY DEF OnePerAddress
<1>3. changed[a] = NoRecord
    BY DEF Post, BalancesInv, OutboxInv, NoRecords
<1>4. a \in OfLevel(level) => IsCurrent(a) \/ a \in dropped
    BY <1>3 DEF BalancesInv, OutboxInv, OfLevel
<1>5. CASE a \in post
    <2>1. posted'[a] = tokenHolderChangedDB[a].balance /\ a \in OfLevel(level)
        BY <1>1, <1>2, <1>5
    <2>2. ~IsCurrent(a) => a \in dropped /\ a \in dropped'
        BY <1>1, <1>4, <2>1
    <2>3. QED
        BY <2>1, <2>2 DEF IsCurrent
<1>6. CASE a \notin post
    BY <1>1, <1>6
<1>7. QED
    BY <1>5, <1>6

\* The outbox is behind the table only where that is known, and what is not posted is in it.
LEMMA OutboxNext == BalancesInv /\ [Next]_vars => OutboxInv' /\ ChangesReachThePost'
<1> SUFFICES ASSUME BalancesInv, [Next]_vars PROVE OutboxInv' /\ ChangesReachThePost'
    OBVIOUS
<1> USE DEF BalancesInv
<1>a. ASSUME UNCHANGED <<tokenHolderDB, tokenHolderChangedDB, posted, changed, posting, dropped>>,
             pc' \notin {"changed", "delete"}, pc \notin {"changed", "delete"}
      PROVE  OutboxInv' /\ ChangesReachThePost'
    BY <1>a DEF OutboxInv, ChangesReachThePost, Under, IsCurrent
<1>1. CASE Bake \/ UNCHANGED vars
    BY <1>1 DEF Bake, vars, memory, OutboxInv, ChangesReachThePost, Under, IsCurrent
<1>1r. ASSUME NEW low \in 1..top, Replace(low) PROVE OutboxInv' /\ ChangesReachThePost'
    BY <1>1r DEF Replace, memory, OutboxInv, ChangesReachThePost, Under, IsCurrent
<1>2. ASSUME NEW anchor \in 1..MaxLevel, NEW low \in 1..MaxLevel, NEW high \in 1..MaxLevel,
             HandOver(anchor, low, high)
      PROVE  OutboxInv' /\ ChangesReachThePost'
    BY <1>2, <1>a DEF HandOver, BeginRead
<1>3. ASSUME NEW level \in 1..MaxLevel, Recheck(level) PROVE OutboxInv' /\ ChangesReachThePost'
    BY <1>3, <1>a DEF Recheck, BeginRead
<1>4. ASSUME NEW level \in 1..MaxLevel, NEW a \in Accounts, Read(level, a)
      PROVE  OutboxInv' /\ ChangesReachThePost'
    BY <1>4, <1>a DEF Read
<1>5. CASE NothingRead \/ MonitorReturns \/ Restart
    BY <1>5, <1>a DEF NothingRead, MonitorReturns, IndexReturns, Restart
<1>6. CASE SaveHolders
    <2>1. /\ pc = "read" /\ pc' = AfterHolders /\ changed' = Changes
          /\ tokenHolderDB' = Over(Changes, tokenHolderDB)
          /\ UNCHANGED <<tokenHolderChangedDB, posted, posting, dropped>>
        BY <1>6 DEF SaveHolders
    <2>2. posting = {} /\ changed = NoRecords
        BY <2>1 DEF OutboxInv
    <2>3. pc' # "delete" /\ (pc' # "changed" => changed' = NoRecords)
        BY <2>1 DEF AfterHolders
    <2>4. ASSUME NEW a \in Accounts
          PROVE  /\ changed[a] = NoRecord
                 /\ changed'[a] # NoRecord => tokenHolderDB'[a] = changed'[a]
                 /\ changed'[a] = NoRecord => tokenHolderDB'[a] = tokenHolderDB[a]
        BY <2>1, <2>2 DEF Over, NoRecords, Changes
    <2>5. OutboxInv'
        BY <2>1, <2>2, <2>3, <2>4 DEF OutboxInv, Under, IsCurrent
    <2>6. ChangesReachThePost'
        BY <2>1, <2>4 DEF ChangesReachThePost, Under, IsCurrent
    <2>7. QED
        BY <2>5, <2>6
<1>7. CASE SaveChanged
    <2>1. /\ pc = "changed" /\ pc' = "monitor" /\ changed' = NoRecords
          /\ tokenHolderChangedDB' = Over(changed, tokenHolderChangedDB)
          /\ UNCHANGED <<tokenHolderDB, posted, posting, dropped>>
        BY <1>7 DEF SaveChanged, Outbox
    <2>2. posting = {}
        BY <2>1 DEF OutboxInv
    <2>3. ASSUME NEW a \in Accounts
          PROVE  /\ changed'[a] = NoRecord
                 /\ changed[a] # NoRecord => /\ tokenHolderChangedDB'[a] = changed[a]
                                             /\ tokenHolderDB[a] = changed[a]
                 /\ changed[a] = NoRecord => tokenHolderChangedDB'[a] = tokenHolderChangedDB[a]
        BY <2>1 DEF Over, NoRecords, OutboxInv, Under
    <2>4. OutboxInv'
        BY <2>1, <2>2, <2>3 DEF OutboxInv, Under, IsCurrent
    <2>5. ChangesReachThePost'
        BY <2>1, <2>3 DEF ChangesReachThePost, Under, IsCurrent
    <2>6. QED
        BY <2>4, <2>5
<1>8. ASSUME NEW level \in 1..MaxLevel, Post(level) PROVE OutboxInv' /\ ChangesReachThePost'
    <2>1. /\ pc = "monitor" /\ pc' = "delete" /\ posting' = OfLevel(level)
          /\ UNCHANGED <<tokenHolderDB, tokenHolderChangedDB, changed>>
        BY <1>8 DEF Post, KeysToDelete
    <2>2. /\ \A a \in Accounts : changed[a] = NoRecord
          /\ changed = NoRecords
        BY <2>1 DEF OutboxInv, NoRecords
    <2>3. OfLevel(level) \subseteq Under(tokenHolderChangedDB)
        BY DEF OfLevel
    <2>4. OutboxInv'
        BY <1>8, <2>1, <2>2, <2>3, PostStep DEF OutboxInv, Under, IsCurrent
    <2>5. ChangesReachThePost'
        BY <1>8, <2>1, <2>2, <2>3, PostStep DEF ChangesReachThePost, Under, IsCurrent
    <2>6. QED
        BY <2>4, <2>5
<1>9. ASSUME NEW a \in Accounts, Delete(a) PROVE OutboxInv' /\ ChangesReachThePost'
    <2>1. /\ pc = "delete" /\ a \in posting /\ posting' = posting \ {a}
          /\ pc' = IF posting' = {} THEN "monitor" ELSE pc
          /\ UNCHANGED <<tokenHolderDB, posted, changed, dropped>>
          /\ tokenHolderChangedDB' = [tokenHolderChangedDB EXCEPT ![a] = NoRecord]
        BY <1>9 DEF Delete
    <2>2. changed = NoRecords /\ changed[a] = NoRecord
        BY <2>1 DEF OutboxInv, NoRecords
    <2>3. /\ tokenHolderChangedDB'[a] = NoRecord
          /\ \A b \in Accounts \ {a} : tokenHolderChangedDB'[b] = tokenHolderChangedDB[b]
        BY <2>1 DEF TypeOK
    <2>4. posted[a] = tokenHolderDB[a].balance \/ a \in dropped
        BY <2>1, <2>2 DEF OutboxInv, Under, IsCurrent
    <2>5. pc' \in {"monitor", "delete"} /\ (pc' = "monitor" => posting' = {})
        BY <2>1
    <2>6. posting \subseteq Accounts
        BY DEF TypeOK
    <2>7. OutboxInv'
        BY <2>1, <2>2, <2>3, <2>5, <2>6 DEF OutboxInv, Under, IsCurrent
    <2>8. ChangesReachThePost'
        BY <2>1, <2>3, <2>4 DEF ChangesReachThePost, Under, IsCurrent
    <2>9. QED
        BY <2>7, <2>8
<1>10. CASE Die
    <2>1. /\ pc' = "down" /\ changed' = NoRecords /\ posting' = {}
          /\ dropped' = dropped \cup Under(changed)
          /\ UNCHANGED <<tokenHolderDB, tokenHolderChangedDB, posted>>
        BY <1>10 DEF Die
    <2>2. \A a \in Accounts : changed'[a] = NoRecord /\ (changed[a] # NoRecord => a \in dropped')
        BY <2>1 DEF NoRecords, Under
    <2>3. OutboxInv'
        BY <2>1, <2>2 DEF OutboxInv, Under, IsCurrent
    <2>4. ChangesReachThePost'
        BY <2>1, <2>2 DEF ChangesReachThePost, Under, IsCurrent
    <2>5. QED
        BY <2>3, <2>4
<1>11. QED
    BY <1>1, <1>1r, <1>2, <1>3, <1>4, <1>5, <1>6, <1>7, <1>8, <1>9, <1>10
    DEF Next, Indexing, NoBlockToHandOver

\* What HoldersInv says of one account.
HolderInv(a) ==
    /\ Known(a) = balance[a] \/ Owed(a)
    /\ Ahead(a) \/ (Fresh(a) /\ (Known(a) = balance[a] \/ InHand(a)))

\* Where a list of blocks is taken up, what is owed to an account is in it or ahead of it.
LEMMA TakenUp ==
    ASSUME BalancesInv, NEW levels, BeginRead(levels)
    PROVE  HoldersInv'
<1> SUFFICES ASSUME NEW a \in Accounts \ unnamed PROVE HolderInv(a)'
    BY DEF HoldersInv, HolderInv, BeginRead, chain
<1> USE DEF BeginRead, chain
<1>1. Known(a)' = Known(a) /\ balance'[a] = balance[a] /\ (Owed(a)' <=> Owed(a))
    BY DEF Known, Owed
<1>2. Known(a) = balance[a] \/ Owed(a)
    BY DEF BalancesInv, HoldersInv
<1>3. Fresh(a)'
    BY DEF Fresh, NoReadings, NoRecords
<1>4. ASSUME NEW level \in (1..top) \ done, a \in named[level] PROVE Ahead(a)' \/ InHand(a)'
    <2>1. CASE level \notin current'
        BY <1>4, <2>1 DEF Ahead
    <2>2. CASE level \in current'
        <3>1. level \in ToSet(levels) /\ Found(level, current') = named[level]
            BY <2>2 DEF Found
        <3>2. <<level, a>> \in unread'
            BY <1>4, <3>1
        <3>3. QED
            BY <3>1, <3>2 DEF InHand
    <2>3. QED
        BY <2>1, <2>2
<1>5. QED
    BY <1>1, <1>2, <1>3, <1>4 DEF Owed, HolderInv

\* Where index_balances returns with nothing in hand, the table is right or what is owed is
\* still ahead.
LEMMA Returned ==
    ASSUME BalancesInv, IndexReturns, \A a \in Accounts : ~InHand(a),
           UNCHANGED <<chain, tokenHolderDB, readings>>
    PROVE  HoldersInv'
<1> SUFFICES ASSUME NEW a \in Accounts \ unnamed PROVE HolderInv(a)'
    BY DEF HoldersInv, HolderInv, chain
<1> USE DEF chain
<1>1. /\ Known(a)' = Known(a) /\ balance'[a] = balance[a] /\ top' = top /\ named' = named
      /\ Fresh(a)' <=> Fresh(a)
    BY DEF Known, Fresh
<1>2. Ahead(a) \/ (Fresh(a) /\ Known(a) = balance[a])
    BY DEF BalancesInv, HoldersInv
<1>3. current' = {} /\ done' \subseteq done \cup current
    BY DEF IndexReturns
<1>4. Ahead(a) => Ahead(a)' /\ Owed(a)'
    BY <1>1, <1>3 DEF Ahead, Owed
<1>5. QED
    BY <1>1, <1>2, <1>4 DEF HolderInv

\* save_balances takes every account to what was read of it.
LEMMA Saved ==
    ASSUME BalancesInv, SaveHolders, NEW a \in Accounts \ unnamed, ~Ahead(a)
    PROVE  Known(a)' = balance[a]
<1>1. tokenHolderDB' = Over(Changes, tokenHolderDB) /\ unread = {}
    BY DEF SaveHolders
<1>2. Fresh(a) /\ (Known(a) = balance[a] \/ InHand(a))
    BY DEF BalancesInv, HoldersInv
<1>3. \A level \in ToSet(batch) : readings[level][a] # NoRecord => readings[level][a] = balance[a]
    <2>1. ToSet(batch) \subseteq 1..MaxLevel
        BY BoundAssumption DEF BalancesInv, LevelsInv, TypeOK
    <2>2. QED
        BY <1>2, <2>1 DEF Fresh
<1>4. IsChange(a, balance[a]) <=> Known(a) # balance[a]
    BY DEF IsChange, Known
<1>5. CASE Change(a) = NoRecord
    <2>1. \A level \in ToSet(batch) :
              readings[level][a] # NoRecord => ~IsChange(a, readings[level][a])
        BY <1>5, ChangeIsAReading, NoneIsApart DEF BalancesInv
    <2>2. Known(a) = balance[a]
        BY <1>1, <1>2, <1>3, <1>4, <2>1 DEF InHand
    <2>3. tokenHolderDB'[a] = tokenHolderDB[a]
        BY <1>1, <1>5 DEF Over, Changes
    <2>4. QED
        BY <2>2, <2>3 DEF Known
<1>6. CASE Change(a) # NoRecord
    <2>1. tokenHolderDB'[a] = Change(a)
        BY <1>1, <1>6 DEF Over, Changes
    <2>2. PICK level \in ToSet(batch) :
              /\ readings[level][a] # NoRecord
              /\ Change(a) = [balance |-> readings[level][a], level |-> level]
        BY <1>6, ChangeIsAReading DEF BalancesInv
    <2>3. Change(a).balance = balance[a]
        BY <1>3, <2>2
    <2>4. QED
        BY <1>6, <2>1, <2>3 DEF Known
<1>7. QED
    BY <1>5, <1>6

\* What is owed to an account is known to be: by the table, the batch in hand or the blocks
\* ahead of it.
LEMMA HoldersNext == BalancesInv /\ [Next]_vars => HoldersInv'
<1> SUFFICES ASSUME BalancesInv, [Next]_vars PROVE HoldersInv'
    OBVIOUS
<1>a. /\ HoldersInv /\ TypeOK
      /\ ToSet(batch) \subseteq 1..top /\ current \subseteq 1..top /\ done \subseteq 1..top
    BY DEF BalancesInv, LevelsInv
<1>b. ASSUME UNCHANGED <<chain, tokenHolderDB, batch, current, unread, readings, done>>,
             pc # "read" \/ UNCHANGED pc
      PROVE  HoldersInv'
    BY <1>a, <1>b DEF chain, HoldersInv, Known, Owed, Ahead, Fresh, InHand
<1>h. (\A a \in Accounts \ unnamed' : HolderInv(a)') => HoldersInv'
    BY DEF HoldersInv, HolderInv
<1>1. CASE Bake
    <2>1. PICK found \in SUBSET Accounts, paid \in [Accounts -> Amounts] :
              /\ named' = [named EXCEPT ![top'] = found]
              /\ balance' = paid
              /\ unnamed' = (unnamed \cup Moved(paid)) \ found
        BY <1>1 DEF Bake
    <2>2. /\ top' = top + 1 /\ top' \in 1..MaxLevel /\ top \in Nat
          /\ UNCHANGED <<tokenHolderDB, batch, current, unread, readings, done, pc>>
        BY <1>1, <1>a, BoundAssumption DEF Bake, memory, TypeOK
    <2>3. named'[top'] = found /\ \A level \in 1..top : named'[level] = named[level]
        BY <1>a, <2>1, <2>2 DEF TypeOK
    <2> SUFFICES ASSUME NEW a \in Accounts \ unnamed' PROVE HolderInv(a)'
        BY <1>h
    <2>4. CASE a \in found
        <3>1. top' \in (1..top') \ (done' \cup current')
            BY <1>a, <2>2
        <3>2. QED
            BY <2>3, <2>4, <3>1 DEF Owed, Ahead, HolderInv
    <2>5. CASE a \notin found
        <3>1. a \notin unnamed /\ balance'[a] = balance[a]
            BY <2>1, <2>5 DEF Moved
        <3>2. Known(a)' = Known(a) /\ (Fresh(a)' <=> Fresh(a)) /\ (InHand(a)' <=> InHand(a))
            BY <2>2, <3>1 DEF Known, Fresh, InHand
        <3>3. 1..top \subseteq 1..top'
            BY <2>2
        <3>4. (Owed(a) => Owed(a)') /\ (Ahead(a) => Ahead(a)')
            BY <2>2, <2>3, <3>3 DEF Owed, Ahead
        <3>5. QED
            BY <1>a, <3>1, <3>2, <3>4 DEF HoldersInv, HolderInv
    <2>6. QED
        BY <2>4, <2>5
<1>1r. ASSUME NEW low \in 1..top, Replace(low) PROVE HoldersInv'
    <2>1. PICK found \in [low..top -> SUBSET Accounts], paid \in [Accounts -> Amounts] :
              /\ named' = [level \in 1..MaxLevel |->
                     IF level \in low..top THEN found[level] ELSE named[level]]
              /\ balance' = paid
              /\ unnamed' = (unnamed \cup Moved(paid) \cup UNION {named[level] : level \in low..top})
                            \ UNION {found[level] : level \in low..top}
        BY <1>1r DEF Replace
    <2>2. /\ done' = done \ (low..top) /\ current' = current \ (low..top)
          /\ UNCHANGED <<top, tokenHolderDB, batch, unread, readings, pc>>
        BY <1>1r DEF Replace, memory
    <2>3. low..top \subseteq 1..top /\ 1..top \subseteq 1..MaxLevel
        BY <1>a, BoundAssumption DEF TypeOK
    <2>4. /\ \A level \in low..top : named'[level] = found[level]
          /\ \A level \in (1..top) \ (low..top) : named'[level] = named[level]
        BY <2>1, <2>3
    <2> SUFFICES ASSUME NEW a \in Accounts \ unnamed' PROVE HolderInv(a)'
        BY <1>h
    <2>5. ASSUME NEW level \in low..top, a \in found[level] PROVE HolderInv(a)'
        <3>1. level \in (1..top') \ (done' \cup current') /\ a \in named'[level]
            BY <2>2, <2>3, <2>4, <2>5
        <3>2. QED
            BY <3>1 DEF Owed, Ahead, HolderInv
    <2>6. CASE \A level \in low..top : a \notin found[level]
        <3>1. /\ a \notin unnamed /\ balance'[a] = balance[a]
              /\ \A level \in low..top : a \notin named[level]
            BY <2>1, <2>6 DEF Moved
        <3>2. Known(a)' = Known(a) /\ (Fresh(a)' <=> Fresh(a)) /\ (InHand(a)' <=> InHand(a))
            BY <2>2, <3>1 DEF Known, Fresh, InHand
        <3>3. (Owed(a) => Owed(a)') /\ (Ahead(a) => Ahead(a)')
            BY <2>2, <2>3, <2>4, <3>1 DEF Owed, Ahead
        <3>4. QED
            BY <1>a, <3>1, <3>2, <3>3 DEF HoldersInv, HolderInv
    <2>7. QED
        BY <2>5, <2>6
<1>2. ASSUME NEW anchor \in 1..MaxLevel, NEW low \in 1..MaxLevel, NEW high \in 1..MaxLevel,
             HandOver(anchor, low, high)
      PROVE  HoldersInv'
    BY <1>2, TakenUp DEF HandOver
<1>3. ASSUME NEW level \in 1..MaxLevel, Recheck(level) PROVE HoldersInv'
    BY <1>3, TakenUp DEF Recheck
<1>4. ASSUME NEW level \in 1..MaxLevel, NEW b \in Accounts, Read(level, b) PROVE HoldersInv'
    <2>1. /\ UNCHANGED <<top, balance, named, unnamed, tokenHolderDB, batch, current, done, pc>>
          /\ unread' = unread \ {<<level, b>>}
        BY <1>4 DEF Read, chain
    <2>2. ASSUME NEW a \in Accounts, NEW l \in 1..MaxLevel
          PROVE  readings'[l][a] = IF l = level /\ a = b THEN balance[a] ELSE readings[l][a]
        BY <1>4, <1>a DEF Read, TypeOK
    <2> SUFFICES ASSUME NEW a \in Accounts \ unnamed PROVE HolderInv(a)'
        BY <1>h, <2>1
    <2>3. /\ Known(a)' = Known(a) /\ balance'[a] = balance[a]
          /\ (Owed(a)' <=> Owed(a)) /\ (Ahead(a)' <=> Ahead(a))
        BY <2>1 DEF Known, Owed, Ahead
    <2>4. Fresh(a) => Fresh(a)'
        BY <2>1, <2>2 DEF Fresh
    <2>5. ASSUME InHand(a) PROVE InHand(a)'
        <3>1. PICK l \in ToSet(batch) : <<l, a>> \in unread \/ readings[l][a] # NoRecord
            BY <2>5 DEF InHand
        <3>2. l \in 1..MaxLevel
            BY <1>a, BoundAssumption DEF TypeOK
        <3>3. balance[a] # NoRecord
            BY <1>a, NoneIsApart DEF TypeOK
        <3>4. <<l, a>> \in unread' \/ readings'[l][a] # NoRecord
            BY <2>1, <2>2, <3>1, <3>2, <3>3
        <3>5. QED
            BY <2>1, <2>5, <3>4 DEF InHand
    <2>6. QED
        BY <1>a, <2>3, <2>4, <2>5 DEF HoldersInv, HolderInv
<1>5. CASE NothingRead
    <2>1. \A a \in Accounts : ~InHand(a)
        <3>1. unread = {} /\ readings = NoReadings /\ ToSet(batch) \subseteq 1..MaxLevel
            BY <1>5, <1>a, BoundAssumption DEF NothingRead, TypeOK
        <3>2. QED
            BY <3>1 DEF InHand, NoReadings, NoRecords
    <2>2. QED
        BY <1>5, <2>1, Returned DEF NothingRead
<1>6. CASE MonitorReturns
    <2>1. \A a \in Accounts : ~InHand(a)
        BY <1>6 DEF MonitorReturns, InHand
    <2>2. QED
        BY <1>6, <2>1, Returned DEF MonitorReturns
<1>7. CASE SaveHolders
    <2>1. /\ UNCHANGED <<top, balance, named, unnamed, batch, current, done>>
          /\ readings' = NoReadings
        BY <1>7 DEF SaveHolders, chain
    <2>2. ASSUME NEW a \in Accounts
          PROVE  Fresh(a)' /\ (Ahead(a) => Ahead(a)' /\ Owed(a)')
        BY <2>1 DEF Fresh, NoReadings, NoRecords, Ahead, Owed
    <2>3. QED
        BY <1>7, <1>h, <2>1, <2>2, Saved DEF HolderInv
<1>8. CASE Die
    <2>1. /\ UNCHANGED <<top, balance, named, unnamed, tokenHolderDB>>
          /\ done' \subseteq done /\ current' = {} /\ readings' = NoReadings
        BY <1>8 DEF Die, chain
    <2>2. ASSUME NEW a \in Accounts
          PROVE  /\ Fresh(a)' /\ Known(a)' = Known(a)
                 /\ (Owed(a) => Ahead(a)' /\ Owed(a)')
        BY <2>1 DEF Fresh, NoReadings, NoRecords, Known, Ahead, Owed
    <2>3. QED
        BY <1>a, <1>h, <2>1, <2>2 DEF HoldersInv, HolderInv
<1>9. CASE SaveChanged \/ Restart \/ UNCHANGED vars
    BY <1>9, <1>b DEF SaveChanged, Restart, vars, chain
<1>10. ASSUME NEW level \in 1..MaxLevel, Post(level) PROVE HoldersInv'
    BY <1>10, <1>b DEF Post
<1>11. ASSUME NEW a \in Accounts, Delete(a) PROVE HoldersInv'
    BY <1>11, <1>b DEF Delete
<1>12. QED
    BY <1>1, <1>1r, <1>2, <1>3, <1>4, <1>5, <1>6, <1>7, <1>8, <1>9, <1>10, <1>11
    DEF Next, Indexing, NoBlockToHandOver

-----------------------------------------------------------------------------
\* Theorems

\* No order of readings, bakes, reorganisations, writes and deaths breaks the invariant of the
\* balances: the table is right of an account or a block that names it is still to be done,
\* unless it moved last without a block of the chain naming it, and the outbox is behind the
\* table only where that is known.
THEOREM BalancesInvariance == Spec => []BalancesInv
<1>1. BalancesInv /\ [Next]_vars => BalancesInv'
    BY TypeNext, LevelsNext, HoldersNext, OutboxNext DEF BalancesInv
<1>2. QED
    BY BalancesInit, <1>1, PTL DEF Spec

\* Once execute has returned for every block of the chain, tokenHolderDB has the balance at
\* the head of every account but those whose last move no block of the chain names, although
\* each was read whenever its request was answered (get_token_holders, get_balances,
\* save_balances).
THEOREM HoldersAreRight == Spec => []HoldersConverge
<1>1. BalancesInv => HoldersConverge
    <2> SUFFICES ASSUME BalancesInv, pc = "idle", done = 1..top, NEW a \in Accounts \ unnamed
                 PROVE  balance[a] = Known(a)
        BY DEF HoldersConverge
    <2>1. ~Owed(a)
        BY DEF Owed
    <2>2. QED
        BY <2>1 DEF BalancesInv, HoldersInv
<1>2. QED
    BY BalancesInvariance, <1>1, PTL

\* What is not posted yet is in the outbox or on its way there, but for the changes known to
\* be dropped (save_balances, save_changed_balances, monitor_process).
THEOREM ChangesAreNotLost == Spec => []ChangesReachThePost
<1>1. BalancesInv => ChangesReachThePost
    BY DEF BalancesInv
<1>2. QED
    BY BalancesInvariance, <1>1, PTL

\* monitor_process never posts a balance that the table has left behind.
THEOREM PostsShowTheTable == Spec => PostsAreCurrent
<1>1. BalancesInv /\ [Next]_vars
      => [\A a \in Accounts :
              posted'[a] # posted[a] => a \in dropped \/ posted'[a] = tokenHolderDB[a].balance]_vars
    <2> SUFFICES ASSUME BalancesInv, Next, NEW a \in Accounts, posted'[a] # posted[a]
                 PROVE  a \in dropped \/ posted'[a] = tokenHolderDB[a].balance
        OBVIOUS
    <2>1. PICK level \in 1..MaxLevel : Post(level)
        BY DEF Next, Indexing, Bake, Replace, HandOver, Recheck, BeginRead, Read, NothingRead, SaveHolders,
               SaveChanged, MonitorReturns, Delete, NoBlockToHandOver, Die, Restart, vars
    <2>2. QED
        BY <2>1, PostStep
<1>2. QED
    BY BalancesInvariance, <1>1, PTL DEF Spec, PostsAreCurrent
=============================================================================

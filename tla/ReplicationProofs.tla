-------------------------- MODULE ReplicationProofs --------------------------
(***************************************************************************)
(* That a replica differs from its server only where the model says why,   *)
(* and shows no event without a verdict, for any set of events, any number *)
(* of messages on their way and any losses.                                *)
(***************************************************************************)
EXTENDS Replication, SequenceTheorems, TLAPS

\* A message sent is what its key will be; other keys' records stay what they would be.
LEMMA Sending ==
    ASSUME flight \in Seq(Message), NEW k \in Keys, NEW r \in Record \cup States,
           flight' = Append(flight, <<k, r>>), replica' = replica
    PROVE  /\ Upcoming(k, r)'
           /\ \A c \in Keys \ {k} : \A x : Upcoming(c, x) => Upcoming(c, x)'
<1> DEFINE n == Len(flight)
<1>1. /\ n \in Nat /\ Len(flight') = n + 1
      /\ \A i \in 1..n : flight'[i] = flight[i]
      /\ flight'[n + 1] = <<k, r>>
    BY DEF Message
<1>2. Upcoming(k, r)'
    BY <1>1 DEF Upcoming
<1>3. ASSUME NEW c \in Keys \ {k}, NEW x, Upcoming(c, x) PROVE Upcoming(c, x)'
    <2>1. CASE \A i \in 1..n : flight[i][1] # c
        BY <1>1, <1>3, <2>1 DEF Upcoming
    <2>2. CASE \E i \in 1..n :
                   flight[i] = <<c, x>> /\ \A j \in (i + 1)..n : flight[j][1] # c
        <3>1. PICK i \in 1..n :
                  flight[i] = <<c, x>> /\ \A j \in (i + 1)..n : flight[j][1] # c
            BY <2>2
        <3>2. i \in 1..(n + 1) /\ flight'[i] = <<c, x>>
            BY <1>1, <3>1
        <3>3. \A j \in (i + 1)..(n + 1) : flight'[j][1] # c
            BY <1>1, <3>1
        <3>4. QED
            BY <1>1, <3>2, <3>3 DEF Upcoming
    <2>3. QED
        BY <1>3, <2>1, <2>2 DEF Upcoming
<1>4. QED
    BY <1>2, <1>3

\* What Tail does to the positions of the messages.
LEMMA Shifting ==
    ASSUME flight \in Seq(Message), flight # <<>>, flight' = Tail(flight)
    PROVE  /\ Len(flight) \in Nat \ {0} /\ Len(flight') = Len(flight) - 1
           /\ \A i \in 1..(Len(flight) - 1) : flight'[i] = flight[i + 1]
           /\ Head(flight) = flight[1] /\ flight[1] \in Message
OBVIOUS

\* A message delivered leaves every key what it would be.
LEMMA Delivering ==
    ASSUME TypeOK, flight # <<>>, flight' = Tail(flight), replica' = Applied(Head(flight))
    PROVE  \A c \in Keys : \A x : Upcoming(c, x) => Upcoming(c, x)'
<1> DEFINE n == Len(flight)
<1> SUFFICES ASSUME NEW c \in Keys, NEW x, Upcoming(c, x) PROVE Upcoming(c, x)'
    OBVIOUS
<1>1. /\ n \in Nat \ {0} /\ Len(flight') = n - 1
      /\ \A i \in 1..(n - 1) : flight'[i] = flight[i + 1]
      /\ Head(flight) = flight[1] /\ flight[1] \in Message
    BY Shifting DEF TypeOK
<1>2. replica' = [replica EXCEPT ![flight[1][1]] = flight[1][2]] /\ flight[1][1] \in Keys
    BY <1>1 DEF Applied, Message
<1>3. CASE \A i \in 1..n : flight[i][1] # c
    <2>1. replica'[c] = x
        BY <1>1, <1>2, <1>3 DEF Upcoming, TypeOK
    <2>2. \A i \in 1..(n - 1) : flight'[i][1] # c
        BY <1>1, <1>3
    <2>3. QED
        BY <1>1, <2>1, <2>2 DEF Upcoming
<1>4. CASE \E i \in 1..n : flight[i] = <<c, x>> /\ \A j \in (i + 1)..n : flight[j][1] # c
    <2>1. PICK i \in 1..n : flight[i] = <<c, x>> /\ \A j \in (i + 1)..n : flight[j][1] # c
        BY <1>4
    <2>2. CASE i = 1
        <3>1. replica'[c] = x
            BY <1>2, <2>1, <2>2 DEF TypeOK
        <3>2. \A j \in 1..(n - 1) : flight'[j][1] # c
            BY <1>1, <2>1, <2>2
        <3>3. QED
            BY <1>1, <3>1, <3>2 DEF Upcoming
    <2>3. CASE i # 1
        <3>1. i - 1 \in 1..(n - 1) /\ flight'[i - 1] = <<c, x>>
            BY <1>1, <2>1, <2>3
        <3>2. \A j \in ((i - 1) + 1)..(n - 1) : flight'[j][1] # c
            BY <1>1, <2>1, <2>3
        <3>3. QED
            BY <1>1, <3>1, <3>2 DEF Upcoming
    <2>4. QED
        BY <2>2, <2>3
<1>5. QED
    BY <1>3, <1>4 DEF Upcoming

\* A message lost leaves what they would be to all keys but its own, and to that one too
\* when another message of it follows.
LEMMA Losing ==
    ASSUME TypeOK, flight # <<>>, flight' = Tail(flight), replica' = replica,
           NEW c \in Keys, NEW x, Upcoming(c, x), c # Head(flight)[1] \/ c \in Following
    PROVE  Upcoming(c, x)'
<1> DEFINE n == Len(flight)
<1>1. /\ n \in Nat \ {0} /\ Len(flight') = n - 1
      /\ \A i \in 1..(n - 1) : flight'[i] = flight[i + 1]
      /\ Head(flight) = flight[1] /\ flight[1] \in Message
    BY Shifting DEF TypeOK
<1>2. CASE \A i \in 1..n : flight[i][1] # c
    <2>1. \A i \in 1..(n - 1) : flight'[i][1] # c
        BY <1>1, <1>2
    <2>2. replica[c] = x
        BY <1>2 DEF Upcoming
    <2>3. QED
        BY <1>1, <2>1, <2>2 DEF Upcoming
<1>3. CASE \E i \in 1..n : flight[i] = <<c, x>> /\ \A j \in (i + 1)..n : flight[j][1] # c
    <2>1. PICK i \in 1..n : flight[i] = <<c, x>> /\ \A j \in (i + 1)..n : flight[j][1] # c
        BY <1>3
    <2>2. i # 1
        BY <1>1, <2>1 DEF Following
    <2>3. i - 1 \in 1..(n - 1) /\ flight'[i - 1] = <<c, x>>
        BY <1>1, <2>1, <2>2
    <2>4. \A j \in ((i - 1) + 1)..(n - 1) : flight'[j][1] # c
        BY <1>1, <2>1, <2>2
    <2>5. QED
        BY <1>1, <2>3, <2>4 DEF Upcoming
<1>4. QED
    BY <1>2, <1>3 DEF Upcoming

\* The absent record is no put.
LEMMA AbsentIsNoMessage == Absent \notin Record \cup States /\ NoPut \notin Message
BY AbsentAssumption DEF Record, States, Message, Keys, NoPut

\* When no message and no replica's record changes, what would be stays so.
LEMMA UpcomingUnchanged ==
    ASSUME flight' = flight, replica' = replica, NEW c, NEW x, Upcoming(c, x)
    PROVE  Upcoming(c, x)'
BY DEF Upcoming

\* What would be stays true of a settled record that stays the same.
LEMMA StaysSettled ==
    ASSUME NEW c, Upcoming(c, Settled(c)), Settled(c)' = Settled(c),
           \A x : Upcoming(c, x) => Upcoming(c, x)'
    PROVE  Upcoming(c, Settled(c))'
<1>1. PICK x : x = Settled(c)
    OBVIOUS
<1>2. Upcoming(c, x)
    BY <1>1 DEF Upcoming
<1>3. Upcoming(c, x)' /\ Settled(c)' = x
    BY <1>1, <1>2
<1>4. QED
    BY <1>3 DEF Upcoming

\* A put keeps the invariant, broadcast, lost on the way out or not broadcast at all.
LEMMA PutPreserves ==
    ASSUME ReplicationInv, NEW k \in Keys, NEW r,
           IF k \in Events THEN r \in Record /\ r.judged ELSE r \in States,
           Put(k, r)
    PROVE  ReplicationInv'
<1>1. <<k, r>> \in Message /\ NoPut # <<k, r>>
    BY AbsentIsNoMessage DEF Message
<1>2. TypeOK'
    <2>1. flight' \in Seq(Message) /\ missed' \subseteq Keys /\ putting' \in Message
        <3>1. flight \in Seq(Message) /\ missed \subseteq Keys
            BY DEF ReplicationInv, TypeOK
        <3>2. /\ flight' = flight \/ flight' = Append(flight, <<k, r>>)
              /\ missed' = missed \cup {k} \/ missed' = missed \ {k}
              /\ putting' = <<k, r>>
            BY DEF Put, Sent
        <3>3. Append(flight, <<k, r>>) \in Seq(Message)
            BY <1>1, <3>1
        <3>4. QED
            BY <1>1, <3>1, <3>2, <3>3
    <2>2. lost' \in 0..MaxLost
        BY BoundAssumption DEF Put, ReplicationInv, TypeOK
    <2>3. QED
        BY <2>1, <2>2 DEF Put, ReplicationInv, TypeOK
<1>3. FlightInv'
    <2>1. CASE flight' = flight
        BY <2>1 DEF ReplicationInv, FlightInv
    <2>2. CASE flight' = Append(flight, <<k, r>>)
        <3>1. flight \in Seq(Message)
            BY DEF ReplicationInv, TypeOK
        <3>2. /\ Len(flight) \in Nat /\ Len(flight') = Len(flight) + 1
              /\ \A i \in 1..Len(flight) : flight'[i] = flight[i]
              /\ flight'[Len(flight) + 1] = <<k, r>>
            BY <1>1, <2>2, <3>1, AppendProperties, LenProperties
        <3>3. \A i \in 1..Len(flight) :
                  IF flight[i][1] \in Events THEN flight[i][2] \in Record /\ flight[i][2].judged
                                             ELSE flight[i][2] \in States
            BY DEF ReplicationInv, FlightInv
        <3>4. \A i \in 1..Len(flight') : i \in 1..Len(flight) \/ i = Len(flight) + 1
            BY <3>2
        <3>5. QED
            BY <3>2, <3>3, <3>4 DEF FlightInv
    <2>3. QED
        BY <2>1, <2>2 DEF Put, Sent
<1>4. PuttingInv'
    BY DEF Put, PuttingInv
<1>5. ReplicaShowsOnlyJudged'
    BY DEF Put, ReplicationInv, ReplicaShowsOnlyJudged
<1>6. /\ \A c \in Keys \ {k} : Settled(c)' = Settled(c)
      /\ Settled(k)' = r
    BY <1>1 DEF Put, Settled
<1>7. ReplicaConverges'
    <2> SUFFICES ASSUME NEW c \in Keys \ missed' PROVE Upcoming(c, Settled(c))'
        BY DEF ReplicaConverges
    <2>1. CASE flight' = Append(flight, <<k, r>>) /\ missed' = missed \ {k}
        <3>1. CASE c = k
            <4>1. Upcoming(k, r)'
                BY <1>1, <2>1, Sending DEF Put, ReplicationInv, TypeOK, Message
            <4>2. QED
                BY <1>6, <3>1, <4>1 DEF Upcoming
        <3>2. CASE c # k
            <4>1. Upcoming(c, Settled(c))
                BY <2>1, <3>2 DEF ReplicationInv, ReplicaConverges
            <4>2. \A x : Upcoming(c, x) => Upcoming(c, x)'
                BY <1>1, <2>1, <3>2, Sending DEF Put, ReplicationInv, TypeOK, Message
            <4>3. QED
                BY <1>6, <3>2, <4>1, <4>2, StaysSettled
        <3>3. QED
            BY <3>1, <3>2
    <2>2. CASE flight' = flight /\ missed' = missed \cup {k}
        <3>1. c # k /\ Upcoming(c, Settled(c))
            BY <2>2 DEF ReplicationInv, ReplicaConverges
        <3>2. \A x : Upcoming(c, x) => Upcoming(c, x)'
            BY <2>2, UpcomingUnchanged DEF Put
        <3>3. QED
            BY <1>6, <3>1, <3>2, StaysSettled
    <2>3. QED
        BY <2>1, <2>2 DEF Put, Sent
<1>8. QED
    BY <1>2, <1>3, <1>4, <1>5, <1>7 DEF ReplicationInv

\* A batch, a wipe, a death, a switch of mode, the end of a put: no message moves, and every
\* key whose settled record changes is missed.
LEMMA QuietPreserves ==
    ASSUME ReplicationInv, TypeOK', PuttingInv',
           flight' = flight, replica' = replica, missed \subseteq missed',
           \A c \in Keys \ missed' : Settled(c)' = Settled(c)
    PROVE  ReplicationInv'
<1>1. FlightInv' /\ ReplicaShowsOnlyJudged'
    BY DEF ReplicationInv, FlightInv, ReplicaShowsOnlyJudged
<1>2. ReplicaConverges'
    <2> SUFFICES ASSUME NEW c \in Keys \ missed' PROVE Upcoming(c, Settled(c))'
        BY DEF ReplicaConverges
    <2>1. Upcoming(c, Settled(c))
        BY DEF ReplicationInv, ReplicaConverges
    <2>2. \A x : Upcoming(c, x) => Upcoming(c, x)'
        BY UpcomingUnchanged
    <2>3. QED
        BY <2>1, <2>2, StaysSettled
<1>3. QED
    BY <1>1, <1>2 DEF ReplicationInv

\* The server's own steps keep the invariant.
LEMMA ServerPreserves ==
    ASSUME ReplicationInv,
           \/ \E es \in SUBSET Events \ {{}}, o \in Occurrences : SaveBatch(es, o)
           \/ FinishPut \/ Die \/ Restart \/ Switch
    PROVE  ReplicationInv'
<1>1. ASSUME NEW es \in SUBSET Events, NEW o \in Occurrences, SaveBatch(es, o)
      PROVE  ReplicationInv'
    <2>1. TypeOK'
        BY <1>1, KeyAssumption DEF SaveBatch, counts, ReplicationInv, TypeOK, Record, Keys
    <2>2. PuttingInv' /\ \A c \in Keys \ missed' : Settled(c)' = Settled(c)
        BY <1>1 DEF SaveBatch, PuttingInv, Settled
    <2>3. QED
        BY <1>1, <2>1, <2>2, QuietPreserves DEF SaveBatch
<1>2. CASE FinishPut
    <2>1. putting \in Message
        BY <1>2 DEF FinishPut, ReplicationInv, TypeOK
    <2>2. TypeOK'
        BY <1>2, <2>1, KeyAssumption
        DEF FinishPut, counts, ReplicationInv, TypeOK, PuttingInv, Message, Keys
    <2>3. PuttingInv' /\ \A c \in Keys \ missed' : Settled(c)' = Settled(c)
        BY <1>2, <2>1 DEF FinishPut, PuttingInv, Settled, ReplicationInv, TypeOK, Message
    <2>4. QED
        BY <1>2, <2>2, <2>3, QuietPreserves DEF FinishPut
<1>3. CASE Die
    <2>1. TypeOK'
        <3>1. missed' \subseteq Keys
            BY <1>3 DEF Die, ReplicationInv, TypeOK, Message
        <3>2. stops' \in 0..MaxStops
            BY <1>3, BoundAssumption DEF Die, ReplicationInv, TypeOK
        <3>3. QED
            BY <1>3, <3>1, <3>2 DEF Die, ReplicationInv, TypeOK
    <2>2. PuttingInv' /\ \A c \in Keys \ missed' : Settled(c)' = Settled(c)
        BY <1>3 DEF Die, PuttingInv, Settled
    <2>3. QED
        BY <1>3, <2>1, <2>2, QuietPreserves DEF Die
<1>4. CASE Restart
    <2>1. TypeOK'
        BY <1>4, KeyAssumption DEF Restart, counts, ReplicationInv, TypeOK, Keys
    <2>2. PuttingInv' /\ \A c \in Keys \ missed' : Settled(c)' = Settled(c)
        BY <1>4 DEF Restart, ReplicationInv, PuttingInv, Settled
    <2>3. QED
        BY <1>4, <2>1, <2>2, QuietPreserves DEF Restart
<1>5. CASE Switch
    <2>1. TypeOK'
        BY <1>5, BoundAssumption DEF Switch, ReplicationInv, TypeOK
    <2>2. PuttingInv' /\ \A c \in Keys \ missed' : Settled(c)' = Settled(c)
        BY <1>5 DEF Switch, PuttingInv, Settled
    <2>3. QED
        BY <1>5, <2>1, <2>2, QuietPreserves DEF Switch
<1>6. QED
    BY <1>1, <1>2, <1>3, <1>4, <1>5

\* So do the steps of what lies between, and of the replica.
LEMMA DeliveryPreserves ==
    ASSUME ReplicationInv, Deliver \/ Lose
    PROVE  ReplicationInv'
<1>1. /\ Len(flight) \in Nat \ {0} /\ Len(flight') = Len(flight) - 1
      /\ \A i \in 1..(Len(flight) - 1) : flight'[i] = flight[i + 1]
      /\ Head(flight) = flight[1] /\ flight[1] \in Message
      /\ flight # <<>> /\ flight' = Tail(flight)
    BY Shifting DEF Deliver, Lose, ReplicationInv, TypeOK
<1>2. FlightInv' /\ PuttingInv'
    BY <1>1 DEF Deliver, Lose, ReplicationInv, FlightInv, PuttingInv
<1>3. \A c : Settled(c)' = Settled(c)
    BY DEF Deliver, Lose, Settled
<1>4. CASE Deliver
    <2>1. /\ replica' = [replica EXCEPT ![flight[1][1]] = flight[1][2]]
          /\ flight[1][1] \in Keys /\ flight[1][2] \in Record \cup States
          /\ flight[1][1] \in Events => flight[1][2] \in Record /\ flight[1][2].judged
        <3>1. flight[1][1] \in Keys /\ flight[1][2] \in Record \cup States
            BY <1>1 DEF Message
        <3>2. 1 \in 1..Len(flight)
            BY <1>1
        <3>3. flight[1][1] \in Events => flight[1][2] \in Record /\ flight[1][2].judged
            BY <3>2 DEF ReplicationInv, FlightInv
        <3>4. QED
            BY <1>1, <1>4, <3>1, <3>3 DEF Deliver, Applied
    <2>2. TypeOK'
        <3>1. flight' \in Seq(Message)
            BY <1>1 DEF ReplicationInv, TypeOK
        <3>2. QED
            BY <1>4, <2>1, <3>1, KeyAssumption
            DEF Deliver, counts, ReplicationInv, TypeOK, Keys
    <2>3. ReplicaShowsOnlyJudged'
        BY <2>1 DEF ReplicationInv, ReplicaShowsOnlyJudged, TypeOK, Keys
    <2>4. ReplicaConverges'
        <3> SUFFICES ASSUME NEW c \in Keys \ missed' PROVE Upcoming(c, Settled(c))'
            BY DEF ReplicaConverges
        <3>1. Upcoming(c, Settled(c))
            BY <1>4 DEF Deliver, ReplicationInv, ReplicaConverges
        <3>2. \A x : Upcoming(c, x) => Upcoming(c, x)'
            BY <1>1, <1>4, Delivering DEF Deliver, ReplicationInv
        <3>3. QED
            BY <1>3, <3>1, <3>2, StaysSettled
    <2>5. QED
        BY <1>2, <2>2, <2>3, <2>4 DEF ReplicationInv
<1>5. CASE Lose
    <2>1. TypeOK'
        <3>1. flight' \in Seq(Message)
            BY <1>1 DEF ReplicationInv, TypeOK
        <3>2. Head(flight)[1] \in Keys
            BY <1>1 DEF Message
        <3>3. QED
            BY <1>5, <3>1, <3>2, BoundAssumption DEF Lose, ReplicationInv, TypeOK
    <2>2. ReplicaShowsOnlyJudged'
        BY <1>5 DEF Lose, ReplicationInv, ReplicaShowsOnlyJudged
    <2>3. ReplicaConverges'
        <3> SUFFICES ASSUME NEW c \in Keys \ missed' PROVE Upcoming(c, Settled(c))'
            BY DEF ReplicaConverges
        <3>1. c \notin missed /\ (c # Head(flight)[1] \/ c \in Following)
            BY <1>5 DEF Lose
        <3>2. Upcoming(c, Settled(c))
            BY <3>1 DEF ReplicationInv, ReplicaConverges
        <3>3. \A x : Upcoming(c, x) => Upcoming(c, x)'
            BY <1>1, <1>5, <3>1, Losing DEF Lose, ReplicationInv
        <3>4. QED
            BY <1>3, <3>2, <3>3, StaysSettled
    <2>4. QED
        BY <1>2, <2>1, <2>2, <2>3 DEF ReplicationInv
<1>6. QED
    BY <1>4, <1>5

\* However puts, batches, losses and deaths interleave, the replica is where the model of its
\* misses says it is.
THEOREM ReplicationInvariance == Spec => []ReplicationInv
<1>1. Init => ReplicationInv
    <2> SUFFICES ASSUME Init PROVE ReplicationInv
        OBVIOUS
    <2>1. TypeOK
        BY KeyAssumption, BoundAssumption DEF Init, TypeOK, Keys
    <2>2. FlightInv /\ PuttingInv /\ ReplicaShowsOnlyJudged
        BY DEF Init, FlightInv, PuttingInv, NoPut, ReplicaShowsOnlyJudged, Keys
    <2>3. ReplicaConverges
        BY DEF Init, ReplicaConverges, Upcoming, Settled, NoPut
    <2>4. QED
        BY <2>1, <2>2, <2>3 DEF ReplicationInv
<1>2. ReplicationInv /\ [Next]_vars => ReplicationInv'
    <2> SUFFICES ASSUME ReplicationInv, [Next]_vars PROVE ReplicationInv'
        OBVIOUS
    <2>1. ASSUME NEW e \in Events, PutVerdict(e) PROVE ReplicationInv'
        <3>1. server[e] \in Record /\ e \in Keys
            BY <2>1 DEF PutVerdict, ReplicationInv, TypeOK, Keys
        <3>2. /\ [server[e] EXCEPT !.judged = TRUE] \in Record
              /\ [server[e] EXCEPT !.judged = TRUE].judged
            BY <3>1 DEF Record
        <3>3. QED
            BY <2>1, <3>1, <3>2, PutPreserves DEF PutVerdict
    <2>2. CASE PutState
        <3>1. NextState \in States
            BY VersionsAssumption DEF NextState, States, ReplicationInv, TypeOK
        <3>2. QED
            BY <2>2, <3>1, KeyAssumption, PutPreserves DEF PutState, Keys
    <2>3. CASE UNCHANGED vars
        <3>1. TypeOK' /\ FlightInv' /\ PuttingInv' /\ ReplicaShowsOnlyJudged'
            BY <2>3
            DEF vars, ReplicationInv, TypeOK, FlightInv, PuttingInv, ReplicaShowsOnlyJudged
        <3>2. ReplicaConverges'
            <4>1. missed' = missed /\ putting' = putting /\ server' = server
                  /\ flight' = flight /\ replica' = replica
                BY <2>3 DEF vars
            <4>2. \A k : Settled(k)' = Settled(k)
                BY <4>1 DEF Settled
            <4>3. \A k, r : Upcoming(k, r)' <=> Upcoming(k, r)
                BY <4>1 DEF Upcoming
            <4>4. ReplicaConverges
                BY DEF ReplicationInv
            <4>5. QED
                BY <4>1, <4>2, <4>3, <4>4, Zenon DEF ReplicaConverges
        <3>3. QED
            BY <3>1, <3>2 DEF ReplicationInv
    <2>4. QED
        BY <2>1, <2>2, <2>3, ServerPreserves, DeliveryPreserves DEF Next
<1>3. QED
    BY <1>1, <1>2, PTL DEF Spec

\* In particular no replica ever holds an event without a verdict.
THEOREM ReplicasShowOnlyJudged == Spec => []ReplicaShowsOnlyJudged
<1>1. ReplicationInv => ReplicaShowsOnlyJudged
    BY DEF ReplicationInv
<1>2. QED
    BY <1>1, ReplicationInvariance, PTL
=============================================================================

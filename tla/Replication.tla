---------------------------- MODULE Replication ----------------------------
(***************************************************************************)
(* What reaches a replica.  In "server" mode Storage.__getattr__           *)
(* (src/src/storage/common.py) broadcasts every put through the pubsub     *)
(* server before it makes it; write batches and deletes pass it by.  A     *)
(* broadcast that fails is dropped.  The replica's pubsub_handler puts     *)
(* what it is sent into the database of that name.                         *)
(*                                                                         *)
(* Two kinds of records matter: an event, saved by write_batch and put     *)
(* again with its verdict, and the fetcher state, only ever put.  What     *)
(* lies between broadcast and hook is external: it keeps the order, may    *)
(* lose a message, and does not send the server its own.                   *)
(***************************************************************************)
EXTENDS Integers, Sequences

CONSTANTS
    Events,         \* keys of eventDB
    Occurrences,    \* what a key's event may be: its blocks, in the forks
    Versions,       \* bound: the fetcher states are numbered modulo this
    MaxFlight,      \* bound: messages between the server and the replica
    MaxLost,        \* bound: broadcasts and messages lost
    MaxStops,       \* bound: deaths of the server, and resets
    MaxSwitches,    \* bound: re-initialisations with another running_mode
    Absent          \* nothing under this key; no put under way

ASSUME VersionsAssumption == Versions \in Nat /\ Versions > 1
ASSUME BoundAssumption == {MaxFlight, MaxLost, MaxStops, MaxSwitches} \subseteq Nat
ASSUME KeyAssumption == "fetcher_state" \notin Events
ASSUME AbsentAssumption ==
    LET records == [occurrence : Occurrences, judged : BOOLEAN] \cup [sweep : 0..(Versions - 1)]
    IN  Absent \notin records \cup ((Events \cup {"fetcher_state"}) \X records)

VARIABLES
    server,     \* key -> record, in the server's databases
    replica,    \* key -> record, in the replica's
    flight,     \* messages on their way, in the order they were broadcast
    putting,    \* the put that is broadcast but not yet made, if any
    mode,       \* the server's running_mode
    up,         \* the server runs
    missed,     \* keys of which the replica is not sent what the server has
    lost, stops, switches

counts == <<lost, stops, switches>>
vars == <<server, replica, flight, putting, mode, up, missed, lost, stops, switches>>

Keys == Events \cup {"fetcher_state"}
States == [sweep : 0..(Versions - 1)]
Record == [occurrence : Occurrences, judged : BOOLEAN]
Message == Keys \X (Record \cup States)
NoPut == Absent

TypeOK ==
    /\ server \in [Keys -> Record \cup States \cup {Absent}]
    /\ replica \in [Keys -> Record \cup States \cup {Absent}]
    /\ \A e \in Events :
           server[e] \in Record \cup {Absent} /\ replica[e] \in Record \cup {Absent}
    /\ server["fetcher_state"] \in States \cup {Absent}
    /\ flight \in Seq(Message)
    /\ putting \in Message \cup {NoPut}
    /\ mode \in {"server", "other"}
    /\ up \in BOOLEAN
    /\ missed \subseteq Keys
    /\ lost \in 0..MaxLost /\ stops \in 0..MaxStops /\ switches \in 0..MaxSwitches

Init ==
    /\ server = [k \in Keys |-> Absent] /\ replica = [k \in Keys |-> Absent]
    /\ flight = <<>> /\ putting = NoPut
    /\ mode = "server" /\ up = TRUE
    /\ missed = {}
    /\ lost = 0 /\ stops = 0 /\ switches = 0

-----------------------------------------------------------------------------
\* The server.

\* write_batch: straight to LevelDB.
SaveBatch(es, o) ==
    /\ up /\ putting = NoPut
    /\ server' = [k \in Keys |-> IF k \in es THEN [occurrence |-> o, judged |-> FALSE]
                                             ELSE server[k]]
    /\ missed' = missed \cup es
    /\ UNCHANGED <<replica, flight, putting, mode, up, counts>>

\* fault: verdicts only
Broadcasts_Verdicts(k) == mode = "server" /\ k \in Events
Broadcasts(k) == mode = "server"

\* fault: what is sent is the record as it was
Sent_Old(k, r) == IF server[k] = Absent THEN r ELSE server[k]
Sent(k, r) == r

\* on_db_event: the message goes out; or it cannot and is dropped; or there is none to send.
Put(k, r) ==
    /\ up /\ putting = NoPut
    /\ putting' = <<k, r>>
    /\ \/ /\ Broadcasts(k) /\ Len(flight) < MaxFlight
          /\ flight' = Append(flight, <<k, Sent(k, r)>>)
          /\ missed' = missed \ {k}
          /\ lost' = lost
       \/ /\ Broadcasts(k) /\ lost < MaxLost
          /\ missed' = missed \cup {k}
          /\ lost' = lost + 1
          /\ flight' = flight
       \/ /\ ~Broadcasts(k)
          /\ missed' = missed \cup {k}
          /\ UNCHANGED <<flight, lost>>
    /\ UNCHANGED <<server, replica, mode, up, stops, switches>>

\* trust_event and untrust_event put the record they found, with its mark.
PutVerdict(e) == server[e] # Absent /\ Put(e, [server[e] EXCEPT !.judged = TRUE])

\* update_fetcher_state makes the next state of the one in the database.
NextState == IF server["fetcher_state"] = Absent THEN [sweep |-> 0]
             ELSE [sweep |-> (server["fetcher_state"].sweep + 1) % Versions]
PutState == Put("fetcher_state", NextState)

\* The put itself.
FinishPut ==
    /\ up /\ putting # NoPut
    /\ server' = [server EXCEPT ![putting[1]] = putting[2]]
    /\ putting' = NoPut
    /\ UNCHANGED <<replica, flight, mode, up, missed, counts>>

\* A death before the put itself leaves the replica ahead of the server.
Die ==
    /\ up /\ stops < MaxStops
    /\ stops' = stops + 1
    /\ up' = FALSE /\ putting' = NoPut
    /\ missed' = IF putting = NoPut THEN missed ELSE missed \cup {putting[1]}
    /\ UNCHANGED <<server, replica, flight, mode, lost, switches>>

\* With a reset_db file the event databases are removed: no delete is broadcast either.
Restart ==
    /\ ~up
    /\ up' = TRUE
    /\ \/ UNCHANGED <<server, missed>>
       \/ /\ server' = [k \in Keys |-> IF k \in Events THEN Absent ELSE server[k]]
          /\ missed' = missed \cup Events
    /\ UNCHANGED <<replica, flight, putting, mode, counts>>

\* /pubsub/initialize with another running_mode: broadcasting follows it at once.
Switch ==
    /\ up /\ putting = NoPut /\ switches < MaxSwitches
    /\ switches' = switches + 1
    /\ mode' = IF mode = "server" THEN "other" ELSE "server"
    /\ UNCHANGED <<server, replica, flight, putting, up, missed, lost, stops>>

-----------------------------------------------------------------------------
\* The pubsub server, and the replica.

\* fault: the replica keeps what it has
Applied_First(m) == IF replica[m[1]] # Absent THEN replica
                    ELSE [replica EXCEPT ![m[1]] = m[2]]
\* pubsub_handler: the put, whatever is there.
Applied(m) == [replica EXCEPT ![m[1]] = m[2]]

Deliver ==
    /\ flight # <<>>
    /\ replica' = Applied(Head(flight))
    /\ flight' = Tail(flight)
    /\ UNCHANGED <<server, putting, mode, up, missed, counts>>

\* The keys of the messages that follow.
Following == {flight[i][1] : i \in 2..Len(flight)}

\* A message is lost: that matters unless another of the same key follows it.
Lose ==
    /\ flight # <<>> /\ lost < MaxLost
    /\ lost' = lost + 1
    /\ flight' = Tail(flight)
    /\ missed' = missed \cup ({Head(flight)[1]} \ Following)
    /\ UNCHANGED <<server, replica, putting, mode, up, stops, switches>>

Next ==
    \/ \E es \in SUBSET Events \ {{}}, o \in Occurrences : SaveBatch(es, o)
    \/ \E e \in Events : PutVerdict(e)
    \/ PutState \/ FinishPut \/ Die \/ Restart \/ Switch
    \/ Deliver \/ Lose

Spec == Init /\ [][Next]_vars

\* A put that was broadcast is made, messages arrive, the server is restarted, and the crawl
\* comes to the end of a sweep again and again, whatever the check tasks put meanwhile.
FairSpec == Spec /\ WF_vars(FinishPut) /\ WF_vars(Deliver) /\ WF_vars(Restart) /\ SF_vars(PutState)

-----------------------------------------------------------------------------
\* Properties

\* The replica's record of a key will be r once all that is on its way has arrived.
Upcoming(k, r) ==
    \/ \E i \in 1..Len(flight) :
           flight[i] = <<k, r>> /\ \A j \in (i + 1)..Len(flight) : flight[j][1] # k
    \/ replica[k] = r /\ \A i \in 1..Len(flight) : flight[i][1] # k

\* The server's record of it once the put under way is made.
Settled(k) == IF putting # NoPut /\ putting[1] = k THEN putting[2] ELSE server[k]

\* A replica comes to hold exactly what the server holds, but for the keys whose last write
\* was a batch, a wipe, a put outside server mode, a message lost, or a put a death prevented
\* after its broadcast; and the next put that gets through makes any of them good.
ReplicaConverges == \A k \in Keys \ missed : Upcoming(k, Settled(k))

\* Whatever is lost or interleaved, a replica holds no event without a verdict: batches do
\* not reach it, a verdict comes with the whole record.
ReplicaShowsOnlyJudged == \A e \in Events : replica[e] # Absent => replica[e].judged

\* In server mode a fetcher state that was lost, or that a death took back on the server
\* only, does not keep the replica wrong: the next sweep's is a whole record again.
StateCatchesUp == <>[](mode = "server" => "fetcher_state" \notin missed)

-----------------------------------------------------------------------------
\* The invariant that carries the proofs (ReplicationProofs)

\* An event is only ever sent with its verdict, and a put is of the key's kind.
FlightInv ==
    \A i \in 1..Len(flight) :
        IF flight[i][1] \in Events THEN flight[i][2] \in Record /\ flight[i][2].judged
                                   ELSE flight[i][2] \in States
PuttingInv ==
    putting # NoPut => IF putting[1] \in Events THEN putting[2] \in Record
                                                ELSE putting[2] \in States

ReplicationInv ==
    /\ TypeOK /\ FlightInv /\ PuttingInv
    /\ ReplicaConverges /\ ReplicaShowsOnlyJudged
=============================================================================

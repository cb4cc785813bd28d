----------------------------- MODULE FetchPool -----------------------------
(***************************************************************************)
(* How one batch of blocks is fetched: gather_with_concurrency             *)
(* (src/src/utils/common.py) starts a task per block, each of which holds  *)
(* a permit of the semaphore while TezosClient.get_json tries, cools down  *)
(* and tries again.  A connection that is refused is tried again for ever, *)
(* any other failure is counted.  gather returns when every task has, and  *)
(* raises as soon as one does; the others then go on until the process     *)
(* shuts down.                                                             *)
(***************************************************************************)
EXTENDS Integers, FiniteSets

CONSTANTS
    Members,        \* the get_block calls of the batch
    Jobs,           \* config.concurrent_job: the semaphore's permits
    Retries,        \* get_json's default retry
    MaxOutages      \* bound: connections refused during the batch

ASSUME MembersAssumption == IsFiniteSet(Members)
ASSUME JobsAssumption == Jobs \in Nat \ {0}    \* with 0 no block is ever asked for
ASSUME RetriesAssumption == Retries \in Nat \ {0} /\ MaxOutages \in Nat

VARIABLES
    permits,    \* the semaphore's value
    at,         \* where each task is suspended, or how it ended
    retry,      \* get_json's retry, handed from each call to the next
    refused,    \* how often the endpoint failed a task on a connection it took
    outages,    \* connections refused, to bound them
    outcome     \* of gather: "open", "returned", "raised"; or "down" after shutdown

vars == <<permits, at, retry, refused, outages, outcome>>

Holding == {"asking", "cooling", "disconnected"}    \* inside the semaphore's block
Ended == {"answered", "failed", "cancelled"}

TypeOK ==
    /\ permits \in 0..Jobs
    /\ at \in [Members -> {"queued"} \cup Holding \cup Ended]
    /\ retry \in [Members -> 0..Retries] /\ refused \in [Members -> Nat]
    /\ outages \in 0..MaxOutages
    /\ outcome \in {"open", "returned", "raised", "down"}

Init ==
    /\ permits = Jobs
    /\ at = [m \in Members |-> "queued"]
    /\ retry = [m \in Members |-> Retries]
    /\ refused = [m \in Members |-> 0]
    /\ outages = 0
    /\ outcome = "open"

Holders == {m \in Members : at[m] \in Holding}
MoveTo(m, place) == at' = [at EXCEPT ![m] = place]

-----------------------------------------------------------------------------
\* The tasks.

\* async with semaphore
Acquire(m) ==
    /\ at[m] = "queued" /\ permits > 0
    /\ permits' = permits - 1
    /\ MoveTo(m, "asking")
    /\ UNCHANGED <<retry, refused, outages, outcome>>

\* What leaving the block gives back, with an answer or with an exception.
\* fault: acquire without release
Leave_Keeps(m, how) == MoveTo(m, how) /\ UNCHANGED permits
\* fault: the permit is given back only after an answer
Leave_OnlyAnswered(m, how) ==
    /\ permits' = IF how = "answered" THEN permits + 1 ELSE permits
    /\ MoveTo(m, how)
Leave(m, how) ==
    /\ permits' = permits + 1
    /\ MoveTo(m, how)

Answer(m) ==
    /\ at[m] = "asking"
    /\ Leave(m, "answered")
    /\ UNCHANGED <<retry, refused, outages, outcome>>

\* A status other than 200, a timeout, an answer that does not parse: 10 s.
Refuse(m) ==
    /\ at[m] = "asking"
    /\ refused' = [refused EXCEPT ![m] = @ + 1]
    /\ MoveTo(m, "cooling")
    /\ UNCHANGED <<permits, retry, outages, outcome>>

\* ClientConnectorError: 120 s.
Disconnect(m) ==
    /\ at[m] = "asking" /\ outages < MaxOutages
    /\ outages' = outages + 1
    /\ MoveTo(m, "disconnected")
    /\ UNCHANGED <<permits, retry, refused, outcome>>

TriesLeft(m) == retry[m] - 1

\* After the 10 s one try less is left; without any, get_json raises.
CoolDown(m) ==
    /\ at[m] = "cooling"
    /\ retry' = [retry EXCEPT ![m] = TriesLeft(m)]
    /\ IF TriesLeft(m) = 0 THEN Leave(m, "failed")
                           ELSE MoveTo(m, "asking") /\ UNCHANGED permits
    /\ UNCHANGED <<refused, outages, outcome>>

\* After the 120 s the call is made again with as many tries left as before.
\* fault: a refused connection is counted like any failure
AfterOutage_Counted(m) == IF retry[m] = 1 THEN 1 ELSE retry[m] - 1
AfterOutage(m) == retry[m]

Reconnect(m) ==
    /\ at[m] = "disconnected"
    /\ retry' = [retry EXCEPT ![m] = AfterOutage(m)]
    /\ MoveTo(m, "asking")
    /\ UNCHANGED <<permits, refused, outages, outcome>>

-----------------------------------------------------------------------------
\* gather, and what its exception comes to.

Return ==
    /\ outcome = "open" /\ \A m \in Members : at[m] = "answered"
    /\ outcome' = "returned"
    /\ UNCHANGED <<permits, at, retry, refused, outages>>

Raise ==
    /\ outcome = "open" /\ \E m \in Members : at[m] = "failed"
    /\ outcome' = "raised"
    /\ UNCHANGED <<permits, at, retry, refused, outages>>

\* run.py shuts down: every task is cancelled, and so leaves the semaphore's block.
Shutdown ==
    /\ outcome = "raised"
    /\ outcome' = "down"
    /\ at' = [m \in Members |-> IF at[m] \in Ended THEN at[m] ELSE "cancelled"]
    /\ permits' = permits + Cardinality(Holders)
    /\ UNCHANGED <<retry, refused, outages>>

MemberStep(m) ==
    Acquire(m) \/ Answer(m) \/ Refuse(m) \/ Disconnect(m) \/ CoolDown(m) \/ Reconnect(m)

Next ==
    \/ \E m \in Members : MemberStep(m)
    \/ Return \/ Raise \/ Shutdown

Spec == Init /\ [][Next]_vars

\* The event loop runs what can run, a sleep ends, and the endpoint gives a request some
\* answer, a failure included; it does not refuse connections for ever.
Fairness ==
    /\ \A m \in Members :
           /\ WF_vars(Acquire(m)) /\ WF_vars(CoolDown(m)) /\ WF_vars(Reconnect(m))
           /\ WF_vars(Answer(m) \/ Refuse(m))
    /\ WF_vars(Return) /\ WF_vars(Raise) /\ WF_vars(Shutdown)

FairSpec == Spec /\ Fairness

-----------------------------------------------------------------------------
\* Properties

\* Whatever ends a task - an answer, its last failure, the shutdown - its permit is back:
\* permits and the tasks inside the semaphore always add up, so that concurrent_job bounds
\* the requests and no failure narrows the pool.
PermitsAddUp == permits + Cardinality(Holders) = Jobs

\* The process goes down for a batch only after one of its blocks failed Retries times on
\* connections that were taken: outages, however many and wherever they fall between the
\* failures, bring nothing down (client.py:28), and no block gets fewer tries for them.
RaiseIsEarned ==
    outcome \in {"raised", "down"} => \E m \in Members : refused[m] = Retries

\* Tasks hold their permit through every cool-down, with more blocks to fetch than permits:
\* the batch nevertheless ends, with all its blocks or with the process.
BatchEnds == <>(outcome \in {"returned", "down"})

-----------------------------------------------------------------------------
\* The invariant that carries the proofs (FetchPoolProofs)

\* Tries left and failures add up; a failure still cooling down is yet to be counted.
CountInv ==
    \A m \in Members :
        /\ at[m] # "cancelled" =>
               retry[m] + refused[m] = Retries + (IF at[m] = "cooling" THEN 1 ELSE 0)
        /\ at[m] \in Holding \cup {"queued"} => retry[m] > 0
        /\ at[m] = "failed" => retry[m] = 0

OutcomeInv == outcome \in {"raised", "down"} => \E m \in Members : at[m] = "failed"

PoolInv == TypeOK /\ PermitsAddUp /\ CountInv /\ OutcomeInv
=============================================================================

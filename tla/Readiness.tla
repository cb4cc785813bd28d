----------------------------- MODULE Readiness -----------------------------
(***************************************************************************)
(* How the process gets from its launch to indexing: AlephStorageInstance  *)
(* (src/src/storage/common.py) keeps a record with the configuration of    *)
(* the instance, its subscriptions at a pubsub server and the app_ready    *)
(* flag; check() polls it and loads the default configuration after a      *)
(* while; run.start waits for the event check() sets.                      *)
(*                                                                         *)
(* initialize_handler blocks the event loop from its first line to its     *)
(* last, so no other coroutine sees it half done.  A death may cut it      *)
(* anywhere, and the POST to the pubsub server may be refused, fail, or    *)
(* succeed with its answer lost.                                           *)
(***************************************************************************)
EXTENDS Integers

CONSTANTS
    Subscriptions,  \* what subscribe hashes: uuid, pubsub server and options
    NoServer,       \* those whose pubsub_server is not an http address
    Default,        \* config.pubsub, or NoConfig
    NoConfig,       \* no configuration was ever given
    Launcher,       \* "uvicorn": uvicorn run:app; "python": python run.py
    PollLimit,      \* polls before the default is loaded (10 in the code)
    MaxRequests,    \* bound: POSTs to /pubsub/initialize
    MaxCrashes      \* bound: process deaths

Config == [sub : Subscriptions, mode : {"readonly", "server"}]

ASSUME ConfigAssumption ==
    /\ NoServer \subseteq Subscriptions
    /\ Default \in Config \cup {NoConfig} /\ NoConfig \notin Config
ASSUME LauncherAssumption == Launcher \in {"uvicorn", "python"}
ASSUME BoundAssumption == {PollLimit, MaxRequests, MaxCrashes} \subseteq Nat

VARIABLES
    record,     \* what __aleph_application has under 'instance'
    instance,   \* AlephStorageInstance.instance: the record, once it was loaded
    phase,      \* of run.start: "down", "waiting" for the event, "started"
    indexing,   \* start found another mode than readonly
    check,      \* check(): "asleep", "loading" the default, "done", or "dead" of an exception
    polls,      \* check_count, as far as PollLimit + 1
    event,      \* self.event is set
    step,       \* of initialize_handler: "idle", "post", "record", "ready"
    reinit,     \* app_ready held when the handler was entered
    accepted,   \* how often the pubsub server accepted each subscription
    unheard,    \* how often the record missed that it did
    excused,    \* subscriptions left out although the instance is ready
    requests, crashes

process == <<phase, indexing, check, polls, event>>
counts == <<requests, crashes>>
vars == <<record, instance, phase, indexing, check, polls, event, step, reinit, accepted,
          unheard, excused, requests, crashes>>

Record == [config : Config \cup {NoConfig}, subscriptions : SUBSET Subscriptions,
           app_ready : BOOLEAN]
NotLoaded == [config |-> NoConfig, subscriptions |-> {}, app_ready |-> FALSE]

TypeOK ==
    /\ record \in Record /\ instance \in Record
    /\ phase \in {"down", "waiting", "started"} /\ indexing \in BOOLEAN
    /\ check \in {"asleep", "loading", "done", "dead"} /\ polls \in 0..(PollLimit + 1)
    /\ event \in BOOLEAN
    /\ step \in {"idle", "post", "record", "ready"} /\ reinit \in BOOLEAN
    /\ accepted \in [Subscriptions -> Nat] /\ unheard \in [Subscriptions -> Nat]
    /\ excused \subseteq Subscriptions
    /\ requests \in 0..MaxRequests /\ crashes \in 0..MaxCrashes

Init ==
    /\ record = NotLoaded /\ instance = NotLoaded
    /\ phase = "down" /\ indexing = FALSE
    /\ check = "dead" /\ polls = 0 /\ event = FALSE
    /\ step = "idle" /\ reinit = FALSE
    /\ accepted = [s \in Subscriptions |-> 0] /\ unheard = [s \in Subscriptions |-> 0]
    /\ excused = {}
    /\ requests = 0 /\ crashes = 0

\* The subscription the handler is at.
Sub == instance.config.sub

-----------------------------------------------------------------------------
\* run.start and check().

\* The instance is created; check finds an app_ready record at once, or goes to sleep.
Launch ==
    /\ phase = "down"
    /\ phase' = "waiting" /\ indexing' = FALSE
    /\ instance' = record
    /\ event' = record.app_ready
    /\ check' = IF record.app_ready THEN "done" ELSE "asleep"
    /\ polls' = 0
    /\ UNCHANGED <<record, step, reinit, accepted, unheard, excused, counts>>

\* initialize_handler, first part: load_instance, then update.
\* fault: app_ready is put with the configuration
Updated_Ready(c) == [record EXCEPT !.config = c, !.app_ready = TRUE]
Updated(c) == [record EXCEPT !.config = c]

EnterHandler(c) ==
    /\ record' = Updated(c) /\ instance' = record'
    /\ reinit' = record.app_ready
    /\ step' = IF c.sub \in NoServer \cup record.subscriptions THEN "ready" ELSE "post"

\* fault: check leaves it at the polls before the default
AfterPoll_GivesUp == IF record.app_ready \/ polls' = PollLimit THEN "done" ELSE "asleep"
AfterPoll == IF record.app_ready THEN "done" ELSE "asleep"

\* The three seconds are over.  Beyond the limit the default is loaded, whatever the record
\* has become in the meantime.
CheckWakes ==
    /\ phase # "down" /\ check = "asleep" /\ step = "idle"
    /\ polls' = IF polls > PollLimit THEN polls ELSE polls + 1
    /\ IF polls' > PollLimit /\ Default # NoConfig
       THEN /\ EnterHandler(Default)
            /\ check' = "loading"
            /\ UNCHANGED event
       ELSE /\ instance' = record
            /\ check' = AfterPoll
            /\ event' = record.app_ready
            /\ UNCHANGED <<record, step, reinit>>
    /\ UNCHANGED <<phase, indexing, accepted, unheard, excused, counts>>

\* on_ready returns, and the mode is looked at.
Start ==
    /\ phase = "waiting" /\ event /\ step = "idle"
    /\ phase' = "started"
    /\ indexing' = (instance.config.mode # "readonly")
    /\ UNCHANGED <<record, instance, check, polls, event, step, reinit, accepted, unheard,
                   excused, counts>>

-----------------------------------------------------------------------------
\* initialize_handler, called by check or by a POST to /pubsub/initialize.

\* Under uvicorn the routes are served from the beginning; python run.py serves them with
\* the tasks it gathers once the event is set.
Serving == IF Launcher = "uvicorn" THEN phase # "down" ELSE phase = "started"

Initialize(c) ==
    /\ Serving /\ step = "idle" /\ requests < MaxRequests
    /\ requests' = requests + 1
    /\ EnterHandler(c)
    /\ UNCHANGED <<process, accepted, unheard, excused, crashes>>

\* The POST to the pubsub server's /subscribe is answered 200 ...
PostAccepted ==
    /\ step = "post"
    /\ accepted' = [accepted EXCEPT ![Sub] = @ + 1]
    /\ step' = "record"
    /\ UNCHANGED <<record, instance, process, reinit, unheard, excused, counts>>

\* ... or with another status, which does not keep the instance from getting ready.
PostRefused ==
    /\ step = "post"
    /\ excused' = excused \cup {Sub}
    /\ step' = "ready"
    /\ UNCHANGED <<record, instance, process, reinit, accepted, unheard, counts>>

\* What an ending before set_ready leaves of a configuration already put in the record.
CutShort ==
    /\ step' = "idle"
    /\ excused' = IF reinit /\ step \in {"post", "record"} THEN excused \cup {Sub} ELSE excused

\* requests.post raises, before or after the server took the subscription: the caller is
\* answered 500, or check() ends.
PostRaises ==
    /\ step = "post"
    /\ CutShort
    /\ \/ UNCHANGED <<accepted, unheard>>
       \/ /\ accepted' = [accepted EXCEPT ![Sub] = @ + 1]
          /\ unheard' = [unheard EXCEPT ![Sub] = @ + 1]
    /\ check' = IF check = "loading" THEN "dead" ELSE check
    /\ UNCHANGED <<record, instance, phase, indexing, polls, event, reinit, counts>>

\* fault: the list of subscriptions is replaced, not appended to
Recorded_Alone(s) == [record EXCEPT !.subscriptions = {s}]
Recorded(s) == [record EXCEPT !.subscriptions = @ \cup {s}]

RecordSubscription ==
    /\ step = "record"
    /\ record' = Recorded(Sub) /\ instance' = record'
    /\ step' = "ready"
    /\ UNCHANGED <<process, reinit, accepted, unheard, excused, counts>>

\* set_ready.  check(), if it is the caller, sees the flag and sets the event.
SetReady ==
    /\ step = "ready"
    /\ record' = [record EXCEPT !.app_ready = TRUE] /\ instance' = record'
    /\ step' = "idle"
    /\ IF check = "loading" THEN check' = "done" /\ event' = TRUE
                            ELSE UNCHANGED <<check, event>>
    /\ UNCHANGED <<phase, indexing, polls, reinit, accepted, unheard, excused, counts>>

\* A kill, or /application/__force_exit; a subscription not yet in the record is not known.
Die ==
    /\ phase # "down" /\ crashes < MaxCrashes
    /\ crashes' = crashes + 1
    /\ phase' = "down" /\ indexing' = FALSE
    /\ instance' = NotLoaded
    /\ check' = "dead" /\ polls' = 0 /\ event' = FALSE
    /\ CutShort
    /\ unheard' = IF step = "record" THEN [unheard EXCEPT ![Sub] = @ + 1] ELSE unheard
    /\ UNCHANGED <<record, reinit, accepted, requests>>

Handler == PostAccepted \/ PostRefused \/ PostRaises \/ RecordSubscription \/ SetReady

Next ==
    \/ Launch \/ CheckWakes \/ Start
    \/ \E c \in Config : Initialize(c)
    \/ Handler \/ Die

Spec == Init /\ [][Next]_vars

\* A process that is down is launched again, sleeps end, a POST gets some answer, the
\* operator initialises an instance whose route is served.
FairSpec ==
    /\ Spec
    /\ WF_vars(Launch) /\ WF_vars(CheckWakes) /\ WF_vars(Start) /\ WF_vars(Handler)
    /\ WF_vars(\E c \in Config : Initialize(c))

-----------------------------------------------------------------------------
\* Properties

\* An instance that is ready has subscribed to what its configuration says, or one of the
\* three things the code lets pass happened: the server answered another status, or an
\* instance that was ready already was given a configuration and then its POST raised, or
\* the process died before the answer was recorded.
ReadyIsSubscribed ==
    record.app_ready /\ step = "idle" =>
        record.config.sub \in NoServer \cup record.subscriptions \cup excused

\* The pubsub server takes a subscription a second time only if the record missed that it
\* took it: configurations may come again, in any order, from the operator and the default.
SubscribedOnce == \A s \in Subscriptions : accepted[s] <= 1 + unheard[s]

\* Once the record is ready the process starts, whoever made it so and whenever, unless the
\* exception of a default configuration has ended check() before.
ReadyStarts ==
    phase = "waiting" /\ record.app_ready ~> phase # "waiting" \/ check = "dead"

\* Contradicted by the code (README.md:32, "Running locally": "python run.py"): without a
\* default configuration in the environment a first launch comes to its start.
EventuallyStarted == <>(phase = "started")

-----------------------------------------------------------------------------
\* The invariant that carries the proofs (ReadinessProofs)

\* The handler works on the record it has just put, and is inside it only while up.
HandlerInv ==
    /\ step # "idle" => phase # "down" /\ record.config \in Config
    /\ step \in {"post", "record"} => record.config.sub \notin record.subscriptions
    /\ step = "ready" => record.config.sub \in NoServer \cup record.subscriptions \cup excused
    /\ step # "idle" => reinit = record.app_ready
    /\ step = "record" => accepted[record.config.sub] > 0
    /\ check = "loading" => step # "idle"
    /\ check \in {"asleep", "loading"} => ~event

\* Memory has the record; start and the event follow app_ready, which is never taken back.
MirrorInv ==
    /\ instance = IF phase = "down" THEN NotLoaded ELSE record
    /\ record.app_ready => record.config \in Config
    /\ phase = "started" => event
    /\ event => phase # "down" /\ record.app_ready

\* What the record has was accepted; what was accepted is in the record, or on its way to it,
\* or was missed.
SubscriptionInv ==
    \A s \in Subscriptions :
        /\ s \in record.subscriptions => accepted[s] > 0
        /\ accepted[s] <= unheard[s] +
               (IF s \in record.subscriptions \/ (step = "record" /\ s = record.config.sub)
                THEN 1 ELSE 0)

ReadyInv == TypeOK /\ HandlerInv /\ MirrorInv /\ SubscriptionInv /\ ReadyIsSubscribed
=============================================================================

--------------------------- MODULE ReadinessProofs ---------------------------
(***************************************************************************)
(* That a ready instance is subscribed, or left out for one of three       *)
(* reasons, and that no subscription is asked for twice without need, for  *)
(* any configurations, requests, answers and deaths.                       *)
(***************************************************************************)
EXTENDS Readiness, TLAPS

\* The model's marker is no configuration, and the bounds are numbers.
LEMMA Constants ==
    /\ NoConfig \notin Config /\ NoServer \subseteq Subscriptions
    /\ Default = NoConfig \/ Default \in Config
    /\ PollLimit \in Nat /\ MaxRequests \in Nat /\ MaxCrashes \in Nat
BY ConfigAssumption, BoundAssumption

\* A blank record asks for nothing.
LEMMA ReadyInit == Init => ReadyInv
<1> SUFFICES ASSUME Init PROVE ReadyInv
    OBVIOUS
<1>1. NotLoaded \in Record
    BY DEF NotLoaded, Record
<1>2. TypeOK
    <2>1. 0 \in 0..(PollLimit + 1) /\ 0 \in 0..MaxRequests /\ 0 \in 0..MaxCrashes
        BY Constants
    <2>2. QED
        BY <1>1, <2>1 DEF Init, TypeOK
<1>3. HandlerInv /\ MirrorInv /\ SubscriptionInv /\ ReadyIsSubscribed
    BY DEF Init, NotLoaded, HandlerInv, MirrorInv, SubscriptionInv, ReadyIsSubscribed
<1>4. QED
    BY <1>2, <1>3 DEF ReadyInv

\* Entering the handler, whoever calls it.
LEMMA EnterPreserves ==
    ASSUME ReadyInv, NEW c \in Config, EnterHandler(c), step = "idle", phase' = phase,
           phase # "down", UNCHANGED <<indexing, event, accepted, unheard, excused, crashes>>,
           polls' \in 0..(PollLimit + 1), requests' \in 0..MaxRequests,
           check' = check \/ (check' = "loading" /\ ~event)
    PROVE  ReadyInv'
<1>1. c.sub \in Subscriptions /\ record \in Record /\ record.subscriptions \subseteq Subscriptions
    BY DEF Config, ReadyInv, TypeOK, Record
<1>2. /\ record' = [record EXCEPT !.config = c] /\ instance' = record'
      /\ record'.config = c /\ record'.subscriptions = record.subscriptions
      /\ record'.app_ready = record.app_ready /\ record' \in Record
      /\ reinit' = record.app_ready
      /\ step' \in {"post", "ready"}
      /\ step' = "post" => c.sub \notin record.subscriptions
      /\ step' = "ready" => c.sub \in NoServer \cup record.subscriptions
    BY <1>1 DEF EnterHandler, Updated, Record
<1>3. TypeOK'
    BY <1>2 DEF ReadyInv, TypeOK, Record
<1>4. HandlerInv'
    BY <1>2 DEF ReadyInv, HandlerInv, TypeOK
<1>5. MirrorInv'
    BY <1>2 DEF ReadyInv, MirrorInv
<1>6. SubscriptionInv'
    <2>1. \A s \in Subscriptions :
              accepted[s] <= unheard[s] + (IF s \in record.subscriptions THEN 1 ELSE 0)
        BY DEF ReadyInv, SubscriptionInv
    <2>2. QED
        BY <1>2, <2>1 DEF ReadyInv, SubscriptionInv
<1>7. ReadyIsSubscribed'
    BY <1>2 DEF ReadyIsSubscribed
<1>8. QED
    BY <1>3, <1>4, <1>5, <1>6, <1>7 DEF ReadyInv

\* Polling, launching and starting touch no record but through the handler.
LEMMA ProcessPreserves ==
    ASSUME ReadyInv, Launch \/ CheckWakes \/ Start \/ \E c \in Config : Initialize(c)
    PROVE  ReadyInv'
<1>1. CASE Launch
    <2>1. TypeOK'
        <3>1. 0 \in 0..(PollLimit + 1)
            BY Constants
        <3>2. record.app_ready \in BOOLEAN
            BY DEF ReadyInv, TypeOK, Record
        <3>3. QED
            BY <1>1, <3>1, <3>2 DEF Launch, counts, ReadyInv, TypeOK
    <2>2. HandlerInv' /\ MirrorInv'
        BY <1>1 DEF Launch, ReadyInv, HandlerInv, MirrorInv, TypeOK, Record
    <2>3. SubscriptionInv' /\ ReadyIsSubscribed'
        BY <1>1 DEF Launch, ReadyInv, SubscriptionInv, ReadyIsSubscribed
    <2>4. QED
        BY <2>1, <2>2, <2>3 DEF ReadyInv
<1>2. CASE CheckWakes
    <2>1. polls' \in 0..(PollLimit + 1)
        BY <1>2, Constants DEF CheckWakes, ReadyInv, TypeOK
    <2>2. CASE polls' > PollLimit /\ Default # NoConfig
        <3>1. ~event
            BY <1>2 DEF CheckWakes, ReadyInv, HandlerInv
        <3>2. Default \in Config
            BY <2>2, Constants
        <3>3. /\ EnterHandler(Default) /\ step = "idle" /\ phase' = phase /\ phase # "down"
              /\ UNCHANGED <<indexing, event, accepted, unheard, excused, crashes>>
              /\ check' = "loading"
            BY <1>2, <2>2 DEF CheckWakes, counts
        <3>4. requests' \in 0..MaxRequests
            BY <1>2 DEF CheckWakes, counts, ReadyInv, TypeOK
        <3>5. QED
            BY <2>1, <3>1, <3>2, <3>3, <3>4, EnterPreserves
    <2>3. CASE ~(polls' > PollLimit /\ Default # NoConfig)
        <3>1. TypeOK'
            BY <1>2, <2>1, <2>3 DEF CheckWakes, AfterPoll, counts, ReadyInv, TypeOK, Record
        <3>2. HandlerInv' /\ MirrorInv'
            BY <1>2, <2>3
            DEF CheckWakes, AfterPoll, ReadyInv, HandlerInv, MirrorInv, TypeOK, Record
        <3>3. SubscriptionInv' /\ ReadyIsSubscribed'
            BY <1>2, <2>3 DEF CheckWakes, ReadyInv, SubscriptionInv, ReadyIsSubscribed
        <3>4. QED
            BY <3>1, <3>2, <3>3 DEF ReadyInv
    <2>4. QED
        BY <2>2, <2>3
<1>3. CASE Start
    <2>1. TypeOK'
        BY <1>3 DEF Start, counts, ReadyInv, TypeOK
    <2>2. HandlerInv' /\ MirrorInv'
        BY <1>3 DEF Start, ReadyInv, HandlerInv, MirrorInv
    <2>3. SubscriptionInv' /\ ReadyIsSubscribed'
        BY <1>3 DEF Start, ReadyInv, SubscriptionInv, ReadyIsSubscribed
    <2>4. QED
        BY <2>1, <2>2, <2>3 DEF ReadyInv
<1>4. ASSUME NEW c \in Config, Initialize(c) PROVE ReadyInv'
    <2>1. requests' \in 0..MaxRequests /\ phase # "down"
        BY <1>4, Constants DEF Initialize, Serving, ReadyInv, TypeOK
    <2>2. QED
        BY <1>4, <2>1, EnterPreserves DEF Initialize, process, ReadyInv, TypeOK
<1>5. QED
    BY <1>1, <1>2, <1>3, <1>4

\* What the handler works on while it is in the middle of a subscription.
LEMMA InHandler ==
    ASSUME ReadyInv, step \in {"post", "record"}
    PROVE  /\ instance = record /\ record \in Record /\ record.config \in Config
           /\ Sub = record.config.sub /\ Sub \in Subscriptions
           /\ Sub \notin record.subscriptions
           /\ record.subscriptions \subseteq Subscriptions
           /\ accepted[Sub] \in Nat /\ unheard[Sub] \in Nat
<1>1. phase # "down" /\ record.config \in Config /\ record.config.sub \notin record.subscriptions
    BY DEF ReadyInv, HandlerInv
<1>2. instance = record
    BY <1>1 DEF ReadyInv, MirrorInv
<1>3. QED
    BY <1>1, <1>2 DEF Sub, Config, ReadyInv, TypeOK, Record

\* The answers of the pubsub server.
LEMMA PostPreserves ==
    ASSUME ReadyInv, PostAccepted \/ PostRefused \/ PostRaises
    PROVE  ReadyInv'
<1>1. step = "post" /\ UNCHANGED <<record, instance, phase, indexing, polls, event, reinit, counts>>
    BY DEF PostAccepted, PostRefused, PostRaises, process
<1>2. /\ instance = record /\ Sub = record.config.sub /\ Sub \in Subscriptions
      /\ Sub \notin record.subscriptions
      /\ accepted[Sub] \in Nat /\ unheard[Sub] \in Nat
      /\ accepted[Sub] <= unheard[Sub]
    <2>1. step # "record"
        BY <1>1
    <2>2. QED
        BY <1>1, <2>1, InHandler DEF ReadyInv, SubscriptionInv
<1>3. MirrorInv'
    BY <1>1 DEF ReadyInv, MirrorInv
<1>4. TypeOK'
    BY <1>1, <1>2 DEF PostAccepted, PostRefused, PostRaises, CutShort, process, counts, ReadyInv, TypeOK
<1>5. HandlerInv'
    <2>1. PostAccepted => accepted'[Sub] > 0
        BY <1>2 DEF PostAccepted, ReadyInv, TypeOK
    <2>2. QED
        BY <1>1, <1>2, <2>1
        DEF PostAccepted, PostRefused, PostRaises, CutShort, process, ReadyInv, HandlerInv
<1>6. SubscriptionInv'
    <2> SUFFICES ASSUME NEW s \in Subscriptions
                 PROVE  /\ s \in record.subscriptions => accepted'[s] > 0
                        /\ accepted'[s] <= unheard'[s] +
                               (IF s \in record.subscriptions
                                   \/ (step' = "record" /\ s = record.config.sub)
                                THEN 1 ELSE 0)
        BY <1>1 DEF SubscriptionInv
    <2>1. accepted[s] \in Nat /\ unheard[s] \in Nat
          /\ accepted \in [Subscriptions -> Nat] /\ unheard \in [Subscriptions -> Nat]
        BY DEF ReadyInv, TypeOK
    <2>2. /\ s \in record.subscriptions => accepted[s] > 0
          /\ accepted[s] <= unheard[s] + (IF s \in record.subscriptions THEN 1 ELSE 0)
        BY <1>1 DEF ReadyInv, SubscriptionInv
    <2>3. CASE s # Sub
        BY <1>2, <2>1, <2>2, <2>3 DEF PostAccepted, PostRefused, PostRaises
    <2>4. CASE s = Sub
        BY <1>2, <2>1, <2>2, <2>4 DEF PostAccepted, PostRefused, PostRaises, CutShort
    <2>5. QED
        BY <2>3, <2>4
<1>7. ReadyIsSubscribed'
    <2>1. CASE PostRaises
        <3>1. record.app_ready => Sub \in excused'
            BY <1>1, <2>1 DEF PostRaises, CutShort, ReadyInv, HandlerInv
        <3>2. QED
            BY <1>1, <1>2, <3>1 DEF ReadyIsSubscribed
    <2>2. CASE PostAccepted \/ PostRefused
        BY <2>2 DEF PostAccepted, PostRefused, ReadyIsSubscribed
    <2>3. QED
        BY <2>1, <2>2
<1>8. QED
    BY <1>3, <1>4, <1>5, <1>6, <1>7 DEF ReadyInv

\* The two writes that follow.
LEMMA WritePreserves ==
    ASSUME ReadyInv, RecordSubscription \/ SetReady
    PROVE  ReadyInv'
<1>1. CASE RecordSubscription
    <2>1. /\ instance = record /\ record \in Record /\ Sub = record.config.sub
          /\ Sub \in Subscriptions /\ record.subscriptions \subseteq Subscriptions
        BY <1>1, InHandler DEF RecordSubscription
    <2>2. /\ record' = [record EXCEPT !.subscriptions = record.subscriptions \cup {Sub}]
          /\ instance' = record' /\ record' \in Record
          /\ record'.config = record.config /\ record'.app_ready = record.app_ready
          /\ record'.subscriptions = record.subscriptions \cup {Sub}
        BY <1>1, <2>1 DEF RecordSubscription, Recorded, Record
    <2>3. TypeOK'
        BY <1>1, <2>2 DEF RecordSubscription, process, counts, ReadyInv, TypeOK
    <2>4. HandlerInv' /\ MirrorInv'
        BY <1>1, <2>1, <2>2 DEF RecordSubscription, process, ReadyInv, HandlerInv, MirrorInv
    <2>5. SubscriptionInv'
        <3> SUFFICES ASSUME NEW s \in Subscriptions
                     PROVE  /\ s \in record.subscriptions \cup {Sub} => accepted[s] > 0
                            /\ accepted[s] <= unheard[s] +
                                   (IF s \in record.subscriptions \cup {Sub} THEN 1 ELSE 0)
            BY <1>1, <2>2 DEF RecordSubscription, SubscriptionInv
        <3>1. step = "record" /\ accepted[Sub] > 0
            BY <1>1, <2>1 DEF RecordSubscription, ReadyInv, HandlerInv
        <3>2. /\ s \in record.subscriptions => accepted[s] > 0
              /\ accepted[s] <= unheard[s] +
                     (IF s \in record.subscriptions \/ s = record.config.sub THEN 1 ELSE 0)
            BY <3>1 DEF ReadyInv, SubscriptionInv
        <3>3. QED
            BY <2>1, <3>1, <3>2
    <2>6. ReadyIsSubscribed'
        BY <1>1 DEF RecordSubscription, ReadyIsSubscribed
    <2>7. QED
        BY <2>3, <2>4, <2>5, <2>6 DEF ReadyInv
<1>2. CASE SetReady
    <2>1. /\ phase # "down" /\ record \in Record /\ record.config \in Config
          /\ record.config.sub \in NoServer \cup record.subscriptions \cup excused
        BY <1>2 DEF SetReady, ReadyInv, HandlerInv, TypeOK
    <2>2. /\ record' = [record EXCEPT !.app_ready = TRUE]
          /\ instance' = record' /\ record' \in Record
          /\ record'.config = record.config /\ record'.app_ready
          /\ record'.subscriptions = record.subscriptions
        BY <1>2, <2>1 DEF SetReady, Record
    <2>3. TypeOK'
        BY <1>2, <2>2 DEF SetReady, counts, ReadyInv, TypeOK
    <2>4. HandlerInv' /\ MirrorInv'
        BY <1>2, <2>1, <2>2 DEF SetReady, ReadyInv, HandlerInv, MirrorInv
    <2>5. SubscriptionInv' /\ ReadyIsSubscribed'
        BY <1>2, <2>1, <2>2 DEF SetReady, ReadyInv, SubscriptionInv, ReadyIsSubscribed
    <2>6. QED
        BY <2>3, <2>4, <2>5 DEF ReadyInv
<1>3. QED
    BY <1>1, <1>2

\* A death, wherever it cuts the handler.
LEMMA DiePreserves == ReadyInv /\ Die => ReadyInv'
<1> SUFFICES ASSUME ReadyInv, Die PROVE ReadyInv'
    OBVIOUS
<1>1. NotLoaded \in Record /\ record' = record
    BY DEF NotLoaded, Record, Die
<1>2. TypeOK'
    <2>1. excused' \subseteq Subscriptions /\ unheard' \in [Subscriptions -> Nat]
        <3>1. CASE step \in {"post", "record"}
            BY <3>1, InHandler DEF Die, CutShort, ReadyInv, TypeOK
        <3>2. CASE step \notin {"post", "record"}
            BY <3>2 DEF Die, CutShort, ReadyInv, TypeOK
        <3>3. QED
            BY <3>1, <3>2
    <2>2. crashes' \in 0..MaxCrashes
        BY Constants DEF Die, ReadyInv, TypeOK
    <2>3. 0 \in 0..(PollLimit + 1)
        BY Constants
    <2>4. QED
        BY <1>1, <2>1, <2>2, <2>3 DEF Die, CutShort, ReadyInv, TypeOK
<1>3. HandlerInv' /\ MirrorInv'
    BY DEF Die, CutShort, ReadyInv, HandlerInv, MirrorInv
<1>4. SubscriptionInv'
    <2> SUFFICES ASSUME NEW s \in Subscriptions
                 PROVE  /\ s \in record.subscriptions => accepted[s] > 0
                        /\ accepted[s] <= unheard'[s] +
                               (IF s \in record.subscriptions THEN 1 ELSE 0)
        BY <1>1 DEF Die, CutShort, SubscriptionInv
    <2>1. /\ s \in record.subscriptions => accepted[s] > 0
          /\ accepted[s] <= unheard[s] +
                 (IF s \in record.subscriptions \/ (step = "record" /\ s = record.config.sub)
                  THEN 1 ELSE 0)
          /\ accepted[s] \in Nat /\ unheard \in [Subscriptions -> Nat]
        BY DEF ReadyInv, SubscriptionInv, TypeOK
    <2>2. CASE step = "record"
        BY <2>1, <2>2, InHandler DEF Die
    <2>3. CASE step # "record"
        BY <2>1, <2>3 DEF Die
    <2>4. QED
        BY <2>2, <2>3
<1>5. ReadyIsSubscribed'
    <2>1. CASE step \in {"post", "record"}
        BY <1>1, <2>1, InHandler DEF Die, CutShort, ReadyInv, HandlerInv, ReadyIsSubscribed
    <2>2. CASE step \notin {"post", "record"}
        BY <1>1, <2>2 DEF Die, CutShort, ReadyInv, TypeOK, HandlerInv, ReadyIsSubscribed
    <2>3. QED
        BY <2>1, <2>2
<1>6. QED
    BY <1>2, <1>3, <1>4, <1>5 DEF ReadyInv

\* The readiness protocol's invariant.
THEOREM ReadyInvariance == Spec => []ReadyInv
<1>1. ReadyInv /\ [Next]_vars => ReadyInv'
    <2> SUFFICES ASSUME ReadyInv, [Next]_vars PROVE ReadyInv'
        OBVIOUS
    <2>1. CASE UNCHANGED vars
        <3>1. TypeOK'
            BY <2>1 DEF vars, ReadyInv, TypeOK
        <3>2. HandlerInv' /\ MirrorInv'
            BY <2>1 DEF vars, ReadyInv, HandlerInv, MirrorInv
        <3>3. SubscriptionInv' /\ ReadyIsSubscribed'
            BY <2>1 DEF vars, ReadyInv, SubscriptionInv, ReadyIsSubscribed
        <3>4. QED
            BY <3>1, <3>2, <3>3 DEF ReadyInv
    <2>2. QED
        BY <2>1, ProcessPreserves, PostPreserves, WritePreserves, DiePreserves DEF Next, Handler
<1>2. QED
    BY <1>1, ReadyInit, PTL DEF Spec

\* A ready instance is subscribed, or the reason it is not is one of the three.
THEOREM ReadyInstancesAreSubscribed == Spec => []ReadyIsSubscribed
<1>1. ReadyInv => ReadyIsSubscribed
    BY DEF ReadyInv
<1>2. QED
    BY <1>1, ReadyInvariance, PTL

\* No subscription is taken twice unless the record missed that it was.
THEOREM SubscriptionsAreTakenOnce == Spec => []SubscribedOnce
<1>1. ReadyInv => SubscribedOnce
    <2> SUFFICES ASSUME ReadyInv, NEW s \in Subscriptions
                 PROVE  accepted[s] <= 1 + unheard[s]
        BY DEF SubscribedOnce
    <2>1. accepted[s] \in Nat /\ unheard[s] \in Nat
        BY DEF ReadyInv, TypeOK
    <2>2. accepted[s] <= unheard[s] +
              (IF s \in record.subscriptions \/ (step = "record" /\ s = record.config.sub)
               THEN 1 ELSE 0)
        BY DEF ReadyInv, SubscriptionInv
    <2>3. QED
        BY <2>1, <2>2
<1>2. QED
    BY <1>1, ReadyInvariance, PTL
=============================================================================

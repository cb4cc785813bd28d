------------------------------- MODULE Query -------------------------------
(***************************************************************************)
(* What the GraphQL resolvers (src/src/graphql/server.py) answer from the  *)
(* databases of EventStore.  A resolver runs from its first line to its    *)
(* last without suspending, so it sees the databases between two saves,    *)
(* and it writes nothing: its answers are operators of the state.          *)
(*                                                                         *)
(* A type criterion is the set of event types its % jokers let through; a  *)
(* limit and a skip are not negative, a hash or an address is not empty.   *)
(***************************************************************************)
EXTENDS EventStore, SequencesExt

CONSTANTS
    KeyOrder,   \* the keys, as LevelDB orders them: by level, operation, source, nonce
    Kind,       \* _kind, by key
    MaxLimit,   \* max_limit (1000 in the code)
    None,       \* a criterion that is not given
    Queries     \* what the clients ask

ASSUME KindsAssumption ==   \* hashes and addresses have prefixes of their own, an _id has none
    /\ Sources \cap Operations = {} /\ Sources \cap Blocks = {} /\ Operations \cap Blocks = {}
    /\ Keys \cap (Sources \cup Addresses) = {}
    /\ None \notin Sources \cup Operations \cup Blocks \cup Addresses
ASSUME KeyOrderAssumption ==
    KeyOrder \in Seq(Keys) /\ IsInjective(KeyOrder) /\ Range(KeyOrder) = Keys
ASSUME QueryAssumption ==
    /\ Queries \subseteq
          [source : Sources \cup {None}, wildcard_address : Sources \cup Addresses \cup {None},
           operation_hash : Operations \cup {None}, block_hash : Blocks \cup {None},
           type : (SUBSET {Kind[k] : k \in Keys}) \cup {None},
           limit : Nat, skip : Nat, reverse : BOOLEAN]
    /\ MaxLimit \in Nat

\* itertools.islice.
Slice(s, from, to) == SubSeq(s, from + 1, IF to < Len(s) THEN to ELSE Len(s))

\* The entries of s that are in S.
Only(s, S) ==
    LET kept[n \in 0..Len(s)] ==
            IF n = 0 THEN <<>>
            ELSE IF s[n] \in S THEN Append(kept[n - 1], s[n]) ELSE kept[n - 1]
    IN  kept[Len(s)]

-----------------------------------------------------------------------------
\* resolve_events

Limit(q) == IF q.limit > MaxLimit THEN MaxLimit ELSE q.limit

\* fault: the skip is not part of the bound
PageEnd_Limit(q) == Limit(q)
PageEnd(q) == Limit(q) + q.skip

\* address and index_name: the first criterion given is searched, in the wildcard index as
\* soon as a wildcard address is among them.
Criteria(q) == <<q.block_hash, q.operation_hash, q.source, q.wildcard_address>>
Given(q) == {i \in DOMAIN Criteria(q) : Criteria(q)[i] # None}
IsSearched(q) == Given(q) # {}
Searched(q) == Criteria(q)[Min(Given(q))]
IndexUsed(q) == IF q.wildcard_address = None THEN eventIndexDB ELSE eventWildcardIndexDB

InOrder(ks) == Only(KeyOrder, ks)

\* get_events_iterator; reverse is only obeyed without an address.
Scan(q) ==
    IF IsSearched(q) THEN InOrder({k \in Keys : <<Searched(q), k>> \in IndexUsed(q)})
    ELSE IF q.reverse THEN Reverse(InOrder(Stored)) ELSE InOrder(Stored)

\* The soft filter, which looks at no address.
PassesFilter(q, k) ==
    LET event == eventDB[k].event IN
    /\ q.source \in {None, event.source}
    /\ q.operation_hash \in {None, event.operation}
    /\ q.block_hash \in {None, event.block}
    /\ q.type = None \/ Kind[k] \in q.type

\* Whatever the filter kept of them.
Exhausted(events, kept) == events = <<>>

Answered(ks) == [failed |-> FALSE, events |-> ks]
Failed == [failed |-> TRUE, events |-> <<>>]
AreStored(ks) == Range(ks) \subseteq Stored

\* One criterion and no type: a slice of the iterator.
DirectAnswer(q) ==
    LET entries == Slice(Scan(q), q.skip, PageEnd(q)) IN
    IF AreStored(entries) THEN Answered(entries) ELSE Failed

\* Otherwise batches of the size of the limit are read and filtered until the page is full
\* or there is nothing left to read.  An entry whose event is not stored fails the query.
FilteredAnswer(q) ==
    LET scan == Scan(q)
        Batch(n) == Slice(scan, (n - 1) * Limit(q), n * Limit(q))
        Kept(n) == Only(Batch(n), {k \in Stored : PassesFilter(q, k)})
        data[n \in 0..Len(scan) + 1] == IF n = 0 THEN <<>> ELSE data[n - 1] \o Kept(n)
        Ends(n) == \/ ~AreStored(Batch(n))
                   \/ Len(data[n]) >= PageEnd(q)
                   \/ Exhausted(Batch(n), Kept(n))
        last == CHOOSE n \in 1..Len(scan) + 1 : Ends(n) /\ \A m \in 1..(n - 1) : ~Ends(m)
    IN  IF AreStored(Batch(last)) THEN Answered(Slice(data[last], q.skip, PageEnd(q))) ELSE Failed

IsFiltered(q) == Cardinality(Given(q)) >= 2 \/ q.type # None
Answer(q) == IF IsFiltered(q) THEN FilteredAnswer(q) ELSE DirectAnswer(q)

-----------------------------------------------------------------------------
\* resolve_event and resolve_stats

\* get_event_by_id: None for an _id the index does not have.
EventById(k) ==
    IF <<k, k>> \notin eventWildcardIndexDB THEN Answered(<<>>)
    ELSE IF k \in Stored THEN Answered(<<k>>) ELSE Failed

AllOf(address) ==
    IF address = None THEN InOrder(Stored)
    ELSE InOrder({k \in Keys : <<address, k>> \in eventIndexDB})

\* first_event, from get_events; of an address it is the last_event too.
FirstEvent(address) ==
    LET entries == Slice(AllOf(address), 0, 1) IN
    IF AreStored(entries) THEN Answered(entries) ELSE Failed
TotalEvents(address) ==
    IF address = None THEN global_counter
    ELSE IF address \in Sources THEN account_counter[address] ELSE 0

-----------------------------------------------------------------------------
\* Properties

\* When the event loop may run a resolver.
Served == phase \in {"waiting", "run"} /\ step = "idle"

HasAddress(e, address) == address = e.source \/ address \in e.addresses

\* What a query asks for, of an event.
Asked(q, e) ==
    /\ q.source \in {None, e.source} /\ q.operation_hash \in {None, e.operation}
    /\ q.block_hash \in {None, e.block}
    /\ q.wildcard_address = None \/ HasAddress(e, q.wildcard_address)
    /\ q.type = None \/ Kind[e.key] \in q.type

\* The stored events a query asks for, whatever the indexes have of them, in the order of
\* the answer: newest first only if no address, hash or block is given.
Matching(q) ==
    LET asked == {k \in Stored : Asked(q, eventDB[k].event)}
    IN  IF q.reverse /\ ~IsSearched(q) THEN Reverse(InOrder(asked)) ELSE InOrder(asked)

\* A query by several criteria, or by type, gets exactly its page of the stored events it
\* asks for: no death, reset or fork leaves an index that hides one of them, entries of
\* another fork let none in, and the loop loses none over its batches.
FilteredAnswersAreExact ==
    Served => \A q \in Queries :
        IsFiltered(q) /\ q.wildcard_address = None /\ ~Answer(q).failed =>
            Answer(q).events = Slice(Matching(q), q.skip, q.skip + Limit(q))

\* The pages a query with one criterion or none has in a state, one skip after the other, give
\* each stored event asked for once, and no event but of a key that a block of some fork once
\* matched with: a fork leaves the block and the addresses of the other occurrence in the
\* indexes.  This is said of one state: a save between two requests may put events in front,
\* and a client that reads on then sees some twice and the new ones not at all.
PagesMissNothing ==
    Served => \A q \in {r \in Queries : r.skip = 0 /\ Limit(r) > 0 /\ ~IsFiltered(r)} :
        LET page == [i \in 1..Len(KeyOrder) |-> Answer([q EXCEPT !.skip = (i - 1) * Limit(q)])]
            read == UNION {Range(page[i].events) : i \in DOMAIN page}
        IN  (\A i \in DOMAIN page : ~page[i].failed) =>
                /\ \A i \in DOMAIN page : IsInjective(page[i].events)
                /\ \A i, j \in DOMAIN page :
                       i < j => Range(page[i].events) \cap Range(page[j].events) = {}
                /\ {k \in Stored : q.wildcard_address \notin Sources
                                   /\ Asked(q, eventDB[k].event)} \subseteq read
                /\ read \subseteq KeysOf({e \in EventsOf(acked \cup owed) : Asked(q, e)})

\* A query fails only on an event of a batch that a death cut short and no save has repeated
\* since, and only if the index it searches has that event.
QueriesFailOnlyOwed ==
    LET OwedUnder(entry) == \E e \in EventsOf(owed) :
            e.key \notin Stored /\ entry[2] = e.key
            /\ entry \in IndexEntries(e) \cup WildcardEntries(e)
    IN  Served =>
        /\ \A q \in Queries : Answer(q).failed =>
               IsSearched(q) /\ \E k \in Keys : OwedUnder(<<Searched(q), k>>)
        /\ \A k \in Keys : EventById(k).failed => OwedUnder(<<k, k>>)
        /\ \A s \in Sources : FirstEvent(s).failed => \E k \in Keys : OwedUnder(<<s, k>>)

\* do_stats counts a batch again each time it is saved but never loses one: the totals
\* resolve_stats gives are at least the number of events a client can read and whose save
\* has returned, of a source and in all.  Once no batch is owed, it reads of a source its
\* stored events, in order, and as soon as the indexer runs those are all that were saved.
StatsCoverAnswers ==
    Served => \A address \in Sources \cup {None} :
        /\ TotalEvents(address) >=
               Cardinality(Range(AllOf(address)) \cap KeysOf(EventsOf(acked)))
        /\ owed = {} => FirstEvent(address) = Answered(Slice(
               InOrder({k \in Stored : address \in {None, eventDB[k].event.source}}), 0, 1))
        /\ owed = {} /\ phase = "run" =>
               Range(AllOf(address)) = KeysOf({e \in EventsOf(acked) : address \in {None, e.source}})

\* Contradicted by the code (server.py:22, "WILDCARD address, this can be any address, source
\* or a supported event metadata address", and server.py:64, "filter if more than one
\* criteria are provided"): with a wildcard address a query that does not fail answers the
\* page of the stored events that have the address and meet the other criteria.
WildcardIsAnyAddress ==
    Served => \A q \in Queries :
        q.wildcard_address # None /\ ~Answer(q).failed =>
            Answer(q).events =
                Slice(InOrder({k \in Stored : Asked(q, eventDB[k].event)}), q.skip, q.skip + Limit(q))

\* Without deaths or requests given up, every event saved gets its verdict, and the answers
\* show it.
AnswersShowVerdicts ==
    \A e \in Events :
        e.block \in acked ~>
            \/ crashes + errors > 0
            \/ /\ EventById(e.key).events = <<e.key>>
               /\ eventDB[e.key].verified \/ eventDB[e.key].untrusted

=============================================================================

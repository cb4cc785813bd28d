------------------------------ MODULE MCQuery ------------------------------
(***************************************************************************)
(* Instance of Query over the blocks and events of MCEventStore, with keys *)
(* of two types and the queries of a few clients.                          *)
(***************************************************************************)
EXTENDS MCEventStore, Query

CONSTANTS t1, t2

MCKeyOrder == <<k1, k2, k3>>
MCKind == k1 :> t1 @@ k2 :> t2 @@ k3 :> t1

Page == [limit : {1, 3}, skip : {0, 1}, reverse : {FALSE}]
        \cup [limit : {2}, skip : {0}, reverse : {TRUE}]
AskedFor(sources, wildcards, operations, blocks, types) ==
    {[source |-> s, wildcard_address |-> w, operation_hash |-> o, block_hash |-> b,
      type |-> t, limit |-> p.limit, skip |-> p.skip, reverse |-> p.reverse] :
        s \in sources, w \in wildcards, o \in operations, b \in blocks, t \in types, p \in Page}

\* No criterion but the type, or one and the type; two of the event's own; a wildcard alone.
MCQueries ==
    AskedFor({None, s1}, {None}, {None}, {None}, {None, {t1}, {t1, t2}})
    \cup AskedFor({None, s1}, {None}, {None, o1}, {b1}, {None})
    \cup AskedFor({None}, {a1}, {None}, {None}, {None, {t1}})

\* A wildcard that is the source of an event; one with another criterion.
MCWildcards ==
    AskedFor({None}, {s1}, {None}, {None}, {None})
    \cup AskedFor({s1}, {a1}, {None}, {None}, {None})

=============================================================================

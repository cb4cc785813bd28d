---------------------------- MODULE MCEventStore ----------------------------
(***************************************************************************)
(* Instance of EventStore: block b1 emits two events of two sources, b1x   *)
(* is its fork of the same level, with the first operation again, which    *)
(* the chain abandons, b2 emits one more event and b0 none.                *)
(***************************************************************************)
EXTENDS EventStore

CONSTANTS k1, k2, k3, s1, s2, o1, o2, a1, a2, b0, b1, b1x, b2

Event(k, b, s, o, as) == [key |-> k, block |-> b, source |-> s, operation |-> o, addresses |-> as]
e1  == Event(k1, b1, s1, o1, {a1})
e1x == Event(k1, b1x, s1, o1, {a2})
e2  == Event(k2, b1, s2, o1, {})
e3  == Event(k3, b2, s1, o2, {a1})

MCBlocks == {b0, b1, b1x, b2}
MCEvents == {e1, e1x, e2, e3}
MCBatches == {{b0}, {b1}, {b1x}, {b1, b2}}
MCLasting == {b0, b1, b2}

\* The endpoint events come from lies about e2; the trusted one has no operation for e1 in
\* b1, and a bad one for its fork e1x in b1x.
MCSourceLies == {e2}
MCTrustedHas == {e1x, e2, e3}
MCTrustedLies == {e1x}

=============================================================================

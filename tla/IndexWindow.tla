---------------------------- MODULE IndexWindow ----------------------------
(***************************************************************************)
(* What the indexer promises those who read its database, with no word of  *)
(* how it crawls: a window of levels, once published, only ever grows, and *)
(* a window is published only when every level in it is indexed.           *)
(* Crawl implements this specification.                                    *)
(***************************************************************************)
EXTENDS Integers

CONSTANT NoBlock    \* Python's None

VARIABLES
    recent,     \* highest level the index claims to cover, or NoBlock
    oldest,     \* lowest level the index claims to cover, or NoBlock
    indexed     \* the levels whose objects are in the database

vars == <<recent, oldest, indexed>>

Init ==
    /\ recent = NoBlock
    /\ oldest = NoBlock
    /\ indexed = {}

\* Objects of further levels reach the database: nothing is ever un-indexed.
Index ==
    /\ indexed \subseteq indexed'
    /\ UNCHANGED <<recent, oldest>>

\* The first window is published over levels already indexed.
Open ==
    /\ recent = NoBlock
    /\ recent' \in Nat /\ oldest' \in Nat
    /\ oldest' <= recent'
    /\ oldest'..recent' \subseteq indexed
    /\ UNCHANGED indexed

\* A published window is replaced by a strictly larger one.
Extend ==
    /\ recent # NoBlock
    /\ recent' \in Nat /\ oldest' \in Nat
    /\ recent' >= recent /\ oldest' <= oldest
    /\ <<recent', oldest'>> # <<recent, oldest>>
    /\ oldest'..recent' \subseteq indexed
    /\ UNCHANGED indexed

Next == Index \/ Open \/ Extend

Spec == Init /\ [][Next]_vars
=============================================================================

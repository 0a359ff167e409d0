---------------------------- MODULE StoreContract ----------------------------
(***************************************************************************)
(* What a SessionStore promises: the contracts that the conformance suite  *)
(* asserts of every adapter, as one log per key.  Only append() and        *)
(* delete() change it: an append adds its entries behind those of its own  *)
(* key, a delete of a session takes the subagents' keys along, and one of  *)
(* a subpath nothing else.                                                 *)
(*                                                                         *)
(* InMemorySessionStore (module SessionStore) implements it, and so do the *)
(* adapters for S3, Redis and Postgres, as long as calls do not overlap.   *)
(***************************************************************************)
EXTENDS Sequences

CONSTANTS Sessions, Subpaths, NoSubpath

VARIABLE held   \* the entries of every key that has any

Main(s) == <<s, NoSubpath>>
Keys == {Main(s) : s \in Sessions} \cup (Sessions \X Subpaths)

Init == held = [k \in {} |-> <<>>]

\* A key that was never appended to, or was deleted, has nothing to load.
Load(k) == IF k \in DOMAIN held THEN held[k] ELSE <<>>

Appended(k) ==
    /\ DOMAIN held' = DOMAIN held \cup {k}
    /\ held'[k] # Load(k) /\ SubSeq(held'[k], 1, Len(Load(k))) = Load(k)
    /\ \A j \in DOMAIN held \ {k} : held'[j] = held[j]

Covers(k, j) == j = k \/ (k = Main(k[1]) /\ j[1] = k[1])

Deleted(k) == held' = [j \in {i \in DOMAIN held : ~Covers(k, i)} |-> held[j]]

Next == \E k \in Keys : Appended(k) \/ Deleted(k)

Spec == Init /\ [][Next]_held

-----------------------------------------------------------------------------
\* The listings: of the sessions with a main transcript, and of the subpaths
\* of one session.
ListSessions == {s \in Sessions : Main(s) \in DOMAIN held}
ListSubkeys(s) == {p \in Subpaths : <<s, p>> \in DOMAIN held}
=============================================================================

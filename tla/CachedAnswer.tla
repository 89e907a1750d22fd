----------------------------- MODULE CachedAnswer -----------------------------
(***************************************************************************)
(* What the caches between the database and a page promise of the answer   *)
(* to one question.  Whatever the layers are and however many requests     *)
(* pass through them, only three things happen to the answers that can     *)
(* still be given: a change makes the answer so far an old one, which may  *)
(* stay somewhere; old answers are dropped; and none of those comes back.  *)
(***************************************************************************)
EXTENDS Naturals

CONSTANTS First, Last   \* the versions of the data; bound: changes

VARIABLES
    version,    \* of the data, committed
    old         \* earlier versions that a cache, or a request on its way
                \* to one, still has

Init == version = First /\ old = {}

Change ==
    /\ version < Last
    /\ version' = version + 1
    /\ old' \in {old, old \union {version}}

Forgets ==
    /\ old # {}
    /\ old' \in (SUBSET old) \ {old}
    /\ UNCHANGED version

\* A request is answered from the database or from one of the copies.
Answerable == old \union {version}

Next == Change \/ Forgets

Spec == Init /\ [][Next]_<<version, old>>

=============================================================================

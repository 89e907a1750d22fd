---------------------------- MODULE EventDelivery ----------------------------
(***************************************************************************)
(* What an outbox promises for the events it has accepted: each one stays  *)
(* pending until the server has answered for it or it is given up, and     *)
(* never leaves for another reason.  A queue that is not guarded against   *)
(* overlapping updates promises less: an event may vanish, or come back.   *)
(***************************************************************************)
CONSTANT Events

VARIABLES
    guarded,    \* updates of the queue are serialised; fixed for the queue
    pending,    \* accepted, and still to be delivered
    served,     \* the server has answered for it
    abandoned   \* given up: too many failures, or too many events

deliveryVars == <<guarded, pending, served, abandoned>>

Init ==
    /\ guarded \in BOOLEAN
    /\ pending = {}
    /\ served = {}
    /\ abandoned = {}

\* The server answers, also for an event it was sent twice.
Serve ==
    /\ served \subseteq served'
    /\ served' \subseteq Events
    /\ UNCHANGED <<guarded, pending, abandoned>>

\* An event comes in; the oldest may have to go for it.
Accept(e) ==
    \E out \in SUBSET (pending \union {e}) :
        /\ pending' = (pending \union {e}) \ out
        /\ abandoned' = abandoned \union out
        /\ UNCHANGED <<guarded, served>>

\* Answered events leave the queue, and the given-up ones.
Settle ==
    \E done \in SUBSET served, out \in SUBSET pending :
        /\ pending' = pending \ (done \union out)
        /\ abandoned' = abandoned \union out
        /\ UNCHANGED <<guarded, served>>

\* Without a guard an update may overwrite what another one has stored.
Overwrite ==
    /\ ~guarded
    /\ pending' \in SUBSET Events
    /\ abandoned \subseteq abandoned'
    /\ UNCHANGED <<guarded, served>>

Next == Serve \/ Settle \/ Overwrite \/ \E e \in Events : Accept(e)

Spec == Init /\ [][Next]_deliveryVars

=============================================================================

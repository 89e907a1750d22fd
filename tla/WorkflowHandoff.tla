--------------------------- MODULE WorkflowHandoff ---------------------------
(***************************************************************************)
(* What a staged task promises, without its rows: the work is in the hands *)
(* of one stage at a time, goes from each stage to the next one, and comes *)
(* back only from the end, while the final approval is still due.  Once    *)
(* accepted it is never in anyone's hands again.                           *)
(***************************************************************************)
EXTENDS Naturals

CONSTANT NumStages

VARIABLES
    holder,     \* the stage that has the work, 0 when none has
    reached,    \* how far the work has come
    accepted    \* the workflow is complete

handoffVars == <<holder, reached, accepted>>

Init == holder = 1 /\ reached = 1 /\ accepted = FALSE

PassOn ==
    /\ holder = reached
    /\ reached < NumStages
    /\ holder' = reached + 1
    /\ reached' = reached + 1
    /\ UNCHANGED accepted

\* The holder is done and every other stage is, too.
Finish ==
    /\ holder # 0
    /\ reached = NumStages
    /\ holder' = 0
    /\ accepted' \in BOOLEAN
    /\ UNCHANGED reached

SendBack ==
    /\ holder = 0
    /\ ~accepted
    /\ holder' \in 1 .. NumStages
    /\ UNCHANGED <<reached, accepted>>

Accept ==
    /\ holder = 0
    /\ accepted' = TRUE
    /\ UNCHANGED <<holder, reached>>

Next == PassOn \/ Finish \/ SendBack \/ Accept

Spec == Init /\ [][Next]_handoffVars

=============================================================================

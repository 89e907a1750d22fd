-------------------------- MODULE MCStagedWorkflow --------------------------
(* Instances of StagedWorkflow for TLC. *)
EXTENDS StagedWorkflow

CONSTANTS c, h, w1, w2, d1

MCDeptOf == [u \in Users |-> d1]

\* Each stage has one assignee of its own; any stage may have an approval gate.
MCPlans ==
    {[s \in Stages |-> [approval |-> gate[s],
                        assignees |-> IF s = 1 THEN {w1} ELSE {w2}]] :
        gate \in [Stages -> BOOLEAN]}

\* Requests that name users name the second worker.
MCRequests == {{}, {w2}}

=============================================================================

----------------------- MODULE MCStagedWorkflowRaces -----------------------
(* Instances of StagedWorkflowRaces for TLC. *)
EXTENDS StagedWorkflowRaces, TLC

CONSTANTS c, h, w1, w2, d1, p1, p2

MCDeptOf == [u \in Users |-> d1]

\* Each stage has one assignee of its own, and one of the two stages an approval
\* gate.
MCPlans ==
    {[s \in Stages |-> [approval |-> s = gate,
                        assignees |-> IF s = 1 THEN {w1} ELSE {w2}]] : gate \in Stages}

\* The processes run the same program.
MCSymmetry == Permutations(Procs)

=============================================================================

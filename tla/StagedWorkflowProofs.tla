------------------------ MODULE StagedWorkflowProofs ------------------------
(***************************************************************************)
(* Theorems about StagedWorkflow, for every choice of users, roles, plans, *)
(* requests, number of stages and bound on submissions: its rows are well  *)
(* formed, its stages are worked on in order, and the summary on the task  *)
(* row agrees with them.                                                   *)
(***************************************************************************)
EXTENDS StagedWorkflow, WorkflowRowsProofs

-----------------------------------------------------------------------------
(* Type correctness *)

\* create_task.
LEMMA InitTypeOK == Init => TypeOK
<1> SUFFICES ASSUME NEW plan \in Plans, NEW finalRequired \in BOOLEAN,
                    NEW d \in Departments,
                    task = TaskOf(plan, finalRequired, d),
                    stages = StagesOf(plan),
                    subs = NoSubmissions,
                    members = PlanMembers(plan)
             PROVE  TypeOK
    BY DEF Init
<1>1. task \in TaskRow /\ stages \in [Stages -> StageRow]
    BY TaskOfType, StagesOfType
<1>2. subs \in [Stages -> SubmissionRows]
    BY BoundsAssumption DEF NoSubmissions, SubmissionRows
<1>3. members \in SUBSET Users
    BY StagesAssumption DEF PlanMembers, StagePlan
<1>. QED
    BY <1>1, <1>2, <1>3 DEF TypeOK

\* The stage a request addresses, in a state.
LEMMA AddressedStage ==
    ASSUME TypeOK, NEW s \in 0 .. NumStages, Addressed(task, s) # 0
    PROVE  Addressed(task, s) \in Stages
BY AddressedType DEF TypeOK

\* Start, Submit, Approve, RequestImprovement, UpdateStage and ReplaceStages: the
\* stage is one of the task, and the row passed to Sync is well formed.
LEMMA StartTypeOK ==
    ASSUME TypeOK, NEW u \in Users, Start(u)
    PROVE  TypeOK'
BY StartTypes DEF TypeOK, Start, CanStart

\* The new version is within the bound, which Submit checks.
LEMMA SubmitTypeOK ==
    ASSUME TypeOK, NEW u \in Users, NEW s \in 0 .. NumStages, Submit(u, s)
    PROVE  TypeOK'
<1>1. Addressed(task, s) \in Stages
    BY AddressedStage DEF Submit, CanSubmit
<1>. QED
    BY <1>1, SubmitTypes DEF TypeOK, Submit

\* The text shown by an approval, in a state.
LEMMA ApprovedTextType ==
    ASSUME TypeOK, NEW s \in 0 .. NumStages,
           IsFinalApproval(task, s) \/ Addressed(task, s) # 0
    PROVE  (IF IsFinalApproval(task, s) \/ subs[Addressed(task, s)].flagged = {}
            THEN task.result
            ELSE <<Addressed(task, s), Min(subs[Addressed(task, s)].flagged)>>) \in Shown
BY ApprovedShown DEF TypeOK

\* The text shown is a submission's, or stays.
LEMMA ApproveTypeOK ==
    ASSUME TypeOK, NEW u \in Users, NEW s \in 0 .. NumStages, Approve(u, s)
    PROVE  TypeOK'
BY ApproveTypes DEF TypeOK, Approve

\* A stage sent back has a status of a stage, not one of a task.
LEMMA RequestImprovementTypeOK ==
    ASSUME TypeOK, NEW u \in Users, NEW s \in 0 .. NumStages, RequestImprovement(u, s)
    PROVE  TypeOK'
<1>1. Addressed(task, s) \in Stages
    BY AddressedStage DEF RequestImprovement
<1>. QED
    BY <1>1, ReworkTypes DEF TypeOK, RequestImprovement

\* The new assignees are users.
LEMMA UpdateStageTypeOK ==
    ASSUME TypeOK, NEW u \in Users, NEW s \in Stages, NEW approval \in BOOLEAN,
           NEW ids \in Requests, UpdateStage(u, s, approval, ids)
    PROVE  TypeOK'
<1>1. ids \in SUBSET Users
    BY RequestsAssumption
<1>2. stages' \in [Stages -> StageRow]
    <2> DEFINE rows == [v \in Users |->
                         IF v \in ids THEN "active"
                         ELSE IF ids # {} /\ stages[s].assignee[v] = "active" THEN "inactive"
                         ELSE stages[s].assignee[v]]
    <2>1. stages \in [Stages -> StageRow]
        BY DEF TypeOK
    <2>2. rows \in [Users -> {"absent", "active", "inactive"}]
        BY <2>1 DEF StageRow
    <2>3. stages' = [stages EXCEPT ![s].approval = approval, ![s].assignee = rows]
        BY DEF UpdateStage
    <2> HIDE DEF rows
    <2>4. [stages[s] EXCEPT !.approval = approval, !.assignee = rows] \in StageRow
        BY <2>1, <2>2 DEF StageRow
    <2>5. stages' = [stages EXCEPT ![s] =
                        [stages[s] EXCEPT !.approval = approval, !.assignee = rows]]
        BY <2>1, <2>3
    <2>. QED
        BY <2>1, <2>4, <2>5
<1>3. task' \in TaskRow
    BY SyncType DEF TypeOK, UpdateStage
<1>. QED
    BY <1>1, <1>2, <1>3 DEF UpdateStage, TypeOK

\* A new plan gives new rows.
LEMMA ReplaceStagesTypeOK ==
    ASSUME TypeOK, NEW u \in Users, NEW plan \in Plans, NEW finalRequired \in BOOLEAN,
           ReplaceStages(u, plan, finalRequired)
    PROVE  TypeOK'
<1>1. stages' \in [Stages -> StageRow]
    BY StagesOfType DEF ReplaceStages
<1>2. [task EXCEPT !.finalRequired = finalRequired, !.meta.finalPending = FALSE] \in TaskRow
    BY DEF TypeOK, TaskRow, MetaRow
<1>3. task' \in TaskRow
    BY <1>1, <1>2, SyncType DEF ReplaceStages
<1>4. members' \in SUBSET Users
    BY StagesAssumption DEF ReplaceStages, PlanMembers, StagePlan
<1>. QED
    BY <1>1, <1>3, <1>4 DEF ReplaceStages, TypeOK

\* The rows stay well formed: every handler writes statuses and stages that
\* exist, and shows a submission that exists.
THEOREM TypeCorrect == Spec => []TypeOK
<1>1. TypeOK /\ [Next]_vars => TypeOK'
    <2> SUFFICES ASSUME TypeOK, [Next]_vars  PROVE TypeOK'
        OBVIOUS
    <2> USE DEF TypeOK
    <2>1. CASE HoldExpires
        BY <2>1, MetaType DEF HoldExpires
    <2>2. ASSUME NEW u \in Users, Start(u)  PROVE TypeOK'
        BY <2>2, StartTypeOK
    <2>3. ASSUME NEW u \in Users, NEW withLinks \in BOOLEAN, EditResult(u, withLinks)
          PROVE  TypeOK'
        <3>1. Edited \in Shown
            BY DEF Edited, Shown
        <3>. QED
            BY <2>3, <3>1 DEF EditResult, TaskRow, MetaRow
    <2>4. ASSUME NEW u \in Users, NEW s \in 0 .. NumStages,
                 Submit(u, s) \/ Approve(u, s) \/ RequestImprovement(u, s)
          PROVE  TypeOK'
        BY <2>4, SubmitTypeOK, ApproveTypeOK, RequestImprovementTypeOK
    <2>5. ASSUME NEW u \in Users, NEW targets \in Requests, NEW d \in Departments,
                 Forward(u, targets, d)
          PROVE  TypeOK'
        BY <2>5, RequestsAssumption DEF Forward, TaskRow, TaskStatuses
    <2>6. ASSUME NEW u \in Users, Revoke(u)  PROVE TypeOK'
        BY <2>6 DEF Revoke, TaskRow, TaskStatuses
    <2>7. ASSUME NEW u \in Users, NEW kind \in {"open_ended", "timed"}, Hold(u, kind)
          PROVE  TypeOK'
        BY <2>7, MetaType DEF Hold
    <2>8. ASSUME NEW u \in Users, Unhold(u)  PROVE TypeOK'
        BY <2>8, MetaType DEF Unhold
    <2>9. ASSUME NEW u \in Users, NEW s \in Stages, NEW approval \in BOOLEAN,
                 NEW ids \in Requests, UpdateStage(u, s, approval, ids)
          PROVE  TypeOK'
        BY <2>9, UpdateStageTypeOK
    <2>10. ASSUME NEW u \in Users, NEW ids \in Requests, NEW d \in Departments,
                  EditDetails(u, ids, d)
           PROVE  TypeOK'
        BY <2>10, RequestsAssumption DEF EditDetails, TaskRow
    <2>11. ASSUME NEW u \in Users, NEW plan \in Plans, NEW finalRequired \in BOOLEAN,
                  ReplaceStages(u, plan, finalRequired)
           PROVE  TypeOK'
        BY <2>11, ReplaceStagesTypeOK
    <2>12. CASE UNCHANGED vars
        BY <2>12 DEF vars
    <2>. QED
        BY <2>1, <2>2, <2>3, <2>4, <2>5, <2>6, <2>7, <2>8, <2>9, <2>10, <2>11, <2>12 DEF Next
<1>. QED
    BY InitTypeOK, <1>1, PTL DEF Spec

-----------------------------------------------------------------------------
(* One stage at a time *)

\* What a handler does to the rows of other stages and to the assignees does
\* not move the frontier.
LEMMA FrontierKept ==
    ASSUME NEW st \in [Stages -> StageRow], NEW st1 \in [Stages -> StageRow],
           \A r \in Stages : st1[r].status = st[r].status
    PROVE  /\ AllCompleted(st1) <=> AllCompleted(st)
           /\ \A s \in Stages : FrontierAt(st1, s) <=> FrontierAt(st, s)
BY DEF AllCompleted, FrontierAt

\* An open stage is the frontier: a handler that looks at one stage only, and
\* finds it open, knows where all the others are.
LEMMA OpenIsFrontier ==
    ASSUME NEW st \in [Stages -> StageRow], NEW a \in Stages,
           AllCompleted(st) \/ \E s \in Stages : FrontierAt(st, s),
           st[a].status \in OpenStatuses
    PROVE  FrontierAt(st, a) /\ ~AllCompleted(st)
<1>1. st[a].status # "completed" /\ st[a].status # "not_started"
    BY DEF OpenStatuses
<1>2. PICK s \in Stages : FrontierAt(st, s)
    BY <1>1 DEF AllCompleted
<1>3. s \in Nat /\ a \in Nat
    BY StagesAssumption DEF Stages
<1>4. a = s
    BY <1>1, <1>2, <1>3 DEF FrontierAt
<1>. QED
    BY <1>1, <1>2, <1>4 DEF AllCompleted

\* The stage at the frontier may go from one open status to another.
LEMMA FrontierStays ==
    ASSUME NEW st \in [Stages -> StageRow], NEW st1 \in [Stages -> StageRow],
           NEW a \in Stages, FrontierAt(st, a),
           \A r \in Stages \ {a} : st1[r].status = st[r].status,
           st1[a].status \in OpenStatuses
    PROVE  FrontierAt(st1, a)
<1>1. \A r \in Stages : (r < a \/ r > a) => r # a
    BY DEF Stages
<1>. QED
    BY <1>1 DEF FrontierAt

\* Completing the stage at the frontier passes it on to the next stage, or ends
\* the workflow: at the last stage always, and at an earlier one when the work
\* had been sent back from the end.
LEMMA FrontierPasses ==
    ASSUME NEW st \in [Stages -> StageRow], NEW st1 \in [Stages -> StageRow],
           NEW a \in Stages, FrontierAt(st, a),
           \A r \in Stages \ {a} : st1[r].status = st[r].status,
           st1[a].status = "completed"
    PROVE  /\ \/ AllCompleted(ActivateNext(st1, a))
              \/ a < NumStages /\ FrontierAt(ActivateNext(st1, a), a + 1)
           /\ a = NumStages => AllCompleted(ActivateNext(st1, a))
<1> DEFINE st2 == ActivateNext(st1, a)
<1>1. a \in Nat /\ NumStages \in Nat /\ \A r \in Stages : r \in Nat /\ r =< NumStages
    BY StagesAssumption DEF Stages
<1>2. \A r \in Stages : r < a => st1[r].status = "completed"
    BY <1>1 DEF FrontierAt
<1>3. CASE \A r \in Stages : r > a => st[r].status = "completed"
    <2>1. AllCompleted(st1)
        <3> SUFFICES ASSUME NEW r \in Stages  PROVE st1[r].status = "completed"
            BY DEF AllCompleted
        <3>1. r < a \/ r = a \/ r > a
            BY <1>1
        <3>. QED
            BY <1>1, <1>2, <1>3, <3>1
    <2>2. a < NumStages => a + 1 \in Stages
        BY <1>1 DEF Stages
    <2>3. st2 = st1
        BY <2>1, <2>2 DEF AllCompleted, ActivateNext
    <2>. QED
        BY <2>1, <2>3
<1>4. CASE (\A r \in Stages : r > a => st[r].status = "not_started") /\ a = NumStages
    <2>1. \A r \in Stages : r > a => st[r].status = "completed"
        BY <1>1, <1>4
    <2>. QED
        BY <1>3, <2>1
<1>5. CASE (\A r \in Stages : r > a => st[r].status = "not_started") /\ a < NumStages
    <2>1. a + 1 \in Stages
        BY <1>1, <1>5 DEF Stages
    <2>2. \A r \in Stages : r > a => st1[r].status = "not_started"
        BY <1>1, <1>5
    <2>3. st1[a + 1].status = "not_started"
        BY <1>1, <2>1, <2>2
    <2>4. st2 = [st1 EXCEPT ![a + 1].status = "active"]
        BY <1>5, <2>3 DEF ActivateNext
    <2>5. st2[a + 1].status = "active"
        BY <2>1, <2>4 DEF StageRow
    <2>6. \A r \in Stages \ {a + 1} : st2[r] = st1[r]
        BY <2>4
    <2>7. \A r \in Stages : r < a + 1 => st2[r].status = "completed"
        <3> SUFFICES ASSUME NEW r \in Stages, r < a + 1
                     PROVE  st2[r].status = "completed"
            OBVIOUS
        <3>1. r # a + 1 /\ (r < a \/ r = a)
            BY <1>1
        <3>. QED
            BY <1>2, <2>6, <3>1
    <2>8. \A r \in Stages : r > a + 1 => st2[r].status = "not_started"
        <3> SUFFICES ASSUME NEW r \in Stages, r > a + 1
                     PROVE  st2[r].status = "not_started"
            OBVIOUS
        <3>1. r # a + 1 /\ r > a
            BY <1>1
        <3>. QED
            BY <2>2, <2>6, <3>1
    <2>9. FrontierAt(st2, a + 1)
        BY <2>5, <2>7, <2>8 DEF FrontierAt, OpenStatuses
    <2>. QED
        BY <1>1, <1>5, <2>9
<1>6. a = NumStages \/ a < NumStages
    BY <1>1
<1>. QED
    BY <1>3, <1>4, <1>5, <1>6 DEF FrontierAt

\* Recomputing the summary writes neither the metadata nor what the creator
\* asked for.
LEMMA SyncKeeps ==
    ASSUME NEW t \in TaskRow, NEW st
    PROVE  Sync(t, st).meta = t.meta /\ Sync(t, st).finalRequired = t.finalRequired
BY DEF Sync, Summary, TaskRow

\* Each step keeps the three parts of the inductive invariant together: that a
\* pending final approval means a finished workflow is what lets a completed
\* stage be sent back, and that one stage is open is what makes the other one
\* true again when the last stage is done.
OneStage == TypeOK /\ StageFrontier /\ FinalPendingAtEnd

\* A new task has its first stage open.
LEMMA InitOneStage == Init => OneStage
<1> SUFFICES ASSUME NEW plan \in Plans, NEW finalRequired \in BOOLEAN,
                    NEW d \in Departments,
                    TypeOK,
                    task = TaskOf(plan, finalRequired, d),
                    stages = StagesOf(plan)
             PROVE  OneStage
    BY InitTypeOK DEF Init
<1>1. 1 \in Stages /\ \A r \in Stages : ~(r < 1)
    BY StagesAssumption DEF Stages
<1>2. FrontierAt(stages, 1)
    BY <1>1 DEF FrontierAt, StagesOf, OpenStatuses
<1>3. ~task.meta.finalPending
    BY DEF TaskOf, Sync, Summary
<1>. QED
    BY <1>1, <1>2, <1>3 DEF OneStage, StageFrontier, FinalPendingAtEnd

\* Starting leaves the open stage open.
LEMMA StartOneStage ==
    ASSUME OneStage, TypeOK', NEW u \in Users, Start(u)
    PROVE  StageFrontier' /\ FinalPendingAtEnd'
<1> USE DEF OneStage
<1>1. task.current \in Stages /\ stages[task.current].status \in OpenStatuses
    BY StagesAssumption DEF TypeOK, TaskRow, Start, CanStart, Stages, OpenStatuses
<1>2. FrontierAt(stages, task.current) /\ ~AllCompleted(stages)
    BY <1>1, OpenIsFrontier DEF TypeOK, StageFrontier
<1>3. FrontierAt(stages', task.current)
    <2>1. /\ \A r \in Stages \ {task.current} : stages'[r].status = stages[r].status
          /\ stages'[task.current].status \in OpenStatuses
        BY <1>1 DEF TypeOK, StageRow, Start, StartStages, OpenStatuses
    <2>. QED
        BY <1>1, <1>2, <2>1, FrontierStays DEF TypeOK
<1>4. task'.meta = task.meta
    <2>1. Sync(task, stages').meta = task.meta /\ Sync(task, stages') \in TaskRow
        BY SyncKeeps, SyncType DEF TypeOK
    <2>. QED
        BY <2>1 DEF Start, StartTask, TaskRow
<1>. QED
    BY <1>1, <1>2, <1>3, <1>4 DEF StageFrontier, FinalPendingAtEnd

\* Submitting leaves it open for approval or passes it on.
LEMMA SubmitOneStage ==
    ASSUME OneStage, TypeOK', NEW u \in Users, NEW s \in 0 .. NumStages, Submit(u, s)
    PROVE  StageFrontier' /\ FinalPendingAtEnd'
<1> USE DEF OneStage
<1> DEFINE a     == Addressed(task, s)
           final == ~stages[a].approval /\ a = NumStages /\ task.finalRequired
           shown == [Mirror(task, a, NewVersion(subs, a)) EXCEPT !.meta.finalPending = final]
<1>1. a \in Stages /\ stages[a].status \in OpenStatuses
    BY AddressedStage DEF Submit, CanSubmit, OpenStatuses
<1>2. FrontierAt(stages, a)
    BY <1>1, OpenIsFrontier DEF TypeOK, StageFrontier
<1>3. shown.meta.finalPending = final /\ shown.finalRequired = task.finalRequired
      /\ shown \in TaskRow
    <2>1. NewVersion(subs, a) \in 1 .. MaxVersions
        BY <1>1, BoundsAssumption DEF Submit, TypeOK, SubmissionRows, NewVersion
    <2>2. shown \in TaskRow
        BY <1>1, <2>1, MirrorType DEF TypeOK
    <2>. QED
        BY <2>2 DEF TypeOK, TaskRow, MetaRow, Mirror
<1>4. task'.meta.finalPending = final /\ task'.finalRequired = task.finalRequired
    <2>1. task' = Sync(shown, stages')
        BY DEF Submit, SubmitTask
    <2> HIDE DEF shown, final
    <2>. QED
        BY <1>3, <2>1, SyncKeeps
<1>5. CASE stages[a].approval
    <2>1. stages' = [stages EXCEPT ![a].status = "submitted", ![a].started = TRUE]
        BY <1>5 DEF Submit, SubmitStages
    <2>2. /\ \A r \in Stages \ {a} : stages'[r].status = stages[r].status
          /\ stages'[a].status \in OpenStatuses
        BY <1>1, <2>1 DEF TypeOK, StageRow, OpenStatuses
    <2>3. FrontierAt(stages', a)
        BY <1>1, <1>2, <2>2, FrontierStays DEF TypeOK
    <2>. QED
        BY <1>1, <1>4, <1>5, <2>3 DEF StageFrontier, FinalPendingAtEnd
<1>6. CASE ~stages[a].approval
    <2> DEFINE st1 == [stages EXCEPT ![a].status = "completed", ![a].started = TRUE]
    <2>1. stages' = ActivateNext(st1, a)
        BY <1>6 DEF Submit, SubmitStages
    <2>2. st1 \in [Stages -> StageRow]
        BY <1>1, StageChangeType DEF TypeOK, StageStatuses
    <2>3. /\ \A r \in Stages \ {a} : st1[r].status = stages[r].status
          /\ st1[a].status = "completed"
        BY <1>1 DEF TypeOK, StageRow
    <2>4. /\ \/ AllCompleted(stages')
             \/ a < NumStages /\ FrontierAt(stages', a + 1)
          /\ a = NumStages => AllCompleted(stages')
        <3> HIDE DEF st1, a
        <3>. QED
            BY <1>1, <1>2, <2>1, <2>2, <2>3, FrontierPasses DEF TypeOK
    <2>5. a < NumStages => a + 1 \in Stages
        BY <1>1, StagesAssumption DEF Stages
    <2>. QED
        BY <1>4, <2>4, <2>5 DEF StageFrontier, FinalPendingAtEnd
<1>. QED
    BY <1>5, <1>6

\* Approving passes it on, or is the final approval and moves nothing.
LEMMA ApproveOneStage ==
    ASSUME OneStage, TypeOK', NEW u \in Users, NEW s \in 0 .. NumStages, Approve(u, s)
    PROVE  StageFrontier' /\ FinalPendingAtEnd'
<1> USE DEF OneStage
<1> DEFINE a     == Addressed(task, s)
           final == ~IsFinalApproval(task, s) /\ a = NumStages /\ task.finalRequired /\ u # Creator
           text  == IF IsFinalApproval(task, s) \/ subs[a].flagged = {} THEN task.result
                    ELSE <<a, Min(subs[a].flagged)>>
           shown == [task EXCEPT !.result = text, !.meta.finalPending = final]
<1>1. task'.meta.finalPending = final /\ task'.finalRequired = task.finalRequired
    <2>1. task' = Sync(shown, stages')
        BY DEF Approve, ApproveTask
    <2>2. shown \in TaskRow
        <3>1. text \in Shown
            BY ApprovedTextType DEF Approve, Reviewable
        <3>. QED
            BY <3>1 DEF TypeOK, TaskRow, MetaRow
    <2>3. shown.meta.finalPending = final /\ shown.finalRequired = task.finalRequired
        BY DEF TypeOK, TaskRow, MetaRow
    <2>. HIDE DEF shown
    <2>. QED
        BY <2>1, <2>2, <2>3, SyncKeeps
<1>2. CASE IsFinalApproval(task, s)
    BY <1>1, <1>2 DEF Approve, ApproveStages, StageFrontier, FinalPendingAtEnd
<1>3. CASE ~IsFinalApproval(task, s)
    <2> DEFINE st1 == [stages EXCEPT ![a].status = "completed"]
    <2>1. a \in Stages /\ stages[a].status \in OpenStatuses
        BY <1>3, AddressedStage DEF Approve, Reviewable, OpenStatuses
    <2>2. FrontierAt(stages, a)
        BY <2>1, OpenIsFrontier DEF TypeOK, StageFrontier
    <2>3. stages' = ActivateNext(st1, a)
        BY <1>3 DEF Approve, ApproveStages
    <2>4. st1 \in [Stages -> StageRow]
        BY <2>1, StageChangeType DEF TypeOK, StageStatuses
    <2>5. /\ \A r \in Stages \ {a} : st1[r].status = stages[r].status
          /\ st1[a].status = "completed"
        BY <2>1 DEF TypeOK, StageRow
    <2>6. /\ \/ AllCompleted(stages')
             \/ a < NumStages /\ FrontierAt(stages', a + 1)
          /\ a = NumStages => AllCompleted(stages')
        <3> HIDE DEF st1, a
        <3>. QED
            BY <2>1, <2>2, <2>3, <2>4, <2>5, FrontierPasses DEF TypeOK
    <2>7. a < NumStages => a + 1 \in Stages
        BY <2>1, StagesAssumption DEF Stages
    <2>. QED
        BY <1>1, <2>6, <2>7 DEF StageFrontier, FinalPendingAtEnd
<1>. QED
    BY <1>2, <1>3

\* Sending back leaves the open stage open, or opens one of a finished workflow.
LEMMA RequestImprovementOneStage ==
    ASSUME OneStage, TypeOK', NEW u \in Users, NEW s \in 0 .. NumStages,
           RequestImprovement(u, s)
    PROVE  StageFrontier' /\ FinalPendingAtEnd'
<1> USE DEF OneStage
<1> DEFINE a == Addressed(task, s)
<1>1. a \in Stages
    BY AddressedStage DEF RequestImprovement
<1>2. ~task'.meta.finalPending
    <2>1. [task EXCEPT !.meta.finalPending = FALSE] \in TaskRow
        BY MetaType DEF TypeOK
    <2>2. task' = Sync([task EXCEPT !.meta.finalPending = FALSE], stages')
        BY DEF RequestImprovement, ReworkTask
    <2>3. [task EXCEPT !.meta.finalPending = FALSE].meta.finalPending = FALSE
        BY DEF TypeOK, TaskRow, MetaRow
    <2>. QED
        BY <2>1, <2>2, <2>3, SyncKeeps
<1>3. /\ \A r \in Stages \ {a} : stages'[r].status = stages[r].status
      /\ stages'[a].status \in OpenStatuses
    BY <1>1 DEF RequestImprovement, ReworkStages, TypeOK, StageRow, OpenStatuses
<1>4. FrontierAt(stages', a)
    <2>1. CASE stages[a].status \in {"submitted", "active"}
        <3>1. FrontierAt(stages, a)
            BY <1>1, <2>1, OpenIsFrontier DEF TypeOK, StageFrontier, OpenStatuses
        <3>. QED
            BY <1>1, <1>3, <3>1, FrontierStays DEF TypeOK
    <2>2. CASE task.meta.finalPending
        <3>1. AllCompleted(stages)
            BY <2>2 DEF FinalPendingAtEnd
        <3>2. \A r \in Stages : (r < a \/ r > a) => r # a
            BY DEF Stages
        <3>. QED
            BY <1>1, <1>3, <3>1, <3>2 DEF AllCompleted, FrontierAt
    <2>. QED
        BY <2>1, <2>2 DEF RequestImprovement, Reworkable
<1>. QED
    BY <1>1, <1>2, <1>4 DEF StageFrontier, FinalPendingAtEnd

\* Updating a stage changes no status.
LEMMA UpdateStageOneStage ==
    ASSUME OneStage, TypeOK', NEW u \in Users, NEW s \in Stages,
           NEW approval \in BOOLEAN, NEW ids \in Requests,
           UpdateStage(u, s, approval, ids)
    PROVE  StageFrontier' /\ FinalPendingAtEnd'
<1> USE DEF OneStage
<1>1. \A r \in Stages : stages'[r].status = stages[r].status
    <2> DEFINE rows == [v \in Users |->
                         IF v \in ids THEN "active"
                         ELSE IF ids # {} /\ stages[s].assignee[v] = "active" THEN "inactive"
                         ELSE stages[s].assignee[v]]
    <2>1. stages' = [stages EXCEPT ![s].approval = approval, ![s].assignee = rows]
        BY DEF UpdateStage
    <2>. HIDE DEF rows
    <2>. QED
        BY <2>1 DEF TypeOK, StageRow
<1>2. task'.meta = task.meta /\ task'.finalRequired = task.finalRequired
    BY SyncKeeps DEF TypeOK, UpdateStage
<1>. QED
    BY <1>1, <1>2, FrontierKept DEF TypeOK, StageFrontier, FinalPendingAtEnd

\* A new plan has its first stage open.
LEMMA ReplaceStagesOneStage ==
    ASSUME OneStage, TypeOK', NEW u \in Users, NEW plan \in Plans,
           NEW finalRequired \in BOOLEAN, ReplaceStages(u, plan, finalRequired)
    PROVE  StageFrontier' /\ FinalPendingAtEnd'
<1> USE DEF OneStage
<1> DEFINE asked == [task EXCEPT !.finalRequired = finalRequired, !.meta.finalPending = FALSE]
<1>1. 1 \in Stages /\ \A r \in Stages : ~(r < 1)
    BY StagesAssumption DEF Stages
<1>2. FrontierAt(stages', 1)
    BY <1>1 DEF FrontierAt, StagesOf, OpenStatuses, ReplaceStages
<1>3. asked \in TaskRow /\ asked.meta.finalPending = FALSE
    BY DEF TypeOK, TaskRow, MetaRow
<1>4. task' = Sync(asked, stages')
    BY DEF ReplaceStages
<1>5. ~task'.meta.finalPending
    <2>. HIDE DEF asked
    <2>. QED
        BY <1>3, <1>4, SyncKeeps
<1>. QED
    BY <1>1, <1>2, <1>5 DEF StageFrontier, FinalPendingAtEnd

\* The other handlers write neither the stages nor the pending approval.
LEMMA OtherOneStage ==
    ASSUME OneStage, UNCHANGED stages,
           task'.meta.finalPending = task.meta.finalPending,
           task'.finalRequired = task.finalRequired
    PROVE  StageFrontier' /\ FinalPendingAtEnd'
BY DEF OneStage, StageFrontier, FinalPendingAtEnd

\* Every step keeps the invariant.
LEMMA NextOneStage == OneStage /\ [Next]_vars /\ TypeOK' => OneStage'
<1> SUFFICES ASSUME OneStage, [Next]_vars, TypeOK'
             PROVE  StageFrontier' /\ FinalPendingAtEnd'
    BY DEF OneStage
<1> USE DEF OneStage
<1>1. CASE HoldExpires
    BY <1>1, OtherOneStage DEF HoldExpires, TypeOK, TaskRow, MetaRow
<1>2. ASSUME NEW u \in Users, Start(u)
      PROVE  StageFrontier' /\ FinalPendingAtEnd'
    BY <1>2, StartOneStage
<1>3. ASSUME NEW u \in Users, NEW withLinks \in BOOLEAN, EditResult(u, withLinks)
      PROVE  StageFrontier' /\ FinalPendingAtEnd'
    BY <1>3, OtherOneStage DEF EditResult, TypeOK, TaskRow, MetaRow
<1>4. ASSUME NEW u \in Users, NEW s \in 0 .. NumStages,
             Submit(u, s) \/ Approve(u, s) \/ RequestImprovement(u, s)
      PROVE  StageFrontier' /\ FinalPendingAtEnd'
    BY <1>4, SubmitOneStage, ApproveOneStage, RequestImprovementOneStage
<1>5. ASSUME NEW u \in Users, NEW targets \in Requests, NEW d \in Departments,
             Forward(u, targets, d)
      PROVE  StageFrontier' /\ FinalPendingAtEnd'
    BY <1>5, OtherOneStage DEF Forward, TypeOK, TaskRow
<1>6. ASSUME NEW u \in Users, Revoke(u)
      PROVE  StageFrontier' /\ FinalPendingAtEnd'
    BY <1>6, OtherOneStage DEF Revoke, TypeOK, TaskRow
<1>7. ASSUME NEW u \in Users, NEW kind \in {"open_ended", "timed"}, Hold(u, kind)
      PROVE  StageFrontier' /\ FinalPendingAtEnd'
    BY <1>7, OtherOneStage DEF Hold, TypeOK, TaskRow, MetaRow
<1>8. ASSUME NEW u \in Users, Unhold(u)
      PROVE  StageFrontier' /\ FinalPendingAtEnd'
    BY <1>8, OtherOneStage DEF Unhold, TypeOK, TaskRow, MetaRow
<1>9. ASSUME NEW u \in Users, NEW s \in Stages, NEW approval \in BOOLEAN,
             NEW ids \in Requests, UpdateStage(u, s, approval, ids)
      PROVE  StageFrontier' /\ FinalPendingAtEnd'
    BY <1>9, UpdateStageOneStage
<1>10. ASSUME NEW u \in Users, NEW ids \in Requests, NEW d \in Departments,
              EditDetails(u, ids, d)
       PROVE  StageFrontier' /\ FinalPendingAtEnd'
    BY <1>10, OtherOneStage DEF EditDetails, TypeOK, TaskRow
<1>11. ASSUME NEW u \in Users, NEW plan \in Plans, NEW finalRequired \in BOOLEAN,
              ReplaceStages(u, plan, finalRequired)
       PROVE  StageFrontier' /\ FinalPendingAtEnd'
    BY <1>11, ReplaceStagesOneStage
<1>12. CASE UNCHANGED vars
    BY <1>12, OtherOneStage DEF vars
<1>. QED
    BY <1>1, <1>2, <1>3, <1>4, <1>5, <1>6, <1>7, <1>8, <1>9, <1>10, <1>11, <1>12 DEF Next

\* The stages are worked on one at a time and in order, and a final approval is
\* pending only at the end, whatever the endpoints are called with.
THEOREM WorkMovesInOrder == Spec => [](StageFrontier /\ FinalPendingAtEnd)
<1>1. OneStage => StageFrontier /\ FinalPendingAtEnd
    BY DEF OneStage
<1>. QED
    BY <1>1, InitOneStage, NextOneStage, TypeCorrect, PTL DEF Spec

\* No endpoint leaves a final approval pending while a stage is unfinished, nor
\* one that the creator has not asked for.
THEOREM FinalApprovalComesLast == Spec => []FinalPendingAtEnd
<1>1. StageFrontier /\ FinalPendingAtEnd => FinalPendingAtEnd
    OBVIOUS
<1>. QED
    BY <1>1, WorkMovesInOrder, PTL

-----------------------------------------------------------------------------
(* The summary *)

\* SummaryAgrees of any task row and stage rows.
Agrees(t, st) ==
    LET now == Sync(t, st) IN
    /\ t.workflow = now.workflow
    /\ t.current = now.current
    /\ t.completedAt <=> now.completedAt
    /\ t.status \in {now.status, "forwarded", "cancelled"}

\* The columns of a summary.
LEMMA SummaryColumns ==
    ASSUME NEW t \in TaskRow, NEW st, NEW s, NEW workflow, NEW status
    PROVE  /\ Summary(t, st, s, workflow, status).workflow = workflow
           /\ Summary(t, st, s, workflow, status).status = status
           /\ Summary(t, st, s, workflow, status).current = s
           /\ ~Summary(t, st, s, workflow, status).completedAt
BY DEF Summary, TaskRow

\* Recomputing the summary reads the pending final approval, and of the stages
\* which status they have and whether they were started.
LEMMA SyncReads ==
    ASSUME NEW t \in TaskRow, NEW t1 \in TaskRow,
           NEW st \in [Stages -> StageRow], NEW st1 \in [Stages -> StageRow],
           t1.meta.finalPending = t.meta.finalPending,
           \A r \in Stages : /\ st1[r].status = st[r].status
                             /\ st1[r].started = st[r].started
    PROVE  /\ Sync(t1, st1).workflow = Sync(t, st).workflow
           /\ Sync(t1, st1).current = Sync(t, st).current
           /\ Sync(t1, st1).completedAt <=> Sync(t, st).completedAt
           /\ Sync(t1, st1).status = Sync(t, st).status
<1> DEFINE In(status) == InStatus(st, status)
           revision  == Min(In("revision_requested"))
           submitted == Min(In("submitted"))
           active    == Min(In("active"))
           work      == IF st[active].started THEN "in_progress" ELSE "assigned"
<1>1. \A status : InStatus(st1, status) = In(status)
    BY DEF InStatus
<1>2. In("active") # {} => st1[active].started = st[active].started
    BY MinStage DEF InStatus
<1>3. CASE In("revision_requested") # {}
    <2>1. /\ Sync(t, st) = Summary(t, st, revision, "revision_requested", "need_improvement")
          /\ Sync(t1, st1) = Summary(t1, st1, revision, "revision_requested", "need_improvement")
        BY <1>1, <1>3 DEF Sync
    <2>. QED
        BY <2>1, SummaryColumns
<1>4. CASE In("revision_requested") = {} /\ In("submitted") # {}
    <2>1. /\ Sync(t, st) = Summary(t, st, submitted, "waiting_approval", "submitted")
          /\ Sync(t1, st1) = Summary(t1, st1, submitted, "waiting_approval", "submitted")
        BY <1>1, <1>4 DEF Sync
    <2>. QED
        BY <2>1, SummaryColumns
<1>5. CASE /\ In("revision_requested") = {} /\ In("submitted") = {}
           /\ In("active") # {}
    <2>1. /\ Sync(t, st) = Summary(t, st, active, "active", work)
          /\ Sync(t1, st1) = Summary(t1, st1, active, "active", work)
        BY <1>1, <1>2, <1>5 DEF Sync
    <2>. QED
        BY <2>1, SummaryColumns
<1>6. CASE /\ In("revision_requested") = {} /\ In("submitted") = {}
           /\ In("active") = {}
    <2>1. CASE In("completed") # Stages
        <3>1. /\ Sync(t, st) = Summary(t, st, 1, "not_started", "pending")
              /\ Sync(t1, st1) = Summary(t1, st1, 1, "not_started", "pending")
            BY <1>1, <1>6, <2>1 DEF Sync
        <3>. QED
            BY <3>1, SummaryColumns
    <2>2. CASE In("completed") = Stages /\ t.meta.finalPending
        <3>1. /\ Sync(t, st) = Summary(t, st, NumStages, "waiting_approval", "submitted")
              /\ Sync(t1, st1) = Summary(t1, st1, NumStages, "waiting_approval", "submitted")
            BY <1>1, <1>6, <2>2 DEF Sync
        <3>. QED
            BY <3>1, SummaryColumns
    <2>3. CASE In("completed") = Stages /\ ~t.meta.finalPending
        BY <1>1, <1>6, <2>3 DEF Sync, TaskRow
    <2>. QED
        BY <2>1, <2>2, <2>3
<1>. QED
    BY <1>3, <1>4, <1>5, <1>6

\* A summary just recomputed agrees, and so does one recomputed before rows
\* changed that it does not read.
LEMMA SyncAgrees ==
    ASSUME NEW t \in TaskRow,
           NEW st \in [Stages -> StageRow], NEW st1 \in [Stages -> StageRow],
           \A r \in Stages : /\ st1[r].status = st[r].status
                             /\ st1[r].started = st[r].started
    PROVE  Agrees(Sync(t, st), st1)
<1>1. Sync(t, st) \in TaskRow /\ Sync(t, st).meta = t.meta
    BY SyncType, SyncKeeps
<1>. QED
    BY <1>1, SyncReads DEF Agrees

\* The summary keeps agreeing when a handler writes other columns of the task.
LEMMA OtherAgrees ==
    ASSUME NEW t \in TaskRow, NEW t1 \in TaskRow, NEW st \in [Stages -> StageRow],
           Agrees(t, st),
           t1.meta.finalPending = t.meta.finalPending,
           t1.workflow = t.workflow, t1.current = t.current,
           t1.completedAt <=> t.completedAt,
           t1.status \in {t.status, "forwarded", "cancelled"}
    PROVE  Agrees(t1, st)
BY SyncReads DEF Agrees

\* With one open stage and that one in work, the summary is that of a task in
\* progress.
LEMMA StartedAgrees ==
    ASSUME NEW t \in TaskRow, NEW st \in [Stages -> StageRow], NEW a \in Stages,
           FrontierAt(st, a), st[a].status = "active", st[a].started
    PROVE  Sync(t, st).status = "in_progress"
<1>1. \A r \in Stages : r # a => st[r].status \in {"completed", "not_started"}
    <2>1. \A r \in Stages : r < a \/ r = a \/ r > a
        BY DEF Stages
    <2>. QED
        BY <2>1 DEF FrontierAt
<1>2. /\ InStatus(st, "revision_requested") = {}
      /\ InStatus(st, "submitted") = {}
      /\ InStatus(st, "active") = {a}
    BY <1>1 DEF InStatus
<1>3. Min({a}) = a
    BY MinStage
<1>. QED
    BY <1>2, <1>3 DEF Sync, Summary, TaskRow

\* A new submission on the task row leaves it well formed, the summary aside.
LEMMA SubmittedRow ==
    ASSUME TypeOK, NEW u \in Users, NEW s \in 0 .. NumStages, Submit(u, s)
    PROVE  \E t \in TaskRow : task' = Sync(t, stages')
<1> DEFINE a     == Addressed(task, s)
           final == ~stages[a].approval /\ a = NumStages /\ task.finalRequired
           shown == [Mirror(task, a, NewVersion(subs, a)) EXCEPT !.meta.finalPending = final]
<1>1. a \in Stages
    BY AddressedStage DEF Submit, CanSubmit
<1>2. NewVersion(subs, a) \in 1 .. MaxVersions
    BY <1>1, BoundsAssumption DEF Submit, TypeOK, SubmissionRows, NewVersion
<1>3. shown \in TaskRow
    BY <1>1, <1>2, MirrorType DEF TypeOK
<1>4. task' = Sync(shown, stages')
    BY DEF Submit, SubmitTask
<1>. QED
    BY <1>3, <1>4

\* So does an approval.
LEMMA ApprovedRow ==
    ASSUME TypeOK, NEW u \in Users, NEW s \in 0 .. NumStages, Approve(u, s)
    PROVE  \E t \in TaskRow : task' = Sync(t, stages')
<1> DEFINE a     == Addressed(task, s)
           final == ~IsFinalApproval(task, s) /\ a = NumStages /\ task.finalRequired /\ u # Creator
           text  == IF IsFinalApproval(task, s) \/ subs[a].flagged = {} THEN task.result
                    ELSE <<a, Min(subs[a].flagged)>>
           shown == [task EXCEPT !.result = text, !.meta.finalPending = final]
<1>1. text \in Shown
    BY ApprovedTextType DEF Approve, Reviewable
<1>2. shown \in TaskRow
    BY <1>1 DEF TypeOK, TaskRow, MetaRow
<1>3. task' = Sync(shown, stages')
    BY DEF Approve, ApproveTask
<1>. QED
    BY <1>2, <1>3

\* The handlers that change the status of a stage, Start apart, recompute the
\* summary last.
LEMMA RecomputedAgrees ==
    ASSUME TypeOK', \E t \in TaskRow : task' = Sync(t, stages')
    PROVE  Agrees(task, stages)'
BY SyncAgrees DEF TypeOK

\* start recomputes it and then writes the status once more, which is right
\* because the stage it starts is the only open one.
LEMMA StartAgrees ==
    ASSUME OneStage, TypeOK', NEW u \in Users, Start(u)
    PROVE  Agrees(task, stages)'
<1> USE DEF OneStage
<1> DEFINE a   == task.current
           now == Sync(task, stages')
<1>1. a \in Stages /\ stages[a].status \in OpenStatuses
    BY StagesAssumption DEF TypeOK, TaskRow, Start, CanStart, Stages, OpenStatuses
<1>2. stages'[a].status = "active" /\ stages'[a].started
    BY <1>1 DEF TypeOK, StageRow, Start, StartStages
<1>3. FrontierAt(stages', a)
    <2>1. FrontierAt(stages, a)
        BY <1>1, OpenIsFrontier DEF TypeOK, StageFrontier
    <2>2. \A r \in Stages \ {a} : stages'[r].status = stages[r].status
        BY <1>1 DEF TypeOK, Start, StartStages
    <2>. QED
        BY <1>1, <1>2, <2>1, <2>2, FrontierStays DEF TypeOK, OpenStatuses
<1>4. now \in TaskRow /\ Agrees(now, stages')
    BY SyncType, SyncAgrees DEF TypeOK
<1>5. now.status = "in_progress"
    BY <1>1, <1>2, <1>3, StartedAgrees DEF TypeOK
<1>6. task' = [now EXCEPT !.status = "in_progress", !.resultLocked = FALSE]
    BY DEF Start, StartTask
<1>7. /\ task'.meta.finalPending = now.meta.finalPending
      /\ task'.workflow = now.workflow
      /\ task'.current = now.current
      /\ task'.completedAt <=> now.completedAt
      /\ task'.status = now.status
    <2>. HIDE DEF now
    <2>. QED
        BY <1>4, <1>5, <1>6 DEF TaskRow
<1>. QED
    <2>. HIDE DEF now
    <2>. QED
        BY <1>4, <1>7, OtherAgrees DEF TypeOK

\* An update of a stage leaves its status and its start alone.
LEMMA UpdateStageKeeps ==
    ASSUME stages \in [Stages -> StageRow], NEW u \in Users, NEW s \in Stages,
           NEW approval \in BOOLEAN, NEW ids \in Requests,
           UpdateStage(u, s, approval, ids)
    PROVE  \A r \in Stages : /\ stages'[r].status = stages[r].status
                             /\ stages'[r].started = stages[r].started
<1> DEFINE rows == [v \in Users |->
                     IF v \in ids THEN "active"
                     ELSE IF ids # {} /\ stages[s].assignee[v] = "active" THEN "inactive"
                     ELSE stages[s].assignee[v]]
<1>1. stages' = [stages EXCEPT ![s].approval = approval, ![s].assignee = rows]
    BY DEF UpdateStage
<1>. HIDE DEF rows
<1>. QED
    BY <1>1 DEF StageRow

\* The assignees and the gate of a stage are not part of what is read, so the
\* summary recomputed before they change is right after it too.
LEMMA UpdateStageAgrees ==
    ASSUME OneStage, TypeOK', NEW u \in Users, NEW s \in Stages,
           NEW approval \in BOOLEAN, NEW ids \in Requests,
           UpdateStage(u, s, approval, ids)
    PROVE  Agrees(task, stages)'
<1> USE DEF OneStage
<1>1. \A r \in Stages : /\ stages'[r].status = stages[r].status
                        /\ stages'[r].started = stages[r].started
    BY UpdateStageKeeps DEF TypeOK
<1>2. task' = Sync(task, stages)
    BY DEF UpdateStage
<1>3. Agrees(Sync(task, stages), stages')
    BY <1>1, SyncAgrees DEF TypeOK
<1>. QED
    BY <1>2, <1>3

\* The summary stays right next to the inductive invariant of the stages.
LEMMA NextAgrees ==
    OneStage /\ Agrees(task, stages) /\ [Next]_vars /\ TypeOK' => Agrees(task, stages)'
<1> SUFFICES ASSUME OneStage, Agrees(task, stages), [Next]_vars, TypeOK'
             PROVE  Agrees(task, stages)'
    OBVIOUS
<1> USE DEF OneStage
<1>1. CASE HoldExpires
    BY <1>1, OtherAgrees DEF HoldExpires, TypeOK, TaskRow, MetaRow
<1>2. ASSUME NEW u \in Users, Start(u)
      PROVE  Agrees(task, stages)'
    BY <1>2, StartAgrees
<1>3. ASSUME NEW u \in Users, NEW withLinks \in BOOLEAN, EditResult(u, withLinks)
      PROVE  Agrees(task, stages)'
    BY <1>3, OtherAgrees DEF EditResult, TypeOK, TaskRow, MetaRow
<1>4. ASSUME NEW u \in Users, NEW s \in 0 .. NumStages, Submit(u, s)
      PROVE  Agrees(task, stages)'
    <2>1. \E t \in TaskRow : task' = Sync(t, stages')
        BY <1>4, SubmittedRow
    <2>. QED
        BY <2>1, RecomputedAgrees
<1>5. ASSUME NEW u \in Users, NEW s \in 0 .. NumStages, Approve(u, s)
      PROVE  Agrees(task, stages)'
    <2>1. \E t \in TaskRow : task' = Sync(t, stages')
        BY <1>5, ApprovedRow
    <2>. QED
        BY <2>1, RecomputedAgrees
<1>6. ASSUME NEW u \in Users, NEW s \in 0 .. NumStages, RequestImprovement(u, s)
      PROVE  Agrees(task, stages)'
    <2>1. [task EXCEPT !.meta.finalPending = FALSE] \in TaskRow
        BY MetaType DEF TypeOK
    <2>2. task' = Sync([task EXCEPT !.meta.finalPending = FALSE], stages')
        BY <1>6 DEF RequestImprovement, ReworkTask
    <2>. QED
        BY <2>1, <2>2, RecomputedAgrees
<1>7. ASSUME NEW u \in Users, NEW targets \in Requests, NEW d \in Departments,
             Forward(u, targets, d)
      PROVE  Agrees(task, stages)'
    BY <1>7, OtherAgrees DEF Forward, TypeOK, TaskRow
<1>8. ASSUME NEW u \in Users, Revoke(u)
      PROVE  Agrees(task, stages)'
    BY <1>8, OtherAgrees DEF Revoke, TypeOK, TaskRow
<1>9. ASSUME NEW u \in Users, NEW kind \in {"open_ended", "timed"}, Hold(u, kind)
      PROVE  Agrees(task, stages)'
    BY <1>9, OtherAgrees DEF Hold, TypeOK, TaskRow, MetaRow
<1>10. ASSUME NEW u \in Users, Unhold(u)
       PROVE  Agrees(task, stages)'
    BY <1>10, OtherAgrees DEF Unhold, TypeOK, TaskRow, MetaRow
<1>11. ASSUME NEW u \in Users, NEW s \in Stages, NEW approval \in BOOLEAN,
              NEW ids \in Requests, UpdateStage(u, s, approval, ids)
       PROVE  Agrees(task, stages)'
    BY <1>11, UpdateStageAgrees
<1>12. ASSUME NEW u \in Users, NEW ids \in Requests, NEW d \in Departments,
              EditDetails(u, ids, d)
       PROVE  Agrees(task, stages)'
    BY <1>12, OtherAgrees DEF EditDetails, TypeOK, TaskRow
<1>13. ASSUME NEW u \in Users, NEW plan \in Plans, NEW finalRequired \in BOOLEAN,
              ReplaceStages(u, plan, finalRequired)
       PROVE  Agrees(task, stages)'
    <2> DEFINE asked == [task EXCEPT !.finalRequired = finalRequired,
                                     !.meta.finalPending = FALSE]
    <2>1. asked \in TaskRow
        BY DEF TypeOK, TaskRow, MetaRow
    <2>2. task' = Sync(asked, stages')
        BY <1>13 DEF ReplaceStages
    <2>. QED
        BY <2>1, <2>2, RecomputedAgrees
<1>14. CASE UNCHANGED vars
    BY <1>14 DEF vars
<1>. QED
    BY <1>1, <1>2, <1>3, <1>4, <1>5, <1>6, <1>7, <1>8, <1>9, <1>10, <1>11, <1>12,
       <1>13, <1>14 DEF Next

\* A task is created with the summary of its stages.
LEMMA InitAgrees == Init => Agrees(task, stages)
<1> SUFFICES ASSUME NEW plan \in Plans, NEW finalRequired \in BOOLEAN,
                    NEW d \in Departments,
                    task = TaskOf(plan, finalRequired, d),
                    stages = StagesOf(plan)
             PROVE  Agrees(task, stages)
    BY DEF Init
<1> DEFINE row == [status |-> "pending", workflow |-> "active", current |-> 1,
      assignees |-> plan[1].assignees, finalRequired |-> finalRequired,
      completedAt |-> FALSE, department |-> d,
      editLocked |-> FALSE, resultLocked |-> TRUE, result |-> NoResult,
      meta |-> [finalPending |-> FALSE, hold |-> "none", links |-> NoResult]]
<1>1. plan[1].assignees \in SUBSET Users /\ 1 \in 0 .. NumStages
    BY StagesAssumption DEF StagePlan, Stages
<1>2. row \in TaskRow
    BY <1>1 DEF TaskRow, MetaRow, TaskStatuses, WorkflowStatuses, NoResult, Shown
<1>3. task = Sync(row, stages)
    BY DEF TaskOf
<1>. QED
    BY <1>2, <1>3, StagesOfType, SyncAgrees

\* The summary on the task row is always the one its stages call for, though
\* some handlers write parts of it themselves, or recompute it before they are
\* done, or not at all.
THEOREM SummaryIsRight == Spec => []SummaryAgrees
<1>1. TypeOK /\ Agrees(task, stages) => SummaryAgrees
    <2> SUFFICES ASSUME TypeOK, Agrees(task, stages)  PROVE SummaryAgrees
        OBVIOUS
    <2> DEFINE now == Sync(task, stages)
    <2>1. task \in TaskRow /\ now \in TaskRow
        BY SyncType DEF TypeOK
    <2>2. task.completedAt \in BOOLEAN /\ now.completedAt \in BOOLEAN
        BY <2>1 DEF TaskRow
    <2>3. task.completedAt = now.completedAt
        BY <2>2, Zenon DEF Agrees
    <2>. QED
        BY <2>3, Zenon DEF Agrees, SummaryAgrees
<1>. QED
    BY <1>1, InitOneStage, NextOneStage, InitAgrees, NextAgrees, TypeCorrect, PTL
    DEF Spec

=============================================================================

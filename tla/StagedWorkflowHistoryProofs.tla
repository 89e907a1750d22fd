-------------------- MODULE StagedWorkflowHistoryProofs ---------------------
(***************************************************************************)
(* Theorems about StagedWorkflow that rest on the order of the stages and  *)
(* on the summary: submissions are where they should be, held work stops,  *)
(* completed work stays completed, somebody can always act, and approvers  *)
(* see the work they approve.  The last part shows that StagedWorkflow     *)
(* implements WorkflowHandoff: every step of a handler is a step of the    *)
(* promise, or does not show in it.                                        *)
(***************************************************************************)
EXTENDS StagedWorkflowProofs

-----------------------------------------------------------------------------
(* Submissions *)

\* SubmissionsSound of one stage, strengthened: that a stage was sent back
\* means that something was submitted, too.  This is what keeps ReplaceStages,
\* which only looks for submissions, away from work under review.
SoundStage(row, sub) ==
    /\ sub.flagged = IF sub.versions = 0 THEN {} ELSE {sub.versions}
    /\ row.status \in {"submitted", "completed", "revision_requested"} => sub.versions > 0
    /\ row.status = "not_started" => sub.versions = 0

SoundWork == \A s \in Stages : SoundStage(stages[s], subs[s])

\* Everything the theorems of this module need.
Whole == OneStage /\ Agrees(task, stages) /\ SoundWork

\* A stage may always be opened, and other columns do not matter.
LEMMA SoundKept ==
    ASSUME NEW row, NEW row1, NEW sub, SoundStage(row, sub),
           row1.status = row.status \/ row1.status = "active"
    PROVE  SoundStage(row1, sub)
BY DEF SoundStage

\* Opening the next stage changes no other status.
LEMMA ActivateNextStatus ==
    ASSUME NEW st \in [Stages -> StageRow], NEW s \in Stages, NEW r \in Stages
    PROVE  \/ ActivateNext(st, s)[r].status = st[r].status
           \/ ActivateNext(st, s)[r].status = "active"
<1>1. s < NumStages => s + 1 \in Stages
    BY StagesAssumption DEF Stages
<1>2. CASE ActivateNext(st, s) = st
    BY <1>2
<1>3. CASE s < NumStages /\ ActivateNext(st, s) = [st EXCEPT ![s + 1].status = "active"]
    <2>1. r # s + 1 => ActivateNext(st, s)[r] = st[r]
        BY <1>3
    <2>2. r = s + 1 => ActivateNext(st, s)[r].status = "active"
        BY <1>1, <1>3 DEF StageRow
    <2>. QED
        BY <2>1, <2>2
<1>. QED
    BY <1>2, <1>3 DEF ActivateNext

\* A summary that waits for approval has something to be approved.
LEMMA WaitingMeans ==
    ASSUME NEW t \in TaskRow, NEW st \in [Stages -> StageRow],
           Sync(t, st).workflow = "waiting_approval"
    PROVE  \/ \E s \in Stages : st[s].status = "submitted"
           \/ AllCompleted(st)
<1> DEFINE In(status) == InStatus(st, status)
<1>1. CASE In("submitted") # {}
    BY <1>1 DEF InStatus
<1>2. CASE In("completed") = Stages
    BY <1>2 DEF InStatus, AllCompleted
<1>3. CASE In("submitted") = {} /\ In("completed") # Stages
    BY <1>3 DEF Sync, Summary, TaskRow
<1>. QED
    BY <1>1, <1>2, <1>3

\* Only a workflow all done and approved is summed up as completed.
LEMMA CompletedMeans ==
    ASSUME NEW t \in TaskRow, NEW st \in [Stages -> StageRow],
           Sync(t, st).workflow = "completed"
    PROVE  AllCompleted(st) /\ ~t.meta.finalPending /\ Sync(t, st).current = 0
<1>1. /\ InStatus(st, "revision_requested") = {}
      /\ InStatus(st, "submitted") = {}
      /\ InStatus(st, "active") = {}
      /\ InStatus(st, "completed") = Stages
      /\ ~t.meta.finalPending
    BY DEF Sync, Summary, TaskRow
<1>2. AllCompleted(st)
    BY <1>1 DEF InStatus, AllCompleted
<1>3. Sync(t, st).current = 0
    BY <1>1 DEF Sync, TaskRow
<1>. QED
    BY <1>1, <1>2, <1>3

\* What an approver may send back was submitted: were it the stage in work, the
\* task would not be waiting.
LEMMA ReworkWasSubmitted ==
    ASSUME Whole, NEW u \in Users, NEW s \in 0 .. NumStages, RequestImprovement(u, s)
    PROVE  subs[Addressed(task, s)].versions > 0
<1> USE DEF Whole, OneStage
<1> DEFINE a == Addressed(task, s)
<1>1. a \in Stages
    BY AddressedStage DEF RequestImprovement
<1>2. CASE stages[a].status \in {"submitted", "completed"}
    BY <1>1, <1>2 DEF SoundWork, SoundStage
<1>3. CASE stages[a].status = "active"
    <2>1. FrontierAt(stages, a) /\ ~AllCompleted(stages)
        BY <1>1, <1>3, OpenIsFrontier DEF TypeOK, StageFrontier, OpenStatuses
    <2>2. task.workflow = "waiting_approval"
        BY <2>1 DEF RequestImprovement, CanApprove, FinalPendingAtEnd
    <2>3. PICK r \in Stages : stages[r].status = "submitted"
        BY <2>1, <2>2, WaitingMeans DEF Agrees, TypeOK
    <2>4. r < a \/ r = a \/ r > a
        BY <1>1, <2>3 DEF Stages
    <2>. QED
        BY <1>1, <1>3, <2>1, <2>3, <2>4 DEF FrontierAt
<1>. QED
    BY <1>2, <1>3 DEF RequestImprovement, Reworkable

\* Submitting adds the version that the flag moves to.
LEMMA SubmitSound ==
    ASSUME Whole, NEW u \in Users, NEW s \in 0 .. NumStages, Submit(u, s)
    PROVE  SoundWork'
<1> USE DEF Whole, OneStage
<1> DEFINE a == Addressed(task, s)
           v == NewVersion(subs, a)
<1>1. a \in Stages /\ stages \in [Stages -> StageRow] /\ subs \in [Stages -> SubmissionRows]
    BY AddressedStage DEF Submit, CanSubmit, TypeOK
<1>2. v > 0
    BY <1>1 DEF NewVersion, SubmissionRows
<1>3. subs' = [subs EXCEPT ![a] = [versions |-> v, flagged |-> {v}]]
    BY DEF Submit, AddSubmission
<1>4. stages'[a].status \in {"submitted", "completed", "active"}
      /\ \A r \in Stages \ {a} : \/ stages'[r].status = stages[r].status
                                \/ stages'[r].status = "active"
    <2>1. CASE stages[a].approval
        BY <1>1, <2>1 DEF Submit, SubmitStages, StageRow
    <2>2. CASE ~stages[a].approval
        <3> DEFINE st1 == [stages EXCEPT ![a].status = "completed", ![a].started = TRUE]
        <3>1. stages' = ActivateNext(st1, a)
            BY <2>2 DEF Submit, SubmitStages
        <3>2. st1 \in [Stages -> StageRow]
            BY <1>1, StageChangeType DEF StageStatuses
        <3>3. /\ \A r \in Stages \ {a} : st1[r].status = stages[r].status
              /\ st1[a].status = "completed"
            BY <1>1 DEF StageRow
        <3>. HIDE DEF st1
        <3>. QED
            BY <1>1, <3>1, <3>2, <3>3, ActivateNextStatus
    <2>. QED
        BY <2>1, <2>2
<1>5. SoundStage(stages'[a], subs'[a])
    <2>1. subs'[a].versions = v /\ subs'[a].flagged = {v}
        BY <1>1, <1>3
    <2>. HIDE DEF a, v
    <2>. QED
        BY <1>2, <1>4, <2>1 DEF SoundStage
<1>6. ASSUME NEW r \in Stages \ {a}  PROVE SoundStage(stages'[r], subs'[r])
    <2>1. subs'[r] = subs[r]
        BY <1>1, <1>3
    <2>. HIDE DEF a
    <2>. QED
        BY <1>4, <1>6, <2>1, SoundKept DEF SoundWork
<1>. QED
    BY <1>5, <1>6 DEF SoundWork

\* An approval completes a stage that was submitted.
LEMMA ApproveSound ==
    ASSUME Whole, NEW u \in Users, NEW s \in 0 .. NumStages, Approve(u, s)
    PROVE  SoundWork'
<1> USE DEF Whole, OneStage
<1> DEFINE a == Addressed(task, s)
<1>1. CASE IsFinalApproval(task, s)
    BY <1>1 DEF Approve, ApproveStages, SoundWork
<1>2. CASE ~IsFinalApproval(task, s)
    <2> DEFINE st1 == [stages EXCEPT ![a].status = "completed"]
    <2>1. a \in Stages /\ stages[a].status = "submitted" /\ stages \in [Stages -> StageRow]
        BY <1>2, AddressedStage DEF Approve, Reviewable, TypeOK
    <2>2. stages' = ActivateNext(st1, a) /\ subs' = subs
        BY <1>2 DEF Approve, ApproveStages
    <2>3. st1 \in [Stages -> StageRow]
        BY <2>1, StageChangeType DEF StageStatuses
    <2>4. /\ \A r \in Stages \ {a} : st1[r].status = stages[r].status
          /\ st1[a].status = "completed"
        BY <2>1 DEF StageRow
    <2>5. \A r \in Stages : SoundStage(st1[r], subs[r])
        <3>1. SoundStage(st1[a], subs[a])
            <4>1. SoundStage(stages[a], subs[a])
                BY <2>1 DEF SoundWork
            <4>. HIDE DEF a, st1
            <4>. QED
                BY <2>1, <2>4, <4>1 DEF SoundStage
        <3>2. ASSUME NEW r \in Stages \ {a}  PROVE SoundStage(st1[r], subs[r])
            <4>. HIDE DEF a, st1
            <4>. QED
                BY <2>4, SoundKept DEF SoundWork
        <3>. QED
            BY <3>1, <3>2
    <2>. HIDE DEF a, st1
    <2>. QED
        BY <2>1, <2>2, <2>3, <2>5, ActivateNextStatus, SoundKept DEF SoundWork
<1>. QED
    BY <1>1, <1>2

\* Every handler keeps the submissions where they belong.
LEMMA NextSound == Whole /\ [Next]_vars => SoundWork'
<1> SUFFICES ASSUME Whole, [Next]_vars  PROVE SoundWork'
    OBVIOUS
<1> USE DEF Whole, OneStage
<1>1. ASSUME UNCHANGED <<stages, subs>>  PROVE SoundWork'
    BY <1>1 DEF SoundWork
<1>2. ASSUME NEW u \in Users, Start(u)
      PROVE  SoundWork'
    <2>1. task.current \in Stages /\ stages \in [Stages -> StageRow]
        BY <1>2, StagesAssumption DEF Start, CanStart, TypeOK, TaskRow, Stages
    <2>2. \A r \in Stages : stages'[r].status = stages[r].status \/ stages'[r].status = "active"
        BY <1>2, <2>1 DEF Start, StartStages, StageRow
    <2>3. subs' = subs
        BY <1>2 DEF Start
    <2>. QED
        BY <2>2, <2>3, SoundKept DEF SoundWork
<1>3. ASSUME NEW u \in Users, NEW s \in 0 .. NumStages, Submit(u, s) \/ Approve(u, s)
      PROVE  SoundWork'
    BY <1>3, SubmitSound, ApproveSound
<1>4. ASSUME NEW u \in Users, NEW s \in 0 .. NumStages, RequestImprovement(u, s)
      PROVE  SoundWork'
    <2> DEFINE a == Addressed(task, s)
    <2>1. a \in Stages /\ stages \in [Stages -> StageRow]
        BY <1>4, AddressedStage DEF RequestImprovement, TypeOK
    <2>2. /\ stages'[a].status = "revision_requested"
          /\ \A r \in Stages \ {a} : stages'[r].status = stages[r].status
          /\ subs' = subs
        BY <1>4, <2>1 DEF RequestImprovement, ReworkStages, StageRow
    <2>3. subs[a].versions > 0
        BY <1>4, ReworkWasSubmitted
    <2>4. SoundStage(stages[a], subs[a])
        BY <2>1 DEF SoundWork
    <2>. HIDE DEF a
    <2>5. SoundStage(stages'[a], subs'[a])
        BY <2>2, <2>3, <2>4 DEF SoundStage
    <2>6. \A r \in Stages \ {a} : SoundStage(stages'[r], subs'[r])
        BY <2>2, SoundKept DEF SoundWork
    <2>. QED
        BY <2>5, <2>6 DEF SoundWork
<1>5. ASSUME NEW u \in Users, NEW s \in Stages, NEW approval \in BOOLEAN,
             NEW ids \in Requests, UpdateStage(u, s, approval, ids)
      PROVE  SoundWork'
    <2>1. \A r \in Stages : stages'[r].status = stages[r].status
        BY <1>5, UpdateStageKeeps DEF TypeOK
    <2>2. subs' = subs
        BY <1>5 DEF UpdateStage
    <2>. QED
        BY <2>1, <2>2, SoundKept DEF SoundWork
<1>6. ASSUME NEW u \in Users, NEW plan \in Plans, NEW finalRequired \in BOOLEAN,
             ReplaceStages(u, plan, finalRequired)
      PROVE  SoundWork'
    <2>1. \A s \in Stages : subs'[s].versions = 0
        BY <1>6 DEF ReplaceStages, HasSubmissions
    <2>2. \A s \in Stages : stages'[s].status \in {"active", "not_started"}
        BY <1>6 DEF ReplaceStages, StagesOf
    <2>3. \A s \in Stages : SoundStage(stages[s], subs'[s])
        BY <1>6 DEF ReplaceStages, SoundWork
    <2>. QED
        BY <2>1, <2>2, <2>3 DEF SoundWork, SoundStage
<1>. QED
    BY <1>1, <1>2, <1>3, <1>4, <1>5, <1>6
    DEF Next, HoldExpires, EditResult, Forward, Revoke, Hold, Unhold, EditDetails, vars

\* Nothing is submitted when a task is created.
LEMMA InitSound == Init => SoundWork
BY DEF Init, NoSubmissions, StagesOf, SoundWork, SoundStage

\* Init and Next keep the whole invariant.
LEMMA WholeInvariant == Spec => []Whole
<1>1. Init => Whole
    BY InitOneStage, InitAgrees, InitSound DEF Whole
<1>2. Whole /\ [Next]_vars /\ TypeOK' => Whole'
    BY NextOneStage, NextAgrees, NextSound DEF Whole
<1>. QED
    BY <1>1, <1>2, TypeCorrect, PTL DEF Spec

\* Whatever waits for approval or is completed was submitted, the flag is on the
\* latest version and a stage not yet reached has no submission.
THEOREM SubmissionsAreSound == Spec => []SubmissionsSound
<1>1. Whole => SubmissionsSound
    BY Zenon DEF Whole, SoundWork, SoundStage, SubmissionsSound
<1>. QED
    BY <1>1, WholeInvariant, PTL

-----------------------------------------------------------------------------
(* What a step may not do *)

\* The plan can be replaced only by one that looks the same: with nothing
\* submitted, the first stage is in work and the others are untouched.
LEMMA ReplaceKeepsStatus ==
    ASSUME Whole, NEW u \in Users, NEW plan \in Plans, NEW finalRequired \in BOOLEAN,
           ReplaceStages(u, plan, finalRequired)
    PROVE  \A s \in Stages : stages'[s].status = stages[s].status
<1> USE DEF Whole, OneStage
<1>1. \A s \in Stages : stages[s].status \in {"active", "not_started"}
    <2> SUFFICES ASSUME NEW s \in Stages
                 PROVE  stages[s].status \in {"active", "not_started"}
        OBVIOUS
    <2>1. subs[s].versions = 0 /\ SoundStage(stages[s], subs[s])
        BY DEF ReplaceStages, HasSubmissions, SoundWork
    <2>2. stages[s].status \in StageStatuses
        BY DEF TypeOK, StageRow
    <2>. QED
        BY <2>1, <2>2 DEF SoundStage, StageStatuses, OpenStatuses
<1>2. 1 \in Stages /\ \A s \in Stages : s # 1 => 1 < s
    BY StagesAssumption DEF Stages
<1>3. PICK a \in Stages : FrontierAt(stages, a)
    BY <1>1, <1>2 DEF StageFrontier, AllCompleted
<1>4. a = 1
    BY <1>1, <1>2, <1>3 DEF FrontierAt
<1>5. stages[1].status = "active" /\ \A s \in Stages \ {1} : stages[s].status = "not_started"
    BY <1>1, <1>2, <1>3, <1>4 DEF FrontierAt, OpenStatuses
<1>6. \A s \in Stages : stages'[s].status = IF s = 1 THEN "active" ELSE "not_started"
    BY DEF ReplaceStages, StagesOf
<1>. QED
    BY <1>5, <1>6

\* While a task is held its work stands still, whichever endpoint is called: the
\* ones that look at the hold refuse, the others leave submissions and the
\* statuses of stages alone, even the one that replaces the plan.
THEOREM HeldWorkStands == Spec => HeldWorkStops
<1> DEFINE Still == /\ subs' = subs
                    /\ \A s \in Stages : stages'[s].status = stages[s].status
<1>1. Whole /\ [Next]_vars => [Held(task) => Still]_vars
    <2> SUFFICES ASSUME Whole, Next, Held(task)  PROVE Still
        BY DEF vars
    <2>1. ASSUME UNCHANGED <<stages, subs>>  PROVE Still
        BY <2>1
    <2>2. ASSUME NEW u \in Users, NEW s \in Stages, NEW approval \in BOOLEAN,
                 NEW ids \in Requests, UpdateStage(u, s, approval, ids)
          PROVE  Still
        <3>1. subs' = subs
            BY <2>2 DEF UpdateStage
        <3>. QED
            BY <2>2, <3>1, UpdateStageKeeps DEF Whole, OneStage, TypeOK
    <2>3. ASSUME NEW u \in Users, NEW plan \in Plans, NEW finalRequired \in BOOLEAN,
                 ReplaceStages(u, plan, finalRequired)
          PROVE  Still
        <3>1. subs' = subs
            BY <2>3 DEF ReplaceStages
        <3>. QED
            BY <2>3, <3>1, ReplaceKeepsStatus
    <2>. HIDE DEF Still
    <2>. QED
        BY <2>1, <2>2, <2>3
        DEF Next, HoldExpires, Start, EditResult, Submit, Approve, RequestImprovement,
            Forward, Revoke, Hold, Unhold, EditDetails, CanStart, CanSubmit
<1>. QED
    BY <1>1, WholeInvariant, PTL DEF Spec, HeldWorkStops

\* What the summary of a completed workflow says of the task and its stages.
LEMMA CompletedState ==
    ASSUME Whole, task.workflow = "completed"
    PROVE  /\ task.current = 0
           /\ ~task.meta.finalPending
           /\ \A s \in Stages : stages[s].status = "completed" /\ subs[s].versions > 0
<1>1. /\ AllCompleted(stages)
      /\ ~task.meta.finalPending
      /\ Sync(task, stages).current = 0
    BY CompletedMeans DEF Whole, OneStage, TypeOK, Agrees
<1>2. task.current = 0
    BY <1>1 DEF Whole, Agrees
<1>3. \A s \in Stages : stages[s].status = "completed"
    BY <1>1 DEF AllCompleted
<1>4. \A s \in Stages : subs[s].versions > 0
    BY <1>3 DEF Whole, SoundWork, SoundStage
<1>. QED
    BY <1>1, <1>2, <1>3, <1>4

\* A completed workflow stays as it is: no endpoint finds anything to start, to
\* submit, to approve, to send back or to replace, and the ones that ask for
\* less, like forward, do not touch it.
THEOREM CompletedStays == Spec => CompletedIsFinal
<1> DEFINE Stays == /\ task'.workflow = "completed"
                    /\ stages' = stages
                    /\ subs' = subs
<1>1. Whole /\ [Next]_vars => [task.workflow = "completed" => Stays]_vars
    <2> SUFFICES ASSUME Whole, Next, task.workflow = "completed"  PROVE Stays
        BY DEF vars
    <2>1. task \in TaskRow
        BY DEF Whole, OneStage, TypeOK
    <2>2. /\ task.current = 0
          /\ ~task.meta.finalPending
          /\ \A s \in Stages : stages[s].status = "completed" /\ subs[s].versions > 0
        BY CompletedState
    <2>3. 1 \in Stages
        BY StagesAssumption DEF Stages
    <2>4. CASE HoldExpires
        BY <2>1, <2>4 DEF HoldExpires, TaskRow
    <2>5. ASSUME NEW u \in Users, Start(u)  PROVE FALSE
        BY <2>2, <2>5 DEF Start, CanStart
    <2>6. ASSUME NEW u \in Users, NEW withLinks \in BOOLEAN, EditResult(u, withLinks)
          PROVE  Stays
        BY <2>1, <2>6 DEF EditResult, TaskRow
    <2>7. ASSUME NEW u \in Users, NEW s \in 0 .. NumStages, Submit(u, s)
          PROVE  FALSE
        <3>1. Addressed(task, s) \in Stages
            BY <2>7, AddressedStage DEF Submit, CanSubmit, Whole, OneStage
        <3>. QED
            BY <2>2, <2>7, <3>1 DEF Submit, CanSubmit
    <2>8. ASSUME NEW u \in Users, NEW s \in 0 .. NumStages,
                 Approve(u, s) \/ RequestImprovement(u, s)
          PROVE  FALSE
        BY <2>2, <2>8 DEF Approve, RequestImprovement, CanApprove
    <2>9. ASSUME NEW u \in Users, NEW targets \in Requests, NEW d \in Departments,
                 Forward(u, targets, d)
          PROVE  Stays
        BY <2>1, <2>9 DEF Forward, TaskRow
    <2>10. ASSUME NEW u \in Users, Revoke(u)  PROVE Stays
        BY <2>1, <2>10 DEF Revoke, TaskRow
    <2>11. ASSUME NEW u \in Users, NEW kind \in {"open_ended", "timed"}, Hold(u, kind)
           PROVE  Stays
        BY <2>1, <2>11 DEF Hold, TaskRow
    <2>12. ASSUME NEW u \in Users, Unhold(u)  PROVE Stays
        BY <2>1, <2>12 DEF Unhold, TaskRow
    <2>13. ASSUME NEW u \in Users, NEW s \in Stages, NEW approval \in BOOLEAN,
                  NEW ids \in Requests, UpdateStage(u, s, approval, ids)
           PROVE  FALSE
        BY <2>2, <2>13 DEF UpdateStage
    <2>14. ASSUME NEW u \in Users, NEW ids \in Requests, NEW d \in Departments,
                  EditDetails(u, ids, d)
           PROVE  Stays
        BY <2>1, <2>14 DEF EditDetails, TaskRow
    <2>15. ASSUME NEW u \in Users, NEW plan \in Plans, NEW finalRequired \in BOOLEAN,
                  ReplaceStages(u, plan, finalRequired)
           PROVE  FALSE
        <3>1. subs[1].versions = 0
            BY <2>3, <2>15 DEF ReplaceStages, HasSubmissions
        <3>. QED
            BY <2>2, <2>3, <3>1
    <2>. HIDE DEF Stays
    <2>. QED
        BY <2>4, <2>5, <2>6, <2>7, <2>8, <2>9, <2>10, <2>11, <2>12, <2>13, <2>14, <2>15
        DEF Next
<1>. QED
    BY <1>1, WholeInvariant, PTL DEF Spec, CompletedIsFinal

-----------------------------------------------------------------------------
(* Somebody can act *)

\* Every stage has somebody to work on it.
Staffed == \A s \in Stages : ActiveAssignees(stages[s]) # {}

\* A plan names somebody for each stage.
LEMMA PlanStaffed ==
    ASSUME NEW plan \in Plans, NEW s \in Stages
    PROVE  ActiveAssignees(StagesOf(plan)[s]) # {}
<1>1. plan[s].assignees # {} /\ plan[s].assignees \subseteq Users
    BY StagesAssumption DEF StagePlan
<1>2. PICK u \in Users : u \in plan[s].assignees
    BY <1>1
<1>3. u \in ActiveAssignees(StagesOf(plan)[s])
    BY <1>2 DEF ActiveAssignees, StagesOf
<1>. QED
    BY <1>3

\* New assignees replace the old ones, and are not none.
LEMMA UpdateStaffed ==
    ASSUME Whole, Staffed, NEW u \in Users, NEW s \in Stages, NEW approval \in BOOLEAN,
           NEW ids \in Requests, UpdateStage(u, s, approval, ids)
    PROVE  Staffed'
<1> DEFINE rows == [v \in Users |->
                     IF v \in ids THEN "active"
                     ELSE IF ids # {} /\ stages[s].assignee[v] = "active" THEN "inactive"
                     ELSE stages[s].assignee[v]]
<1>1. stages \in [Stages -> StageRow] /\ ids \subseteq Users
    BY RequestsAssumption DEF Whole, OneStage, TypeOK
<1>2. stages' = [stages EXCEPT ![s].approval = approval, ![s].assignee = rows]
    BY DEF UpdateStage
<1>3. \E v \in Users : rows[v] = "active"
    <2>1. CASE ids = {}
        BY <2>1 DEF Staffed, ActiveAssignees
    <2>2. CASE ids # {}
        BY <1>1, <2>2
    <2>. QED
        BY <2>1, <2>2
<1>. HIDE DEF rows
<1>4. stages'[s].assignee = rows /\ \A r \in Stages \ {s} : stages'[r] = stages[r]
    BY <1>1, <1>2 DEF StageRow
<1>. QED
    BY <1>3, <1>4 DEF Staffed, ActiveAssignees

\* The other handlers leave the assignees alone.
LEMMA NextStaffed == Whole /\ Staffed /\ [Next]_vars => Staffed'
<1> SUFFICES ASSUME Whole, Staffed, [Next]_vars  PROVE Staffed'
    OBVIOUS
<1>1. stages \in [Stages -> StageRow] /\ task \in TaskRow
    BY DEF Whole, OneStage, TypeOK
<1>2. ASSUME \A s \in Stages : stages'[s].assignee = stages[s].assignee
      PROVE  Staffed'
    BY <1>2 DEF Staffed, ActiveAssignees
<1>3. ASSUME UNCHANGED stages  PROVE Staffed'
    BY <1>2, <1>3
<1>4. ASSUME NEW st \in [Stages -> StageRow], NEW a \in Stages, NEW r \in Stages
      PROVE  ActivateNext(st, a)[r].assignee = st[r].assignee
    BY <1>4 DEF ActivateNext, StageRow
<1>5. ASSUME NEW u \in Users, Start(u)  PROVE Staffed'
    BY <1>1, <1>2, <1>5 DEF Start, StartStages, StageRow
<1>6. ASSUME NEW u \in Users, NEW s \in 0 .. NumStages, Submit(u, s)
      PROVE  Staffed'
    <2> DEFINE a   == Addressed(task, s)
               st1 == [stages EXCEPT ![a].status = "completed", ![a].started = TRUE]
    <2>1. a \in Stages
        BY <1>6, AddressedStage DEF Submit, CanSubmit, Whole, OneStage
    <2>2. CASE stages[a].approval
        BY <1>1, <1>2, <1>6, <2>1, <2>2 DEF Submit, SubmitStages, StageRow
    <2>3. CASE ~stages[a].approval
        <3>1. st1 \in [Stages -> StageRow]
            BY <1>1, <2>1, StageChangeType DEF StageStatuses
        <3>2. \A r \in Stages : st1[r].assignee = stages[r].assignee
            BY <1>1, <2>1 DEF StageRow
        <3>3. stages' = ActivateNext(st1, a)
            BY <1>6, <2>3 DEF Submit, SubmitStages
        <3>. HIDE DEF a, st1
        <3>. QED
            BY <1>2, <1>4, <2>1, <3>1, <3>2, <3>3
    <2>. QED
        BY <2>2, <2>3
<1>7. ASSUME NEW u \in Users, NEW s \in 0 .. NumStages, Approve(u, s)
      PROVE  Staffed'
    <2> DEFINE a   == Addressed(task, s)
               st1 == [stages EXCEPT ![a].status = "completed"]
    <2>1. CASE IsFinalApproval(task, s)
        BY <1>3, <1>7, <2>1 DEF Approve, ApproveStages
    <2>2. CASE ~IsFinalApproval(task, s)
        <3>1. a \in Stages
            BY <1>7, <2>2, AddressedStage DEF Approve, Reviewable, Whole, OneStage
        <3>2. st1 \in [Stages -> StageRow]
            BY <1>1, <3>1, StageChangeType DEF StageStatuses
        <3>3. \A r \in Stages : st1[r].assignee = stages[r].assignee
            BY <1>1, <3>1 DEF StageRow
        <3>4. stages' = ActivateNext(st1, a)
            BY <1>7, <2>2 DEF Approve, ApproveStages
        <3>. HIDE DEF a, st1
        <3>. QED
            BY <1>2, <1>4, <3>1, <3>2, <3>3, <3>4
    <2>. QED
        BY <2>1, <2>2
<1>8. ASSUME NEW u \in Users, NEW s \in 0 .. NumStages, RequestImprovement(u, s)
      PROVE  Staffed'
    <2>1. Addressed(task, s) \in Stages
        BY <1>8, AddressedStage DEF RequestImprovement, Whole, OneStage
    <2>. QED
        BY <1>1, <1>2, <1>8, <2>1 DEF RequestImprovement, ReworkStages, StageRow
<1>9. ASSUME NEW u \in Users, NEW plan \in Plans, NEW finalRequired \in BOOLEAN,
             ReplaceStages(u, plan, finalRequired)
      PROVE  Staffed'
    BY <1>9, PlanStaffed DEF ReplaceStages, Staffed
<1>. QED
    BY <1>3, <1>5, <1>6, <1>7, <1>8, <1>9, UpdateStaffed
    DEF Next, HoldExpires, EditResult, Forward, Revoke, Hold, Unhold, EditDetails, vars

\* The summary names the stage at the frontier, and waits when it does.
LEMMA SyncFrontier ==
    ASSUME NEW t \in TaskRow, NEW st \in [Stages -> StageRow], NEW a \in Stages,
           FrontierAt(st, a)
    PROVE  /\ Sync(t, st).current = a
           /\ st[a].status = "submitted" =>
                /\ Sync(t, st).workflow = "waiting_approval"
                /\ Sync(t, st).status = "submitted"
           /\ st[a].status # "submitted" => Sync(t, st).workflow # "waiting_approval"
<1>1. \A r \in Stages : r # a => st[r].status \in {"completed", "not_started"}
    <2>1. \A r \in Stages : r < a \/ r = a \/ r > a
        BY DEF Stages
    <2>. QED
        BY <2>1 DEF FrontierAt
<1>2. Min({a}) = a
    BY MinStage
<1>3. CASE st[a].status = "submitted"
    <2>1. InStatus(st, "revision_requested") = {} /\ InStatus(st, "submitted") = {a}
        BY <1>1, <1>3 DEF InStatus
    <2>2. Sync(t, st) = Summary(t, st, a, "waiting_approval", "submitted")
        BY <1>2, <2>1 DEF Sync
    <2>. QED
        BY <1>3, <2>2, SummaryColumns
<1>4. CASE st[a].status = "revision_requested"
    <2>1. InStatus(st, "revision_requested") = {a}
        BY <1>1, <1>4 DEF InStatus
    <2>2. Sync(t, st) = Summary(t, st, a, "revision_requested", "need_improvement")
        BY <1>2, <2>1 DEF Sync
    <2>. QED
        BY <1>4, <2>2, SummaryColumns
<1>5. CASE st[a].status = "active"
    <2>1. /\ InStatus(st, "revision_requested") = {}
          /\ InStatus(st, "submitted") = {}
          /\ InStatus(st, "active") = {a}
        BY <1>1, <1>5 DEF InStatus
    <2>2. Sync(t, st) = Summary(t, st, a, "active",
                                IF st[a].started THEN "in_progress" ELSE "assigned")
        BY <1>2, <2>1 DEF Sync
    <2>. QED
        BY <1>5, <2>2, SummaryColumns
<1>. QED
    BY <1>3, <1>4, <1>5 DEF FrontierAt, OpenStatuses

\* At the end it waits for the final approval, or is done.
LEMMA SyncEnd ==
    ASSUME NEW t \in TaskRow, NEW st \in [Stages -> StageRow], AllCompleted(st)
    PROVE  IF t.meta.finalPending
           THEN /\ Sync(t, st).workflow = "waiting_approval"
                /\ Sync(t, st).status = "submitted"
                /\ Sync(t, st).current = NumStages
           ELSE /\ Sync(t, st).workflow = "completed"
                /\ Sync(t, st).status = "completed"
<1>1. /\ InStatus(st, "revision_requested") = {}
      /\ InStatus(st, "submitted") = {}
      /\ InStatus(st, "active") = {}
      /\ InStatus(st, "completed") = Stages
    BY DEF AllCompleted, InStatus
<1>2. CASE t.meta.finalPending
    <2>1. Sync(t, st) = Summary(t, st, NumStages, "waiting_approval", "submitted")
        BY <1>1, <1>2 DEF Sync
    <2>. QED
        BY <1>2, <2>1, SummaryColumns
<1>3. CASE ~t.meta.finalPending
    BY <1>1, <1>3 DEF Sync, TaskRow
<1>. QED
    BY <1>2, <1>3

\* At the end the final approval can be given, or the work is done; otherwise
\* the stage at the frontier waits for approval or has somebody to work on it.
LEMMA StuckOrNot ==
    ASSUME Whole, Staffed
    PROVE  StuckOnlyIfForwardedInReview
<1> SUFFICES ASSUME task.workflow # "completed", task.status # "cancelled", ~Held(task)
             PROVE  Actionable <=> ~(task.status = "forwarded" /\ task.workflow = "waiting_approval")
    BY DEF StuckOnlyIfForwardedInReview
<1>1. /\ task \in TaskRow /\ stages \in [Stages -> StageRow]
      /\ task.status \in {Sync(task, stages).status, "forwarded"}
      /\ task.workflow = Sync(task, stages).workflow
      /\ task.current = Sync(task, stages).current
    BY DEF Whole, OneStage, TypeOK, Agrees
<1>2. NumStages \in Stages
    BY StagesAssumption DEF Stages
<1>3. \A u \in Users : CanApprove(u, task) => task.status # "forwarded"
    BY DEF CanApprove, Approvable
<1>4. task.status = "submitted" /\ task.workflow = "waiting_approval" => CanApprove(Creator, task)
    BY DEF CanApprove, Approvable
<1>5. CASE AllCompleted(stages)
    <2>1. /\ task.meta.finalPending /\ task.workflow = "waiting_approval"
          /\ task.status \in {"submitted", "forwarded"} /\ task.current = NumStages
        BY <1>1, <1>5, SyncEnd
    <2>2. \A u \in Users : ~CanStart(u, task, stages) /\ ~CanSubmit(u, task, stages, 0)
        BY <1>2, <1>5, <2>1 DEF CanStart, CanSubmit, Addressed, AllCompleted
    <2>3. Reviewable(task, stages, 0)
        BY <2>1 DEF Reviewable, IsFinalApproval
    <2>4. Actionable <=> \E u \in Users : CanApprove(u, task)
        BY <2>2, <2>3 DEF Actionable
    <2>5. CASE task.status = "submitted"
        BY <1>4, <2>1, <2>4, <2>5, UsersAssumption
    <2>6. CASE task.status = "forwarded"
        BY <1>3, <2>1, <2>4, <2>6
    <2>. QED
        BY <2>1, <2>5, <2>6
<1>6. ASSUME NEW a \in Stages, FrontierAt(stages, a), stages[a].status = "submitted"
      PROVE  Actionable <=> ~(task.status = "forwarded" /\ task.workflow = "waiting_approval")
    <2>. a # 0
        BY DEF Stages
    <2>1. /\ task.workflow = "waiting_approval" /\ task.status \in {"submitted", "forwarded"}
          /\ task.current = a
        BY <1>1, <1>6, SyncFrontier
    <2>2. \A u \in Users : ~CanStart(u, task, stages) /\ ~CanSubmit(u, task, stages, 0)
        BY <1>6, <2>1 DEF CanStart, CanSubmit, Addressed
    <2>3. Reviewable(task, stages, 0)
        BY <1>6, <2>1 DEF Reviewable, Addressed
    <2>4. Actionable <=> \E u \in Users : CanApprove(u, task)
        BY <2>2, <2>3 DEF Actionable
    <2>5. CASE task.status = "submitted"
        BY <1>4, <2>1, <2>4, <2>5, UsersAssumption
    <2>6. CASE task.status = "forwarded"
        BY <1>3, <2>1, <2>4, <2>6
    <2>. QED
        BY <2>1, <2>5, <2>6
<1>7. ASSUME NEW a \in Stages, FrontierAt(stages, a), stages[a].status # "submitted"
      PROVE  Actionable /\ task.workflow # "waiting_approval"
    <2>. a # 0
        BY DEF Stages
    <2>1. task.workflow # "waiting_approval" /\ task.current = a
        BY <1>1, <1>7, SyncFrontier
    <2>2. stages[a].status \in {"active", "revision_requested"}
        BY <1>7 DEF FrontierAt, OpenStatuses
    <2>3. PICK u \in Users : u \in ActiveAssignees(stages[a])
        BY <1>7 DEF Staffed, ActiveAssignees
    <2>. QED
        BY <2>1, <2>2, <2>3 DEF CanStart, Actionable
<1>. QED
    BY <1>5, <1>6, <1>7 DEF Whole, OneStage, StageFrontier

\* The status of the task, its workflow status and the status of its stage,
\* which gate different endpoints, shut all of them at once exactly when a task
\* was forwarded while it waited for approval.
THEOREM StuckOnlyThere == Spec => []StuckOnlyIfForwardedInReview
<1>1. Whole /\ Staffed => StuckOnlyIfForwardedInReview
    BY StuckOrNot
<1>2. Init => Staffed
    BY PlanStaffed DEF Init, Staffed
<1>. QED
    BY <1>1, <1>2, WholeInvariant, NextStaffed, PTL DEF Spec

-----------------------------------------------------------------------------
(* What the approver sees *)

\* Recomputing the summary leaves the result alone.
LEMMA SyncKeepsResult ==
    ASSUME NEW t \in TaskRow, NEW st
    PROVE  Sync(t, st).result = t.result
BY DEF Sync, Summary, TaskRow

\* Completing the stage at the frontier leaves nothing to review, unless it was
\* the last one and the final approval is due.
LEMMA NothingElseWaits ==
    ASSUME Whole, Whole', NEW a \in Stages, FrontierAt(stages, a),
           NEW st1 \in [Stages -> StageRow],
           \A r \in Stages \ {a} : st1[r].status = stages[r].status,
           st1[a].status = "completed",
           stages' = ActivateNext(st1, a),
           task'.workflow = "waiting_approval"
    PROVE  task'.meta.finalPending /\ task'.current = NumStages
<1> USE DEF Whole, OneStage
<1>1. task' \in TaskRow /\ stages' \in [Stages -> StageRow]
    BY DEF TypeOK
<1>2. \A r \in Stages : st1[r].status # "submitted"
    <2> SUFFICES ASSUME NEW r \in Stages, r # a  PROVE stages[r].status # "submitted"
        OBVIOUS
    <2>1. r < a \/ r > a
        BY DEF Stages
    <2>. QED
        BY <2>1 DEF FrontierAt
<1>3. \A r \in Stages : stages'[r].status # "submitted"
    BY <1>2, ActivateNextStatus
<1>4. AllCompleted(stages')
    BY <1>1, <1>3, WaitingMeans DEF Agrees
<1>. QED
    BY <1>1, <1>4, SyncEnd DEF Agrees

\* A submission shows itself.
LEMMA SubmitShows ==
    ASSUME Whole, Whole', NEW u \in Users, NEW s \in 0 .. NumStages, Submit(u, s)
    PROVE  ReviewShowsCurrentWork'
<1> DEFINE a     == Addressed(task, s)
           v     == NewVersion(subs, a)
           final == ~stages[a].approval /\ a = NumStages /\ task.finalRequired
           shown == [Mirror(task, a, v) EXCEPT !.meta.finalPending = final]
<1>1. /\ a \in Stages /\ stages[a].status \in OpenStatuses
      /\ stages \in [Stages -> StageRow] /\ subs \in [Stages -> SubmissionRows]
      /\ task \in TaskRow /\ task' \in TaskRow /\ stages' \in [Stages -> StageRow]
    BY AddressedStage DEF Submit, CanSubmit, OpenStatuses, Whole, OneStage, TypeOK
<1>2. FrontierAt(stages, a)
    BY <1>1, OpenIsFrontier DEF Whole, OneStage, StageFrontier
<1>3. task'.result = <<a, v>> /\ task'.meta.links = <<a, v>> /\ task'.meta.finalPending = final
    <2>1. v \in 1 .. MaxVersions
        BY <1>1, BoundsAssumption DEF Submit, SubmissionRows, NewVersion
    <2>2. shown \in TaskRow
        BY <1>1, <2>1, MirrorType
    <2>3. /\ shown.result = <<a, v>>
          /\ shown.meta.links = <<a, v>>
          /\ shown.meta.finalPending = final
        <3>. HIDE DEF a, v, final
        <3>. QED
            BY <1>1 DEF Mirror, TaskRow, MetaRow
    <2>4. task' = Sync(shown, stages')
        BY DEF Submit, SubmitTask
    <2>. HIDE DEF shown
    <2>. QED
        BY <2>2, <2>3, <2>4, SyncKeeps, SyncKeepsResult
<1>4. subs'[a].versions = v
    BY <1>1 DEF Submit, AddSubmission
<1>5. task'.workflow = "waiting_approval" => task'.current = a
    <2>1. CASE stages[a].approval
        <3>1. /\ \A r \in Stages \ {a} : stages'[r].status = stages[r].status
              /\ stages'[a].status \in OpenStatuses
            BY <1>1, <2>1 DEF Submit, SubmitStages, StageRow, OpenStatuses
        <3>2. FrontierAt(stages', a)
            BY <1>1, <1>2, <3>1, FrontierStays
        <3>. QED
            BY <1>1, <3>2, SyncFrontier DEF Whole, Agrees
    <2>2. CASE ~stages[a].approval
        <3> DEFINE st1 == [stages EXCEPT ![a].status = "completed", ![a].started = TRUE]
        <3>1. stages' = ActivateNext(st1, a)
            BY <2>2 DEF Submit, SubmitStages
        <3>2. st1 \in [Stages -> StageRow]
            BY <1>1, StageChangeType DEF StageStatuses
        <3>3. /\ \A r \in Stages \ {a} : st1[r].status = stages[r].status
              /\ st1[a].status = "completed"
            BY <1>1 DEF StageRow
        <3>4. task'.workflow = "waiting_approval"
                => task'.meta.finalPending /\ task'.current = NumStages
            <4>. HIDE DEF a, st1, Whole
            <4>. QED
                BY <1>1, <1>2, <3>1, <3>2, <3>3, NothingElseWaits
        <3>. QED
            BY <1>3, <3>4
    <2>. QED
        BY <2>1, <2>2
<1>. HIDE DEF a, v, final
<1>. QED
    BY <1>3, <1>4, <1>5 DEF ReviewShowsCurrentWork

\* An approval of the last stage shows its submission to the creator, whose
\* approval is still due: the text is written anew, and the links are still
\* there because the stage was under review.
LEMMA ApproveShows ==
    ASSUME Whole, Whole', ReviewShowsCurrentWork, NEW u \in Users,
           NEW s \in 0 .. NumStages, Approve(u, s)
    PROVE  ReviewShowsCurrentWork'
<1> DEFINE a     == Addressed(task, s)
           final == ~IsFinalApproval(task, s) /\ a = NumStages /\ task.finalRequired /\ u # Creator
           text  == IF IsFinalApproval(task, s) \/ subs[a].flagged = {} THEN task.result
                    ELSE <<a, Min(subs[a].flagged)>>
           shown == [task EXCEPT !.result = text, !.meta.finalPending = final]
<1>1. /\ stages \in [Stages -> StageRow] /\ subs \in [Stages -> SubmissionRows]
      /\ task \in TaskRow /\ task' \in TaskRow /\ stages' \in [Stages -> StageRow]
    BY DEF Whole, OneStage, TypeOK
<1>2. /\ task'.result = text
      /\ task'.meta.links = task.meta.links
      /\ task'.meta.finalPending = final
    <2>1. text \in Shown
        BY ApprovedTextType DEF Approve, Reviewable, Whole, OneStage
    <2>2. shown \in TaskRow /\ shown.result = text
          /\ shown.meta.links = task.meta.links /\ shown.meta.finalPending = final
        <3>1. final \in BOOLEAN
            OBVIOUS
        <3>. HIDE DEF text, final
        <3>. QED
            BY <1>1, <2>1, <3>1 DEF TaskRow, MetaRow
    <2>3. task' = Sync(shown, stages')
        BY DEF Approve, ApproveTask
    <2>. HIDE DEF shown
    <2>. QED
        BY <2>2, <2>3, SyncKeeps, SyncKeepsResult
<1>3. CASE IsFinalApproval(task, s)
    <2>1. AllCompleted(stages')
        BY <1>3 DEF IsFinalApproval, Approve, ApproveStages, Whole, OneStage, FinalPendingAtEnd
    <2>2. ~task'.meta.finalPending
        BY <1>2, <1>3
    <2>3. task'.workflow = "completed"
        BY <1>1, <2>1, <2>2, SyncEnd DEF Whole, Agrees
    <2>. QED
        BY <2>3 DEF ReviewShowsCurrentWork
<1>4. CASE ~IsFinalApproval(task, s)
    <2> DEFINE st1 == [stages EXCEPT ![a].status = "completed"]
    <2>1. a \in Stages /\ stages[a].status = "submitted"
        BY <1>4, AddressedStage DEF Approve, Reviewable, Whole, OneStage
    <2>2. FrontierAt(stages, a)
        BY <1>1, <2>1, OpenIsFrontier DEF OpenStatuses, Whole, OneStage, StageFrontier
    <2>3. task.workflow = "waiting_approval" /\ task.current = a
        BY <1>1, <2>1, <2>2, SyncFrontier DEF Whole, Agrees
    <2>4. task.meta.links \in {<<a, subs[a].versions>>, Edited}
        BY <2>3 DEF ReviewShowsCurrentWork
    <2>5. text = <<a, subs[a].versions>>
        <3>1. SoundStage(stages[a], subs[a])
            BY <2>1 DEF Whole, SoundWork
        <3>2. subs[a].versions > 0 /\ subs[a].versions \in Nat
            BY <1>1, <2>1, <3>1 DEF SoundStage, SubmissionRows
        <3>3. subs[a].flagged = {subs[a].versions}
            BY <3>1, <3>2 DEF SoundStage
        <3>4. Min({subs[a].versions}) = subs[a].versions
            BY <3>2, MinNat
        <3>. QED
            BY <1>4, <3>3, <3>4
    <2>6. task'.workflow = "waiting_approval" => task'.current = a
        <3>1. stages' = ActivateNext(st1, a)
            BY <1>4 DEF Approve, ApproveStages
        <3>2. st1 \in [Stages -> StageRow]
            BY <1>1, <2>1, StageChangeType DEF StageStatuses
        <3>3. /\ \A r \in Stages \ {a} : st1[r].status = stages[r].status
              /\ st1[a].status = "completed"
            BY <1>1, <2>1 DEF StageRow
        <3>4. task'.workflow = "waiting_approval"
                => task'.meta.finalPending /\ task'.current = NumStages
            <4>. HIDE DEF a, st1, Whole
            <4>. QED
                BY <2>1, <2>2, <3>1, <3>2, <3>3, NothingElseWaits
        <3>. QED
            BY <1>2, <3>4
    <2>7. subs' = subs
        BY DEF Approve
    <2>. HIDE DEF a, text
    <2>. QED
        BY <1>2, <2>4, <2>5, <2>6, <2>7 DEF ReviewShowsCurrentWork
<1>. QED
    BY <1>3, <1>4

\* A task does not wait while its frontier is in work.
LEMMA NotWaiting ==
    ASSUME NEW t \in TaskRow, NEW st \in [Stages -> StageRow], Agrees(t, st),
           NEW a \in Stages, FrontierAt(st, a), st[a].status # "submitted"
    PROVE  t.workflow # "waiting_approval"
BY SyncFrontier DEF Agrees

\* The other handlers end the review, or change neither what it shows nor which
\* stage it is of, or show an edit.
LEMMA NextShows ==
    Whole /\ Whole' /\ ReviewShowsCurrentWork /\ [Next]_vars => ReviewShowsCurrentWork'
<1> SUFFICES ASSUME Whole, Whole', ReviewShowsCurrentWork, [Next]_vars
             PROVE  ReviewShowsCurrentWork'
    OBVIOUS
<1>1. /\ stages \in [Stages -> StageRow] /\ subs \in [Stages -> SubmissionRows]
      /\ task \in TaskRow /\ task' \in TaskRow /\ stages' \in [Stages -> StageRow]
      /\ Agrees(task, stages) /\ Agrees(task', stages')
    BY DEF Whole, OneStage, TypeOK
<1>2. ASSUME subs' = subs, task'.workflow = task.workflow, task'.current = task.current,
             {task'.result, task'.meta.links}
                \subseteq {task.result, task.meta.links, Edited}
      PROVE  ReviewShowsCurrentWork'
    BY <1>2 DEF ReviewShowsCurrentWork
<1>3. ASSUME task'.workflow # "waiting_approval"  PROVE ReviewShowsCurrentWork'
    BY <1>3 DEF ReviewShowsCurrentWork
<1>4. ASSUME NEW u \in Users, Start(u)  PROVE ReviewShowsCurrentWork'
    <2> DEFINE a == task.current
    <2>1. a \in Stages /\ stages[a].status \in OpenStatuses
        BY <1>1, <1>4, StagesAssumption
        DEF TaskRow, Start, CanStart, Stages, OpenStatuses
    <2>2. FrontierAt(stages, a)
        BY <1>1, <2>1, OpenIsFrontier DEF Whole, OneStage, StageFrontier
    <2>3. /\ \A r \in Stages \ {a} : stages'[r].status = stages[r].status
          /\ stages'[a].status = "active"
        BY <1>1, <1>4, <2>1 DEF Start, StartStages, StageRow
    <2>4. FrontierAt(stages', a)
        BY <1>1, <2>1, <2>2, <2>3, FrontierStays DEF OpenStatuses
    <2>. QED
        BY <1>1, <1>3, <2>1, <2>3, <2>4, NotWaiting
<1>5. ASSUME NEW u \in Users, NEW withLinks \in BOOLEAN, EditResult(u, withLinks)
      PROVE  ReviewShowsCurrentWork'
    BY <1>1, <1>2, <1>5 DEF EditResult, TaskRow, MetaRow
<1>6. ASSUME NEW u \in Users, NEW s \in 0 .. NumStages, Submit(u, s) \/ Approve(u, s)
      PROVE  ReviewShowsCurrentWork'
    BY <1>6, SubmitShows, ApproveShows
<1>7. ASSUME NEW u \in Users, NEW s \in 0 .. NumStages, RequestImprovement(u, s)
      PROVE  ReviewShowsCurrentWork'
    <2> DEFINE a == Addressed(task, s)
    <2>1. a \in Stages
        BY <1>7, AddressedStage DEF RequestImprovement, Whole, OneStage
    <2>2. stages'[a].status = "revision_requested"
        BY <1>1, <1>7, <2>1 DEF RequestImprovement, ReworkStages, StageRow
    <2>3. FrontierAt(stages', a)
        BY <1>1, <2>1, <2>2, OpenIsFrontier DEF Whole, OneStage, StageFrontier, OpenStatuses
    <2>. QED
        BY <1>1, <1>3, <2>1, <2>2, <2>3, NotWaiting
<1>8. ASSUME NEW u \in Users, NEW s \in Stages, NEW approval \in BOOLEAN,
             NEW ids \in Requests, UpdateStage(u, s, approval, ids)
      PROVE  ReviewShowsCurrentWork'
    <2>1. task' = Sync(task, stages) /\ subs' = subs
        BY <1>8 DEF UpdateStage
    <2>2. task'.result = task.result /\ task'.meta = task.meta
        BY <1>1, <2>1, SyncKeeps, SyncKeepsResult
    <2>. QED
        BY <1>1, <1>2, <2>1, <2>2 DEF Agrees
<1>9. ASSUME NEW u \in Users, NEW plan \in Plans, NEW finalRequired \in BOOLEAN,
             ReplaceStages(u, plan, finalRequired)
      PROVE  ReviewShowsCurrentWork'
    <2>1. 1 \in Stages /\ stages'[1].status = "active"
        BY <1>9, StagesAssumption DEF ReplaceStages, StagesOf, Stages
    <2>2. FrontierAt(stages', 1)
        BY <1>1, <2>1, OpenIsFrontier DEF Whole, OneStage, StageFrontier, OpenStatuses
    <2>. QED
        BY <1>1, <1>3, <2>1, <2>2, NotWaiting
<1>10. ASSUME UNCHANGED subs,
              UNCHANGED <<task.workflow, task.current, task.result, task.meta.links>>
       PROVE  ReviewShowsCurrentWork'
    BY <1>2, <1>10
<1>11. CASE HoldExpires
    BY <1>1, <1>10, <1>11 DEF HoldExpires, TaskRow, MetaRow
<1>12. ASSUME NEW u \in Users, Revoke(u) \/ Unhold(u)
       PROVE  ReviewShowsCurrentWork'
    <2>1. CASE Revoke(u)
        BY <1>1, <1>10, <2>1 DEF Revoke, TaskRow
    <2>2. CASE Unhold(u)
        BY <1>1, <1>10, <2>2 DEF Unhold, TaskRow, MetaRow
    <2>. QED
        BY <1>12, <2>1, <2>2
<1>13. ASSUME NEW u \in Users, NEW kind \in {"open_ended", "timed"}, Hold(u, kind)
       PROVE  ReviewShowsCurrentWork'
    BY <1>1, <1>10, <1>13 DEF Hold, TaskRow, MetaRow
<1>14. ASSUME NEW u \in Users, NEW d \in Departments,
              NEW ids \in Requests, Forward(u, ids, d) \/ EditDetails(u, ids, d)
       PROVE  ReviewShowsCurrentWork'
    BY <1>1, <1>10, <1>14 DEF Forward, EditDetails, TaskRow
<1>15. CASE UNCHANGED vars
    BY <1>10, <1>15 DEF vars
<1>. QED
    BY <1>4, <1>5, <1>6, <1>7, <1>8, <1>9, <1>11, <1>12, <1>13, <1>14, <1>15 DEF Next

\* Nobody reviews a task just created.
LEMMA InitShows == Init => ReviewShowsCurrentWork
<1> SUFFICES ASSUME Init, Whole  PROVE task.workflow # "waiting_approval"
    BY InitOneStage, InitAgrees, InitSound DEF Whole, ReviewShowsCurrentWork
<1>1. /\ 1 \in Stages /\ stages[1].status = "active"
      /\ stages \in [Stages -> StageRow] /\ task \in TaskRow
    BY StagesAssumption DEF Init, StagesOf, Stages, Whole, OneStage, TypeOK
<1>2. FrontierAt(stages, 1)
    BY <1>1, OpenIsFrontier DEF Whole, OneStage, StageFrontier, OpenStatuses
<1>. QED
    BY <1>1, <1>2, NotWaiting DEF Whole

\* An approver never sees the work of another stage or an earlier version, in
\* neither of the two columns it is stored in, though approving writes only one
\* of them.
THEOREM ReviewShowsIt == Spec => []ReviewShowsCurrentWork
BY InitShows, NextShows, WholeInvariant, PTL DEF Spec

-----------------------------------------------------------------------------
(* The mapping *)

\* The holder and the furthest stage of the mapping, for any stage rows.
Open(st) == {s \in Stages : st[s].status \in OpenStatuses}
Holder(st) == IF Open(st) = {} THEN 0 ELSE Min(Open(st))
Furthest(st) == Max({s \in Stages : st[s].status # "not_started"})

\* The largest element of a set of stages is the one that bounds it.
LEMMA MaxStage ==
    ASSUME NEW S \in SUBSET Stages, NEW n \in S, \A r \in S : r =< n
    PROVE  Max(S) = n
<1>1. S \subseteq Nat
    BY DEF Stages
<1>2. n \in S /\ \A r \in S : n >= r
    BY <1>1
<1>3. Max(S) \in S /\ \A r \in S : Max(S) >= r
    BY <1>2 DEF Max
<1>4. Max(S) >= n /\ n >= Max(S)
    BY <1>2, <1>3
<1>5. Max(S) \in Nat /\ n \in Nat
    BY <1>1, <1>3
<1>. QED
    BY <1>4, <1>5

\* At the end nobody holds the work.
LEMMA AtEnd ==
    ASSUME NEW st \in [Stages -> StageRow], AllCompleted(st)
    PROVE  Holder(st) = 0 /\ Furthest(st) = NumStages
<1>1. Open(st) = {}
    BY DEF Open, AllCompleted, OpenStatuses
<1>2. /\ {s \in Stages : st[s].status # "not_started"} = Stages
      /\ NumStages \in Stages /\ \A r \in Stages : r =< NumStages
    BY StagesAssumption DEF AllCompleted, Stages
<1>. QED
    BY <1>1, <1>2, MaxStage DEF Holder, Furthest

\* Before it, the stage at the frontier does.
LEMMA AtFrontier ==
    ASSUME NEW st \in [Stages -> StageRow], NEW a \in Stages, FrontierAt(st, a)
    PROVE  /\ Holder(st) = a
           /\ (\A r \in Stages : r > a => st[r].status = "completed")
                => Furthest(st) = NumStages
           /\ (\A r \in Stages : r > a => st[r].status = "not_started")
                => Furthest(st) = a
<1> DEFINE Far == {s \in Stages : st[s].status # "not_started"}
<1>1. \A r \in Stages : r < a \/ r = a \/ r > a
    BY DEF Stages
<1>2. Open(st) = {a}
    BY <1>1 DEF Open, FrontierAt, OpenStatuses
<1>3. Holder(st) = a
    BY <1>2, MinStage DEF Holder
<1>4. st[a].status # "not_started"
    BY DEF FrontierAt, OpenStatuses
<1>5. ASSUME \A r \in Stages : r > a => st[r].status = "completed"
      PROVE  Furthest(st) = NumStages
    <2>1. Far = Stages
        BY <1>1, <1>4, <1>5 DEF FrontierAt
    <2>2. NumStages \in Stages /\ \A r \in Stages : r =< NumStages
        BY StagesAssumption DEF Stages
    <2>. QED
        BY <2>1, <2>2, MaxStage DEF Furthest
<1>6. ASSUME \A r \in Stages : r > a => st[r].status = "not_started"
      PROVE  Furthest(st) = a
    <2>1. a \in Far /\ \A r \in Far : r =< a
        BY <1>1, <1>4, <1>6 DEF Stages
    <2>. QED
        BY <2>1, MaxStage DEF Furthest
<1>. QED
    BY <1>3, <1>5, <1>6

\* A workflow is accepted when it is at its end and nothing is pending.
LEMMA AcceptedMeans ==
    ASSUME NEW t \in TaskRow, NEW st \in [Stages -> StageRow], Agrees(t, st)
    PROVE  t.workflow = "completed" <=> AllCompleted(st) /\ ~t.meta.finalPending
<1>1. t.workflow = "completed" => AllCompleted(st) /\ ~t.meta.finalPending
    BY CompletedMeans DEF Agrees
<1>2. ASSUME AllCompleted(st), ~t.meta.finalPending
      PROVE  t.workflow = "completed"
    <2>1. /\ InStatus(st, "revision_requested") = {}
          /\ InStatus(st, "submitted") = {}
          /\ InStatus(st, "active") = {}
          /\ InStatus(st, "completed") = Stages
        BY <1>2 DEF AllCompleted, InStatus
    <2>2. Sync(t, st).workflow = "completed"
        BY <1>2, <2>1 DEF Sync, TaskRow
    <2>. QED
        BY <2>2 DEF Agrees
<1>. QED
    BY <1>1, <1>2

-----------------------------------------------------------------------------
(* The steps *)

\* A step that changes no status and settles nothing pending does not show.
LEMMA SameHandoff ==
    ASSUME Whole, Whole', \A s \in Stages : stages'[s].status = stages[s].status,
           task'.meta.finalPending <=> task.meta.finalPending
    PROVE  UNCHANGED Handoff!handoffVars
<1>1. OpenStages' = OpenStages /\ Reached' = Reached
    BY DEF OpenStages, Reached
<1>2. AllCompleted(stages') <=> AllCompleted(stages)
    BY DEF AllCompleted
<1>3. (task.workflow = "completed")' <=> task.workflow = "completed"
    BY <1>2, AcceptedMeans DEF Whole, OneStage, TypeOK
<1>. QED
    BY <1>1, <1>3 DEF Handoff!handoffVars

\* Completing the stage that holds the work hands it on, or ends the workflow.
LEMMA CompleteHandoff ==
    ASSUME Whole, Whole', NEW a \in Stages, FrontierAt(stages, a),
           NEW st1 \in [Stages -> StageRow],
           \A r \in Stages \ {a} : st1[r].status = stages[r].status,
           st1[a].status = "completed",
           stages' = ActivateNext(st1, a)
    PROVE  Handoff!PassOn \/ Handoff!Finish
<1> USE DEF Whole, OneStage
<1>1. /\ stages \in [Stages -> StageRow] /\ stages' \in [Stages -> StageRow]
      /\ a \in Nat /\ a # 0 /\ NumStages \in Nat /\ a =< NumStages
      /\ \A r \in Stages : r \in Nat
    BY StagesAssumption DEF TypeOK, Stages
<1>2. task.workflow # "completed"
    BY AcceptedMeans DEF TypeOK, FrontierAt, AllCompleted, OpenStatuses
<1>3. CASE (\A r \in Stages : r > a => stages[r].status = "completed") \/ a = NumStages
    <2>1. \A r \in Stages : r > a => stages[r].status = "completed"
        BY <1>1, <1>3 DEF Stages
    <2>2. AllCompleted(stages')
        <3>1. a < NumStages => a + 1 \in Stages /\ a + 1 # a /\ a + 1 > a
            BY <1>1 DEF Stages
        <3>2. a < NumStages => st1[a + 1].status = "completed"
            BY <2>1, <3>1
        <3>3. stages' = st1
            BY <3>2 DEF ActivateNext
        <3>4. \A r \in Stages : r < a \/ r = a \/ r > a
            BY <1>1
        <3>. QED
            BY <2>1, <3>3, <3>4 DEF AllCompleted, FrontierAt
    <2>3. Holder(stages) = a /\ Furthest(stages) = NumStages
        BY <1>1, <2>1, AtFrontier
    <2>4. Holder(stages') = 0 /\ Furthest(stages') = NumStages
        BY <1>1, <2>2, AtEnd
    <2>. QED
        BY <1>1, <2>3, <2>4
        DEF Handoff!Finish, Holder, Furthest, Open, OpenStages, Reached
<1>4. CASE (\A r \in Stages : r > a => stages[r].status = "not_started") /\ a < NumStages
    <2>1. a + 1 \in Stages /\ a + 1 > a /\ a + 1 # a
        BY <1>1, <1>4 DEF Stages
    <2>2. stages' = [st1 EXCEPT ![a + 1].status = "active"]
        BY <1>4, <2>1 DEF ActivateNext
    <2>3. stages'[a + 1].status = "active"
        BY <2>1, <2>2 DEF StageRow
    <2>4. FrontierAt(stages', a + 1)
        BY <1>1, <2>1, <2>3, FrontierPasses DEF AllCompleted
    <2>5. \A r \in Stages : r > a + 1 => stages'[r].status = "not_started"
        <3> SUFFICES ASSUME NEW r \in Stages, r > a + 1
                     PROVE  stages'[r].status = "not_started"
            OBVIOUS
        <3>1. r # a + 1 /\ r # a /\ r > a
            BY <1>1
        <3>2. stages'[r] = st1[r]
            BY <2>2, <3>1
        <3>. QED
            BY <1>4, <3>1, <3>2
    <2>6. Holder(stages) = a /\ Furthest(stages) = a
        BY <1>1, <1>4, AtFrontier
    <2>7. Holder(stages') = a + 1 /\ Furthest(stages') = a + 1
        BY <1>1, <2>1, <2>4, <2>5, AtFrontier
    <2>8. task'.workflow # "completed"
        BY <2>1, <2>3, AcceptedMeans DEF TypeOK, AllCompleted
    <2>. QED
        BY <1>2, <1>4, <2>6, <2>7, <2>8
        DEF Handoff!PassOn, Holder, Furthest, Open, OpenStages, Reached
<1>5. a = NumStages \/ a < NumStages
    BY <1>1
<1>. QED
    BY <1>3, <1>4, <1>5 DEF FrontierAt

\* The stage that holds the work may be started, submitted for review and sent
\* back without the work changing hands.
LEMMA OpenHandoff ==
    ASSUME Whole, Whole', NEW a \in Stages, FrontierAt(stages, a),
           \A r \in Stages \ {a} : stages'[r].status = stages[r].status,
           stages'[a].status \in OpenStatuses
    PROVE  UNCHANGED Handoff!handoffVars
<1> USE DEF Whole, OneStage
<1>1. stages \in [Stages -> StageRow] /\ stages' \in [Stages -> StageRow]
      /\ task \in TaskRow /\ task' \in TaskRow
    BY DEF TypeOK
<1>2. \A r \in Stages : r > a => r # a
    BY DEF Stages
<1>3. FrontierAt(stages', a)
    BY <1>1, FrontierStays
<1>4. Holder(stages') = Holder(stages) /\ Furthest(stages') = Furthest(stages)
    <2>1. CASE \A r \in Stages : r > a => stages[r].status = "completed"
        BY <1>1, <1>2, <1>3, <2>1, AtFrontier
    <2>2. CASE \A r \in Stages : r > a => stages[r].status = "not_started"
        BY <1>1, <1>2, <1>3, <2>2, AtFrontier
    <2>. QED
        BY <2>1, <2>2 DEF FrontierAt
<1>5. task.workflow # "completed" /\ task'.workflow # "completed"
    BY <1>1, <1>3, AcceptedMeans DEF FrontierAt, AllCompleted, OpenStatuses
<1>. QED
    BY <1>4, <1>5
    DEF Handoff!handoffVars, Holder, Furthest, Open, OpenStages, Reached

\* Submitting keeps the work for review, or hands it on.
LEMMA SubmitHandoff ==
    ASSUME Whole, Whole', NEW u \in Users, NEW s \in 0 .. NumStages, Submit(u, s)
    PROVE  [Handoff!Next]_(Handoff!handoffVars)
<1> USE DEF Whole, OneStage
<1> DEFINE a == Addressed(task, s)
<1>1. /\ a \in Stages /\ stages[a].status \in OpenStatuses
      /\ stages \in [Stages -> StageRow]
    BY AddressedStage DEF Submit, CanSubmit, OpenStatuses, TypeOK
<1>2. FrontierAt(stages, a)
    BY <1>1, OpenIsFrontier DEF StageFrontier
<1>3. CASE stages[a].approval
    <2>1. /\ \A r \in Stages \ {a} : stages'[r].status = stages[r].status
          /\ stages'[a].status \in OpenStatuses
        BY <1>1, <1>3 DEF Submit, SubmitStages, StageRow, OpenStatuses
    <2>. HIDE DEF a, Whole
    <2>. QED
        BY <1>1, <1>2, <2>1, OpenHandoff
<1>4. CASE ~stages[a].approval
    <2> DEFINE st1 == [stages EXCEPT ![a].status = "completed", ![a].started = TRUE]
    <2>1. stages' = ActivateNext(st1, a)
        BY <1>4 DEF Submit, SubmitStages
    <2>2. st1 \in [Stages -> StageRow]
        BY <1>1, StageChangeType DEF StageStatuses
    <2>3. /\ \A r \in Stages \ {a} : st1[r].status = stages[r].status
          /\ st1[a].status = "completed"
        BY <1>1 DEF StageRow
    <2>4. Handoff!PassOn \/ Handoff!Finish
        <3>. HIDE DEF a, st1, Whole
        <3>. QED
            BY <1>1, <1>2, <2>1, <2>2, <2>3, CompleteHandoff
    <2>. QED
        BY <2>4 DEF Handoff!Next
<1>. QED
    BY <1>3, <1>4

\* An approval hands the work on or, the final one, accepts it.
LEMMA ApproveHandoff ==
    ASSUME Whole, Whole', NEW u \in Users, NEW s \in 0 .. NumStages, Approve(u, s)
    PROVE  Handoff!Next
<1> USE DEF Whole, OneStage
<1> DEFINE a == Addressed(task, s)
<1>1. stages \in [Stages -> StageRow] /\ task \in TaskRow /\ task' \in TaskRow
    BY DEF TypeOK
<1>2. CASE IsFinalApproval(task, s)
    <2>1. AllCompleted(stages) /\ stages' = stages
        BY <1>2 DEF IsFinalApproval, FinalPendingAtEnd, Approve, ApproveStages
    <2>2. task' = Sync([task EXCEPT !.result = task.result, !.meta.finalPending = FALSE], stages')
        BY <1>2 DEF Approve, ApproveTask
    <2>3. [task EXCEPT !.result = task.result, !.meta.finalPending = FALSE] \in TaskRow
          /\ ~[task EXCEPT !.result = task.result, !.meta.finalPending = FALSE].meta.finalPending
        BY <1>1 DEF TaskRow, MetaRow
    <2>4. ~task'.meta.finalPending
        BY <2>2, <2>3, SyncKeeps
    <2>5. task'.workflow = "completed"
        BY <1>1, <2>1, <2>4, AcceptedMeans
    <2>6. Holder(stages) = 0
        BY <1>1, <2>1, AtEnd
    <2>. QED
        BY <2>1, <2>5, <2>6
        DEF Handoff!Next, Handoff!Accept, Holder, Open, OpenStages, Reached
<1>3. CASE ~IsFinalApproval(task, s)
    <2> DEFINE st1 == [stages EXCEPT ![a].status = "completed"]
    <2>1. a \in Stages /\ stages[a].status \in OpenStatuses
        BY <1>3, AddressedStage DEF Approve, Reviewable, OpenStatuses
    <2>2. FrontierAt(stages, a)
        BY <1>1, <2>1, OpenIsFrontier DEF StageFrontier
    <2>3. stages' = ActivateNext(st1, a)
        BY <1>3 DEF Approve, ApproveStages
    <2>4. st1 \in [Stages -> StageRow]
        BY <1>1, <2>1, StageChangeType DEF StageStatuses
    <2>5. /\ \A r \in Stages \ {a} : st1[r].status = stages[r].status
          /\ st1[a].status = "completed"
        BY <1>1, <2>1 DEF StageRow
    <2>6. Handoff!PassOn \/ Handoff!Finish
        <3>. HIDE DEF a, st1, Whole
        <3>. QED
            BY <2>1, <2>2, <2>3, <2>4, <2>5, CompleteHandoff
    <2>. QED
        BY <2>6 DEF Handoff!Next
<1>. QED
    BY <1>2, <1>3

\* A request for improvement leaves the work where it is, or takes it back from
\* the end.
LEMMA RequestImprovementHandoff ==
    ASSUME Whole, Whole', NEW u \in Users, NEW s \in 0 .. NumStages,
           RequestImprovement(u, s)
    PROVE  [Handoff!Next]_(Handoff!handoffVars)
<1> USE DEF Whole, OneStage
<1> DEFINE a == Addressed(task, s)
<1>1. /\ a \in Stages
      /\ stages \in [Stages -> StageRow] /\ stages' \in [Stages -> StageRow]
      /\ task \in TaskRow /\ task' \in TaskRow
    BY AddressedStage DEF RequestImprovement, TypeOK
<1>2. /\ \A r \in Stages \ {a} : stages'[r].status = stages[r].status
      /\ stages'[a].status \in OpenStatuses
    BY <1>1 DEF RequestImprovement, ReworkStages, StageRow, OpenStatuses
<1>3. CASE stages[a].status \in {"submitted", "active"}
    <2>1. FrontierAt(stages, a)
        BY <1>1, <1>3, OpenIsFrontier DEF StageFrontier, OpenStatuses
    <2>. HIDE DEF a, Whole
    <2>. QED
        BY <1>1, <1>2, <2>1, OpenHandoff
<1>4. CASE task.meta.finalPending
    <2>1. AllCompleted(stages)
        BY <1>4 DEF FinalPendingAtEnd
    <2>2. \A r \in Stages : (r < a \/ r > a) => r # a
        BY DEF Stages
    <2>3. /\ FrontierAt(stages', a)
          /\ \A r \in Stages : r > a => stages'[r].status = "completed"
        BY <1>1, <1>2, <2>1, <2>2 DEF AllCompleted, FrontierAt
    <2>4. Holder(stages) = 0 /\ Furthest(stages) = NumStages
        BY <1>1, <2>1, AtEnd
    <2>5. Holder(stages') = a /\ Furthest(stages') = NumStages
        BY <1>1, <2>3, AtFrontier
    <2>6. task.workflow # "completed" /\ task'.workflow # "completed"
        BY <1>1, <1>2, <1>4, AcceptedMeans DEF AllCompleted, OpenStatuses
    <2>7. a \in 1 .. NumStages
        BY <1>1 DEF Stages
    <2>. QED
        BY <2>4, <2>5, <2>6, <2>7
        DEF Handoff!Next, Handoff!SendBack, Holder, Furthest, Open, OpenStages, Reached
<1>. QED
    BY <1>3, <1>4 DEF RequestImprovement, Reworkable

\* Every step is one of the promise or does not show in it.
LEMMA NextHandoff ==
    Whole /\ Whole' /\ [Next]_vars => [Handoff!Next]_(Handoff!handoffVars)
<1> SUFFICES ASSUME Whole, Whole', [Next]_vars
             PROVE  [Handoff!Next]_(Handoff!handoffVars)
    OBVIOUS
<1> DEFINE Step == [Handoff!Next]_(Handoff!handoffVars)
<1>1. task \in TaskRow /\ stages \in [Stages -> StageRow]
    BY DEF Whole, OneStage, TypeOK
<1>2. ASSUME UNCHANGED stages, task'.meta.finalPending = task.meta.finalPending
      PROVE  Step
    BY <1>2, SameHandoff
<1>3. CASE HoldExpires
    BY <1>1, <1>2, <1>3 DEF HoldExpires, TaskRow, MetaRow
<1>4. ASSUME NEW u \in Users, Start(u)  PROVE Step
    <2> DEFINE a == task.current
    <2>1. a \in Stages /\ stages[a].status \in OpenStatuses
        BY <1>1, <1>4, StagesAssumption
        DEF TaskRow, Start, CanStart, Stages, OpenStatuses
    <2>2. FrontierAt(stages, a)
        BY <1>1, <2>1, OpenIsFrontier DEF Whole, OneStage, StageFrontier
    <2>3. /\ \A r \in Stages \ {a} : stages'[r].status = stages[r].status
          /\ stages'[a].status \in OpenStatuses
        BY <1>1, <1>4, <2>1 DEF Start, StartStages, StageRow, OpenStatuses
    <2>. QED
        BY <2>1, <2>2, <2>3, OpenHandoff
<1>5. ASSUME NEW u \in Users, NEW withLinks \in BOOLEAN, EditResult(u, withLinks)
      PROVE  Step
    BY <1>1, <1>2, <1>5 DEF EditResult, TaskRow, MetaRow
<1>6. ASSUME NEW u \in Users, NEW s \in 0 .. NumStages,
             Submit(u, s) \/ Approve(u, s) \/ RequestImprovement(u, s)
      PROVE  Step
    BY <1>6, SubmitHandoff, ApproveHandoff, RequestImprovementHandoff
<1>7. ASSUME NEW u \in Users, NEW targets \in Requests, NEW d \in Departments,
             Forward(u, targets, d)
      PROVE  Step
    BY <1>1, <1>2, <1>7 DEF Forward, TaskRow
<1>8. ASSUME NEW u \in Users, Revoke(u)  PROVE Step
    BY <1>1, <1>2, <1>8 DEF Revoke, TaskRow
<1>9. ASSUME NEW u \in Users, NEW kind \in {"open_ended", "timed"}, Hold(u, kind)
      PROVE  Step
    BY <1>1, <1>2, <1>9 DEF Hold, TaskRow, MetaRow
<1>10. ASSUME NEW u \in Users, Unhold(u)  PROVE Step
    BY <1>1, <1>2, <1>10 DEF Unhold, TaskRow, MetaRow
<1>11. ASSUME NEW u \in Users, NEW s \in Stages, NEW approval \in BOOLEAN,
              NEW ids \in Requests, UpdateStage(u, s, approval, ids)
       PROVE  Step
    <2>1. \A r \in Stages : stages'[r].status = stages[r].status
        BY <1>1, <1>11, UpdateStageKeeps
    <2>2. task'.meta = task.meta
        BY <1>1, <1>11, SyncKeeps DEF UpdateStage
    <2>. QED
        BY <2>1, <2>2, SameHandoff
<1>12. ASSUME NEW u \in Users, NEW ids \in Requests, NEW d \in Departments,
              EditDetails(u, ids, d)
       PROVE  Step
    BY <1>1, <1>2, <1>12 DEF EditDetails, TaskRow
<1>13. ASSUME NEW u \in Users, NEW plan \in Plans, NEW finalRequired \in BOOLEAN,
              ReplaceStages(u, plan, finalRequired)
       PROVE  Step
    <2> DEFINE asked == [task EXCEPT !.finalRequired = finalRequired,
                                     !.meta.finalPending = FALSE]
    <2>1. \A s \in Stages : stages'[s].status = stages[s].status
        BY <1>13, ReplaceKeepsStatus
    <2>2. ~task'.meta.finalPending
        <3>1. asked \in TaskRow /\ ~asked.meta.finalPending
            BY <1>1 DEF TaskRow, MetaRow
        <3>2. task' = Sync(asked, stages')
            BY <1>13 DEF ReplaceStages
        <3>. HIDE DEF asked
        <3>. QED
            BY <3>1, <3>2, SyncKeeps
    <2>3. ~task.meta.finalPending
        <3>1. 1 \in Stages /\ subs[1].versions = 0
            BY <1>13, StagesAssumption DEF ReplaceStages, HasSubmissions, Stages
        <3>2. SoundStage(stages[1], subs[1])
            BY <3>1 DEF Whole, SoundWork
        <3>3. stages[1].status # "completed"
            BY <3>1, <3>2 DEF SoundStage
        <3>. QED
            BY <3>1, <3>3 DEF Whole, OneStage, FinalPendingAtEnd, AllCompleted
    <2>. QED
        BY <2>1, <2>2, <2>3, SameHandoff
<1>14. CASE UNCHANGED vars
    BY <1>2, <1>14 DEF vars
<1>15. CASE Next
    BY <1>3, <1>4, <1>5, <1>6, <1>7, <1>8, <1>9, <1>10, <1>11, <1>12, <1>13, <1>15
    DEF Next
<1>. QED
    BY <1>14, <1>15

\* A new task is in the hands of its first stage.
LEMMA InitHandoff == Init /\ Whole => Handoff!Init
<1> SUFFICES ASSUME NEW plan \in Plans, stages = StagesOf(plan), Whole
             PROVE  Handoff!Init
    BY DEF Init
<1>1. /\ 1 \in Stages /\ \A r \in Stages : ~(r < 1) /\ (r > 1 => r # 1)
      /\ task \in TaskRow /\ stages \in [Stages -> StageRow]
    BY StagesAssumption DEF Stages, Whole, OneStage, TypeOK
<1>2. /\ FrontierAt(stages, 1)
      /\ \A r \in Stages : r > 1 => stages[r].status = "not_started"
      /\ ~AllCompleted(stages)
    BY <1>1 DEF FrontierAt, StagesOf, OpenStatuses, AllCompleted
<1>3. Holder(stages) = 1 /\ Furthest(stages) = 1
    BY <1>1, <1>2, AtFrontier
<1>4. task.workflow # "completed"
    BY <1>1, <1>2, AcceptedMeans DEF Whole
<1>. QED
    BY <1>3, <1>4 DEF Handoff!Init, Holder, Furthest, Open, OpenStages, Reached

\* Whatever the endpoints are called with, the work of a staged task is handed
\* on as WorkflowHandoff promises.
THEOREM ImplementsHandoff == Spec => HandoffSpec
<1>1. Init /\ Whole => Handoff!Init
    BY InitHandoff
<1>2. Whole /\ Whole' /\ [Next]_vars => [Handoff!Next]_(Handoff!handoffVars)
    BY NextHandoff
<1>. QED
    BY <1>1, <1>2, WholeInvariant, PTL DEF Spec, HandoffSpec, Handoff!Spec

=============================================================================

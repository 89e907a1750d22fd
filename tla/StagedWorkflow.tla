--------------------------- MODULE StagedWorkflow ---------------------------
(***************************************************************************)
(* The life of one staged task: the workflow endpoints of                  *)
(* backend/routers/tasks_router.py, each a single step.  That is what one  *)
(* server process does: the handlers do not await between loading the task *)
(* and committing.  Users call the endpoints in any order, any number of   *)
(* times; a call the handler refuses changes nothing and is not a step.    *)
(***************************************************************************)
EXTENDS WorkflowRows

VARIABLES
    task,       \* its row of table tasks
    stages,     \* its rows of tables task_stages and task_stage_assignees
    subs,       \* its rows of table task_stage_submissions
    members     \* users with an active ASSIGNEE row of table task_participants

vars == <<task, stages, subs, members>>

TypeOK ==
    /\ task \in TaskRow
    /\ stages \in [Stages -> StageRow]
    /\ subs \in [Stages -> SubmissionRows]
    /\ members \in SUBSET Users

PlanMembers(plan) == UNION {plan[s].assignees : s \in Stages}

\* create_task, as committed.
Init ==
    \E plan \in Plans, finalRequired \in BOOLEAN, d \in Departments :
        /\ task = TaskOf(plan, finalRequired, d)
        /\ stages = StagesOf(plan)
        /\ subs = NoSubmissions
        /\ members = PlanMembers(plan)

-----------------------------------------------------------------------------
(* The assignees *)

\* POST start
Start(u) ==
    /\ CanStart(u, task, stages)
    /\ task' = StartTask(task, stages)
    /\ stages' = StartStages(task, stages)
    /\ UNCHANGED <<subs, members>>

\* POST submit, or submit of a stage (s # 0)
Submit(u, s) ==
    LET a == Addressed(task, s) IN
    /\ CanSubmit(u, task, stages, s)
    /\ NewVersion(subs, a) <= MaxVersions
    /\ task' = SubmitTask(task, stages, subs, a)
    /\ stages' = SubmitStages(stages, a)
    /\ subs' = AddSubmission(subs, a)
    /\ UNCHANGED members

\* PUT result: an edit of the text and, if it brings any, of the links.
EditResult(u, withLinks) ==
    /\ ~Held(task)
    /\ u \in members
    /\ ~task.resultLocked
    /\ task' = [task EXCEPT !.result = Edited,
                            !.meta.links = IF withLinks THEN Edited ELSE @]
    /\ UNCHANGED <<stages, subs, members>>

-----------------------------------------------------------------------------
(* The approvers *)

\* POST approve, or approve of a stage (s # 0)
Approve(u, s) ==
    /\ ~Held(task)
    /\ CanApprove(u, task)
    /\ Reviewable(task, stages, s)
    /\ task' = ApproveTask(u, task, stages, subs, s)
    /\ stages' = ApproveStages(task, stages, s)
    /\ UNCHANGED <<subs, members>>

\* POST need-improvement, or request-improvement of a stage (s # 0)
RequestImprovement(u, s) ==
    LET a == Addressed(task, s) IN
    /\ ~Held(task)
    /\ CanApprove(u, task)
    /\ a # 0
    /\ stages[a].status \in Reworkable(task)
    /\ task' = ReworkTask(task, stages, a)
    /\ stages' = ReworkStages(stages, a)
    /\ UNCHANGED <<subs, members>>

\* POST forward: no condition on the status, staged tasks included.
Forward(u, targets, d) ==
    /\ ~Held(task)
    /\ u \in SuperAdmins \cup Hods \cup Spocs
    /\ targets # {}
    /\ task' = [task EXCEPT !.status = "forwarded", !.department = d]
    /\ members' = members \cup (targets \ (Hods \cup Spocs))
    /\ UNCHANGED <<stages, subs>>

-----------------------------------------------------------------------------
(* The creator *)

Revoke(u) ==
    /\ u = Creator
    /\ task.status \notin Terminal
    /\ task' = [task EXCEPT !.status = "cancelled", !.editLocked = TRUE,
                            !.resultLocked = TRUE]
    /\ UNCHANGED <<stages, subs, members>>

Hold(u, kind) ==
    /\ u = Creator
    /\ task.status \notin Terminal
    /\ ~Held(task)
    /\ task' = [task EXCEPT !.meta.hold = kind]
    /\ UNCHANGED <<stages, subs, members>>

Unhold(u) ==
    /\ u = Creator
    /\ task.status \notin Terminal
    /\ Held(task)
    /\ task' = [task EXCEPT !.meta.hold = "none"]
    /\ UNCHANGED <<stages, subs, members>>

\* The time of a timed hold is reached.
HoldExpires ==
    /\ task.meta.hold = "timed"
    /\ task' = [task EXCEPT !.meta.hold = "none"]
    /\ UNCHANGED <<stages, subs, members>>

\* PATCH of a stage; ids is empty when it brings no new assignees.  Otherwise
\* the rows there are deactivated and new ones inserted, which the unique index
\* refuses for a user who ever had one.  The summary is recomputed from the
\* assignees loaded before that.
UpdateStage(u, s, approval, ids) ==
    /\ u \in SuperAdmins \cup Hods \cup {Creator}
    /\ stages[s].status \notin {"submitted", "completed"}
    /\ \A v \in ids : stages[s].assignee[v] = "absent"
    /\ stages' = [stages EXCEPT
                    ![s].approval = approval,
                    ![s].assignee = [v \in Users |->
                        IF v \in ids THEN "active"
                        ELSE IF ids # {} /\ @[v] = "active" THEN "inactive"
                        ELSE @[v]]]
    /\ task' = Sync(task, stages)
    /\ members' = members \cup ids
    /\ UNCHANGED subs

\* PATCH of the task, without a workflow field and with or without assignees.
EditDetails(u, ids, d) ==
    /\ u = Creator
    /\ ~task.editLocked
    /\ task' = [task EXCEPT !.department = d]
    /\ members' \in {members, ids}
    /\ UNCHANGED <<stages, subs>>

\* Faulty variant of HasSubmissions: stages are replaced under their submissions.
IgnoreSubmissions == FALSE
HasSubmissions == \E s \in Stages : subs[s].versions # 0

\* PATCH of the task with a workflow field: the stage rows are deleted and
\* inserted anew, unless work was submitted.
ReplaceStages(u, plan, finalRequired) ==
    /\ u = Creator
    /\ ~task.editLocked
    /\ ~HasSubmissions
    /\ stages' = StagesOf(plan)
    /\ task' = Sync([task EXCEPT !.finalRequired = finalRequired,
                                 !.meta.finalPending = FALSE], stages')
    /\ members' = PlanMembers(plan)
    /\ UNCHANGED subs

-----------------------------------------------------------------------------

Next ==
    \/ HoldExpires
    \/ \E u \in Users :
        \/ Start(u)
        \/ \E withLinks \in BOOLEAN : EditResult(u, withLinks)
        \/ \E s \in 0 .. NumStages :
            Submit(u, s) \/ Approve(u, s) \/ RequestImprovement(u, s)
        \/ \E targets \in Requests, d \in Departments : Forward(u, targets, d)
        \/ Revoke(u)
        \/ \E kind \in {"open_ended", "timed"} : Hold(u, kind)
        \/ Unhold(u)
        \/ \E s \in Stages, approval \in BOOLEAN, ids \in Requests :
            UpdateStage(u, s, approval, ids)
        \/ \E ids \in Requests, d \in Departments : EditDetails(u, ids, d)
        \/ \E plan \in Plans, finalRequired \in BOOLEAN :
            ReplaceStages(u, plan, finalRequired)

Spec == Init /\ [][Next]_vars

-----------------------------------------------------------------------------
(* Properties *)

AllCompleted(st) == \A s \in Stages : st[s].status = "completed"

\* Stage s is being worked on or reviewed, every stage before it is completed,
\* and the stages after it are either all untouched or, when a finished
\* workflow was sent back, all completed.
FrontierAt(st, s) ==
    /\ st[s].status \in OpenStatuses
    /\ \A r \in Stages : r < s => st[r].status = "completed"
    /\ \/ \A r \in Stages : r > s => st[r].status = "completed"
       \/ \A r \in Stages : r > s => st[r].status = "not_started"

\* The stages are worked on one at a time and in order.  No handler checks
\* this: approve, need-improvement and submit each look at the one stage they
\* are given.
StageFrontier == AllCompleted(stages) \/ \E s \in Stages : FrontierAt(stages, s)

\* A final approval is pending only when every stage is completed and the
\* creator asked for one.
FinalPendingAtEnd ==
    task.meta.finalPending => AllCompleted(stages) /\ task.finalRequired

\* The summary on the task row is what recomputing it from the stage rows would
\* give, whichever handler wrote last; only forwarding and revoking put another
\* status over it.  (The assignees of the summary are WorkIsOfferedToAssignees.)
SummaryAgrees ==
    LET now == Sync(task, stages) IN
    /\ task.workflow = now.workflow
    /\ task.current = now.current
    /\ task.completedAt = now.completedAt
    /\ task.status \in {now.status, "forwarded", "cancelled"}

\* Every stage that waits for approval or is completed has a submission, the
\* flagged one is the latest, and a stage not yet reached has none.
SubmissionsSound ==
    \A s \in Stages :
        /\ subs[s].flagged = IF subs[s].versions = 0 THEN {} ELSE {subs[s].versions}
        /\ stages[s].status \in {"submitted", "completed"} => subs[s].versions > 0
        /\ stages[s].status = "not_started" => subs[s].versions = 0

\* What an approver finds on the task, its text and its links, is the latest
\* submission of the stage under review (or an edit made after it), never the
\* work of another stage or an earlier version.
ReviewShowsCurrentWork ==
    task.workflow = "waiting_approval" =>
        {task.result, task.meta.links}
            \subseteq {<<task.current, subs[task.current].versions>>, Edited}

\* Somebody can start, submit or approve.
Actionable ==
    \E u \in Users : \/ CanStart(u, task, stages)
                     \/ CanSubmit(u, task, stages, 0)
                     \/ CanApprove(u, task) /\ Reviewable(task, stages, 0)

\* The status of the task, its workflow status and the status of its stage gate
\* different endpoints.  Where the work is neither held, done nor revoked they
\* shut all of them in one case and in no other: a task was forwarded while it
\* waited for approval.  (WaitingCanBeApproved is about that case.)
StuckOnlyIfForwardedInReview ==
    task.workflow # "completed" /\ task.status # "cancelled" /\ ~Held(task) =>
        (Actionable <=> ~(task.status = "forwarded" /\ task.workflow = "waiting_approval"))

\* While a task is held no stage changes hands and nothing is submitted, though
\* plans and stages can still be edited.
HeldWorkStops ==
    [][Held(task) => /\ subs' = subs
                     /\ \A s \in Stages : stages'[s].status = stages[s].status]_vars

\* A completed workflow is never reopened, not even by forwarding its task or
\* by editing its details.
CompletedIsFinal ==
    [][task.workflow = "completed" =>
            /\ task'.workflow = "completed"
            /\ stages' = stages
            /\ subs' = subs]_vars

\* The rows implement the promise of WorkflowHandoff.
OpenStages == {s \in Stages : stages[s].status \in OpenStatuses}
Reached == {s \in Stages : stages[s].status # "not_started"}
Handoff == INSTANCE WorkflowHandoff WITH
    holder   <- IF OpenStages = {} THEN 0 ELSE Min(OpenStages),
    reached  <- Max(Reached),
    accepted <- task.workflow = "completed"
HandoffSpec == Handoff!Spec

-----------------------------------------------------------------------------
(* What the repository says of the program and the code does not keep *)

\* "Final stage needs creator approval" (AssignTaskModal.jsx): a workflow that
\* requires it is completed by an approval, one the creator can give.  (That
\* others can give it, too, does not show in the rows.)
FinalApprovalByCreator ==
    [][task.finalRequired /\ task.workflow # "completed" /\ task'.workflow = "completed"
        => \E s \in 0 .. NumStages : Approve(Creator, s)]_vars

\* "A workflow stage is waiting for approval." (_submit_workflow_stage, to the
\* creator): what waits for approval can be approved by the creator, unless it
\* is held or revoked.
WaitingCanBeApproved ==
    task.workflow = "waiting_approval" /\ task.status # "cancelled" /\ ~Held(task)
        => CanApprove(Creator, task)

\* compute_available_actions offers no action on a cancelled task.
CancelledIsFinal == [][task.status = "cancelled" => task'.status = "cancelled"]_vars

\* compute_available_actions offers start and submit to the users named in the
\* summary.
OfferedWork(u) ==
    /\ ~Held(task)
    /\ u \in task.assignees
    /\ task.workflow \in {"active", "revision_requested"}
    /\ task.status \in {"assigned", "pending", "need_improvement", "in_progress"}

\* Whoever is offered the work of the current stage may do it, and the other
\* way around.
WorkIsOfferedToAssignees ==
    \A u \in Users : OfferedWork(u) <=>
        CanStart(u, task, stages) /\ task.status \notin {"forwarded", "cancelled"}

=============================================================================

---------------------------- MODULE WorkflowRows ----------------------------
(***************************************************************************)
(* The rows a staged ("workflow") task is stored in, and the pure part of  *)
(* the handlers of backend/routers/tasks_router.py that work on them: what *)
(* a handler checks, and the rows it computes, given the rows it loaded.   *)
(*                                                                         *)
(* The module has no variables.  StagedWorkflow runs each handler in one   *)
(* step; StagedWorkflowRaces splits it into the load and the commit of the *)
(* two server processes.  A task is two kinds of rows here:                *)
(*   t   the row of table tasks, a record; its field meta is the JSON      *)
(*       column metadata_json, written back as a whole by every handler;   *)
(*   st  the rows of table task_stages, a function of the stage order,     *)
(*       each with its rows of table task_stage_assignees.                 *)
(*   sub the rows of table task_stage_submissions of each stage.           *)
(***************************************************************************)
EXTENDS Naturals, FiniteSetsExt

CONSTANTS
    Users,          \* active accounts
    Creator,        \* the user who created the task
    SuperAdmins,    \* users with role super_admin
    Hods,           \* users with role hod
    Spocs,          \* users with role spoc
    Departments,
    DeptOf,         \* the department of each user
    NumStages,      \* how many stages the workflow has
    Plans,          \* the stage lists a creator may ask for
    Requests,       \* the user lists a request may name, {} when it has none
    MaxVersions     \* bound: submissions of one stage

Stages == 1 .. NumStages

StagePlan == [approval : BOOLEAN, assignees : (SUBSET Users) \ {{}}]

ASSUME UsersAssumption == /\ Creator \in Users
                          /\ SuperAdmins \subseteq Users
                          /\ Hods \subseteq Users
                          /\ Spocs \subseteq Users
                          /\ DeptOf \in [Users -> Departments]
ASSUME StagesAssumption == /\ NumStages \in Nat \ {0}
                           /\ Plans \subseteq [Stages -> StagePlan]
                           /\ Plans # {}
ASSUME RequestsAssumption == Requests \subseteq SUBSET Users
ASSUME BoundsAssumption == MaxVersions \in Nat \ {0}

-----------------------------------------------------------------------------
(* Row types *)

OpenStatuses  == {"active", "submitted", "revision_requested"}
StageStatuses == OpenStatuses \cup {"not_started", "completed"}

\* The statuses a staged task can have.
TaskStatuses == {"pending", "forwarded", "assigned", "in_progress",
                 "submitted", "need_improvement", "completed", "cancelled"}
Terminal   == {"completed", "cancelled", "rejected"}
\* Faulty variant of Approvable: a submitted task is not among the approvable ones.
ApprovableOnceReviewed == {"under_review", "approved"}
Approvable == {"submitted", "under_review", "approved"}

WorkflowStatuses == {"not_started", "active", "waiting_approval",
                     "revision_requested", "completed"}

\* What the task shows as its result: a submission, the text of an edit made
\* outside any submission, or nothing yet.
Shown    == (Stages \X (1 .. MaxVersions)) \cup {<<0, 0>>, <<0, 1>>}
NoResult == <<0, 0>>
Edited   == <<0, 1>>

\* hold: not held, held until the creator lifts it, held until a given time.
MetaRow == [finalPending : BOOLEAN,
            hold  : {"none", "open_ended", "timed"},
            links : Shown]

TaskRow == [status        : TaskStatuses,
            workflow      : WorkflowStatuses,
            current       : 0 .. NumStages,     \* current_stage_id, 0 = NULL
            assignees     : SUBSET Users,       \* current_assignee_ids_json
            finalRequired : BOOLEAN,
            completedAt   : BOOLEAN,            \* completed_at IS NOT NULL
            department    : Departments,
            editLocked    : BOOLEAN,
            resultLocked  : BOOLEAN,
            result        : Shown,
            meta          : MetaRow]

\* assignee: the (stage, user) row is absent, active, or deactivated.
StageRow == [status   : StageStatuses,
             started  : BOOLEAN,                \* started_at IS NOT NULL
             approval : BOOLEAN,                \* approval_required
             assignee : [Users -> {"absent", "active", "inactive"}]]

\* Versions are numbered from 1; flagged is the set with is_current = true.
SubmissionRows == [versions : 0 .. MaxVersions, flagged : SUBSET (1 .. MaxVersions)]

ActiveAssignees(row) == {u \in Users : row.assignee[u] = "active"}
InStatus(st, status) == {s \in Stages : st[s].status = status}
Held(t)              == t.meta.hold # "none"

-----------------------------------------------------------------------------
(* The summary columns of the task row *)

\* The columns that describe the current stage s.
Summary(t, st, s, workflow, status) ==
    [t EXCEPT !.workflow = workflow, !.status = status, !.current = s,
              !.assignees = ActiveAssignees(st[s]), !.completedAt = FALSE]

\* _sync_task_workflow_summary: recomputes the summary from the stage rows.
\* A stage sent back comes first, then one that waits for approval, then one
\* in work.
Sync(t, st) ==
    LET revision  == InStatus(st, "revision_requested")
        submitted == InStatus(st, "submitted")
        active    == InStatus(st, "active")
    IN  IF revision # {} THEN
            Summary(t, st, Min(revision), "revision_requested", "need_improvement")
        ELSE IF submitted # {} THEN
            Summary(t, st, Min(submitted), "waiting_approval", "submitted")
        ELSE IF active # {} THEN
            Summary(t, st, Min(active), "active",
                    IF st[Min(active)].started THEN "in_progress" ELSE "assigned")
        ELSE IF InStatus(st, "completed") # Stages THEN
            Summary(t, st, 1, "not_started", "pending")
        ELSE IF t.meta.finalPending THEN
            Summary(t, st, NumStages, "waiting_approval", "submitted")
        ELSE
            [t EXCEPT !.workflow = "completed", !.status = "completed",
                      !.current = 0, !.assignees = {}, !.completedAt = TRUE]

-----------------------------------------------------------------------------
(* Who may act *)

CanApprove(u, t) ==
    /\ t.status \in Approvable
    /\ t.workflow = "waiting_approval" \/ t.meta.finalPending
    /\ \/ u \in SuperAdmins \cup Hods \cup {Creator}
       \/ u \in Spocs /\ DeptOf[u] = t.department

CanStart(u, t, st) ==
    /\ ~Held(t)
    /\ t.current # 0
    /\ st[t.current].status \in {"active", "revision_requested"}
    /\ u \in ActiveAssignees(st[t.current])

\* s is the stage of the URL, or 0 when the generic endpoint takes the
\* current stage.
Addressed(t, s) == IF s = 0 THEN t.current ELSE s

\* Faulty variant of CanSubmit: submits while the task is held.
CanSubmitHeld(u, t, st, s) ==
    LET a == Addressed(t, s) IN
    /\ a # 0
    /\ st[a].status \in {"active", "revision_requested"}
    /\ u \in ActiveAssignees(st[a])
    /\ t.status = "in_progress"

CanSubmit(u, t, st, s) ==
    LET a == Addressed(t, s) IN
    /\ ~Held(t)
    /\ a # 0
    /\ st[a].status \in {"active", "revision_requested"}
    /\ u \in ActiveAssignees(st[a])
    /\ t.status = "in_progress"

-----------------------------------------------------------------------------
(* What the handlers write *)

\* The rows create_task inserts for a plan, and edit_task_details when it
\* replaces the plan.
StagesOf(plan) ==
    [s \in Stages |-> [status   |-> IF s = 1 THEN "active" ELSE "not_started",
                       started  |-> FALSE,
                       approval |-> plan[s].approval,
                       assignee |-> [u \in Users |-> IF u \in plan[s].assignees
                                                     THEN "active" ELSE "absent"]]]

NoSubmissions == [s \in Stages |-> [versions |-> 0, flagged |-> {}]]

TaskOf(plan, finalRequired, department) ==
    Sync([status |-> "pending", workflow |-> "active", current |-> 1,
          assignees |-> plan[1].assignees, finalRequired |-> finalRequired,
          completedAt |-> FALSE, department |-> department,
          editLocked |-> FALSE, resultLocked |-> TRUE, result |-> NoResult,
          meta |-> [finalPending |-> FALSE, hold |-> "none", links |-> NoResult]],
         StagesOf(plan))

\* _start_workflow_stage
StartStages(t, st) ==
    [st EXCEPT ![t.current].status = "active", ![t.current].started = TRUE]

StartTask(t, st) ==
    [Sync(t, StartStages(t, st)) EXCEPT !.status = "in_progress",
                                        !.resultLocked = FALSE]

\* Faulty variant of ActivateNext: opens the stage after s again when it was
\* already completed.
ActivateNextAlways(st, s) ==
    IF s < NumStages THEN [st EXCEPT ![s + 1].status = "active"] ELSE st

\* _activate_next_workflow_stage: opens the stage after s if it was not yet
\* opened.  It answers with that stage whatever its status was.
ActivateNext(st, s) ==
    IF s < NumStages /\ st[s + 1].status = "not_started"
    THEN [st EXCEPT ![s + 1].status = "active"]
    ELSE st

\* _set_stage_current_submission: the flag moves to a new, highest version.
NewVersion(sub, s) == sub[s].versions + 1

\* Faulty variant of AddSubmission: earlier submissions keep the flag.
AddSecondFlag(sub, s) ==
    [sub EXCEPT ![s] = [versions |-> NewVersion(sub, s),
                        flagged  |-> sub[s].flagged \cup {NewVersion(sub, s)}]]

AddSubmission(sub, s) ==
    [sub EXCEPT ![s] = [versions |-> NewVersion(sub, s), flagged |-> {NewVersion(sub, s)}]]

\* Faulty variant of Mirror: the links of the task stay what they were.
MirrorTextOnly(t, s, v) == [t EXCEPT !.result = <<s, v>>]

\* _mirror_submission_to_task: text in its column, links in metadata_json.
Mirror(t, s, v) == [t EXCEPT !.result = <<s, v>>, !.meta.links = <<s, v>>]

\* _submit_workflow_stage
SubmitStages(st, a) ==
    IF st[a].approval
    THEN [st EXCEPT ![a].status = "submitted", ![a].started = TRUE]
    ELSE ActivateNext([st EXCEPT ![a].status = "completed", ![a].started = TRUE], a)

\* Faulty variant of SubmitTask: the summary is recomputed before the stage rows
\* change.
SubmitTaskEarly(t, st, sub, a) ==
    LET final == ~st[a].approval /\ a = NumStages /\ t.finalRequired
    IN  Sync([Mirror(t, a, NewVersion(sub, a)) EXCEPT !.meta.finalPending = final], st)

SubmitTask(t, st, sub, a) ==
    LET final == ~st[a].approval /\ a = NumStages /\ t.finalRequired
    IN  Sync([Mirror(t, a, NewVersion(sub, a)) EXCEPT !.meta.finalPending = final],
             SubmitStages(st, a))

\* _approve_workflow_stage: the final approval when no stage is addressed and
\* one is pending, else the approval of the addressed stage.  The second form
\* puts back the metadata it read on entry, so it mirrors the text alone.
IsFinalApproval(t, s) == t.meta.finalPending /\ s = 0

\* Faulty variant of Reviewable: approves a stage whatever its status.
AnyStageReviewable(t, st, s) == IsFinalApproval(t, s) \/ Addressed(t, s) # 0

\* There is something to approve.
Reviewable(t, st, s) ==
    \/ IsFinalApproval(t, s)
    \/ Addressed(t, s) # 0 /\ st[Addressed(t, s)].status = "submitted"

ApproveStages(t, st, s) ==
    IF IsFinalApproval(t, s) THEN st
    ELSE LET a == Addressed(t, s)
         IN  ActivateNext([st EXCEPT ![a].status = "completed"], a)

ApproveTask(u, t, st, sub, s) ==
    LET a     == Addressed(t, s)
        final == ~IsFinalApproval(t, s) /\ a = NumStages /\ t.finalRequired /\ u # Creator
        text  == IF IsFinalApproval(t, s) \/ sub[a].flagged = {} THEN t.result
                 ELSE <<a, Min(sub[a].flagged)>>
    IN  Sync([t EXCEPT !.result = text, !.meta.finalPending = final],
             ApproveStages(t, st, s))

\* Faulty variant of Reworkable: a completed stage may always be sent back.
ReworkableAlways(t) == {"submitted", "active", "completed"}

\* _request_workflow_stage_improvement
Reworkable(t) ==
    {"submitted", "active"} \cup (IF t.meta.finalPending THEN {"completed"} ELSE {})

\* Faulty variant of ReworkStages: writes the status of a task.
ReworkStagesAsTask(st, a) == [st EXCEPT ![a].status = "need_improvement"]

ReworkStages(st, a) == [st EXCEPT ![a].status = "revision_requested"]

\* Faulty variant of ReworkTask: the final approval stays pending.
ReworkTaskStillPending(t, st, a) == Sync(t, ReworkStages(st, a))

ReworkTask(t, st, a) ==
    Sync([t EXCEPT !.meta.finalPending = FALSE], ReworkStages(st, a))

=============================================================================

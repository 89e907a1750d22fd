------------------------- MODULE WorkflowRowsProofs -------------------------
(***************************************************************************)
(* What the operators of WorkflowRows return: whatever a handler computes  *)
(* from well-formed rows are well-formed rows.  StagedWorkflow and         *)
(* StagedWorkflowRaces run the same handlers, so that the theorems about   *)
(* either rest on these lemmas.                                            *)
(***************************************************************************)
EXTENDS WorkflowRows, WellFoundedInduction, TLAPS

-----------------------------------------------------------------------------
(* The summary *)

\* The least element of a nonempty set of numbers exists.
LEMMA MinNat ==
    ASSUME NEW S \in SUBSET Nat, S # {}
    PROVE  /\ Min(S) \in S
           /\ \A r \in S : Min(S) =< r
<1>1. S \subseteq Nat
    OBVIOUS
<1>2. PICK x \in S : \A y \in S : <<y, x>> \notin OpToRel(<, Nat)
    BY <1>1, NatLessThanWellFounded, WFMin
<1>3. ASSUME NEW y \in S  PROVE x =< y
    <2>1. SUFFICES ASSUME y < x  PROVE FALSE
        BY <1>1
    <2>2. <<y, x>> \in Nat \X Nat /\ <<y, x>>[1] < <<y, x>>[2]
        BY <1>1, <2>1
    <2>. QED
        BY <1>2, <2>2, Zenon DEF OpToRel
<1>. QED
    BY <1>3 DEF Min

\* So Sync names a stage of the set it looks at.
LEMMA MinStage ==
    ASSUME NEW S \in SUBSET Stages, S # {}
    PROVE  /\ Min(S) \in S
           /\ \A r \in S : Min(S) =< r
<1>1. S \in SUBSET Nat
    BY DEF Stages
<1>. QED
    BY <1>1, MinNat

\* Recomputing the summary yields a well-formed task row, and reads nothing of
\* the task row but the pending final approval.
LEMMA SummaryType ==
    ASSUME NEW t \in TaskRow, NEW st \in [Stages -> StageRow], NEW s \in Stages,
           NEW workflow \in WorkflowStatuses, NEW status \in TaskStatuses
    PROVE  Summary(t, st, s, workflow, status) \in TaskRow
<1>1. s \in 0 .. NumStages
    BY StagesAssumption DEF Stages
<1>2. ActiveAssignees(st[s]) \in SUBSET Users
    BY DEF ActiveAssignees
<1>. QED
    BY <1>1, <1>2 DEF Summary, TaskRow

\* The summary fits the task row whichever stage it describes.
LEMMA SyncType ==
    ASSUME NEW t \in TaskRow, NEW st \in [Stages -> StageRow]
    PROVE  Sync(t, st) \in TaskRow
<1> DEFINE In(status) == InStatus(st, status)
<1>1. \A status : In(status) # {} => Min(In(status)) \in Stages
    BY MinStage DEF InStatus
<1>2. 1 \in Stages /\ NumStages \in Stages
    BY StagesAssumption DEF Stages
<1>3. [t EXCEPT !.workflow = "completed", !.status = "completed",
                !.current = 0, !.assignees = {}, !.completedAt = TRUE] \in TaskRow
    <2>1. 0 \in 0 .. NumStages
        BY StagesAssumption
    <2>. QED
        BY <2>1 DEF TaskRow, TaskStatuses, WorkflowStatuses
<1>4. /\ {"revision_requested", "waiting_approval", "active", "not_started"}
            \subseteq WorkflowStatuses
      /\ {"need_improvement", "submitted", "in_progress", "assigned", "pending"}
            \subseteq TaskStatuses
    BY DEF TaskStatuses, WorkflowStatuses
<1>5. CASE In("revision_requested") # {}
    BY <1>1, <1>4, <1>5, SummaryType DEF Sync
<1>6. CASE In("revision_requested") = {} /\ In("submitted") # {}
    BY <1>1, <1>4, <1>6, SummaryType DEF Sync
<1>7. CASE /\ In("revision_requested") = {} /\ In("submitted") = {}
           /\ In("active") # {}
    BY <1>1, <1>4, <1>7, SummaryType DEF Sync
<1>8. CASE /\ In("revision_requested") = {} /\ In("submitted") = {}
           /\ In("active") = {}
    BY <1>2, <1>3, <1>4, <1>8, SummaryType DEF Sync
<1>. QED
    BY <1>5, <1>6, <1>7, <1>8

-----------------------------------------------------------------------------
(* The rows *)

\* The submission to be added fits its table.
LEMMA ShownType ==
    ASSUME NEW s \in Stages, NEW v \in 1 .. MaxVersions
    PROVE  <<s, v>> \in Shown
BY DEF Shown

\* The metadata column is rewritten as a whole, one key changed.
LEMMA MetaType ==
    ASSUME NEW t \in TaskRow
    PROVE  /\ \A b \in BOOLEAN : [t EXCEPT !.meta.finalPending = b] \in TaskRow
           /\ \A k \in {"none", "open_ended", "timed"} : [t EXCEPT !.meta.hold = k] \in TaskRow
           /\ \A r, l \in Shown : [t EXCEPT !.result = r, !.meta.links = l] \in TaskRow
BY DEF TaskRow, MetaRow

\* The task row a submission is shown on.
LEMMA MirrorType ==
    ASSUME NEW t \in TaskRow, NEW s \in Stages, NEW v \in 1 .. MaxVersions,
           NEW b \in BOOLEAN
    PROVE  [Mirror(t, s, v) EXCEPT !.meta.finalPending = b] \in TaskRow
<1>1. Mirror(t, s, v) \in TaskRow
    BY ShownType, MetaType DEF Mirror
<1>. QED
    BY <1>1, MetaType

\* Changing the status, the start or the gate of one stage gives stage rows.
LEMMA StageChangeType ==
    ASSUME NEW st \in [Stages -> StageRow], NEW s \in Stages,
           NEW status \in StageStatuses
    PROVE  /\ [st EXCEPT ![s].status = status] \in [Stages -> StageRow]
           /\ [st EXCEPT ![s].status = status, ![s].started = TRUE] \in [Stages -> StageRow]
BY DEF StageRow

\* There is a next stage wherever one is opened.
LEMMA ActivateNextType ==
    ASSUME NEW st \in [Stages -> StageRow], NEW s \in Stages
    PROVE  ActivateNext(st, s) \in [Stages -> StageRow]
<1>1. s < NumStages => s + 1 \in Stages
    BY StagesAssumption DEF Stages
<1>2. "active" \in StageStatuses
    BY DEF StageStatuses, OpenStatuses
<1>. QED
    BY <1>1, <1>2, StageChangeType DEF ActivateNext

\* The rows of a new plan.
LEMMA StagesOfType ==
    ASSUME NEW plan \in Plans
    PROVE  StagesOf(plan) \in [Stages -> StageRow]
BY StagesAssumption DEF StagesOf, StageRow, StageStatuses, OpenStatuses, StagePlan

\* The task row create_task inserts.
LEMMA TaskOfType ==
    ASSUME NEW plan \in Plans, NEW finalRequired \in BOOLEAN, NEW d \in Departments
    PROVE  TaskOf(plan, finalRequired, d) \in TaskRow
<1> DEFINE row == [status |-> "pending", workflow |-> "active", current |-> 1,
          assignees |-> plan[1].assignees, finalRequired |-> finalRequired,
          completedAt |-> FALSE, department |-> d,
          editLocked |-> FALSE, resultLocked |-> TRUE, result |-> NoResult,
          meta |-> [finalPending |-> FALSE, hold |-> "none", links |-> NoResult]]
<1>1. plan \in [Stages -> StagePlan] /\ 1 \in Stages /\ 1 \in 0 .. NumStages
    BY StagesAssumption DEF Stages
<1>2. plan[1].assignees \in SUBSET Users
    BY <1>1 DEF StagePlan
<1>3. row \in TaskRow
    BY <1>1, <1>2 DEF TaskRow, MetaRow, TaskStatuses, WorkflowStatuses, NoResult, Shown
<1>. QED
    BY <1>3, SyncType, StagesOfType DEF TaskOf

-----------------------------------------------------------------------------
(* The handlers *)

\* A request may address a stage only by its order, and the current stage is
\* one of them.
LEMMA AddressedType ==
    ASSUME NEW t \in TaskRow, NEW s \in 0 .. NumStages, Addressed(t, s) # 0
    PROVE  Addressed(t, s) \in Stages
BY StagesAssumption DEF TaskRow, Addressed, Stages

\* Starting the current stage.
LEMMA StartTypes ==
    ASSUME NEW t \in TaskRow, NEW st \in [Stages -> StageRow], t.current # 0
    PROVE  /\ StartStages(t, st) \in [Stages -> StageRow]
           /\ StartTask(t, st) \in TaskRow
<1>1. t.current \in Stages
    BY StagesAssumption DEF TaskRow, Stages
<1>2. StartStages(t, st) \in [Stages -> StageRow]
    BY <1>1, StageChangeType DEF StartStages, StageStatuses, OpenStatuses
<1>3. Sync(t, StartStages(t, st)) \in TaskRow
    BY <1>2, SyncType
<1>4. StartTask(t, st) \in TaskRow
    BY <1>3 DEF StartTask, TaskRow, TaskStatuses
<1>. QED
    BY <1>2, <1>4

\* Submitting a stage: the new version is within the bound.
LEMMA SubmitTypes ==
    ASSUME NEW t \in TaskRow, NEW st \in [Stages -> StageRow],
           NEW sub \in [Stages -> SubmissionRows], NEW a \in Stages,
           NewVersion(sub, a) =< MaxVersions
    PROVE  /\ NewVersion(sub, a) \in 1 .. MaxVersions
           /\ SubmitStages(st, a) \in [Stages -> StageRow]
           /\ SubmitTask(t, st, sub, a) \in TaskRow
           /\ \E t1 \in TaskRow :
                SubmitTask(t, st, sub, a) = Sync(t1, SubmitStages(st, a))
           /\ AddSubmission(sub, a) \in [Stages -> SubmissionRows]
<1> DEFINE v == NewVersion(sub, a)
<1>1. v \in 1 .. MaxVersions
    BY BoundsAssumption DEF SubmissionRows, NewVersion
<1>2. SubmitStages(st, a) \in [Stages -> StageRow]
    <2>1. \A status \in StageStatuses :
            [st EXCEPT ![a].status = status, ![a].started = TRUE] \in [Stages -> StageRow]
        BY StageChangeType
    <2>2. {"submitted", "completed"} \subseteq StageStatuses
        BY DEF StageStatuses, OpenStatuses
    <2>. QED
        BY <2>1, <2>2, ActivateNextType DEF SubmitStages
<1>3. /\ SubmitTask(t, st, sub, a) \in TaskRow
      /\ \E t1 \in TaskRow : SubmitTask(t, st, sub, a) = Sync(t1, SubmitStages(st, a))
    <2> DEFINE b == ~st[a].approval /\ a = NumStages /\ t.finalRequired
    <2>1. b \in BOOLEAN
        OBVIOUS
    <2>2. [Mirror(t, a, v) EXCEPT !.meta.finalPending = b] \in TaskRow
        BY <1>1, <2>1, MirrorType
    <2>3. SubmitTask(t, st, sub, a) =
            Sync([Mirror(t, a, v) EXCEPT !.meta.finalPending = b], SubmitStages(st, a))
        BY DEF SubmitTask
    <2>. QED
        BY <1>2, <2>2, <2>3, SyncType
<1>4. AddSubmission(sub, a) \in [Stages -> SubmissionRows]
    BY <1>1, BoundsAssumption DEF AddSubmission, SubmissionRows
<1>. QED
    BY <1>1, <1>2, <1>3, <1>4

\* An approval shows a submission that exists.
LEMMA ApprovedShown ==
    ASSUME NEW t \in TaskRow, NEW sub \in [Stages -> SubmissionRows],
           NEW s \in 0 .. NumStages, IsFinalApproval(t, s) \/ Addressed(t, s) # 0
    PROVE  (IF IsFinalApproval(t, s) \/ sub[Addressed(t, s)].flagged = {}
            THEN t.result
            ELSE <<Addressed(t, s), Min(sub[Addressed(t, s)].flagged)>>) \in Shown
<1> DEFINE a == Addressed(t, s)
<1>1. CASE IsFinalApproval(t, s) \/ sub[a].flagged = {}
    BY <1>1 DEF TaskRow
<1>2. CASE ~IsFinalApproval(t, s) /\ sub[a].flagged # {}
    <2>1. a \in Stages
        BY <1>2, AddressedType
    <2>2. sub[a].flagged \in SUBSET (1 .. MaxVersions)
        BY <2>1 DEF SubmissionRows
    <2>3. Min(sub[a].flagged) \in 1 .. MaxVersions
        BY <1>2, <2>2, MinNat
    <2>. QED
        BY <1>2, <2>1, <2>3, ShownType
<1>. QED
    BY <1>1, <1>2

\* Approving a stage, or the whole.
LEMMA ApproveTypes ==
    ASSUME NEW t \in TaskRow, NEW st \in [Stages -> StageRow],
           NEW sub \in [Stages -> SubmissionRows], NEW u \in Users,
           NEW s \in 0 .. NumStages, Reviewable(t, st, s)
    PROVE  /\ ApproveStages(t, st, s) \in [Stages -> StageRow]
           /\ ApproveTask(u, t, st, sub, s) \in TaskRow
           /\ \E t1 \in TaskRow :
                ApproveTask(u, t, st, sub, s) = Sync(t1, ApproveStages(t, st, s))
<1> DEFINE a    == Addressed(t, s)
           last == ~IsFinalApproval(t, s) /\ a = NumStages /\ t.finalRequired /\ u # Creator
           text == IF IsFinalApproval(t, s) \/ sub[a].flagged = {} THEN t.result
                   ELSE <<a, Min(sub[a].flagged)>>
<1>1. ~IsFinalApproval(t, s) => a \in Stages
    BY AddressedType DEF Reviewable
<1>2. ApproveStages(t, st, s) \in [Stages -> StageRow]
    <2>1. CASE IsFinalApproval(t, s)
        BY <2>1 DEF ApproveStages
    <2>2. CASE ~IsFinalApproval(t, s)
        <3>1. [st EXCEPT ![a].status = "completed"] \in [Stages -> StageRow]
            BY <1>1, <2>2, StageChangeType DEF StageStatuses
        <3>. QED
            BY <1>1, <2>2, <3>1, ActivateNextType DEF ApproveStages
    <2>. QED
        BY <2>1, <2>2
<1>3. text \in Shown
    BY ApprovedShown DEF Reviewable
<1>4. last \in BOOLEAN
    OBVIOUS
<1>5. [t EXCEPT !.result = text, !.meta.finalPending = last] \in TaskRow
    BY <1>3, <1>4 DEF TaskRow, MetaRow
<1>6. ApproveTask(u, t, st, sub, s) =
        Sync([t EXCEPT !.result = text, !.meta.finalPending = last], ApproveStages(t, st, s))
    BY DEF ApproveTask
<1>. QED
    BY <1>2, <1>5, <1>6, SyncType

\* A stage sent back has a status of a stage, not one of a task.
LEMMA ReworkTypes ==
    ASSUME NEW t \in TaskRow, NEW st \in [Stages -> StageRow], NEW a \in Stages
    PROVE  /\ ReworkStages(st, a) \in [Stages -> StageRow]
           /\ ReworkTask(t, st, a) \in TaskRow
<1>1. ReworkStages(st, a) \in [Stages -> StageRow]
    BY StageChangeType DEF ReworkStages, StageStatuses, OpenStatuses
<1>2. ReworkTask(t, st, a) \in TaskRow
    BY <1>1, MetaType, SyncType DEF ReworkTask
<1>. QED
    BY <1>1, <1>2

=============================================================================

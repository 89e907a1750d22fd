--------------------- MODULE StagedWorkflowRacesProofs ---------------------
(***************************************************************************)
(* Theorems about StagedWorkflowRaces, for every number of server          *)
(* processes, users, stages and submissions.  The invariant says what a    *)
(* request that waits for its commit is about to write: columns of         *)
(* well-formed rows, justified by submissions that exist or that the same  *)
(* commit inserts and, as long as no other commit fell into it, exactly    *)
(* what a single process would write.  With one process the whole module   *)
(* implements StagedWorkflow.                                              *)
(***************************************************************************)
EXTENDS StagedWorkflowRaces, WorkflowRowsProofs

-----------------------------------------------------------------------------
(* Writing columns *)

TaskColumns == {"status", "workflow", "current", "assignees", "finalRequired",
                "completedAt", "department", "editLocked", "resultLocked",
                "result", "meta"}
StageColumns == {"status", "started", "approval", "assignee"}

\* Some columns of a well-formed row.
TaskWrites ==
    {[f \in columns |-> row[f]] : columns \in SUBSET TaskColumns, row \in TaskRow}
StageWrites ==
    {[f \in columns |-> row[f]] : columns \in SUBSET StageColumns, row \in StageRow}

\* A row is the function of its columns, each of its type.
LEMMA TaskColumn ==
    ASSUME NEW t
    PROVE  t \in TaskRow <=>
               /\ t = [f \in TaskColumns |-> t[f]]
               /\ t["status"] \in TaskStatuses
               /\ t["workflow"] \in WorkflowStatuses
               /\ t["current"] \in 0 .. NumStages
               /\ t["assignees"] \in SUBSET Users
               /\ t["finalRequired"] \in BOOLEAN
               /\ t["completedAt"] \in BOOLEAN
               /\ t["department"] \in Departments
               /\ t["editLocked"] \in BOOLEAN
               /\ t["resultLocked"] \in BOOLEAN
               /\ t["result"] \in Shown
               /\ t["meta"] \in MetaRow
BY DEF TaskRow, TaskColumns

\* The same of a stage row.
LEMMA StageColumn ==
    ASSUME NEW row
    PROVE  row \in StageRow <=>
               /\ row = [f \in StageColumns |-> row[f]]
               /\ row["status"] \in StageStatuses
               /\ row["started"] \in BOOLEAN
               /\ row["approval"] \in BOOLEAN
               /\ row["assignee"] \in [Users -> {"absent", "active", "inactive"}]
BY DEF StageRow, StageColumns

\* Writing columns of one well-formed row into another leaves a well-formed row.
LEMMA WrittenTask ==
    ASSUME NEW writes \in TaskWrites, NEW t \in TaskRow
    PROVE  /\ Written(writes, t) \in TaskRow
           /\ Written(writes, t).workflow =
                IF "workflow" \in DOMAIN writes THEN writes.workflow ELSE t.workflow
<1>1. PICK columns \in SUBSET TaskColumns, row \in TaskRow :
            writes = [f \in columns |-> row[f]]
    BY DEF TaskWrites
<1> DEFINE new == [f \in TaskColumns |-> IF f \in columns THEN row[f] ELSE t[f]]
<1>2. Written(writes, t) = new
    <2>1. DOMAIN t = TaskColumns /\ DOMAIN writes = columns
        BY <1>1, TaskColumn
    <2>. QED
        BY <1>1, <2>1 DEF Written
<1>3. \A f \in TaskColumns : new[f] = row[f] \/ new[f] = t[f]
    OBVIOUS
<1>4. new = [f \in TaskColumns |-> new[f]]
    OBVIOUS
<1>5. new \in TaskRow
    <2> HIDE DEF new
    <2>. QED
        BY <1>3, <1>4, TaskColumn DEF TaskColumns
<1>6. new["workflow"] = IF "workflow" \in columns THEN row["workflow"] ELSE t["workflow"]
    BY DEF TaskColumns
<1>. QED
    BY <1>1, <1>2, <1>5, <1>6

\* The same of a stage row, whose status is what it was or what is written.
LEMMA WrittenStage ==
    ASSUME NEW writes \in StageWrites, NEW row \in StageRow
    PROVE  /\ Written(writes, row) \in StageRow
           /\ Written(writes, row).status =
                IF "status" \in DOMAIN writes THEN writes.status ELSE row.status
<1>1. PICK columns \in SUBSET StageColumns, row1 \in StageRow :
            writes = [f \in columns |-> row1[f]]
    BY DEF StageWrites
<1> DEFINE new == [f \in StageColumns |-> IF f \in columns THEN row1[f] ELSE row[f]]
<1>2. Written(writes, row) = new
    <2>1. DOMAIN row = StageColumns /\ DOMAIN writes = columns
        BY <1>1, StageColumn
    <2>. QED
        BY <1>1, <2>1 DEF Written
<1>3. \A f \in StageColumns : new[f] = row1[f] \/ new[f] = row[f]
    OBVIOUS
<1>4. new = [f \in StageColumns |-> new[f]]
    OBVIOUS
<1>5. new \in StageRow
    <2> HIDE DEF new
    <2>. QED
        BY <1>3, <1>4, StageColumn DEF StageColumns
<1>6. new["status"] = IF "status" \in columns THEN row1["status"] ELSE row["status"]
    BY DEF StageColumns
<1>. QED
    BY <1>1, <1>2, <1>5, <1>6

\* Writing the columns that differ, and possibly others, into the row they were
\* computed from makes it the new row.
LEMMA TaskOverwritten ==
    ASSUME NEW t \in TaskRow, NEW t1 \in TaskRow,
           NEW columns \in SUBSET TaskColumns, Differing(t, t1) \subseteq columns
    PROVE  /\ [f \in columns |-> t1[f]] \in TaskWrites
           /\ Written([f \in columns |-> t1[f]], t) = t1
<1>1. [f \in columns |-> t1[f]] \in TaskWrites
    BY DEF TaskWrites
<1>2. /\ DOMAIN t = TaskColumns /\ DOMAIN t1 = TaskColumns
      /\ t1 = [f \in TaskColumns |-> t1[f]]
    BY TaskColumn
<1>3. Written([f \in columns |-> t1[f]], t) = [f \in TaskColumns |-> t1[f]]
    BY <1>2 DEF Written, Differing
<1>. QED
    BY <1>1, <1>2, <1>3

\* The handlers write the columns of the task that they changed, ...
LEMMA ChangedTaskWrites ==
    ASSUME NEW t \in TaskRow, NEW t1 \in TaskRow
    PROVE  /\ ChangedTask(t, t1) \in TaskWrites
           /\ Written(ChangedTask(t, t1), t) = t1
           /\ "workflow" \in DOMAIN ChangedTask(t, t1) =>
                /\ t1.workflow # t.workflow
                /\ ChangedTask(t, t1).workflow = t1.workflow
<1> DEFINE columns == Differing(t, t1) \cup
                (IF {"current", "assignees"} \cap Differing(t, t1) = {} THEN {} ELSE {"meta"})
<1>1. ChangedTask(t, t1) = [f \in columns |-> t1[f]]
    BY DEF ChangedTask
<1>2. columns \in SUBSET TaskColumns
    BY TaskColumn DEF Differing, TaskColumns
<1>3. "workflow" \in columns => t1["workflow"] # t["workflow"]
    BY DEF Differing
<1>. QED
    BY <1>1, <1>2, <1>3, TaskOverwritten

\* ... and those of each stage.
LEMMA ChangedStageWrites ==
    ASSUME NEW row \in StageRow, NEW row1 \in StageRow
    PROVE  /\ Changed(row, row1) \in StageWrites
           /\ Written(Changed(row, row1), row) = row1
           /\ "status" \in DOMAIN Changed(row, row1) =>
                Changed(row, row1).status = row1.status
<1> DEFINE columns == Differing(row, row1)
<1>1. /\ DOMAIN row = StageColumns /\ DOMAIN row1 = StageColumns
      /\ row1 = [f \in StageColumns |-> row1[f]]
    BY StageColumn
<1>2. columns \in SUBSET StageColumns
    BY <1>1 DEF Differing
<1>3. Changed(row, row1) = [f \in columns |-> row1[f]]
    BY DEF Changed
<1>4. Changed(row, row1) \in StageWrites
    BY <1>2, <1>3 DEF StageWrites
<1>5. Written(Changed(row, row1), row) = [f \in StageColumns |-> row1[f]]
    BY <1>1, <1>3 DEF Written, Differing
<1>. QED
    BY <1>1, <1>3, <1>4, <1>5

-----------------------------------------------------------------------------
(* Work behind every stage *)

\* Stage s has a submission, or is the one, i, that is about to get one.
Worked(sub, i, s) == sub[s].versions > 0 \/ s = i

\* AcceptedHasWork and OpenedInOrder of any stage rows.
WorkBehind(st, sub, i) ==
    \A s \in Stages :
        /\ st[s].status \in {"submitted", "completed"} => Worked(sub, i, s)
        /\ s # 1 /\ st[s].status # "not_started" => Worked(sub, i, s - 1)

\* The summary says that the workflow is completed only when every stage is.
LEMMA SyncCompleted ==
    ASSUME NEW t \in TaskRow, NEW st \in [Stages -> StageRow], NEW sub, NEW i,
           WorkBehind(st, sub, i), Sync(t, st).workflow = "completed"
    PROVE  \A s \in Stages : Worked(sub, i, s)
<1>1. \A s, workflow, status :
            workflow # "completed" => Summary(t, st, s, workflow, status).workflow # "completed"
    BY DEF Summary, TaskRow
<1>2. InStatus(st, "completed") = Stages
    BY <1>1 DEF Sync
<1>. QED
    BY <1>2 DEF InStatus, WorkBehind

\* Opening the next stage after one that has work behind it.
LEMMA ActivateNextWork ==
    ASSUME NEW st \in [Stages -> StageRow], NEW sub, NEW i, NEW a \in Stages,
           WorkBehind(st, sub, i), Worked(sub, i, a)
    PROVE  WorkBehind(ActivateNext(st, a), sub, i)
<1>1. CASE ActivateNext(st, a) = st
    BY <1>1
<1>2. CASE a < NumStages /\ ActivateNext(st, a) = [st EXCEPT ![a + 1].status = "active"]
    <2> DEFINE st1 == ActivateNext(st, a)
    <2>1. a + 1 \in Stages /\ (a + 1) - 1 = a
        BY <1>2, StagesAssumption DEF Stages
    <2>2. st1[a + 1].status = "active" /\ \A s \in Stages \ {a + 1} : st1[s] = st[s]
        BY <1>2, <2>1 DEF StageRow
    <2>. QED
        BY <2>1, <2>2 DEF WorkBehind
<1>. QED
    BY <1>1, <1>2 DEF ActivateNext

\* Giving a stage another status, when there is work behind it for that.
LEMMA StatusWork ==
    ASSUME NEW st \in [Stages -> StageRow], NEW st1 \in [Stages -> StageRow],
           NEW sub, NEW i, NEW j, NEW a \in Stages,
           WorkBehind(st, sub, i), i = 0 \/ i = j,
           \A s \in Stages \ {a} : st1[s].status = st[s].status,
           st[a].status # "not_started",
           st1[a].status \in {"submitted", "completed"} => Worked(sub, j, a)
    PROVE  WorkBehind(st1, sub, j)
<1>1. \A s \in Stages : s # 0 /\ (s # 1 => s - 1 # 0)
    BY DEF Stages
<1>2. \A s \in Stages : /\ Worked(sub, i, s) => Worked(sub, j, s)
                        /\ s # 1 /\ Worked(sub, i, s - 1) => Worked(sub, j, s - 1)
    BY <1>1 DEF Worked
<1>3. ASSUME NEW s \in Stages
      PROVE  /\ st1[s].status \in {"submitted", "completed"} => Worked(sub, j, s)
             /\ s # 1 /\ st1[s].status # "not_started" => Worked(sub, j, s - 1)
    BY <1>2 DEF WorkBehind
<1>. QED
    BY <1>3 DEF WorkBehind

\* The handlers: none completes or opens a stage that has no work behind it.
LEMMA StartWork ==
    ASSUME NEW t \in TaskRow, NEW st \in [Stages -> StageRow], NEW sub,
           WorkBehind(st, sub, 0), t.current \in Stages,
           st[t.current].status \in {"active", "revision_requested"}
    PROVE  WorkBehind(StartStages(t, st), sub, 0)
<1> DEFINE st1 == StartStages(t, st)
<1>1. st1 \in [Stages -> StageRow]
    BY StartTypes DEF Stages
<1>2. st1[t.current].status = "active" /\ \A s \in Stages \ {t.current} : st1[s] = st[s]
    BY DEF StartStages, StageRow
<1>3. st[t.current].status # "not_started"
    OBVIOUS
<1>. QED
    BY <1>1, <1>2, <1>3, StatusWork

\* Submitting gives the stage the work that opens the next one.
LEMMA SubmitWork ==
    ASSUME NEW st \in [Stages -> StageRow], NEW sub, NEW a \in Stages,
           WorkBehind(st, sub, 0), st[a].status \in {"active", "revision_requested"}
    PROVE  WorkBehind(SubmitStages(st, a), sub, a)
<1>1. ASSUME NEW status \in {"submitted", "completed"},
             NEW st1, st1 = [st EXCEPT ![a].status = status, ![a].started = TRUE]
      PROVE  st1 \in [Stages -> StageRow] /\ WorkBehind(st1, sub, a)
    <2>1. st1 \in [Stages -> StageRow]
        BY <1>1, StageChangeType DEF StageStatuses, OpenStatuses
    <2>2. \A s \in Stages \ {a} : st1[s].status = st[s].status
        BY <1>1
    <2>3. Worked(sub, a, a) /\ st[a].status # "not_started"
        BY DEF Worked
    <2>. QED
        BY <2>1, <2>2, <2>3, StatusWork
<1>2. Worked(sub, a, a)
    BY DEF Worked
<1>. QED
    BY <1>1, <1>2, ActivateNextWork DEF SubmitStages

\* Only a submitted stage is approved.
LEMMA ApproveWork ==
    ASSUME NEW t \in TaskRow, NEW st \in [Stages -> StageRow], NEW sub,
           NEW s \in 0 .. NumStages, WorkBehind(st, sub, 0), Reviewable(t, st, s)
    PROVE  WorkBehind(ApproveStages(t, st, s), sub, 0)
<1> DEFINE a   == Addressed(t, s)
           st1 == [st EXCEPT ![a].status = "completed"]
<1>1. CASE IsFinalApproval(t, s)
    BY <1>1 DEF ApproveStages
<1>2. CASE ~IsFinalApproval(t, s)
    <2>1. a \in Stages /\ st[a].status = "submitted"
        BY <1>2, AddressedType DEF Reviewable
    <2>2. Worked(sub, 0, a)
        BY <2>1 DEF WorkBehind
    <2>3. st1 \in [Stages -> StageRow]
        BY <2>1, StageChangeType DEF StageStatuses
    <2>4. \A r \in Stages \ {a} : st1[r].status = st[r].status
        OBVIOUS
    <2>5. WorkBehind(st1, sub, 0)
        <3> HIDE DEF a, st1
        <3>. QED
            BY <2>1, <2>2, <2>3, <2>4, StatusWork
    <2>. QED
        BY <1>2, <2>1, <2>2, <2>3, <2>5, ActivateNextWork DEF ApproveStages
<1>. QED
    BY <1>1, <1>2

\* A stage sent back was opened before.
LEMMA ReworkWork ==
    ASSUME NEW st \in [Stages -> StageRow], NEW sub, NEW a \in Stages,
           WorkBehind(st, sub, 0), st[a].status # "not_started"
    PROVE  WorkBehind(ReworkStages(st, a), sub, 0)
<1> DEFINE st1 == ReworkStages(st, a)
<1>1. st1 \in [Stages -> StageRow]
    BY ReworkTypes, StageChangeType DEF ReworkStages, StageStatuses, OpenStatuses
<1>2. st1[a].status = "revision_requested" /\ \A s \in Stages \ {a} : st1[s] = st[s]
    BY DEF ReworkStages, StageRow
<1>. QED
    BY <1>1, <1>2, StatusWork

-----------------------------------------------------------------------------
(* What a request is about to write *)

Inserts == {NoInsert} \cup (Stages \X (1 .. MaxVersions))

LoadedRequest == [phase : {"loaded"}, row : TaskRow, missed : 0 .. MaxMissed]

DecidedRequest == [phase     : {"decided"},
                   missed    : 0 .. MaxMissed,
                   task      : TaskWrites,
                   stages    : [Stages -> StageWrites],
                   insert    : Inserts,
                   unflagged : SUBSET (1 .. MaxVersions)]

\* There is work behind every status it writes, the submission it inserts
\* included.  As submissions are never deleted, this outlives the commits of
\* other processes.
Justified(r, sub) ==
    LET i == r.insert[1] IN
    /\ r.insert # NoInsert => r.insert[2] =< sub[i].versions + 1
    /\ \A s \in Stages : "status" \in DOMAIN r.stages[s] =>
        /\ r.stages[s].status \in {"submitted", "completed"} => Worked(sub, i, s)
        /\ s # 1 /\ r.stages[s].status # "not_started" => Worked(sub, i, s - 1)
    /\ "workflow" \in DOMAIN r.task /\ r.task.workflow = "completed" =>
        \A s \in Stages : Worked(sub, i, s)

\* What it writes turns the rows t, st into the rows t1, st1.
Yields(r, t, st, t1, st1) ==
    /\ Written(r.task, t) = t1
    /\ \A s \in Stages : Written(r.stages[s], st[s]) = st1[s]

\* What the handlers of a single process turn the rows t, st, sub into.
Starts(t, st, t1, st1) ==
    \E u \in Users :
        /\ CanStart(u, t, st)
        /\ t1 = StartTask(t, st)
        /\ st1 = StartStages(t, st)

Submits(t, st, sub, t1, st1, insert, unflagged) ==
    \E u \in Users, s \in 0 .. NumStages :
        LET a == Addressed(t, s) IN
        /\ CanSubmit(u, t, st, s)
        /\ NewVersion(sub, a) =< MaxVersions
        /\ t1 = SubmitTask(t, st, sub, a)
        /\ st1 = SubmitStages(st, a)
        /\ insert = <<a, NewVersion(sub, a)>>
        /\ unflagged = sub[a].flagged

Approves(t, st, sub, t1, st1) ==
    \E u \in Users, s \in 0 .. NumStages :
        /\ ~Held(t)
        /\ CanApprove(u, t)
        /\ Reviewable(t, st, s)
        /\ t1 = ApproveTask(u, t, st, sub, s)
        /\ st1 = ApproveStages(t, st, s)

Reworks(t, st, t1, st1) ==
    \E u \in Users, s \in 0 .. NumStages :
        LET a == Addressed(t, s) IN
        /\ ~Held(t)
        /\ CanApprove(u, t)
        /\ a # 0
        /\ st[a].status \in Reworkable(t)
        /\ t1 = ReworkTask(t, st, a)
        /\ st1 = ReworkStages(st, a)

\* Revoking, holding, and lifting the hold.
Revoked(t) == [t EXCEPT !.status = "cancelled", !.editLocked = TRUE, !.resultLocked = TRUE]

Directs(t, st, t1, st1) ==
    /\ t.status \notin Terminal
    /\ st1 = st
    /\ \/ t1 = Revoked(t)
       \/ ~Held(t) /\ t1 = [t EXCEPT !.meta.hold = "open_ended"]
       \/ Held(t) /\ t1 = [t EXCEPT !.meta.hold = "none"]

Handles(t, st, sub, t1, st1) ==
    \/ Starts(t, st, t1, st1)
    \/ Approves(t, st, sub, t1, st1)
    \/ Reworks(t, st, t1, st1)
    \/ Directs(t, st, t1, st1)

\* What a request writes is what a handler of a single process turns the rows
\* into.
YieldsSerial(r, t, st, sub) ==
    \E t1 \in TaskRow, st1 \in [Stages -> StageRow] :
        /\ Yields(r, t, st, t1, st1)
        /\ \/ r.insert = NoInsert /\ Handles(t, st, sub, t1, st1)
           \/ Submits(t, st, sub, t1, st1, r.insert, r.unflagged)

\* The invariant of one request, of the rows, and of both.
RequestOK(r, t, st, sub) ==
    \/ r = Idle
    \/ /\ r \in LoadedRequest
       /\ r.missed = 0 => r.row = t
    \/ /\ r \in DecidedRequest
       /\ Justified(r, sub)
       /\ r.missed = 0 => YieldsSerial(r, t, st, sub)

RowsOK ==
    /\ task \in TaskRow
    /\ stages \in [Stages -> StageRow]
    /\ subs \in [Stages -> SubmissionRows]
    /\ OneCurrentSubmission
    /\ WorkBehind(stages, subs, 0)
    /\ task.workflow = "completed" => \A s \in Stages : subs[s].versions > 0

RequestsOK ==
    /\ request = [p \in Procs |-> request[p]]
    /\ \A p \in Procs : RequestOK(request[p], task, stages, subs)

RacesInv == RowsOK /\ RequestsOK

\* Decide, and the same of Submit and Revoke.
LEMMA DecidedOK ==
    ASSUME NEW t \in TaskRow, NEW t1 \in TaskRow,
           NEW st \in [Stages -> StageRow], NEW st1 \in [Stages -> StageRow],
           NEW sub, NEW missed \in 0 .. MaxMissed, NEW writes \in TaskWrites,
           NEW insert \in Inserts, NEW flags \in SUBSET (1 .. MaxVersions),
           NEW r,
           r = [phase     |-> "decided",
                missed    |-> missed,
                task      |-> writes,
                stages    |-> [s \in Stages |-> Changed(st[s], st1[s])],
                insert    |-> insert,
                unflagged |-> flags],
           insert # NoInsert => insert[2] =< sub[insert[1]].versions + 1,
           WorkBehind(st1, sub, insert[1]),
           "workflow" \in DOMAIN writes /\ writes.workflow = "completed" =>
                \A s \in Stages : Worked(sub, insert[1], s)
    PROVE  /\ r \in DecidedRequest
           /\ Justified(r, sub)
           /\ Written(writes, t) = t1 => Yields(r, t, st, t1, st1)
<1>1. \A s \in Stages :
        /\ r.stages[s] \in StageWrites
        /\ Written(r.stages[s], st[s]) = st1[s]
        /\ "status" \in DOMAIN r.stages[s] => r.stages[s].status = st1[s].status
    BY ChangedStageWrites
<1>2. r.stages \in [Stages -> StageWrites]
    BY <1>1
<1>3. r \in DecidedRequest
    BY <1>2 DEF DecidedRequest
<1>4. Justified(r, sub)
    BY <1>1 DEF Justified, WorkBehind
<1>5. Written(writes, t) = t1 => Yields(r, t, st, t1, st1)
    BY <1>1 DEF Yields
<1>. QED
    BY <1>3, <1>4, <1>5

\* A request is idle, loaded or decided, and its phase says which.
LEMMA RequestPhases ==
    ASSUME NEW r, NEW t, NEW st, NEW sub, RequestOK(r, t, st, sub)
    PROVE  /\ r.phase = "idle" <=> r = Idle
           /\ r.phase = "loaded" <=> r \in LoadedRequest
           /\ r.phase = "decided" <=> r \in DecidedRequest
           /\ r # Idle => r.missed \in 0 .. MaxMissed
BY DEF RequestOK, Idle, LoadedRequest, DecidedRequest

-----------------------------------------------------------------------------
(* The steps before the commit *)

\* They only move the request of one process.
LEMMA RequestMoves ==
    ASSUME RacesInv, NEW p \in Procs, NEW r, Unread,
           request' = [request EXCEPT ![p] = r],
           RequestOK(r, task, stages, subs)
    PROVE  RacesInv'
<1>1. RowsOK'
    BY DEF RacesInv, RowsOK, OneCurrentSubmission, Unread
<1>2. request' = [q \in Procs |-> request'[q]]
    BY DEF RacesInv, RequestsOK
<1>3. ASSUME NEW q \in Procs  PROVE RequestOK(request[q], task, stages, subs)'
    <2>1. request'[q] = IF q = p THEN r ELSE request[q]
        BY DEF RacesInv, RequestsOK
    <2>2. RequestOK(request'[q], task, stages, subs)
        BY <2>1 DEF RacesInv, RequestsOK
    <2>. QED
        BY <2>2 DEF Unread
<1>. QED
    BY <1>1, <1>2, <1>3 DEF RacesInv, RequestsOK

\* What is known of a loaded request and of the rows it is decided on.
LEMMA LoadedRow ==
    ASSUME RacesInv, NEW p \in Procs, request[p].phase = "loaded"
    PROVE  /\ request[p].row \in TaskRow
           /\ request[p].missed \in 0 .. MaxMissed
           /\ request[p].missed = 0 => request[p].row = task
           /\ stages \in [Stages -> StageRow]
           /\ subs \in [Stages -> SubmissionRows]
           /\ WorkBehind(stages, subs, 0)
<1>1. RequestOK(request[p], task, stages, subs)
    BY DEF RacesInv, RequestsOK
<1>2. request[p] \in LoadedRequest /\ request[p] # Idle
    BY <1>1, RequestPhases DEF Idle
<1>3. request[p].missed = 0 => request[p].row = task
    BY <1>1, <1>2 DEF RequestOK, DecidedRequest, LoadedRequest
<1>. QED
    BY <1>2, <1>3 DEF LoadedRequest, RacesInv, RowsOK

\* A handler that inserts no submission decides to write t1, st1.
LEMMA DecideMoves ==
    ASSUME RacesInv, NEW p \in Procs, request[p].phase = "loaded",
           NEW t1 \in TaskRow, NEW st1 \in [Stages -> StageRow],
           Decide(p, t1, st1), Unread,
           WorkBehind(st1, subs, 0),
           t1.workflow # request[p].row.workflow /\ t1.workflow = "completed" =>
                \A s \in Stages : Worked(subs, 0, s),
           Handles(request[p].row, stages, subs, t1, st1)
    PROVE  RacesInv'
<1> DEFINE t      == request[p].row
           writes == ChangedTask(t, t1)
           r      == [phase     |-> "decided",
                      missed    |-> request[p].missed,
                      task      |-> writes,
                      stages    |-> [s \in Stages |-> Changed(stages[s], st1[s])],
                      insert    |-> NoInsert,
                      unflagged |-> {}]
<1>1. /\ t \in TaskRow /\ request[p].missed \in 0 .. MaxMissed
      /\ request[p].missed = 0 => t = task
      /\ stages \in [Stages -> StageRow]
    BY LoadedRow
<1>2. /\ writes \in TaskWrites
      /\ Written(writes, t) = t1
      /\ "workflow" \in DOMAIN writes =>
            t1.workflow # t.workflow /\ writes.workflow = t1.workflow
    BY <1>1, ChangedTaskWrites
<1>3. NoInsert \in Inserts /\ NoInsert[1] = 0
    BY DEF Inserts, NoInsert
<1>4. request' = [request EXCEPT ![p] = r]
    BY DEF Decide
<1>5. /\ r \in DecidedRequest
      /\ Justified(r, subs)
      /\ Yields(r, t, stages, t1, st1)
    <2>1. WorkBehind(st1, subs, NoInsert[1])
        BY <1>3
    <2>2. "workflow" \in DOMAIN writes /\ writes.workflow = "completed" =>
                \A s \in Stages : Worked(subs, NoInsert[1], s)
        BY <1>2, <1>3
    <2> HIDE DEF writes, t
    <2>3. r = [phase     |-> "decided",
               missed    |-> request[p].missed,
               task      |-> writes,
               stages    |-> [s \in Stages |-> Changed(stages[s], st1[s])],
               insert    |-> NoInsert,
               unflagged |-> {}]
        OBVIOUS
    <2> HIDE DEF r
    <2>. QED
        BY <1>1, <1>2, <1>3, <2>1, <2>2, <2>3, DecidedOK
<1>6. r.missed = 0 => YieldsSerial(r, task, stages, subs)
    <2>1. r.insert = NoInsert /\ r.missed = request[p].missed
        OBVIOUS
    <2> HIDE DEF r
    <2>. QED
        BY <1>1, <1>5, <2>1 DEF YieldsSerial
<1>7. RequestOK(r, task, stages, subs)
    BY <1>5, <1>6 DEF RequestOK
<1>. QED
    BY <1>4, <1>7, RequestMoves

\* The handlers.  What a handler loaded may be out of date by now; the stages it
\* looks at are not, and they have work behind them.
LEMMA LoadMoves ==
    ASSUME RacesInv, NEW p \in Procs, Load(p)
    PROVE  RacesInv'
<1>1. task \in TaskRow
    BY DEF RacesInv, RowsOK
<1>2. RequestOK(Loaded(task), task, stages, subs)
    BY <1>1, MissedAssumption DEF RequestOK, LoadedRequest, Loaded
<1>. QED
    BY <1>2, RequestMoves DEF Load

\* Starting looks at the current stage as it is, whatever the task row says.
LEMMA StartMoves ==
    ASSUME RacesInv, NEW p \in Procs, NEW u \in Users, Start(p, u)
    PROVE  RacesInv'
<1> DEFINE t   == request[p].row
           t1  == StartTask(t, stages)
           st1 == StartStages(t, stages)
<1>1. /\ request[p].phase = "loaded" /\ CanStart(u, t, stages)
      /\ Decide(p, t1, st1) /\ Unread
    BY DEF Start
<1>2. /\ t \in TaskRow /\ stages \in [Stages -> StageRow]
      /\ WorkBehind(stages, subs, 0)
    BY <1>1, LoadedRow
<1>3. /\ t.current \in Stages
      /\ stages[t.current].status \in {"active", "revision_requested"}
    BY <1>1, <1>2, StagesAssumption DEF CanStart, TaskRow, Stages
<1>4. t1 \in TaskRow /\ st1 \in [Stages -> StageRow]
    BY <1>1, <1>2, StartTypes DEF CanStart
<1>5. WorkBehind(st1, subs, 0)
    BY <1>2, <1>3, StartWork
<1>6. t1.workflow = "completed" => \A s \in Stages : Worked(subs, 0, s)
    <2>1. Sync(t, st1) \in TaskRow
        BY <1>2, <1>4, SyncType
    <2>2. t1.workflow = Sync(t, st1).workflow
        BY <2>1 DEF StartTask, TaskRow
    <2>. QED
        BY <1>2, <1>4, <1>5, <2>2, SyncCompleted
<1>7. Handles(t, stages, subs, t1, st1)
    BY <1>1 DEF Handles, Starts
<1>. QED
    BY <1>1, <1>4, <1>5, <1>6, <1>7, DecideMoves

\* Approving finds the stage submitted, so that its work is there.
LEMMA ApproveMoves ==
    ASSUME RacesInv, NEW p \in Procs, NEW u \in Users, NEW s \in 0 .. NumStages,
           Approve(p, u, s)
    PROVE  RacesInv'
<1> DEFINE t   == request[p].row
           t1  == ApproveTask(u, t, stages, subs, s)
           st1 == ApproveStages(t, stages, s)
<1>1. /\ request[p].phase = "loaded"
      /\ ~Held(t) /\ CanApprove(u, t) /\ Reviewable(t, stages, s)
      /\ Decide(p, t1, st1) /\ Unread
    BY DEF Approve
<1>2. /\ t \in TaskRow /\ stages \in [Stages -> StageRow]
      /\ subs \in [Stages -> SubmissionRows]
      /\ WorkBehind(stages, subs, 0)
    BY <1>1, LoadedRow
<1>3. t1 \in TaskRow /\ st1 \in [Stages -> StageRow]
    BY <1>1, <1>2, ApproveTypes
<1>4. WorkBehind(st1, subs, 0)
    BY <1>1, <1>2, ApproveWork
<1>5. PICK t0 \in TaskRow : t1 = Sync(t0, st1)
    BY <1>1, <1>2, ApproveTypes
<1>6. t1.workflow = "completed" => \A r \in Stages : Worked(subs, 0, r)
    BY <1>3, <1>4, <1>5, SyncCompleted
<1>7. Handles(t, stages, subs, t1, st1)
    BY <1>1 DEF Handles, Approves
<1>. QED
    BY <1>1, <1>3, <1>4, <1>6, <1>7, DecideMoves

\* Sending back finds the stage opened.
LEMMA RequestImprovementMoves ==
    ASSUME RacesInv, NEW p \in Procs, NEW u \in Users, NEW s \in 0 .. NumStages,
           RequestImprovement(p, u, s)
    PROVE  RacesInv'
<1> DEFINE t   == request[p].row
           a   == Addressed(t, s)
           t1  == ReworkTask(t, stages, a)
           st1 == ReworkStages(stages, a)
<1>1. /\ request[p].phase = "loaded"
      /\ ~Held(t) /\ CanApprove(u, t) /\ a # 0 /\ stages[a].status \in Reworkable(t)
      /\ Decide(p, t1, st1) /\ Unread
    BY DEF RequestImprovement
<1>2. /\ t \in TaskRow /\ stages \in [Stages -> StageRow]
      /\ WorkBehind(stages, subs, 0)
    BY <1>1, LoadedRow
<1>3. a \in Stages /\ stages[a].status # "not_started"
    BY <1>1, <1>2, AddressedType DEF Reworkable
<1>4. t1 \in TaskRow /\ st1 \in [Stages -> StageRow]
    BY <1>2, <1>3, ReworkTypes
<1>5. WorkBehind(st1, subs, 0)
    BY <1>2, <1>3, ReworkWork
<1>6. t1.workflow = "completed" => \A r \in Stages : Worked(subs, 0, r)
    <2>1. [t EXCEPT !.meta.finalPending = FALSE] \in TaskRow
        BY <1>2, MetaType
    <2>2. t1 = Sync([t EXCEPT !.meta.finalPending = FALSE], st1)
        BY DEF ReworkTask
    <2>. QED
        BY <1>4, <1>5, <2>1, <2>2, SyncCompleted
<1>7. Handles(t, stages, subs, t1, st1)
    BY <1>1 DEF Handles, Reworks
<1>. QED
    BY <1>1, <1>4, <1>5, <1>6, <1>7, DecideMoves

\* Holding a task and lifting the hold write its metadata.
LEMMA HoldMoves ==
    ASSUME RacesInv, NEW p \in Procs, Hold(p) \/ Unhold(p)
    PROVE  RacesInv'
<1> DEFINE t == request[p].row
<1>1. request[p].phase = "loaded" /\ t.status \notin Terminal /\ Unread
    BY DEF Hold, Unhold
<1>2. /\ t \in TaskRow /\ stages \in [Stages -> StageRow]
      /\ WorkBehind(stages, subs, 0)
    BY <1>1, LoadedRow
<1>3. CASE Hold(p)
    <2> DEFINE t1 == [t EXCEPT !.meta.hold = "open_ended"]
    <2>1. Decide(p, t1, stages) /\ ~Held(t)
        BY <1>3 DEF Hold
    <2>2. t1 \in TaskRow /\ t1.workflow = t.workflow
        BY <1>2, MetaType DEF TaskRow
    <2>3. Handles(t, stages, subs, t1, stages)
        BY <1>1, <2>1 DEF Handles, Directs
    <2>. QED
        BY <1>1, <1>2, <2>1, <2>2, <2>3, DecideMoves
<1>4. CASE Unhold(p)
    <2> DEFINE t1 == [t EXCEPT !.meta.hold = "none"]
    <2>1. Decide(p, t1, stages) /\ Held(t)
        BY <1>4 DEF Unhold
    <2>2. t1 \in TaskRow /\ t1.workflow = t.workflow
        BY <1>2, MetaType DEF TaskRow
    <2>3. Handles(t, stages, subs, t1, stages)
        BY <1>1, <2>1 DEF Handles, Directs
    <2>. QED
        BY <1>1, <1>2, <2>1, <2>2, <2>3, DecideMoves
<1>. QED
    BY <1>3, <1>4

\* Revoking writes the metadata besides what it changed.
LEMMA RevokeMoves ==
    ASSUME RacesInv, NEW p \in Procs, Revoke(p)
    PROVE  RacesInv'
<1> DEFINE t       == request[p].row
           columns == Differing(t, Revoked(t)) \cup {"meta"}
           writes  == [f \in columns |-> Revoked(t)[f]]
           r       == [phase     |-> "decided",
                       missed    |-> request[p].missed,
                       task      |-> writes,
                       stages    |-> [s \in Stages |-> Changed(stages[s], stages[s])],
                       insert    |-> NoInsert,
                       unflagged |-> {}]
<1>1. /\ request[p].phase = "loaded" /\ t.status \notin Terminal /\ Unread
      /\ request' = [request EXCEPT ![p] = r]
    BY DEF Revoke, Revoked
<1>2. /\ t \in TaskRow /\ request[p].missed \in 0 .. MaxMissed
      /\ request[p].missed = 0 => t = task
      /\ stages \in [Stages -> StageRow]
      /\ WorkBehind(stages, subs, 0)
    BY <1>1, LoadedRow
<1>3. Revoked(t) \in TaskRow /\ Revoked(t).workflow = t.workflow
    BY <1>2 DEF Revoked, TaskRow, TaskStatuses
<1>4. columns \in SUBSET TaskColumns /\ Differing(t, Revoked(t)) \subseteq columns
    BY <1>3, TaskColumn DEF Differing, TaskColumns
<1>5. writes \in TaskWrites /\ Written(writes, t) = Revoked(t)
    BY <1>2, <1>3, <1>4, TaskOverwritten
<1>6. "workflow" \notin DOMAIN writes
    BY <1>3 DEF Differing
<1>7. WorkBehind(stages, subs, NoInsert[1]) /\ NoInsert \in Inserts
    BY <1>2 DEF NoInsert, Inserts
<1>8. Handles(t, stages, subs, Revoked(t), stages)
    BY <1>1 DEF Handles, Directs
<1>9. RequestOK(r, task, stages, subs)
    <2> HIDE DEF writes, t
    <2>1. /\ r = [phase     |-> "decided",
                  missed    |-> request[p].missed,
                  task      |-> writes,
                  stages    |-> [s \in Stages |-> Changed(stages[s], stages[s])],
                  insert    |-> NoInsert,
                  unflagged |-> {}]
          /\ r.insert = NoInsert /\ r.missed = request[p].missed
        OBVIOUS
    <2> HIDE DEF r
    <2>2. /\ r \in DecidedRequest
          /\ Justified(r, subs)
          /\ Yields(r, t, stages, Revoked(t), stages)
        BY <1>2, <1>3, <1>5, <1>6, <1>7, <2>1, DecidedOK
    <2>3. r.missed = 0 => YieldsSerial(r, task, stages, subs)
        BY <1>2, <1>3, <1>8, <2>1, <2>2 DEF YieldsSerial
    <2>. QED
        BY <2>2, <2>3 DEF RequestOK
<1>. QED
    BY <1>1, <1>9, RequestMoves

\* Submitting counts the versions that are there now.
LEMMA SubmitMoves ==
    ASSUME RacesInv, NEW p \in Procs, NEW u \in Users, NEW s \in 0 .. NumStages,
           Submit(p, u, s)
    PROVE  RacesInv'
<1> DEFINE t      == request[p].row
           a      == Addressed(t, s)
           t1     == SubmitTask(t, stages, subs, a)
           st1    == SubmitStages(stages, a)
           insert == <<a, NewVersion(subs, a)>>
           writes == ChangedTask(t, t1)
           r      == [phase     |-> "decided",
                      missed    |-> request[p].missed,
                      task      |-> writes,
                      stages    |-> [q \in Stages |-> Changed(stages[q], st1[q])],
                      insert    |-> insert,
                      unflagged |-> subs[a].flagged]
<1>1. /\ request[p].phase = "loaded" /\ Unread
      /\ CanSubmit(u, t, stages, s)
      /\ NewVersion(subs, a) =< MaxVersions
      /\ request' = [request EXCEPT ![p] = r]
    BY DEF Submit
<1>2. /\ t \in TaskRow /\ request[p].missed \in 0 .. MaxMissed
      /\ request[p].missed = 0 => t = task
      /\ stages \in [Stages -> StageRow]
      /\ subs \in [Stages -> SubmissionRows]
      /\ WorkBehind(stages, subs, 0)
    BY <1>1, LoadedRow
<1>3. a \in Stages /\ stages[a].status \in {"active", "revision_requested"}
    BY <1>1, <1>2, AddressedType DEF CanSubmit
<1>4. /\ NewVersion(subs, a) \in 1 .. MaxVersions
      /\ t1 \in TaskRow /\ st1 \in [Stages -> StageRow]
    BY <1>1, <1>2, <1>3, SubmitTypes
<1>5. PICK t0 \in TaskRow : t1 = Sync(t0, st1)
    BY <1>1, <1>2, <1>3, SubmitTypes
<1>6. /\ insert \in Inserts /\ insert[1] = a /\ insert[2] = subs[a].versions + 1
      /\ subs[a].flagged \in SUBSET (1 .. MaxVersions)
    BY <1>2, <1>3, <1>4 DEF Inserts, NewVersion, SubmissionRows
<1>7. /\ writes \in TaskWrites
      /\ Written(writes, t) = t1
      /\ "workflow" \in DOMAIN writes => writes.workflow = t1.workflow
    BY <1>2, <1>4, ChangedTaskWrites
<1>8. WorkBehind(st1, subs, a)
    BY <1>2, <1>3, SubmitWork
<1>9. t1.workflow = "completed" => \A q \in Stages : Worked(subs, a, q)
    BY <1>4, <1>5, <1>8, SyncCompleted
<1>10. Submits(t, stages, subs, t1, st1, insert, subs[a].flagged)
    BY <1>1 DEF Submits
<1>11. RequestOK(r, task, stages, subs)
    <2>1. /\ insert # NoInsert => insert[2] =< subs[insert[1]].versions + 1
          /\ WorkBehind(st1, subs, insert[1])
          /\ "workflow" \in DOMAIN writes /\ writes.workflow = "completed" =>
                \A q \in Stages : Worked(subs, insert[1], q)
        BY <1>2, <1>3, <1>6, <1>7, <1>8, <1>9 DEF SubmissionRows
    <2> HIDE DEF insert, writes, t1, st1, a, t
    <2>2. /\ r = [phase     |-> "decided",
                  missed    |-> request[p].missed,
                  task      |-> writes,
                  stages    |-> [q \in Stages |-> Changed(stages[q], st1[q])],
                  insert    |-> insert,
                  unflagged |-> subs[a].flagged]
          /\ r.insert = insert /\ r.unflagged = subs[a].flagged
          /\ r.missed = request[p].missed
        OBVIOUS
    <2> HIDE DEF r
    <2>3. /\ r \in DecidedRequest
          /\ Justified(r, subs)
          /\ Yields(r, t, stages, t1, st1)
        BY <1>2, <1>4, <1>6, <1>7, <2>1, <2>2, DecidedOK
    <2>4. r.missed = 0 => YieldsSerial(r, task, stages, subs)
        BY <1>2, <1>4, <1>10, <2>2, <2>3 DEF YieldsSerial
    <2>. QED
        BY <2>3, <2>4 DEF RequestOK
<1>. QED
    BY <1>1, <1>11, RequestMoves

\* Nothing of the transaction remains.
LEMMA RollbackMoves ==
    ASSUME RacesInv, NEW p \in Procs, Rollback(p)
    PROVE  RacesInv'
<1>1. RequestOK(Idle, task, stages, subs)
    BY DEF RequestOK
<1>. QED
    BY <1>1, RequestMoves DEF Rollback

-----------------------------------------------------------------------------
(* The commit *)

\* The unique indexes let in the version that comes next and no other, whatever
\* was submitted since the handler counted; and no stage loses its work.
LEMMA CommitSubmissions ==
    ASSUME RacesInv, NEW p \in Procs, Commit(p)
    PROVE  /\ subs' \in [Stages -> SubmissionRows]
           /\ OneCurrentSubmission'
           /\ \A s \in Stages :
                /\ subs'[s].versions >= subs[s].versions
                /\ Worked(subs, request[p].insert[1], s) => subs'[s].versions > 0
<1> DEFINE r == request[p]
           a == r.insert[1]
           v == r.insert[2]
<1>1. /\ r \in DecidedRequest /\ Justified(r, subs)
      /\ subs \in [Stages -> SubmissionRows] /\ OneCurrentSubmission
    <2>1. RequestOK(r, task, stages, subs) /\ r.phase = "decided"
        BY DEF RacesInv, RequestsOK, Commit
    <2>. QED
        BY <2>1 DEF RacesInv, RowsOK, RequestOK, Idle, LoadedRequest
<1>2. r.insert \in Inserts /\ r.unflagged \in SUBSET (1 .. MaxVersions)
    BY <1>1 DEF DecidedRequest
<1>3. subs' = [s \in Stages |->
                IF s = a THEN [versions |-> subs[s].versions + 1,
                               flagged  |-> (subs[s].flagged \ r.unflagged) \cup {v}]
                ELSE subs[s]]
    BY DEF Commit
<1>4. Insertable(p)
    BY DEF Commit
<1>5. \A s \in Stages : subs[s].versions \in 0 .. MaxVersions
    BY <1>1 DEF SubmissionRows
<1> HIDE DEF r
<1>6. CASE r.insert = NoInsert
    <2>1. a = 0 /\ \A s \in Stages : s # 0
        BY <1>6 DEF NoInsert, Stages
    <2>2. subs' = subs
        BY <1>1, <1>3, <2>1
    <2>3. subs' \in [Stages -> SubmissionRows] /\ OneCurrentSubmission'
        BY <1>1, <2>2 DEF OneCurrentSubmission
    <2>4. \A s \in Stages :
            /\ subs'[s].versions >= subs[s].versions
            /\ Worked(subs, a, s) => subs'[s].versions > 0
        BY <1>5, <2>1, <2>2, BoundsAssumption DEF Worked
    <2>. QED
        BY <2>3, <2>4 DEF r
<1>7. CASE r.insert # NoInsert
    <2>1. a \in Stages /\ v \in 1 .. MaxVersions
        BY <1>2, <1>7 DEF Inserts
    <2>2. v =< subs[a].versions + 1
        BY <1>1, <1>7 DEF Justified
    <2>3. v \notin 1 .. subs[a].versions /\ subs[a].flagged \ r.unflagged = {}
        BY <1>4, <1>7 DEF Insertable, r
    <2>4. v = subs[a].versions + 1
        BY <1>5, <2>1, <2>2, <2>3, BoundsAssumption
    <2>5. subs'[a] = [versions |-> v, flagged |-> {v}]
        BY <1>3, <2>1, <2>3, <2>4
    <2>6. \A s \in Stages \ {a} : subs'[s] = subs[s]
        BY <1>3
    <2>7. subs' \in [Stages -> SubmissionRows]
        <3>1. subs'[a] \in SubmissionRows
            BY <2>1, <2>5, BoundsAssumption DEF SubmissionRows
        <3>. QED
            BY <1>1, <1>3, <2>6, <3>1
    <2>8. OneCurrentSubmission'
        BY <1>1, <2>1, <2>5, <2>6 DEF OneCurrentSubmission
    <2>9. \A s \in Stages :
            /\ subs'[s].versions >= subs[s].versions
            /\ Worked(subs, a, s) => subs'[s].versions > 0
        BY <1>5, <2>1, <2>4, <2>5, <2>6, BoundsAssumption DEF Worked
    <2>. QED
        BY <2>7, <2>8, <2>9 DEF r
<1>. QED
    BY <1>6, <1>7 DEF r

\* The columns written have work behind them, and so have those left alone.
LEMMA CommitRows ==
    ASSUME RacesInv, NEW p \in Procs, Commit(p)
    PROVE  RowsOK'
<1> DEFINE r == request[p]
           i == r.insert[1]
<1>1. r \in DecidedRequest /\ Justified(r, subs)
    <2>1. RequestOK(r, task, stages, subs) /\ r.phase = "decided"
        BY DEF RacesInv, RequestsOK, Commit
    <2>. QED
        BY <2>1 DEF RequestOK, Idle, LoadedRequest
<1>2. r.task \in TaskWrites /\ r.stages \in [Stages -> StageWrites]
    BY <1>1 DEF DecidedRequest
<1>3. /\ task \in TaskRow /\ stages \in [Stages -> StageRow]
      /\ subs \in [Stages -> SubmissionRows]
      /\ WorkBehind(stages, subs, 0)
      /\ task.workflow = "completed" => \A s \in Stages : subs[s].versions > 0
    BY DEF RacesInv, RowsOK
<1>4. /\ task' = Written(r.task, task)
      /\ stages' = [s \in Stages |-> Written(r.stages[s], stages[s])]
    BY DEF Commit
<1>5. /\ subs' \in [Stages -> SubmissionRows]
      /\ OneCurrentSubmission'
      /\ \A s \in Stages : Worked(subs, i, s) => subs'[s].versions > 0
    BY CommitSubmissions
<1>6. \A s \in Stages : subs[s].versions > 0 => subs'[s].versions > 0
    BY <1>5 DEF Worked
<1> HIDE DEF r
<1>7. /\ task' \in TaskRow
      /\ task'.workflow = "completed" => \A s \in Stages : subs'[s].versions > 0
    <2>1. task'.workflow = IF "workflow" \in DOMAIN r.task THEN r.task.workflow
                           ELSE task.workflow
        BY <1>2, <1>3, <1>4, WrittenTask
    <2>. QED
        BY <1>1, <1>2, <1>3, <1>4, <1>5, <1>6, <2>1, WrittenTask DEF Justified
<1>8. \A s \in Stages :
        /\ stages'[s] \in StageRow
        /\ stages'[s].status = IF "status" \in DOMAIN r.stages[s] THEN r.stages[s].status
                               ELSE stages[s].status
    BY <1>2, <1>3, <1>4, WrittenStage
<1>9. stages' \in [Stages -> StageRow]
    BY <1>4, <1>8
<1>10. WorkBehind(stages', subs', 0)
    <2>1. ASSUME NEW s \in Stages
          PROVE  /\ stages'[s].status \in {"submitted", "completed"} => Worked(subs', 0, s)
                 /\ s # 1 /\ stages'[s].status # "not_started" => Worked(subs', 0, s - 1)
        <3>1. s # 0 /\ (s # 1 => s - 1 \in Stages /\ s - 1 # 0)
            BY StagesAssumption DEF Stages
        <3>2. stages'[s].status \in {"submitted", "completed"} => subs'[s].versions > 0
            BY <1>1, <1>3, <1>5, <1>6, <1>8, <3>1 DEF Justified, WorkBehind, Worked
        <3>3. s # 1 /\ stages'[s].status # "not_started" => subs'[s - 1].versions > 0
            <4>1. Worked(subs, 0, s - 1) \/ Worked(subs, i, s - 1) => subs'[s - 1].versions > 0
                \/ s = 1
                BY <1>5, <1>6, <3>1 DEF Worked
            <4>. QED
                BY <1>1, <1>3, <1>8, <4>1 DEF Justified, WorkBehind
        <3>. QED
            BY <3>2, <3>3 DEF Worked
    <2>. QED
        BY <2>1 DEF WorkBehind
<1>. QED
    BY <1>5, <1>7, <1>9, <1>10 DEF RowsOK

\* A request of another process stays justified, and knows that it missed a
\* commit.
LEMMA CommitRequests ==
    ASSUME RacesInv, NEW p \in Procs, Commit(p)
    PROVE  RequestsOK'
<1>1. request' = [q \in Procs |->
                    IF q = p \/ request[q] = Idle THEN Idle
                    ELSE [request[q] EXCEPT !.missed = @ + 1]]
    BY DEF Commit
<1>2. ASSUME NEW q \in Procs, q # p, request[q] # Idle
      PROVE  RequestOK(request'[q], task', stages', subs')
    <2> DEFINE r  == request[q]
               r1 == [r EXCEPT !.missed = @ + 1]
    <2>1. request'[q] = r1
        BY <1>1, <1>2
    <2>2. RequestOK(r, task, stages, subs)
        BY DEF RacesInv, RequestsOK
    <2>3. r.missed + 1 \in 0 .. MaxMissed /\ r.missed + 1 # 0
        BY <1>2, <2>2, RequestPhases, MissedAssumption DEF Commit
    <2>4. CASE r \in LoadedRequest
        BY <2>1, <2>3, <2>4 DEF LoadedRequest, RequestOK
    <2>5. CASE r \in DecidedRequest /\ Justified(r, subs)
        <3>1. r1 \in DecidedRequest /\ r1.missed # 0
            BY <2>3, <2>5 DEF DecidedRequest
        <3>2. /\ r1.insert = r.insert /\ r1.stages = r.stages /\ r1.task = r.task
              /\ r.insert \in Inserts
            BY <2>5 DEF DecidedRequest
        <3>3. \A s \in Stages : /\ subs[s].versions \in Nat /\ subs'[s].versions \in Nat
                                /\ subs'[s].versions >= subs[s].versions
            BY CommitSubmissions, BoundsAssumption DEF RacesInv, RowsOK, SubmissionRows
        <3>4. \A s \in Stages : Worked(subs, r.insert[1], s) => Worked(subs', r.insert[1], s)
            BY <3>3 DEF Worked
        <3>5. \A s \in Stages : s # 1 => s - 1 \in Stages
            BY StagesAssumption DEF Stages
        <3>6. r.insert # NoInsert => /\ r.insert[1] \in Stages
                                     /\ r.insert[2] \in Nat
            BY <3>2 DEF Inserts
        <3>7. Justified(r1, subs')
            BY <2>5, <3>2, <3>3, <3>4, <3>5, <3>6 DEF Justified
        <3>. QED
            BY <2>1, <3>1, <3>7 DEF RequestOK
    <2>. QED
        BY <1>2, <2>2, <2>4, <2>5 DEF RequestOK
<1>3. ASSUME NEW q \in Procs  PROVE RequestOK(request[q], task, stages, subs)'
    BY <1>1, <1>2 DEF RequestOK
<1>. QED
    BY <1>1, <1>3 DEF RequestsOK

-----------------------------------------------------------------------------
(* The theorems *)

\* create_task leaves no request behind.
LEMMA InitRaces == Init => RacesInv
<1> SUFFICES ASSUME NEW plan \in Plans, NEW finalRequired \in BOOLEAN,
                    NEW d \in Departments,
                    task = TaskOf(plan, finalRequired, d),
                    stages = StagesOf(plan),
                    subs = NoSubmissions,
                    request = [p \in Procs |-> Idle]
             PROVE  RacesInv
    BY DEF Init
<1>1. task \in TaskRow /\ stages \in [Stages -> StageRow]
    BY TaskOfType, StagesOfType
<1>2. subs \in [Stages -> SubmissionRows] /\ OneCurrentSubmission
    BY BoundsAssumption DEF NoSubmissions, SubmissionRows, OneCurrentSubmission
<1>3. \A s \in Stages : stages[s].status = IF s = 1 THEN "active" ELSE "not_started"
    BY DEF StagesOf
<1>4. WorkBehind(stages, subs, 0)
    BY <1>3 DEF WorkBehind
<1>5. task.workflow # "completed"
    <2>1. 1 \in Stages
        BY StagesAssumption DEF Stages
    <2>2. InStatus(stages, "active") # {} /\ InStatus(stages, "completed") # Stages
        BY <1>3, <2>1 DEF InStatus
    <2> DEFINE row == [status |-> "pending", workflow |-> "active", current |-> 1,
          assignees |-> plan[1].assignees, finalRequired |-> finalRequired,
          completedAt |-> FALSE, department |-> d,
          editLocked |-> FALSE, resultLocked |-> TRUE, result |-> NoResult,
          meta |-> [finalPending |-> FALSE, hold |-> "none", links |-> NoResult]]
    <2>3. task = Sync(row, stages)
        BY DEF TaskOf
    <2>4. \A s, workflow, status :
            Summary(row, stages, s, workflow, status).workflow = workflow
        BY DEF Summary
    <2> HIDE DEF row
    <2>. QED
        BY <2>2, <2>3, <2>4 DEF Sync
<1>6. RequestsOK
    BY DEF RequestsOK, RequestOK
<1>. QED
    BY <1>1, <1>2, <1>4, <1>5, <1>6 DEF RacesInv, RowsOK

\* Every step of every process keeps the invariant.
LEMMA NextRaces == RacesInv /\ [Next]_vars => RacesInv'
<1> SUFFICES ASSUME RacesInv, [Next]_vars  PROVE RacesInv'
    OBVIOUS
<1>1. ASSUME NEW p \in Procs, Load(p)  PROVE RacesInv'
    BY <1>1, LoadMoves
<1>2. ASSUME NEW p \in Procs, NEW u \in Users, Start(p, u)  PROVE RacesInv'
    BY <1>2, StartMoves
<1>3. ASSUME NEW p \in Procs, NEW u \in Users, NEW s \in 0 .. NumStages,
             Submit(p, u, s) \/ Approve(p, u, s) \/ RequestImprovement(p, u, s)
      PROVE  RacesInv'
    BY <1>3, SubmitMoves, ApproveMoves, RequestImprovementMoves
<1>4. ASSUME NEW p \in Procs, Revoke(p) \/ Hold(p) \/ Unhold(p)  PROVE RacesInv'
    BY <1>4, RevokeMoves, HoldMoves
<1>5. ASSUME NEW p \in Procs, Commit(p)  PROVE RacesInv'
    BY <1>5, CommitRows, CommitRequests DEF RacesInv
<1>6. ASSUME NEW p \in Procs, Rollback(p)  PROVE RacesInv'
    BY <1>6, RollbackMoves
<1>7. CASE UNCHANGED vars
    BY <1>7 DEF vars, RacesInv, RowsOK, OneCurrentSubmission, RequestsOK
<1>. QED
    BY <1>1, <1>2, <1>3, <1>4, <1>5, <1>6, <1>7 DEF Next

\* The rows and the requests are always as they should be.
LEMMA RacesInvariant == Spec => []RacesInv
BY InitRaces, NextRaces, PTL DEF Spec

\* The rows stay well formed under all interleavings.
THEOREM TypeCorrect == Spec => []TypeOK
<1>1. RacesInv => TypeOK
    BY RequestPhases DEF RacesInv, RowsOK, RequestsOK, TypeOK
<1>. QED
    BY <1>1, RacesInvariant, PTL

\* Racing submissions leave one current submission, the last.
THEOREM LastSubmissionIsCurrent == Spec => []OneCurrentSubmission
<1>1. RacesInv => OneCurrentSubmission
    BY DEF RacesInv, RowsOK
<1>. QED
    BY <1>1, RacesInvariant, PTL

\* No interleaving accepts a stage or the workflow without work.
THEOREM AcceptedWork == Spec => []AcceptedHasWork
<1>1. RacesInv => AcceptedHasWork
    <2>1. \A s \in Stages : s # 0
        BY DEF Stages
    <2>. QED
        BY <2>1 DEF RacesInv, RowsOK, WorkBehind, Worked, AcceptedHasWork
<1>. QED
    BY <1>1, RacesInvariant, PTL

\* No interleaving opens a stage before the one in front of it has submitted.
THEOREM StagesOpenInOrder == Spec => []OpenedInOrder
<1>1. RacesInv => OpenedInOrder
    <2>1. \A s \in Stages : s # 1 => s - 1 # 0
        BY DEF Stages
    <2>. QED
        BY <2>1 DEF RacesInv, RowsOK, WorkBehind, Worked, OpenedInOrder
<1>. QED
    BY <1>1, RacesInvariant, PTL

-----------------------------------------------------------------------------
(* One process *)

\* StagedWorkflow runs the same operators of WorkflowRows: what it checks, ...
LEMMA SameChecks ==
    /\ Serial!Stages = Stages
    /\ Serial!Terminal = Terminal
    /\ \A t : Serial!Held(t) = Held(t)
    /\ \A t : Serial!Reworkable(t) = Reworkable(t)
    /\ \A u, t : Serial!CanApprove(u, t) = CanApprove(u, t)
    /\ \A u, t, st : Serial!CanStart(u, t, st) = CanStart(u, t, st)
    /\ \A u, t, st, s : Serial!CanSubmit(u, t, st, s) = CanSubmit(u, t, st, s)
    /\ \A t, st, s : Serial!Reviewable(t, st, s) = Reviewable(t, st, s)
    /\ \A t, s : Serial!Addressed(t, s) = Addressed(t, s)
    /\ \A sub, s : Serial!NewVersion(sub, s) = NewVersion(sub, s)
<1>1. /\ Serial!Stages = Stages
      /\ Serial!Terminal = Terminal
      /\ \A t : Serial!Held(t) = Held(t)
      /\ \A t : Serial!Reworkable(t) = Reworkable(t)
      /\ \A t, s : Serial!Addressed(t, s) = Addressed(t, s)
      /\ \A sub, s : Serial!NewVersion(sub, s) = NewVersion(sub, s)
    BY DEF Serial!Stages, Stages, Serial!Terminal, Terminal, Serial!Held, Held,
           Serial!Reworkable, Reworkable, Serial!Addressed, Addressed,
           Serial!NewVersion, NewVersion
<1>2. \A u, t : Serial!CanApprove(u, t) = CanApprove(u, t)
    BY DEF Serial!CanApprove, CanApprove, Serial!Approvable, Approvable
<1>3. \A u, t, st : Serial!CanStart(u, t, st) = CanStart(u, t, st)
    BY <1>1 DEF Serial!CanStart, CanStart, Serial!ActiveAssignees, ActiveAssignees
<1>4. \A u, t, st, s : Serial!CanSubmit(u, t, st, s) = CanSubmit(u, t, st, s)
    BY <1>1 DEF Serial!CanSubmit, CanSubmit, Serial!ActiveAssignees, ActiveAssignees
<1>5. \A t, st, s : Serial!Reviewable(t, st, s) = Reviewable(t, st, s)
    BY <1>1 DEF Serial!Reviewable, Reviewable, Serial!IsFinalApproval, IsFinalApproval
<1>. QED
    BY <1>1, <1>2, <1>3, <1>4, <1>5

\* ... and what it writes.
LEMMA SameSync == \A t, st : Serial!Sync(t, st) = Sync(t, st)
BY DEF Serial!Sync, Sync, Serial!Summary, Summary, Serial!InStatus, InStatus,
       Serial!Min, Min, Serial!ActiveAssignees, ActiveAssignees, Serial!Stages, Stages

\* The rows its handlers compute.
LEMMA SameWrites ==
    /\ \A t, st : Serial!StartStages(t, st) = StartStages(t, st)
    /\ \A t, st : Serial!StartTask(t, st) = StartTask(t, st)
    /\ \A st, a : Serial!SubmitStages(st, a) = SubmitStages(st, a)
    /\ \A t, st, sub, a : Serial!SubmitTask(t, st, sub, a) = SubmitTask(t, st, sub, a)
    /\ \A sub, a : Serial!AddSubmission(sub, a) = AddSubmission(sub, a)
    /\ \A t, st, s : Serial!ApproveStages(t, st, s) = ApproveStages(t, st, s)
    /\ \A u, t, st, sub, s :
            Serial!ApproveTask(u, t, st, sub, s) = ApproveTask(u, t, st, sub, s)
    /\ \A st, a : Serial!ReworkStages(st, a) = ReworkStages(st, a)
    /\ \A t, st, a : Serial!ReworkTask(t, st, a) = ReworkTask(t, st, a)
<1>1. \A st, a : Serial!ActivateNext(st, a) = ActivateNext(st, a)
    BY DEF Serial!ActivateNext, ActivateNext
<1>2. \A t, st : Serial!StartStages(t, st) = StartStages(t, st)
    BY DEF Serial!StartStages, StartStages
<1>3. \A t, st : Serial!StartTask(t, st) = StartTask(t, st)
    BY <1>2, SameSync DEF Serial!StartTask, StartTask
<1>4. \A st, a : Serial!SubmitStages(st, a) = SubmitStages(st, a)
    BY <1>1 DEF Serial!SubmitStages, SubmitStages
<1>5. \A t, st, sub, a : Serial!SubmitTask(t, st, sub, a) = SubmitTask(t, st, sub, a)
    <2> DEFINE Pending(t, b) == [t EXCEPT !.meta.finalPending = b]
               Last(t, st, a) == ~st[a].approval /\ a = NumStages /\ t.finalRequired
    <2>1. \A t, st, sub, a :
            /\ Serial!SubmitTask(t, st, sub, a) =
                 Serial!Sync(Pending(Serial!Mirror(t, a, Serial!NewVersion(sub, a)),
                                     Last(t, st, a)),
                             Serial!SubmitStages(st, a))
            /\ SubmitTask(t, st, sub, a) =
                 Sync(Pending(Mirror(t, a, NewVersion(sub, a)), Last(t, st, a)),
                      SubmitStages(st, a))
        BY DEF Serial!SubmitTask, SubmitTask
    <2>2. \A t, s, v : Serial!Mirror(t, s, v) = Mirror(t, s, v)
        BY DEF Serial!Mirror, Mirror
    <2> HIDE DEF Pending, Last
    <2>. QED
        BY <1>4, <2>1, <2>2, SameSync, SameChecks
<1>6. \A sub, a : Serial!AddSubmission(sub, a) = AddSubmission(sub, a)
    BY SameChecks DEF Serial!AddSubmission, AddSubmission
<1>7. \A t, s : Serial!IsFinalApproval(t, s) = IsFinalApproval(t, s)
    BY DEF Serial!IsFinalApproval, IsFinalApproval
<1>8. \A t, st, s : Serial!ApproveStages(t, st, s) = ApproveStages(t, st, s)
    BY <1>1, <1>7, SameChecks DEF Serial!ApproveStages, ApproveStages
<1>9. \A u, t, st, sub, s :
            Serial!ApproveTask(u, t, st, sub, s) = ApproveTask(u, t, st, sub, s)
    <2> DEFINE Reviewed(t, x, b) == [t EXCEPT !.result = x, !.meta.finalPending = b]
               Last(u, t, a) == a = NumStages /\ t.finalRequired /\ u # Creator
    <2>1. \A u, t, st, sub, s :
            /\ Serial!ApproveTask(u, t, st, sub, s) =
                 LET a == Serial!Addressed(t, s) IN
                 Serial!Sync(Reviewed(t, IF Serial!IsFinalApproval(t, s) \/ sub[a].flagged = {}
                                         THEN t.result ELSE <<a, Serial!Min(sub[a].flagged)>>,
                                      ~Serial!IsFinalApproval(t, s) /\ Last(u, t, a)),
                             Serial!ApproveStages(t, st, s))
            /\ ApproveTask(u, t, st, sub, s) =
                 LET a == Addressed(t, s) IN
                 Sync(Reviewed(t, IF IsFinalApproval(t, s) \/ sub[a].flagged = {}
                                  THEN t.result ELSE <<a, Min(sub[a].flagged)>>,
                               ~IsFinalApproval(t, s) /\ Last(u, t, a)),
                      ApproveStages(t, st, s))
        BY DEF Serial!ApproveTask, ApproveTask
    <2>2. \A S : Serial!Min(S) = Min(S)
        BY DEF Serial!Min, Min
    <2> HIDE DEF Reviewed, Last
    <2>. QED
        BY <1>7, <1>8, <2>1, <2>2, SameSync, SameChecks
<1>10. \A st, a : Serial!ReworkStages(st, a) = ReworkStages(st, a)
    BY DEF Serial!ReworkStages, ReworkStages
<1>11. \A t, st, a : Serial!ReworkTask(t, st, a) = ReworkTask(t, st, a)
    BY <1>10, SameSync DEF Serial!ReworkTask, ReworkTask
<1>. QED
    BY <1>2, <1>3, <1>4, <1>5, <1>6, <1>8, <1>9, <1>10, <1>11

\* No handler changes who the assignees are.
Members(st) == UNION {ActiveAssignees(st[s]) : s \in Stages}

\* The members of the task are the active assignees of its stages, ...
LEMMA SameMembers ==
    ASSUME NEW st \in [Stages -> StageRow], NEW st1 \in [Stages -> StageRow],
           \A s \in Stages : st1[s].assignee = st[s].assignee
    PROVE  Members(st1) = Members(st)
<1>1. \A s \in Stages : ActiveAssignees(st1[s]) = ActiveAssignees(st[s])
    BY DEF ActiveAssignees
<1>. QED
    BY <1>1 DEF Members

\* ... which opening a stage leaves alone, ...
LEMMA ActivateNextMembers ==
    ASSUME NEW st \in [Stages -> StageRow], NEW a \in Stages
    PROVE  \A s \in Stages : ActivateNext(st, a)[s].assignee = st[s].assignee
<1>1. a < NumStages => a + 1 \in Stages
    BY StagesAssumption DEF Stages
<1>. QED
    BY <1>1 DEF ActivateNext, StageRow

\* ... and so do the handlers.
LEMMA StagesMembers ==
    ASSUME NEW t \in TaskRow, NEW st \in [Stages -> StageRow]
    PROVE  /\ t.current # 0 => Members(StartStages(t, st)) = Members(st)
           /\ \A a \in Stages : /\ Members(SubmitStages(st, a)) = Members(st)
                                /\ Members(ReworkStages(st, a)) = Members(st)
           /\ \A s \in 0 .. NumStages :
                Reviewable(t, st, s) => Members(ApproveStages(t, st, s)) = Members(st)
<1>1. ASSUME NEW a \in Stages, NEW status \in StageStatuses
      PROVE  /\ Members([st EXCEPT ![a].status = status]) = Members(st)
             /\ Members([st EXCEPT ![a].status = status, ![a].started = TRUE]) = Members(st)
    <2> DEFINE st1 == [st EXCEPT ![a].status = status]
               st2 == [st EXCEPT ![a].status = status, ![a].started = TRUE]
    <2>1. st1 \in [Stages -> StageRow] /\ st2 \in [Stages -> StageRow]
        BY <1>1, StageChangeType
    <2>2. \A s \in Stages : /\ st1[s].assignee = st[s].assignee
                            /\ st2[s].assignee = st[s].assignee
        BY DEF StageRow
    <2> HIDE DEF st1, st2
    <2>3. Members(st1) = Members(st) /\ Members(st2) = Members(st)
        BY <2>1, <2>2, SameMembers
    <2>. QED
        BY <2>3 DEF st1, st2
<1>2. ASSUME NEW st1 \in [Stages -> StageRow], NEW a \in Stages
      PROVE  Members(ActivateNext(st1, a)) = Members(st1)
    BY <1>2, ActivateNextType, ActivateNextMembers, SameMembers
<1>3. {"active", "submitted", "completed", "revision_requested"} \subseteq StageStatuses
    BY DEF StageStatuses, OpenStatuses
<1>4. t.current # 0 => Members(StartStages(t, st)) = Members(st)
    <2>1. t.current # 0 => t.current \in Stages
        BY StagesAssumption DEF TaskRow, Stages
    <2>. QED
        BY <1>1, <1>3, <2>1 DEF StartStages
<1>5. ASSUME NEW a \in Stages
      PROVE  /\ Members(SubmitStages(st, a)) = Members(st)
             /\ Members(ReworkStages(st, a)) = Members(st)
    <2> DEFINE st1 == [st EXCEPT ![a].status = "completed", ![a].started = TRUE]
    <2>1. st1 \in [Stages -> StageRow]
        BY <1>3, StageChangeType
    <2>2. Members(st1) = Members(st)
        BY <1>1, <1>3
    <2>3. Members(ActivateNext(st1, a)) = Members(st1)
        BY <1>2, <2>1
    <2>. QED
        BY <1>1, <1>3, <2>2, <2>3 DEF SubmitStages, ReworkStages
<1>6. ASSUME NEW s \in 0 .. NumStages, Reviewable(t, st, s)
      PROVE  Members(ApproveStages(t, st, s)) = Members(st)
    <2> DEFINE a   == Addressed(t, s)
               st1 == [st EXCEPT ![a].status = "completed"]
    <2>1. CASE IsFinalApproval(t, s)
        BY <2>1 DEF ApproveStages
    <2>2. CASE ~IsFinalApproval(t, s)
        <3>1. a \in Stages
            BY <1>6, <2>2, AddressedType DEF Reviewable
        <3>2. st1 \in [Stages -> StageRow] /\ Members(st1) = Members(st)
            BY <1>1, <1>3, <3>1, StageChangeType
        <3>3. ApproveStages(t, st, s) = ActivateNext(st1, a)
            BY <2>2 DEF ApproveStages
        <3> HIDE DEF st1, a
        <3>. QED
            BY <1>2, <3>1, <3>2, <3>3
    <2>. QED
        BY <2>1, <2>2
<1>. QED
    BY <1>4, <1>5, <1>6

\* A submission that goes undisturbed is the one of a single process.
LEMMA SubmitsSerial ==
    ASSUME RacesInv, NEW p \in Procs, Commit(p), RacesInv',
           Submits(task, stages, subs, task', stages', request[p].insert, request[p].unflagged)
    PROVE  Serial!Next
<1>1. PICK u \in Users, s \in 0 .. NumStages :
        /\ CanSubmit(u, task, stages, s)
        /\ NewVersion(subs, Addressed(task, s)) =< MaxVersions
        /\ task' = SubmitTask(task, stages, subs, Addressed(task, s))
        /\ stages' = SubmitStages(stages, Addressed(task, s))
        /\ request[p].insert = <<Addressed(task, s), NewVersion(subs, Addressed(task, s))>>
        /\ request[p].unflagged = subs[Addressed(task, s)].flagged
    BY DEF Submits
<1> DEFINE a == Addressed(task, s)
<1>2. /\ task \in TaskRow /\ stages \in [Stages -> StageRow]
      /\ subs \in [Stages -> SubmissionRows] /\ stages' \in [Stages -> StageRow]
    BY DEF RacesInv, RowsOK
<1>3. a \in Stages
    BY <1>1, <1>2, AddressedType DEF CanSubmit
<1>4. subs' = AddSubmission(subs, a)
    <2>1. subs' = [q \in Stages |->
                    IF q = a THEN [versions |-> subs[q].versions + 1,
                                   flagged  |-> (subs[q].flagged \ subs[a].flagged)
                                                    \cup {NewVersion(subs, a)}]
                    ELSE subs[q]]
        BY <1>1 DEF Commit
    <2>2. (subs[a].flagged \ subs[a].flagged) \cup {NewVersion(subs, a)}
            = {NewVersion(subs, a)}
        OBVIOUS
    <2>. QED
        BY <1>2, <1>3, <2>1, <2>2 DEF AddSubmission, NewVersion
<1>5. Members(stages') = Members(stages)
    BY <1>1, <1>2, <1>3, StagesMembers
<1>6. Serial!Submit(u, s)
    BY <1>1, <1>4, <1>5, SameChecks, SameWrites DEF Serial!Submit, Members
<1>. QED
    BY <1>6 DEF Serial!Next

\* Any other request that goes undisturbed is a step of a single process.
LEMMA HandlesSerial ==
    ASSUME RacesInv, subs' = subs, stages' \in [Stages -> StageRow],
           Handles(task, stages, subs, task', stages')
    PROVE  Serial!Next
<1>1. /\ task \in TaskRow /\ stages \in [Stages -> StageRow]
      /\ subs \in [Stages -> SubmissionRows]
    BY DEF RacesInv, RowsOK
<1>2. CASE Starts(task, stages, task', stages')
    <2>1. PICK u \in Users : /\ CanStart(u, task, stages)
                             /\ task' = StartTask(task, stages)
                             /\ stages' = StartStages(task, stages)
        BY <1>2 DEF Starts
    <2>2. Members(stages') = Members(stages)
        BY <1>1, <2>1, StagesMembers DEF CanStart
    <2>3. Serial!Start(u)
        BY <2>1, <2>2, SameChecks, SameWrites DEF Serial!Start, Members
    <2>. QED
        BY <2>3 DEF Serial!Next
<1>3. CASE Approves(task, stages, subs, task', stages')
    <2>1. PICK u \in Users, s \in 0 .. NumStages :
            /\ ~Held(task)
            /\ CanApprove(u, task)
            /\ Reviewable(task, stages, s)
            /\ task' = ApproveTask(u, task, stages, subs, s)
            /\ stages' = ApproveStages(task, stages, s)
        BY <1>3 DEF Approves
    <2>2. Members(stages') = Members(stages)
        BY <1>1, <2>1, StagesMembers
    <2>3. Serial!Approve(u, s)
        BY <2>1, <2>2, SameChecks, SameWrites DEF Serial!Approve, Members
    <2>. QED
        BY <2>3 DEF Serial!Next
<1>4. CASE Reworks(task, stages, task', stages')
    <2>1. PICK u \in Users, s \in 0 .. NumStages :
            /\ ~Held(task)
            /\ CanApprove(u, task)
            /\ Addressed(task, s) # 0
            /\ stages[Addressed(task, s)].status \in Reworkable(task)
            /\ task' = ReworkTask(task, stages, Addressed(task, s))
            /\ stages' = ReworkStages(stages, Addressed(task, s))
        BY <1>4 DEF Reworks
    <2>2. Addressed(task, s) \in Stages
        BY <1>1, <2>1, AddressedType
    <2>3. Members(stages') = Members(stages)
        BY <1>1, <2>1, <2>2, StagesMembers
    <2>4. Serial!RequestImprovement(u, s)
        BY <2>1, <2>3, SameChecks, SameWrites DEF Serial!RequestImprovement, Members
    <2>. QED
        BY <2>4 DEF Serial!Next
<1>5. CASE Directs(task, stages, task', stages')
    <2>1. stages' = stages /\ task.status \notin Terminal /\ Creator \in Users
        BY <1>5, UsersAssumption DEF Directs
    <2>2. CASE task' = Revoked(task)
        <3>1. Serial!Revoke(Creator)
            BY <2>1, <2>2, SameChecks DEF Serial!Revoke, Revoked
        <3>. QED
            BY <2>1, <3>1 DEF Serial!Next
    <2>3. CASE ~Held(task) /\ task' = [task EXCEPT !.meta.hold = "open_ended"]
        <3>1. Serial!Hold(Creator, "open_ended")
            BY <2>1, <2>3, SameChecks DEF Serial!Hold
        <3>. QED
            BY <2>1, <3>1 DEF Serial!Next
    <2>4. CASE Held(task) /\ task' = [task EXCEPT !.meta.hold = "none"]
        <3>1. Serial!Unhold(Creator)
            BY <2>1, <2>4, SameChecks DEF Serial!Unhold
        <3>. QED
            BY <2>1, <3>1 DEF Serial!Next
    <2>. QED
        BY <1>5, <2>2, <2>3, <2>4 DEF Directs
<1>. QED
    BY <1>2, <1>3, <1>4, <1>5 DEF Handles

\* A request no other commit falls into is one step of StagedWorkflow.
THEOREM AloneIsSerial == Spec => UndisturbedIsSerial
<1>1. ASSUME RacesInv, RacesInv', NEW p \in Procs, Commit(p), request[p].missed = 0
      PROVE  Serial!Next
    <2> DEFINE r == request[p]
    <2>1. r \in DecidedRequest /\ YieldsSerial(r, task, stages, subs)
        <3>1. RequestOK(r, task, stages, subs) /\ r.phase = "decided"
            BY <1>1 DEF RacesInv, RequestsOK, Commit
        <3>. QED
            BY <1>1, <3>1 DEF RequestOK, Idle, LoadedRequest
    <2>2. PICK t1 \in TaskRow, st1 \in [Stages -> StageRow] :
            /\ Yields(r, task, stages, t1, st1)
            /\ \/ r.insert = NoInsert /\ Handles(task, stages, subs, t1, st1)
               \/ Submits(task, stages, subs, t1, st1, r.insert, r.unflagged)
        BY <2>1 DEF YieldsSerial
    <2>3. task' = t1 /\ stages' = st1
        BY <1>1, <2>2 DEF Commit, Yields
    <2>4. CASE r.insert = NoInsert /\ Handles(task, stages, subs, t1, st1)
        <3>1. r.insert[1] = 0 /\ \A s \in Stages : s # 0
            BY <2>4 DEF NoInsert, Stages
        <3>2. subs \in [Stages -> SubmissionRows]
            BY <1>1 DEF RacesInv, RowsOK
        <3>3. subs' = subs
            BY <1>1, <3>1, <3>2 DEF Commit
        <3>. QED
            BY <1>1, <2>3, <2>4, <3>3, HandlesSerial
    <2>5. CASE Submits(task, stages, subs, t1, st1, r.insert, r.unflagged)
        BY <1>1, <2>3, <2>5, SubmitsSerial
    <2>. QED
        BY <2>2, <2>4, <2>5
<1>2. RacesInv /\ RacesInv' /\ [Next]_vars =>
        [\A p \in Procs : Commit(p) /\ request[p].missed = 0 => Serial!Next]_vars
    BY <1>1
<1>. QED
    BY <1>2, RacesInvariant, PTL DEF Spec, UndisturbedIsSerial

\* With one process no request ever misses a commit.
NoneMissed == \A p \in Procs : request[p] # Idle => request[p].missed = 0

\* Its own commit ends the only request there is.
LEMMA NoneMissedStep ==
    ASSUME \A p, q \in Procs : p = q
    PROVE  RacesInv /\ NoneMissed /\ [Next]_vars => NoneMissed'
<1> SUFFICES ASSUME RacesInv, NoneMissed, [Next]_vars  PROVE NoneMissed'
    OBVIOUS
<1>1. CASE UNCHANGED vars
    BY <1>1 DEF vars, NoneMissed
<1>2. ASSUME NEW p \in Procs, Commit(p)  PROVE NoneMissed'
    BY <1>2 DEF Commit, NoneMissed
<1>3. ASSUME NEW p \in Procs, NEW r, request' = [request EXCEPT ![p] = r],
             r = Idle \/ r.missed = 0
      PROVE  NoneMissed'
    BY <1>3 DEF RacesInv, RequestsOK, NoneMissed
<1>4. ASSUME NEW p \in Procs, request[p].phase = "loaded"
      PROVE  request[p].missed = 0
    BY <1>4 DEF NoneMissed, Idle
<1>5. ASSUME NEW p \in Procs, Load(p) \/ Rollback(p)  PROVE NoneMissed'
    BY <1>3, <1>5 DEF Load, Loaded, Rollback
<1>6. ASSUME NEW p \in Procs, NEW t1, NEW st1, request[p].phase = "loaded",
             Decide(p, t1, st1)
      PROVE  NoneMissed'
    BY <1>3, <1>4, <1>6 DEF Decide
<1>7. ASSUME NEW p \in Procs, Revoke(p) \/ Hold(p) \/ Unhold(p)  PROVE NoneMissed'
    BY <1>3, <1>4, <1>6, <1>7 DEF Revoke, Hold, Unhold
<1>8. ASSUME NEW p \in Procs, NEW u \in Users, NEW s \in 0 .. NumStages,
             Submit(p, u, s) \/ Approve(p, u, s) \/ RequestImprovement(p, u, s)
      PROVE  NoneMissed'
    BY <1>3, <1>4, <1>6, <1>8 DEF Submit, Approve, RequestImprovement
<1>9. ASSUME NEW p \in Procs, NEW u \in Users, Start(p, u)  PROVE NoneMissed'
    BY <1>6, <1>9 DEF Start
<1>. QED
    BY <1>1, <1>2, <1>5, <1>7, <1>8, <1>9 DEF Next

\* Both modules insert the same rows.
LEMMA InitSerial == Init => Serial!Init
<1> SUFFICES ASSUME NEW plan \in Plans, NEW finalRequired \in BOOLEAN,
                    NEW d \in Departments,
                    task = TaskOf(plan, finalRequired, d),
                    stages = StagesOf(plan),
                    subs = NoSubmissions
             PROVE  Serial!Init
    BY DEF Init
<1>1. Serial!StagesOf(plan) = StagesOf(plan) /\ Serial!NoSubmissions = NoSubmissions
    BY DEF Serial!StagesOf, StagesOf, Serial!NoSubmissions, NoSubmissions,
           Serial!Stages, Stages
<1>2. Serial!TaskOf(plan, finalRequired, d) = TaskOf(plan, finalRequired, d)
    <2> DEFINE row == [status |-> "pending", workflow |-> "active", current |-> 1,
          assignees |-> plan[1].assignees, finalRequired |-> finalRequired,
          completedAt |-> FALSE, department |-> d,
          editLocked |-> FALSE, resultLocked |-> TRUE, result |-> NoResult,
          meta |-> [finalPending |-> FALSE, hold |-> "none", links |-> NoResult]]
    <2>1. /\ Serial!TaskOf(plan, finalRequired, d) = Serial!Sync(row, Serial!StagesOf(plan))
          /\ TaskOf(plan, finalRequired, d) = Sync(row, StagesOf(plan))
        BY DEF Serial!TaskOf, TaskOf, Serial!NoResult, NoResult
    <2> HIDE DEF row
    <2>. QED
        BY <1>1, <2>1, SameSync
<1>3. Members(stages) = Serial!PlanMembers(plan)
    <2>1. \A s \in Stages : ActiveAssignees(stages[s]) = plan[s].assignees
        <3> SUFFICES ASSUME NEW s \in Stages
                     PROVE  ActiveAssignees(stages[s]) = plan[s].assignees
            OBVIOUS
        <3>1. plan[s].assignees \subseteq Users
            BY StagesAssumption DEF StagePlan
        <3>2. \A u \in Users : stages[s].assignee[u] =
                IF u \in plan[s].assignees THEN "active" ELSE "absent"
            BY DEF StagesOf
        <3>. QED
            BY <3>1, <3>2 DEF ActiveAssignees
    <2>. QED
        BY <2>1, SameChecks DEF Members, Serial!PlanMembers
<1>. QED
    BY <1>1, <1>2, <1>3 DEF Serial!Init, Members

\* A single server process implements StagedWorkflow: loading, deciding and
\* committing is one step of it.
THEOREM OneProcessIsSerial ==
    ASSUME \A p, q \in Procs : p = q
    PROVE  Spec => Serial!Spec
<1>1. Init => NoneMissed /\ Serial!Init
    BY InitSerial DEF Init, NoneMissed
<1>2. RacesInv /\ NoneMissed /\ [Next]_vars => NoneMissed'
    BY NoneMissedStep
<1>3. ASSUME NoneMissed, [Next]_vars,
             [\A p \in Procs : Commit(p) /\ request[p].missed = 0 => Serial!Next]_vars
      PROVE  [Serial!Next]_Serial!vars
    <2>0. Unread => UNCHANGED Serial!vars
        <3>1. Unread => Members(stages') = Members(stages)
            BY DEF Unread
        <3>. QED
            BY <3>1 DEF Unread, Members, Serial!vars
    <2> SUFFICES Serial!Next \/ Unread
        BY <2>0
    <2>1. CASE UNCHANGED vars
        BY <2>1 DEF vars, Unread
    <2>2. ASSUME NEW p \in Procs, Commit(p), ~ UNCHANGED vars
          PROVE  Serial!Next
        <3>1. request[p] # Idle
            BY <2>2 DEF Commit, Idle
        <3>. QED
            BY <1>3, <2>2, <3>1 DEF NoneMissed
    <2>3. CASE Next /\ ~ \E p \in Procs : Commit(p)
        BY <2>3 DEF Next, Load, Start, Submit, Approve, RequestImprovement, Revoke,
                    Hold, Unhold, Rollback
    <2>. QED
        BY <1>3, <2>1, <2>2, <2>3
<1>. QED
    BY <1>1, <1>2, <1>3, RacesInvariant, AloneIsSerial, PTL
    DEF Spec, Serial!Spec, UndisturbedIsSerial

=============================================================================

------------------------ MODULE StagedWorkflowRaces ------------------------
(***************************************************************************)
(* The workflow endpoints as several server processes run them.  In one    *)
(* process a handler is not interrupted; two processes interleave at       *)
(* PostgreSQL, READ COMMITTED and without row locks.  A handler loads the  *)
(* task row, later the stage rows, decides on these copies, and commits;   *)
(* the commit writes the columns whose value the handler changed, into     *)
(* rows that may have changed in the meantime.                             *)
(***************************************************************************)
EXTENDS WorkflowRows

CONSTANTS
    Procs,          \* the server processes
    MaxMissed       \* bound: commits of others during one request

ASSUME MissedAssumption == MaxMissed \in Nat

VARIABLES
    task, stages, subs,     \* the committed rows, as in StagedWorkflow
    request                 \* what each process is doing

vars == <<task, stages, subs, request>>

\* A request is idle, has loaded the task row, or is about to commit: the
\* columns of the task and of each stage to write, the submission to insert
\* and the submissions it takes the flag from.
Idle      == [phase |-> "idle"]
Loaded(t) == [phase |-> "loaded", row |-> t, missed |-> 0]
NoInsert  == <<0, 0>>

Init ==
    \E plan \in Plans, finalRequired \in BOOLEAN, d \in Departments :
        /\ task = TaskOf(plan, finalRequired, d)
        /\ stages = StagesOf(plan)
        /\ subs = NoSubmissions
        /\ request = [p \in Procs |-> Idle]

-----------------------------------------------------------------------------

\* What the session finds changed when it flushes.
Differing(old, new) == {f \in DOMAIN new : new[f] # old[f]}

\* The columns a handler writes: those whose value it changed.
Changed(old, new) == [f \in Differing(old, new) |-> new[f]]

\* Faulty variant of ChangedTask: metadata_json is edited in place, which the
\* session does not notice.
ChangedTaskNoMeta(old, new) == [f \in Differing(old, new) \ {"meta"} |-> new[f]]

\* metadata_json is one column and repeats who works on the current stage, so
\* that it is written, all of it, whenever the current stage changes, too.
ChangedTask(old, new) ==
    LET columns == Differing(old, new)
        meta    == IF {"current", "assignees"} \cap columns = {} THEN {} ELSE {"meta"}
    IN  [f \in columns \cup meta |-> new[f]]

\* The row once the columns in writes are written into it.
Written(writes, row) ==
    [f \in DOMAIN row |-> IF f \in DOMAIN writes THEN writes[f] ELSE row[f]]

\* The process has decided to write the rows t, st over the ones it loaded.
Decide(p, t, st) ==
    request' = [request EXCEPT ![p] =
        [phase     |-> "decided",
         missed    |-> request[p].missed,
         task      |-> ChangedTask(request[p].row, t),
         stages    |-> [s \in Stages |-> Changed(stages[s], st[s])],
         insert    |-> NoInsert,
         unflagged |-> {}]]

Unread == UNCHANGED <<task, stages, subs>>

Load(p) ==
    /\ request[p].phase = "idle"
    /\ request' = [request EXCEPT ![p] = Loaded(task)]
    /\ Unread

-----------------------------------------------------------------------------
(* The handlers, from the load of the stage rows to the commit *)

Start(p, u) ==
    LET t == request[p].row IN
    /\ request[p].phase = "loaded"
    /\ CanStart(u, t, stages)
    /\ Decide(p, StartTask(t, stages), StartStages(t, stages))
    /\ Unread

\* The flag is taken from the earlier submission, and the version counted,
\* before the commit inserts the new one.
Submit(p, u, s) ==
    LET t == request[p].row
        a == Addressed(t, s)
    IN
    /\ request[p].phase = "loaded"
    /\ CanSubmit(u, t, stages, s)
    /\ NewVersion(subs, a) <= MaxVersions
    /\ request' = [request EXCEPT ![p] =
        [phase     |-> "decided",
         missed    |-> request[p].missed,
         task      |-> ChangedTask(t, SubmitTask(t, stages, subs, a)),
         stages    |-> [r \in Stages |-> Changed(stages[r], SubmitStages(stages, a)[r])],
         insert    |-> <<a, NewVersion(subs, a)>>,
         unflagged |-> subs[a].flagged]]
    /\ Unread

Approve(p, u, s) ==
    LET t == request[p].row IN
    /\ request[p].phase = "loaded"
    /\ ~Held(t)
    /\ CanApprove(u, t)
    /\ Reviewable(t, stages, s)
    /\ Decide(p, ApproveTask(u, t, stages, subs, s), ApproveStages(t, stages, s))
    /\ Unread

RequestImprovement(p, u, s) ==
    LET t == request[p].row
        a == Addressed(t, s)
    IN
    /\ request[p].phase = "loaded"
    /\ ~Held(t)
    /\ CanApprove(u, t)
    /\ a # 0
    /\ stages[a].status \in Reworkable(t)
    /\ Decide(p, ReworkTask(t, stages, a), ReworkStages(stages, a))
    /\ Unread

\* Revoking always writes metadata_json: it records who revoked and when.
Revoke(p) ==
    LET t == request[p].row
        r == [t EXCEPT !.status = "cancelled", !.editLocked = TRUE, !.resultLocked = TRUE]
    IN
    /\ request[p].phase = "loaded"
    /\ t.status \notin Terminal
    /\ request' = [request EXCEPT ![p] =
        [phase     |-> "decided",
         missed    |-> request[p].missed,
         task      |-> [f \in Differing(t, r) \cup {"meta"} |-> r[f]],
         stages    |-> [s \in Stages |-> Changed(stages[s], stages[s])],
         insert    |-> NoInsert,
         unflagged |-> {}]]
    /\ Unread

Hold(p) ==
    LET t == request[p].row IN
    /\ request[p].phase = "loaded"
    /\ t.status \notin Terminal
    /\ ~Held(t)
    /\ Decide(p, [t EXCEPT !.meta.hold = "open_ended"], stages)
    /\ Unread

Unhold(p) ==
    LET t == request[p].row IN
    /\ request[p].phase = "loaded"
    /\ t.status \notin Terminal
    /\ Held(t)
    /\ Decide(p, [t EXCEPT !.meta.hold = "none"], stages)
    /\ Unread

-----------------------------------------------------------------------------

\* Faulty variant of Insertable: the indexes are not unique.
AlwaysInsertable(p) == TRUE

\* The unique indexes of task_stage_submissions: one row of each version and
\* one with the flag.
Insertable(p) ==
    LET s == request[p].insert[1]
        v == request[p].insert[2]
    IN  request[p].insert # NoInsert =>
            /\ v \notin 1 .. subs[s].versions
            /\ subs[s].flagged \ request[p].unflagged = {}

Commit(p) ==
    LET r == request[p] IN
    /\ r.phase = "decided"
    /\ Insertable(p)
    /\ \A q \in Procs \ {p} : request[q] # Idle => request[q].missed < MaxMissed
    /\ task' = Written(r.task, task)
    /\ stages' = [s \in Stages |-> Written(r.stages[s], stages[s])]
    /\ subs' = [s \in Stages |->
                    IF s = r.insert[1]
                    THEN [versions |-> subs[s].versions + 1,
                          flagged  |-> (subs[s].flagged \ r.unflagged) \cup {r.insert[2]}]
                    ELSE subs[s]]
    /\ request' = [q \in Procs |->
                      IF q = p \/ request[q] = Idle THEN Idle
                      ELSE [request[q] EXCEPT !.missed = @ + 1]]

\* Faulty variant of Rollback: the task and stage rows are committed ahead of the
\* submission, and the process dies in between.
RollbackLate(p) ==
    LET r == request[p]
        written == r.phase = "decided"
    IN
    /\ r.phase # "idle"
    /\ request' = [request EXCEPT ![p] = Idle]
    /\ task' = IF written THEN Written(r.task, task) ELSE task
    /\ stages' = IF written THEN [s \in Stages |-> Written(r.stages[s], stages[s])]
                 ELSE stages
    /\ UNCHANGED subs

\* The handler refuses, the commit fails, or the process dies: nothing of the
\* transaction remains.
Rollback(p) ==
    /\ request[p].phase # "idle"
    /\ request' = [request EXCEPT ![p] = Idle]
    /\ Unread

Next ==
    \E p \in Procs :
        \/ Load(p)
        \/ \E u \in Users :
            \/ Start(p, u)
            \/ \E s \in 0 .. NumStages :
                Submit(p, u, s) \/ Approve(p, u, s) \/ RequestImprovement(p, u, s)
        \/ Revoke(p) \/ Hold(p) \/ Unhold(p)
        \/ Commit(p)
        \/ Rollback(p)

Spec == Init /\ [][Next]_vars

-----------------------------------------------------------------------------
(* Properties *)

TypeOK ==
    /\ task \in TaskRow
    /\ stages \in [Stages -> StageRow]
    /\ subs \in [Stages -> SubmissionRows]
    /\ \A p \in Procs : request[p] # Idle => request[p].missed \in 0 .. MaxMissed

\* Of several submissions of one stage that race, the unique indexes let one in
\* at a time, and it is the last one that carries the flag.
OneCurrentSubmission ==
    \A s \in Stages :
        subs[s].flagged = IF subs[s].versions = 0 THEN {} ELSE {subs[s].versions}

\* No interleaving of submit, approve and need-improvement completes a stage, or
\* the workflow, for which no work was ever submitted, ...
AcceptedHasWork ==
    \A s \in Stages :
        stages[s].status \in {"submitted", "completed"} \/ task.workflow = "completed"
            => subs[s].versions > 0

\* ... or opens a stage before the one in front of it has submitted.
OpenedInOrder ==
    \A s \in Stages \ {1} : stages[s].status # "not_started" => subs[s - 1].versions > 0

\* A request no other commit falls into is one step of StagedWorkflow, though it
\* writes only the columns it changed: what StagedWorkflow shows is true of a
\* single server process, and of several as long as their requests do not meet.
Serial == INSTANCE StagedWorkflow
    WITH members <- UNION {ActiveAssignees(stages[s]) : s \in Stages}
UndisturbedIsSerial ==
    [][\A p \in Procs : Commit(p) /\ request[p].missed = 0
            => Serial!Next]_vars

-----------------------------------------------------------------------------
(* What the repository says of the program and two processes do not keep *)

\* "This task has been placed on hold by the creator." (hold_task): a hold
\* without an end lasts until the creator lifts it or revokes the task.  Only a
\* request to lift it writes the metadata and nothing else.
HoldKept ==
    [][Held(task) /\ ~Held(task)' /\ task'.status # "cancelled" =>
        \E p \in Procs : Commit(p) /\ DOMAIN request[p].task = {"meta"}]_vars

\* "All workflow stages are complete." (_submit_workflow_stage): the completed
\* workflow has no stage that was sent back.
CompletedMeansAllCompleted ==
    task.workflow = "completed" => InStatus(stages, "completed") = Stages

=============================================================================

------------------------- MODULE NotificationOutbox -------------------------
(***************************************************************************)
(* How an administrators' notification reaches the queue it is sent from.  *)
(* Every server process has a bounded queue in memory, filled on its event *)
(* loop.  A request that has saved its change calls enqueue for every      *)
(* administrator (push_admin_realtime_event); where enqueue says no it     *)
(* keeps a row in the notification_outbox table, and each process runs a   *)
(* batch over the due rows every 30 seconds (services/                     *)
(* notification_outbox_service.py).  Requests and batches run in threads:  *)
(* enqueue hands the put to the loop and waits at most five seconds.       *)
(* Batches claim no rows, and may overlap across processes and within one. *)
(***************************************************************************)
EXTENDS Naturals, FiniteSets

CONSTANTS
    Admins,         \* who is to be notified, a row each
    Processes,      \* server processes
    Request,        \* the request that notifies them
    Batches,        \* threads of dispatch_notification_outbox_batch
    QueueSize,      \* NOTIFICATION_QUEUE_MAX_SIZE
    MaxAttempts,    \* max_attempts of a row
    MaxLate,        \* bound: abandoned puts of one notification on one loop
    MaxFaults       \* bound: shutdowns, crashes and rollbacks

ASSUME RequestIsNoBatch == Request \notin Batches

ASSUME CountsAreNumbers ==
    /\ {QueueSize, MaxLate, MaxFaults} \subseteq Nat
    /\ MaxAttempts \in Nat \ {0}

VARIABLES
    home,       \* the process a thread runs in, fixed
    row,        \* database: the committed row of each administrator
    stopping,   \* processes whose workers are cancelled
    depth,      \* memory: notifications in a process's queue
    late,       \* memory: puts whose caller has given up waiting
    outcome,    \* memory: how far a thread is with each administrator
    seen,       \* memory: attempts, as a batch read them
    queued,     \* history: whose notification was in a queue at some time
    tried,      \* history: enqueue calls for a row, up to MaxAttempts
    announced,  \* history: the request has come to its end
    faults      \* counter

threads == <<outcome, seen>>
process == <<stopping, depth, late>>
history == <<queued, tried, announced>>
vars == <<home, row, process, threads, history, faults>>

Callers == Batches \union {Request}

\* A row the request has not written has the status "none".
Row == [status : {"none", "pending", "dispatched", "failed"},
        attempts : 0..MaxAttempts,
        due : BOOLEAN]

\* Not concerned, to be enqueued, put handed to the loop, enqueue's answer.
Outcomes == {"none", "todo", "asked", "yes", "no"}

TypeOK ==
    /\ home \in [Callers -> Processes]
    /\ row \in [Admins -> Row]
    /\ stopping \in SUBSET Processes
    /\ depth \in [Processes -> 0..QueueSize]
    /\ late \in [Processes -> [Admins -> 0..MaxLate]]
    /\ outcome \in [Callers -> [Admins -> Outcomes]]
    /\ seen \in [Batches -> [Admins -> 0..MaxAttempts]]
    /\ queued \in SUBSET Admins
    /\ tried \in [Admins -> 0..MaxAttempts]
    /\ announced \in BOOLEAN
    /\ faults \in 0..MaxFaults

Nobody == [a \in Admins |-> "none"]

\* The request's own change is committed.
Init ==
    /\ home \in [Callers -> Processes]
    /\ row = [a \in Admins |-> [status |-> "none", attempts |-> 0, due |-> FALSE]]
    /\ stopping = {}
    /\ depth = [p \in Processes |-> 0]
    /\ late = [p \in Processes |-> [a \in Admins |-> 0]]
    /\ outcome = [c \in Callers |-> IF c = Request THEN [a \in Admins |-> "todo"] ELSE Nobody]
    /\ seen = [b \in Batches |-> [a \in Admins |-> 0]]
    /\ queued = {}
    /\ tried = [a \in Admins |-> 0]
    /\ announced = FALSE
    /\ faults = 0

-----------------------------------------------------------------------------
(* NotificationDispatcher.enqueue, called from a thread *)

Waiting(c) == \E a \in Admins : outcome[c][a] = "asked"

Finished(c) ==
    /\ outcome[c] # Nobody
    /\ \A a \in Admins : outcome[c][a] \in {"none", "yes", "no"}

Reach(c, a, o) == outcome' = [outcome EXCEPT ![c][a] = o]

\* A batch's call for a row is one of the row's attempts.
Counted(c, a) ==
    tried' = [tried EXCEPT ![a] = IF c \in Batches /\ @ < MaxAttempts THEN @ + 1 ELSE @]

\* call_soon_threadsafe(_put_nowait); fails when the loop is closed already.
Enqueue(c, a) ==
    /\ outcome[c][a] = "todo"
    /\ ~Waiting(c)
    /\ \/ Reach(c, a, "asked")
       \/ home[c] \in stopping /\ Reach(c, a, "no")
    /\ Counted(c, a)
    /\ UNCHANGED <<home, row, process, seen, queued, announced, faults>>

\* Faulty variant of Put: the queue's limit is not checked.
PutUnbounded(p, a) ==
    /\ depth' = [depth EXCEPT ![p] = @ + 1]
    /\ queued' = queued \union {a}

\* _put_nowait: into the queue, unless that is full.
Put(p, a) ==
    IF depth[p] < QueueSize
    THEN /\ depth' = [depth EXCEPT ![p] = @ + 1]
         /\ queued' = queued \union {a}
    ELSE UNCHANGED <<depth, queued>>

\* The loop runs the put while its caller waits for the result.
PutAnswers(c, a) ==
    /\ outcome[c][a] = "asked"
    /\ Reach(c, a, IF depth[home[c]] < QueueSize THEN "yes" ELSE "no")
    /\ Put(home[c], a)
    /\ UNCHANGED <<home, row, stopping, late, seen, tried, announced, faults>>

\* Faulty variant of AnswerAtTimeout: the put is taken for done.
AnswerAtTimeoutYes == "yes"

\* What enqueue returns when the loop has not answered in time.
AnswerAtTimeout == "no"

\* result(timeout=5): the caller goes on, the put stays with the loop.
WaitTimesOut(c, a) ==
    /\ outcome[c][a] = "asked"
    /\ late[home[c]][a] < MaxLate
    /\ late' = [late EXCEPT ![home[c]][a] = @ + 1]
    /\ Reach(c, a, AnswerAtTimeout)
    /\ UNCHANGED <<home, row, stopping, depth, seen, history, faults>>

\* The put runs after all; nobody reads its result.
LatePut(p, a) ==
    /\ late[p][a] > 0
    /\ late' = [late EXCEPT ![p][a] = @ - 1]
    /\ Put(p, a)
    /\ UNCHANGED <<home, row, stopping, threads, tried, announced, faults>>

\* _worker takes the next notification and pushes it to the open sockets.
WorkerTakes(p) ==
    /\ p \notin stopping
    /\ depth[p] > 0
    /\ depth' = [depth EXCEPT ![p] = @ - 1]
    /\ UNCHANGED <<home, row, stopping, late, threads, history, faults>>

-----------------------------------------------------------------------------
(* push_admin_realtime_event *)

\* All the rows in one commit, after the last call.
Recorded(r, o) ==
    IF o = "no" THEN [status |-> "pending", attempts |-> 0, due |-> FALSE] ELSE r

RequestEnds ==
    /\ Finished(Request)
    /\ row' = [a \in Admins |-> Recorded(row[a], outcome[Request][a])]
    /\ outcome' = [outcome EXCEPT ![Request] = Nobody]
    /\ announced' = TRUE
    /\ UNCHANGED <<home, process, seen, queued, tried, faults>>

-----------------------------------------------------------------------------
(* dispatch_notification_outbox_batch *)

\* next_attempt_at is reached.
ComesDue(a) ==
    /\ row[a].status = "pending"
    /\ ~row[a].due
    /\ row' = [row EXCEPT ![a].due = TRUE]
    /\ UNCHANGED <<home, process, threads, history, faults>>

Due(a) == row[a].status = "pending" /\ row[a].due

BatchReads(b) ==
    /\ home[b] \notin stopping
    /\ outcome[b] = Nobody
    /\ \E a \in Admins : Due(a)
    /\ outcome' = [outcome EXCEPT ![b] = [a \in Admins |-> IF Due(a) THEN "todo" ELSE "none"]]
    /\ seen' = [seen EXCEPT ![b] = [a \in Admins |-> IF Due(a) THEN row[a].attempts ELSE 0]]
    /\ UNCHANGED <<home, row, process, history, faults>>

\* Faulty variant of GivesUp: an off-by-one in the comparison.
GivesUpOneEarly(n) == n + 1 >= MaxAttempts

GivesUp(n) == n >= MaxAttempts

\* Faulty variant of Written: all columns are written, not the changed ones.
WrittenWhole(r, o, n) ==
    CASE o = "none" -> r
      [] o = "yes" -> [status |-> "dispatched", attempts |-> n + 1, due |-> TRUE]
      [] o = "no" -> [status |-> IF GivesUp(n + 1) THEN "failed" ELSE "pending",
                      attempts |-> n + 1, due |-> FALSE]

\* Faulty variant of Written: a failed attempt is not counted.
WrittenUncounted(r, o, n) ==
    CASE o = "none" -> r
      [] o = "yes" -> [r EXCEPT !.status = "dispatched", !.attempts = n + 1]
      [] o = "no" -> [r EXCEPT !.due = FALSE]

\* The commit of a session that loaded the row with n attempts: it writes the
\* columns that it changed, whatever another session has stored meanwhile.
Written(r, o, n) ==
    CASE o = "none" -> r
      [] o = "yes" -> [r EXCEPT !.status = "dispatched", !.attempts = n + 1]
      [] o = "no" /\ GivesUp(n + 1) -> [r EXCEPT !.status = "failed", !.attempts = n + 1]
      [] o = "no" /\ ~GivesUp(n + 1) -> [r EXCEPT !.attempts = n + 1, !.due = FALSE]

Leave(b) ==
    /\ outcome' = [outcome EXCEPT ![b] = Nobody]
    /\ seen' = [seen EXCEPT ![b] = [a \in Admins |-> 0]]

BatchCommits(b) ==
    /\ Finished(b)
    /\ row' = [a \in Admins |-> Written(row[a], outcome[b][a], seen[b][a])]
    /\ Leave(b)
    /\ UNCHANGED <<home, process, history, faults>>

-----------------------------------------------------------------------------
(* What goes wrong *)

\* _run_notification_outbox_cycle rolls back when the commit fails.
BatchRollsBack(b) ==
    /\ Finished(b)
    /\ faults < MaxFaults
    /\ faults' = faults + 1
    /\ Leave(b)
    /\ UNCHANGED <<home, row, process, history>>

\* Shutdown cancels the dispatch loop and the workers; the threads run on.
Shutdown(p) ==
    /\ p \notin stopping
    /\ faults < MaxFaults
    /\ faults' = faults + 1
    /\ stopping' = stopping \union {p}
    /\ UNCHANGED <<home, row, depth, late, threads, history>>

\* The process is replaced: queue, puts and threads are gone.
Replaced(p) ==
    /\ stopping' = stopping \ {p}
    /\ depth' = [depth EXCEPT ![p] = 0]
    /\ late' = [late EXCEPT ![p] = [a \in Admins |-> 0]]
    /\ outcome' = [c \in Callers |-> IF home[c] = p THEN Nobody ELSE outcome[c]]
    /\ seen' = [b \in Batches |-> IF home[b] = p THEN [a \in Admins |-> 0] ELSE seen[b]]
    /\ UNCHANGED <<home, row, history>>

Exit(p) ==
    /\ p \in stopping
    /\ \A b \in Batches : home[b] = p => outcome[b] = Nobody
    /\ Replaced(p)
    /\ UNCHANGED faults

Crash(p) ==
    /\ faults < MaxFaults
    /\ faults' = faults + 1
    /\ Replaced(p)

-----------------------------------------------------------------------------
CallStep(c, a) == Enqueue(c, a) \/ PutAnswers(c, a) \/ WaitTimesOut(c, a)

BatchStep(b) == BatchReads(b) \/ BatchCommits(b) \/ BatchRollsBack(b)

ProcessStep(p) ==
    \/ WorkerTakes(p) \/ Shutdown(p) \/ Exit(p) \/ Crash(p)
    \/ \E a \in Admins : LatePut(p, a)

Next ==
    \/ RequestEnds
    \/ \E c \in Callers, a \in Admins : CallStep(c, a)
    \/ \E b \in Batches : BatchStep(b)
    \/ \E a \in Admins : ComesDue(a)
    \/ \E p \in Processes : ProcessStep(p)

Spec == Init /\ [][Next]_vars

\* Threads come to their end, the loop runs what it was handed, each process
\* starts a batch time and again, and time passes.
FairSpec ==
    /\ Spec
    /\ WF_vars(RequestEnds)
    /\ \A c \in Callers : WF_vars(\E a \in Admins : CallStep(c, a))
    /\ \A b \in Batches : WF_vars(BatchReads(b)) /\ WF_vars(BatchCommits(b))
    /\ \A a \in Admins : WF_vars(ComesDue(a))
    /\ \A p \in Processes :
        WF_vars(Exit(p)) /\ WF_vars(WorkerTakes(p)) /\ WF_vars(\E a \in Admins : LatePut(p, a))

-----------------------------------------------------------------------------
(* Properties *)

\* Once the request is through, a notification that never was in a queue has
\* a row that is pending or has used up its attempts: a full queue, a loop
\* that answers too late, a restart or an overlapping batch cannot make one
\* disappear without a trace.
NothingForgotten ==
    announced =>
        \A a \in Admins \ queued :
            \/ row[a].status = "pending"
            \/ row[a].status = "failed" /\ tried[a] = MaxAttempts

\* A row is given up only after max_attempts calls of enqueue, although
\* overlapping batches overwrite each other's counts.
GivenUpAfterAllAttempts ==
    \A a \in Admins : row[a].status = "failed" => tried[a] = MaxAttempts

\* A dispatched or failed row is never pending again: the late commit of a
\* batch that read it before cannot reopen it.
NeverReopened ==
    [][\A a \in Admins :
          row[a].status \in {"dispatched", "failed"} => row'[a].status # "pending"]_vars

\* Every row is dispatched or given up in the end, also when batches overlap,
\* overwrite each other's counts and the queue is full time and again.
RowsAreSettled ==
    \A a \in Admins : row[a].status = "pending" ~> row[a].status \in {"dispatched", "failed"}

=============================================================================

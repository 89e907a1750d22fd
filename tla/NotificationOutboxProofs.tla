----------------------- MODULE NotificationOutboxProofs -----------------------
(***************************************************************************)
(* Theorems about NotificationOutbox for any number of administrators,     *)
(* processes and overlapping batches, any queue size and any number of     *)
(* attempts.  NothingForgotten is not inductive: why the row of a          *)
(* notification that never was queued must exist is a matter of what the   *)
(* threads know (a yes was a put), why a failed row was tried often enough *)
(* of what they counted (Accounting: no stale count exceeds the calls).    *)
(***************************************************************************)
EXTENDS NotificationOutbox, TLAPS

\* What enqueue said yes to, and what is dispatched, was in a queue.
YesWasPut ==
    /\ \A c \in Callers, a \in Admins : outcome[c][a] = "yes" => a \in queued
    /\ \A a \in Admins : row[a].status = "dispatched" => a \in queued

\* The request writes its rows once, all of them, and before any batch.
RowsBegin ==
    /\ announced =>
        \A a \in Admins :
            /\ outcome[Request][a] = "none"
            /\ a \in queued \/ row[a].status # "none"
    /\ ~announced => \A a \in Admins : row[a].status = "none"
    /\ \/ \A a \in Admins : outcome[Request][a] = "none"
       \/ \A a \in Admins : outcome[Request][a] # "none"
    /\ \A b \in Batches, a \in Admins : outcome[b][a] # "none" => row[a].status # "none"

\* Counts, stale ones too, stay within the calls that were made.
Accounting ==
    /\ \A a \in Admins :
        /\ row[a].attempts <= tried[a]
        /\ row[a].status = "pending" => row[a].attempts < MaxAttempts
        /\ row[a].status = "failed" => tried[a] = MaxAttempts
    /\ \A b \in Batches, a \in Admins :
        /\ outcome[b][a] # "none" => seen[b][a] < MaxAttempts /\ seen[b][a] <= tried[a]
        /\ outcome[b][a] \in {"asked", "yes", "no"} => seen[b][a] + 1 <= tried[a]

IInv == TypeOK /\ YesWasPut /\ RowsBegin /\ Accounting

-----------------------------------------------------------------------------
LEMMA Sizes ==
  /\ QueueSize \in Nat /\ MaxLate \in Nat /\ MaxFaults \in Nat
  /\ MaxAttempts \in Nat /\ MaxAttempts > 0
  BY CountsAreNumbers

\* One entry of a thread's table changes.
LEMMA ReachOne ==
  ASSUME outcome \in [Callers -> [Admins -> Outcomes]],
         NEW c \in Callers, NEW a \in Admins, NEW o \in Outcomes, Reach(c, a, o)
  PROVE  /\ outcome' \in [Callers -> [Admins -> Outcomes]]
         /\ \A d \in Callers, x \in Admins :
                outcome'[d][x] = IF d = c /\ x = a THEN o ELSE outcome[d][x]
  BY DEF Reach

\* What the commit of a batch leaves of a row.
LEMMA WrittenRow ==
  ASSUME NEW r \in Row, NEW o \in {"none", "yes", "no"}, NEW n \in Nat,
         o # "none" => n < MaxAttempts
  PROVE  /\ Written(r, o, n) \in Row
         /\ \/ o = "none" /\ Written(r, o, n) = r
            \/ o = "yes" /\ Written(r, o, n).status = "dispatched" /\ Written(r, o, n).attempts = n + 1
            \/ /\ o = "no" /\ Written(r, o, n).attempts = n + 1
               /\ \/ n + 1 >= MaxAttempts /\ Written(r, o, n).status = "failed"
                  \/ n + 1 < MaxAttempts /\ Written(r, o, n).status = r.status
  <1> DEFINE w == Written(r, o, n)
  <1>0. /\ r.status \in {"none", "pending", "dispatched", "failed"}
        /\ r.attempts \in 0..MaxAttempts /\ r.due \in BOOLEAN
        /\ r = [status |-> r.status, attempts |-> r.attempts, due |-> r.due]
    BY DEF Row
  <1>1. CASE o = "none"
    BY <1>1 DEF Written
  <1>2. CASE o = "yes"
    <2>1. w = [status |-> "dispatched", attempts |-> n + 1, due |-> r.due]
      BY <1>0, <1>2 DEF Written
    <2>2. n + 1 \in 0..MaxAttempts
      BY <1>2, Sizes
    <2> HIDE DEF w
    <2>3. w \in Row /\ w.status = "dispatched" /\ w.attempts = n + 1
      BY <1>0, <2>1, <2>2 DEF Row
    <2> QED
      BY <1>2, <2>3 DEF w
  <1>3. CASE o = "no" /\ n + 1 >= MaxAttempts
    <2>1. w = [status |-> "failed", attempts |-> n + 1, due |-> r.due]
      BY <1>0, <1>3 DEF Written, GivesUp
    <2>2. n + 1 \in 0..MaxAttempts
      BY <1>3, Sizes
    <2> HIDE DEF w
    <2>3. w \in Row /\ w.status = "failed" /\ w.attempts = n + 1
      BY <1>0, <2>1, <2>2 DEF Row
    <2> QED
      BY <1>3, <2>3, Sizes DEF w
  <1>4. CASE o = "no" /\ n + 1 < MaxAttempts
    <2>1. w = [status |-> r.status, attempts |-> n + 1, due |-> FALSE]
      <3>1. ~GivesUp(n + 1)
        BY <1>4, Sizes DEF GivesUp
      <3> QED
        BY <1>0, <1>4, <3>1 DEF Written
    <2>2. n + 1 \in 0..MaxAttempts
      BY <1>4, Sizes
    <2> HIDE DEF w
    <2>3. w \in Row /\ w.status = r.status /\ w.attempts = n + 1
      BY <1>0, <2>1, <2>2 DEF Row
    <2> QED
      BY <1>4, <2>3, Sizes DEF w
  <1> QED
    BY <1>1, <1>2, <1>3, <1>4, Sizes

LEMMA InitInv == Init => IInv
  <1> SUFFICES ASSUME Init PROVE IInv
    OBVIOUS
  <1> USE RequestIsNoBatch, Sizes DEF Init, Callers, Nobody
  <1>1. TypeOK
    <2>1. row \in [Admins -> Row] /\ outcome \in [Callers -> [Admins -> Outcomes]]
      BY DEF Row, Outcomes
    <2>2. /\ depth \in [Processes -> 0..QueueSize]
          /\ late \in [Processes -> [Admins -> 0..MaxLate]]
      BY Sizes
    <2>3. /\ seen \in [Batches -> [Admins -> 0..MaxAttempts]]
          /\ tried \in [Admins -> 0..MaxAttempts] /\ faults \in 0..MaxFaults
      BY Sizes
    <2> QED
      BY <2>1, <2>2, <2>3 DEF TypeOK
  <1>2. YesWasPut /\ RowsBegin /\ Accounting
    BY DEF YesWasPut, RowsBegin, Accounting
  <1> QED
    BY <1>1, <1>2 DEF IInv

\* Every action keeps the types: an attempt is counted only on a row that has
\* one left, however old the count is.
LEMMA TypeStep == TypeOK /\ Accounting /\ [Next]_vars => TypeOK'
  <1> SUFFICES ASSUME TypeOK, Accounting, [Next]_vars PROVE TypeOK'
    OBVIOUS
  <1> USE RequestIsNoBatch, Sizes DEF TypeOK, Row, Outcomes, Callers
  <1>1. ASSUME RequestEnds PROVE TypeOK'
    BY <1>1 DEF RequestEnds, Recorded, Nobody, Finished, process, threads, history
  <1>2. ASSUME NEW c \in Callers, NEW a \in Admins, Enqueue(c, a) PROVE TypeOK'
    <2>1. outcome' \in [Callers -> [Admins -> Outcomes]]
      <3>1. PICK o \in {"asked", "no"} : Reach(c, a, o)
        BY <1>2 DEF Enqueue
      <3> QED
        BY <3>1, ReachOne
    <2>2. tried' \in [Admins -> 0..MaxAttempts]
      BY <1>2 DEF Enqueue, Counted
    <2> QED
      BY <1>2, <2>1, <2>2 DEF Enqueue, process
  <1>3. ASSUME NEW c \in Callers, NEW a \in Admins, PutAnswers(c, a) PROVE TypeOK'
    <2>1. outcome' \in [Callers -> [Admins -> Outcomes]]
      BY <1>3, ReachOne DEF PutAnswers
    <2>2. home[c] \in Processes /\ depth[home[c]] \in 0..QueueSize
      OBVIOUS
    <2>3. depth' \in [Processes -> 0..QueueSize] /\ queued' \in SUBSET Admins
      BY <1>3, <2>2 DEF PutAnswers, Put
    <2> QED
      BY <1>3, <2>1, <2>3 DEF PutAnswers
  <1>4. ASSUME NEW c \in Callers, NEW a \in Admins, WaitTimesOut(c, a) PROVE TypeOK'
    BY <1>4 DEF WaitTimesOut, Reach, AnswerAtTimeout, process, threads, history
  <1>5. ASSUME NEW b \in Batches, BatchReads(b) PROVE TypeOK'
    BY <1>5 DEF BatchReads, Due, Nobody, process, threads, history
  <1>6. ASSUME NEW b \in Batches, BatchCommits(b) PROVE TypeOK'
    <2>1. ASSUME NEW a \in Admins
          PROVE  Written(row[a], outcome[b][a], seen[b][a]) \in Row
      <3>1. row[a] \in Row /\ outcome[b][a] \in {"none", "yes", "no"}
        BY <1>6 DEF BatchCommits, Finished
      <3>2. seen[b][a] \in Nat /\ (outcome[b][a] # "none" => seen[b][a] < MaxAttempts)
        BY DEF Accounting
      <3> QED
        BY <3>1, <3>2, WrittenRow
    <2>2. row' \in [Admins -> Row]
      BY <1>6, <2>1 DEF BatchCommits
    <2>3. outcome' \in [Callers -> [Admins -> Outcomes]] /\ seen' \in [Batches -> [Admins -> 0..MaxAttempts]]
      BY <1>6 DEF BatchCommits, Leave, Nobody
    <2> QED
      BY <1>6, <2>2, <2>3 DEF BatchCommits, process, history
  <1>7. ASSUME NEW b \in Batches, BatchRollsBack(b) PROVE TypeOK'
    BY <1>7 DEF BatchRollsBack, Leave, Nobody, process, threads, history
  <1>8. ASSUME NEW a \in Admins, ComesDue(a) PROVE TypeOK'
    BY <1>8 DEF ComesDue, process, threads, history
  <1>9. ASSUME NEW p \in Processes, WorkerTakes(p) PROVE TypeOK'
    BY <1>9 DEF WorkerTakes, process, threads, history
  <1>10. ASSUME NEW p \in Processes, Shutdown(p) PROVE TypeOK'
    BY <1>10 DEF Shutdown, process, threads, history
  <1>11. ASSUME NEW p \in Processes, Exit(p) PROVE TypeOK'
    BY <1>11 DEF Exit, Replaced, Nobody, process, threads, history
  <1>12. ASSUME NEW p \in Processes, Crash(p) PROVE TypeOK'
    BY <1>12 DEF Crash, Replaced, Nobody, process, threads, history
  <1>13. ASSUME NEW p \in Processes, NEW a \in Admins, LatePut(p, a) PROVE TypeOK'
    <2>1. late' \in [Processes -> [Admins -> 0..MaxLate]]
      BY <1>13 DEF LatePut
    <2>2. depth[p] \in 0..QueueSize
      OBVIOUS
    <2>3. depth' \in [Processes -> 0..QueueSize] /\ queued' \in SUBSET Admins
      <3>1. CASE depth[p] < QueueSize
        <4>1. depth' = [depth EXCEPT ![p] = @ + 1] /\ queued' = queued \union {a}
          BY <1>13, <3>1 DEF LatePut, Put
        <4> QED
          BY <2>2, <3>1, <4>1
      <3> QED
        BY <1>13, <3>1 DEF LatePut, Put
    <2> QED
      BY <1>13, <2>1, <2>3 DEF LatePut, threads
  <1>14. ASSUME UNCHANGED vars PROVE TypeOK'
    BY <1>14 DEF vars, process, threads, history
  <1>15. QED
    BY <1>1, <1>2, <1>3, <1>4, <1>5, <1>6, <1>7, <1>8, <1>9, <1>10, <1>11, <1>12, <1>13, <1>14 DEF Next, CallStep, BatchStep, ProcessStep

\* The rows after a commit, and the table of the batch.
CommitEffect(b) ==
    /\ \A a \in Admins :
        \/ outcome[b][a] = "none" /\ row'[a] = row[a]
        \/ outcome[b][a] = "yes" /\ row'[a].status = "dispatched" /\ row'[a].attempts = seen[b][a] + 1
        \/ /\ outcome[b][a] = "no" /\ row'[a].attempts = seen[b][a] + 1
           /\ \/ seen[b][a] + 1 >= MaxAttempts /\ row'[a].status = "failed"
              \/ seen[b][a] + 1 < MaxAttempts /\ row'[a].status = row[a].status
    /\ \A c \in Callers, a \in Admins : outcome'[c][a] = IF c = b THEN "none" ELSE outcome[c][a]
    /\ \A c \in Batches, a \in Admins : seen'[c][a] = IF c = b THEN 0 ELSE seen[c][a]

LEMMA CommitWrites ==
  ASSUME TypeOK, Accounting, NEW b \in Batches, BatchCommits(b)
  PROVE  CommitEffect(b)
  <1>1. ASSUME NEW a \in Admins
        PROVE  \/ outcome[b][a] = "none" /\ row'[a] = row[a]
               \/ outcome[b][a] = "yes" /\ row'[a].status = "dispatched" /\ row'[a].attempts = seen[b][a] + 1
               \/ /\ outcome[b][a] = "no" /\ row'[a].attempts = seen[b][a] + 1
                  /\ \/ seen[b][a] + 1 >= MaxAttempts /\ row'[a].status = "failed"
                     \/ seen[b][a] + 1 < MaxAttempts /\ row'[a].status = row[a].status
    <2>1. row'[a] = Written(row[a], outcome[b][a], seen[b][a])
      BY DEF BatchCommits
    <2>2. outcome[b][a] \in {"none", "yes", "no"}
      BY DEF BatchCommits, Finished
    <2>3. row[a] \in Row /\ seen[b][a] \in Nat /\ (outcome[b][a] # "none" => seen[b][a] < MaxAttempts)
      BY Sizes DEF TypeOK, Accounting
    <2>4. QED
      <3> DEFINE w == Written(row[a], outcome[b][a], seen[b][a])
      <3>1. \/ outcome[b][a] = "none" /\ w = row[a]
            \/ outcome[b][a] = "yes" /\ w.status = "dispatched" /\ w.attempts = seen[b][a] + 1
            \/ /\ outcome[b][a] = "no" /\ w.attempts = seen[b][a] + 1
               /\ \/ seen[b][a] + 1 >= MaxAttempts /\ w.status = "failed"
                  \/ seen[b][a] + 1 < MaxAttempts /\ w.status = row[a].status
        BY <2>2, <2>3, WrittenRow
      <3> QED
        BY <2>1, <3>1
  <1>2. /\ \A c \in Callers, a \in Admins : outcome'[c][a] = IF c = b THEN "none" ELSE outcome[c][a]
        /\ \A c \in Batches, a \in Admins : seen'[c][a] = IF c = b THEN 0 ELSE seen[c][a]
    BY DEF BatchCommits, Leave, Nobody, TypeOK, Callers
  <1> QED
    BY <1>1, <1>2 DEF CommitEffect

\* A put answers yes only when it has found room.
LEMMA PutStep == TypeOK /\ Accounting /\ YesWasPut /\ [Next]_vars => YesWasPut'
  <1> SUFFICES ASSUME TypeOK, Accounting, YesWasPut, [Next]_vars PROVE YesWasPut'
    OBVIOUS
  <1>0. ASSUME NEW b \in Batches, BatchCommits(b) PROVE CommitEffect(b)
    BY <1>0, CommitWrites
  <1> USE RequestIsNoBatch, Sizes DEF TypeOK, YesWasPut, Row, Outcomes, Callers
  <1>1. ASSUME RequestEnds PROVE YesWasPut'
    BY <1>1 DEF RequestEnds, Recorded, Nobody, Finished, process, threads, history
  <1>2. ASSUME NEW c \in Callers, NEW a \in Admins, Enqueue(c, a) PROVE YesWasPut'
    BY <1>2 DEF Enqueue, Reach, Counted, Waiting, process, threads, history
  <1>3. ASSUME NEW c \in Callers, NEW a \in Admins, PutAnswers(c, a) PROVE YesWasPut'
    BY <1>3 DEF PutAnswers, Reach, Put, process, threads, history
  <1>4. ASSUME NEW c \in Callers, NEW a \in Admins, WaitTimesOut(c, a) PROVE YesWasPut'
    BY <1>4 DEF WaitTimesOut, Reach, AnswerAtTimeout, process, threads, history
  <1>5. ASSUME NEW b \in Batches, BatchReads(b) PROVE YesWasPut'
    BY <1>5 DEF BatchReads, Due, Nobody, process, threads, history
  <1>6. ASSUME NEW b \in Batches, BatchCommits(b) PROVE YesWasPut'
    <2>1. CommitEffect(b) /\ UNCHANGED <<queued, tried, announced>>
      BY <1>6, <1>0 DEF BatchCommits, history
    <2> HIDE DEF TypeOK
    <2>2. b \in Callers
      OBVIOUS
    <2> QED
      BY <2>1, <2>2 DEF CommitEffect
  <1>7. ASSUME NEW b \in Batches, BatchRollsBack(b) PROVE YesWasPut'
    BY <1>7 DEF BatchRollsBack, Leave, Nobody, process, threads, history
  <1>8. ASSUME NEW a \in Admins, ComesDue(a) PROVE YesWasPut'
    BY <1>8 DEF ComesDue, process, threads, history
  <1>9. ASSUME NEW p \in Processes, WorkerTakes(p) PROVE YesWasPut'
    BY <1>9 DEF WorkerTakes, process, threads, history
  <1>10. ASSUME NEW p \in Processes, Shutdown(p) PROVE YesWasPut'
    BY <1>10 DEF Shutdown, process, threads, history
  <1>11. ASSUME NEW p \in Processes, Exit(p) PROVE YesWasPut'
    BY <1>11 DEF Exit, Replaced, Nobody, process, threads, history
  <1>12. ASSUME NEW p \in Processes, Crash(p) PROVE YesWasPut'
    BY <1>12 DEF Crash, Replaced, Nobody, process, threads, history
  <1>13. ASSUME NEW p \in Processes, NEW a \in Admins, LatePut(p, a) PROVE YesWasPut'
    BY <1>13 DEF LatePut, Put, process, threads, history
  <1>14. ASSUME UNCHANGED vars PROVE YesWasPut'
    BY <1>14 DEF vars, process, threads, history
  <1>15. QED
    BY <1>1, <1>2, <1>3, <1>4, <1>5, <1>6, <1>7, <1>8, <1>9, <1>10, <1>11, <1>12, <1>13, <1>14 DEF Next, CallStep, BatchStep, ProcessStep

\* The request and the batches do not meet on a row that is not written yet.
LEMMA RowsStep == TypeOK /\ Accounting /\ YesWasPut /\ RowsBegin /\ [Next]_vars => RowsBegin'
  <1> SUFFICES ASSUME TypeOK, Accounting, YesWasPut, RowsBegin, [Next]_vars PROVE RowsBegin'
    OBVIOUS
  <1>0. ASSUME NEW b \in Batches, BatchCommits(b) PROVE CommitEffect(b)
    BY <1>0, CommitWrites
  <1> USE RequestIsNoBatch, Sizes DEF TypeOK, YesWasPut, RowsBegin, Row, Outcomes, Callers
  <1>1. ASSUME RequestEnds PROVE RowsBegin'
    BY <1>1 DEF RequestEnds, Recorded, Nobody, Finished, process, threads, history
  <1>2. ASSUME NEW c \in Callers, NEW a \in Admins, Enqueue(c, a) PROVE RowsBegin'
    <2>1. PICK o \in {"asked", "no"} : Reach(c, a, o)
      BY <1>2 DEF Enqueue
    <2>2. \A d \in Callers, x \in Admins :
             outcome'[d][x] = IF d = c /\ x = a THEN o ELSE outcome[d][x]
      BY <2>1, ReachOne
    <2>3. outcome[c][a] = "todo" /\ UNCHANGED <<row, queued, announced>>
      BY <1>2 DEF Enqueue
    <2> HIDE DEF TypeOK
    <2> QED
      BY <2>2, <2>3
  <1>3. ASSUME NEW c \in Callers, NEW a \in Admins, PutAnswers(c, a) PROVE RowsBegin'
    BY <1>3 DEF PutAnswers, Reach, Put, process, threads, history
  <1>4. ASSUME NEW c \in Callers, NEW a \in Admins, WaitTimesOut(c, a) PROVE RowsBegin'
    BY <1>4 DEF WaitTimesOut, Reach, AnswerAtTimeout, process, threads, history
  <1>5. ASSUME NEW b \in Batches, BatchReads(b) PROVE RowsBegin'
    BY <1>5 DEF BatchReads, Due, Nobody, process, threads, history
  <1>6. ASSUME NEW b \in Batches, BatchCommits(b) PROVE RowsBegin'
    <2>1. CommitEffect(b) /\ UNCHANGED <<queued, tried, announced>>
      BY <1>6, <1>0 DEF BatchCommits, history
    <2> HIDE DEF TypeOK
    <2>2. b \in Callers /\ b # Request /\ Request \in Callers
      OBVIOUS
    <2> QED
      BY <2>1, <2>2 DEF CommitEffect
  <1>7. ASSUME NEW b \in Batches, BatchRollsBack(b) PROVE RowsBegin'
    BY <1>7 DEF BatchRollsBack, Leave, Nobody, process, threads, history
  <1>8. ASSUME NEW a \in Admins, ComesDue(a) PROVE RowsBegin'
    BY <1>8 DEF ComesDue, process, threads, history
  <1>9. ASSUME NEW p \in Processes, WorkerTakes(p) PROVE RowsBegin'
    BY <1>9 DEF WorkerTakes, process, threads, history
  <1>10. ASSUME NEW p \in Processes, Shutdown(p) PROVE RowsBegin'
    BY <1>10 DEF Shutdown, process, threads, history
  <1>11. ASSUME NEW p \in Processes, Exit(p) PROVE RowsBegin'
    BY <1>11 DEF Exit, Replaced, Nobody, process, threads, history
  <1>12. ASSUME NEW p \in Processes, Crash(p) PROVE RowsBegin'
    BY <1>12 DEF Crash, Replaced, Nobody, process, threads, history
  <1>13. ASSUME NEW p \in Processes, NEW a \in Admins, LatePut(p, a) PROVE RowsBegin'
    BY <1>13 DEF LatePut, Put, process, threads, history
  <1>14. ASSUME UNCHANGED vars PROVE RowsBegin'
    BY <1>14 DEF vars, process, threads, history
  <1>15. QED
    BY <1>1, <1>2, <1>3, <1>4, <1>5, <1>6, <1>7, <1>8, <1>9, <1>10, <1>11, <1>12, <1>13, <1>14 DEF Next, CallStep, BatchStep, ProcessStep

\* A batch's count is one more than what it read, and its call was counted.
LEMMA AccountStep == TypeOK /\ RowsBegin /\ Accounting /\ [Next]_vars => Accounting'
  <1> SUFFICES ASSUME TypeOK, RowsBegin, Accounting, [Next]_vars PROVE Accounting'
    OBVIOUS
  <1>0. ASSUME NEW b \in Batches, BatchCommits(b) PROVE CommitEffect(b)
    BY <1>0, CommitWrites
  <1> USE RequestIsNoBatch, Sizes DEF TypeOK, RowsBegin, Accounting, Row, Outcomes, Callers
  <1>1. ASSUME RequestEnds PROVE Accounting'
    BY <1>1 DEF RequestEnds, Recorded, Nobody, Finished, process, threads, history
  <1>2. ASSUME NEW c \in Callers, NEW a \in Admins, Enqueue(c, a) PROVE Accounting'
    <2>1. PICK o \in {"asked", "no"} : Reach(c, a, o)
      BY <1>2 DEF Enqueue
    <2>2. \A d \in Callers, x \in Admins :
             outcome'[d][x] = IF d = c /\ x = a THEN o ELSE outcome[d][x]
      BY <2>1, ReachOne
    <2>3. \A x \in Admins :
             tried'[x] = IF x = a /\ c \in Batches /\ tried[x] < MaxAttempts THEN tried[x] + 1 ELSE tried[x]
      BY <1>2 DEF Enqueue, Counted
    <2>4. outcome[c][a] = "todo" /\ row' = row /\ seen' = seen
      BY <1>2 DEF Enqueue
    <2>5. \A x \in Admins, d \in Batches :
             seen[d][x] \in Nat /\ tried[x] \in 0..MaxAttempts /\ row[x].attempts \in Nat
      OBVIOUS
    <2> HIDE DEF TypeOK
    <2> QED
      BY <2>2, <2>3, <2>4, <2>5
  <1>3. ASSUME NEW c \in Callers, NEW a \in Admins, PutAnswers(c, a) PROVE Accounting'
    BY <1>3 DEF PutAnswers, Reach, Put, process, threads, history
  <1>4. ASSUME NEW c \in Callers, NEW a \in Admins, WaitTimesOut(c, a) PROVE Accounting'
    BY <1>4 DEF WaitTimesOut, Reach, AnswerAtTimeout, process, threads, history
  <1>5. ASSUME NEW b \in Batches, BatchReads(b) PROVE Accounting'
    BY <1>5 DEF BatchReads, Due, Nobody, process, threads, history
  <1>6. ASSUME NEW b \in Batches, BatchCommits(b) PROVE Accounting'
    <2>1. CommitEffect(b) /\ UNCHANGED <<queued, tried, announced>>
      BY <1>6, <1>0 DEF BatchCommits, history
    <2>2. \A x \in Admins, d \in Batches :
             seen[d][x] \in Nat /\ tried[x] \in 0..MaxAttempts /\ row[x].attempts \in Nat
      OBVIOUS
    <2> HIDE DEF TypeOK
    <2> QED
      BY <2>1, <2>2 DEF CommitEffect
  <1>7. ASSUME NEW b \in Batches, BatchRollsBack(b) PROVE Accounting'
    BY <1>7 DEF BatchRollsBack, Leave, Nobody, process, threads, history
  <1>8. ASSUME NEW a \in Admins, ComesDue(a) PROVE Accounting'
    BY <1>8 DEF ComesDue, process, threads, history
  <1>9. ASSUME NEW p \in Processes, WorkerTakes(p) PROVE Accounting'
    BY <1>9 DEF WorkerTakes, process, threads, history
  <1>10. ASSUME NEW p \in Processes, Shutdown(p) PROVE Accounting'
    BY <1>10 DEF Shutdown, process, threads, history
  <1>11. ASSUME NEW p \in Processes, Exit(p) PROVE Accounting'
    BY <1>11 DEF Exit, Replaced, Nobody, process, threads, history
  <1>12. ASSUME NEW p \in Processes, Crash(p) PROVE Accounting'
    BY <1>12 DEF Crash, Replaced, Nobody, process, threads, history
  <1>13. ASSUME NEW p \in Processes, NEW a \in Admins, LatePut(p, a) PROVE Accounting'
    BY <1>13 DEF LatePut, Put, process, threads, history
  <1>14. ASSUME UNCHANGED vars PROVE Accounting'
    BY <1>14 DEF vars, process, threads, history
  <1>15. QED
    BY <1>1, <1>2, <1>3, <1>4, <1>5, <1>6, <1>7, <1>8, <1>9, <1>10, <1>11, <1>12, <1>13, <1>14 DEF Next, CallStep, BatchStep, ProcessStep

LEMMA Inductive == Spec => []IInv
  <1>1. IInv /\ [Next]_vars => IInv'
    BY TypeStep, PutStep, RowsStep, AccountStep DEF IInv
  <1> QED
    BY InitInv, <1>1, PTL DEF Spec

\* For any constants every reachable state is well typed: no queue holds more
\* than its size, no row counts more than max_attempts attempts.
THEOREM TypeCorrect == Spec => []TypeOK
  <1>1. IInv => TypeOK
    BY DEF IInv
  <1> QED
    BY Inductive, <1>1, PTL

\* For any number of administrators, processes and batches a notification is
\* in a queue, in a row that is tried again, or given up after all attempts.
THEOREM NothingDisappears == Spec => []NothingForgotten
  <1>1. IInv => NothingForgotten
    BY DEF IInv, TypeOK, YesWasPut, RowsBegin, Accounting, NothingForgotten, Row, Callers
  <1> QED
    BY Inductive, <1>1, PTL

\* However the commits of overlapping batches overwrite each other's counts,
\* a row is given up only after max_attempts calls.
THEOREM AllAttemptsMade == Spec => []GivenUpAfterAllAttempts
  <1>1. IInv => GivenUpAfterAllAttempts
    BY DEF IInv, Accounting, GivenUpAfterAllAttempts
  <1> QED
    BY Inductive, <1>1, PTL

-----------------------------------------------------------------------------
(* A settled row stays settled *)

Settled(a) == row[a].status \in {"dispatched", "failed"}

\* A step that writes rows leaves the settled ones settled: the request writes
\* before any of them is, a batch writes a status only to settle the row.
LEMMA SettledStep ==
  ASSUME IInv, [Next]_vars, NEW x \in Admins, Settled(x)
  PROVE  row'[x].status # "pending"
  <1> USE DEF Settled
  <1>1. CASE row' = row
    BY <1>1
  <1>2. CASE RequestEnds
    <2>1. announced
      BY DEF IInv, RowsBegin
    <2>2. outcome[Request] = Nobody
      <3>1. outcome[Request] \in [Admins -> Outcomes]
        BY DEF IInv, TypeOK, Callers
      <3> QED
        BY <2>1, <3>1 DEF IInv, RowsBegin, Nobody
    <2> QED
      BY <1>2, <2>2 DEF RequestEnds, Finished
  <1>3. ASSUME NEW b \in Batches, BatchCommits(b) PROVE row'[x].status # "pending"
    <2>1. CommitEffect(b)
      BY <1>3, CommitWrites DEF IInv
    <2> QED
      BY <2>1 DEF CommitEffect
  <1>4. ASSUME NEW a \in Admins, ComesDue(a) PROVE row'[x].status # "pending"
    BY <1>4 DEF ComesDue, IInv, TypeOK, Row
  <1>5. ASSUME NEW c \in Callers, NEW a \in Admins, CallStep(c, a) PROVE row' = row
    BY <1>5 DEF CallStep, Enqueue, PutAnswers, WaitTimesOut
  <1>6. ASSUME NEW p \in Processes, ProcessStep(p) PROVE row' = row
    BY <1>6 DEF ProcessStep, WorkerTakes, Shutdown, Exit, Crash, Replaced, LatePut
  <1>7. ASSUME NEW b \in Batches, BatchReads(b) \/ BatchRollsBack(b) PROVE row' = row
    BY <1>7 DEF BatchReads, BatchRollsBack
  <1>8. UNCHANGED vars => row' = row
    BY DEF vars
  <1> QED
    BY <1>1, <1>2, <1>3, <1>4, <1>5, <1>6, <1>7, <1>8 DEF Next, BatchStep

\* However late a batch commits what it found pending, it never makes a
\* dispatched or failed row pending again.
THEOREM SettledForGood == Spec => NeverReopened
  <1>1. IInv /\ [Next]_vars =>
          [\A a \in Admins :
             row[a].status \in {"dispatched", "failed"} => row'[a].status # "pending"]_vars
    BY SettledStep DEF Settled
  <1> QED
    BY Inductive, <1>1, PTL DEF Spec, NeverReopened

=============================================================================

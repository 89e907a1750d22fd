------------------------- MODULE CaptureOutboxProofs -------------------------
(***************************************************************************)
(* Proofs about the event queues of the extension, for any events, limits  *)
(* and number of overlapping flushes: types, the queue lock, that a locked *)
(* queue loses nothing, one item per event, that a queue with a retry      *)
(* alarm is never stranded, that it stays within its limit, and that what  *)
(* is given up was tried often enough.                                     *)
(***************************************************************************)
EXTENDS CaptureOutbox, FiniteSetTheorems, WellFoundedInduction, TLAPS

-----------------------------------------------------------------------------
(* The policies *)

\* What the queues with a lock have in common, and the ones without a page.
PolicyFacts ==
    /\ policy.locked => policy.resent = "skip" /\ policy.batched /\ ~policy.paged
    /\ policy.resent # "push" => ~policy.paged
    /\ ~policy.batched => policy.backstop

LEMMA PoliciesTyped == \A p \in Providers : PolicyOf[p] \in QueuePolicy
<1> TAKE p \in Providers
<1>1. p \in DOMAIN PolicyOf /\ \A n \in DOMAIN PolicyOf : Limits[n] \in [batch : Nat, limit : Nat, attempts : Nat, failures : Nat]
  BY KnownProviders, LimitsAreNumbers
<1> DEFINE L == [batch : Nat, limit : Nat, attempts : Nat, failures : Nat]
<1> HIDE DEF L
<1>2. \A n \in {"freepik", "higgsfield", "envato", "heygen", "flow", "elevenlabs", "chatgpt", "kling"} : Limits[n] \in L
  BY <1>1 DEF PolicyOf, L
<1>3. QueuePolicy = [locked : BOOLEAN, resent : {"skip", "push", "replace"}, endless : BOOLEAN,
                     backstop : BOOLEAN, batched : BOOLEAN, paged : BOOLEAN,
                     wakers : SUBSET Wakers, limits : L]
  BY DEF QueuePolicy, L
<1>4. FreepikPolicy \in QueuePolicy
  BY <1>2, <1>3 DEF FreepikPolicy, Wakers
<1>5. HiggsfieldPolicy \in QueuePolicy /\ EnvatoPolicy \in QueuePolicy /\ HeygenPolicy \in QueuePolicy
  BY <1>2, <1>3, <1>4 DEF HiggsfieldPolicy, EnvatoPolicy, HeygenPolicy
<1>6. FlowPolicy \in QueuePolicy /\ ElevenlabsPolicy \in QueuePolicy
  BY <1>2, <1>3, <1>5 DEF FlowPolicy, ElevenlabsPolicy
<1>7. ChatGptPolicy \in QueuePolicy /\ UsagePolicy \in QueuePolicy
  BY <1>2, <1>3 DEF ChatGptPolicy, UsagePolicy, Wakers
<1> QED
  BY <1>1, <1>4, <1>5, <1>6, <1>7 DEF PolicyOf

LEMMA PoliciesAgree ==
    \A p \in Providers :
        /\ PolicyOf[p].locked =>
              PolicyOf[p].resent = "skip" /\ PolicyOf[p].batched /\ ~PolicyOf[p].paged
        /\ PolicyOf[p].resent # "push" => ~PolicyOf[p].paged
        /\ ~PolicyOf[p].batched => PolicyOf[p].backstop
<1> TAKE p \in Providers
<1>1. p \in DOMAIN PolicyOf
  BY KnownProviders
<1>2. PolicyOf[p] \in {FreepikPolicy, HiggsfieldPolicy, EnvatoPolicy, HeygenPolicy, FlowPolicy,
                       ElevenlabsPolicy, ChatGptPolicy, UsagePolicy}
  BY <1>1 DEF PolicyOf
<1> DEFINE Good(q) == (q.locked => q.resent = "skip" /\ q.batched /\ ~q.paged)
                      /\ (q.resent # "push" => ~q.paged)
                      /\ (~q.batched => q.backstop)
<1>3. Good(FreepikPolicy) /\ Good(HiggsfieldPolicy) /\ Good(EnvatoPolicy)
  BY DEF FreepikPolicy, HiggsfieldPolicy, EnvatoPolicy
<1>4. Good(HeygenPolicy) /\ Good(FlowPolicy) /\ Good(ElevenlabsPolicy)
  BY DEF FreepikPolicy, HeygenPolicy, FlowPolicy, ElevenlabsPolicy
<1>5. Good(ChatGptPolicy) /\ Good(UsagePolicy)
  BY DEF ChatGptPolicy, UsagePolicy
<1> QED
  BY <1>2, <1>3, <1>4, <1>5

-----------------------------------------------------------------------------
(* The operators on queues *)

LEMMA TrimKeeps ==
    ASSUME NEW q
    PROVE  Trim(q) \subseteq q
BY DEF Trim

LEMMA EnqueuedTyped ==
    ASSUME NEW q \in SUBSET Item, NEW e \in Events, TypeOK
    PROVE  Enqueued(q, e) \in SUBSET Item
BY DEF Enqueued, Item, TypeOK

LEMMA RetriedTyped ==
    ASSUME NEW q \in SUBSET Item, NEW b \in SUBSET Events, NEW a
    PROVE  /\ Retried(q, b, a) \in SUBSET Item
           /\ Keys(Retried(q, b, a)) = Keys(q) \intersect (b \ a)
<1> DEFINE again(i) == [i EXCEPT !.attempts = @ + 1]
<1>1. \A i \in q : again(i) \in Item /\ again(i).event = i.event
  BY DEF Item
<1>2. Retried(q, b, a) = {again(i) : i \in {j \in q : j.event \in b \ a}}
  BY Zenon DEF Retried
<1> HIDE DEF again
<1>3. Retried(q, b, a) \in SUBSET Item
  BY <1>1, <1>2
<1>4. Keys(Retried(q, b, a)) \subseteq Keys(q) \intersect (b \ a)
  BY <1>1, <1>2 DEF Keys
<1>5. Keys(q) \intersect (b \ a) \subseteq Keys(Retried(q, b, a))
  BY <1>1, <1>2 DEF Keys
<1> QED
  BY <1>3, <1>4, <1>5

LEMMA SettledTyped ==
    ASSUME NEW q \in SUBSET Item, NEW b \in SUBSET Events, NEW a
    PROVE  Settled(q, b, a) \in SUBSET Item
BY RetriedTyped DEF Settled

LEMMA KeysTyped ==
    ASSUME NEW q \in SUBSET Item
    PROVE  Keys(q) \in SUBSET Events
BY DEF Keys, Item

-----------------------------------------------------------------------------
(* Types *)

LEMMA TypeInit == Init => TypeOK
<1> SUFFICES ASSUME Init
             PROVE  TypeOK
  OBVIOUS
<1>1. policy \in QueuePolicy
  BY PoliciesTyped DEF Init
<1>2. pc \in [Processes -> Places] /\ snap \in [Processes -> SUBSET Item]
  BY DEF Init, Places
<1> QED
  BY <1>1, <1>2 DEF Init, TypeOK

LEMMA ForgetTyped ==
    ASSUME TypeOK, NEW started, ForgetAll(started)
    PROVE  /\ timer' \in BOOLEAN /\ holder' = None /\ stops' \in Nat
           /\ pc' \in [Processes -> Places]
           /\ snap' \in [Processes -> SUBSET Item]
           /\ batch' \in [Flushes -> SUBSET Events]
           /\ answered' \in [Flushes -> SUBSET Events]
<1>1. \A p \in Processes : (IF p \in started THEN "reading"
                           ELSE IF pc[p] = "paging" THEN "paging" ELSE "idle") \in Places
  BY DEF Places
<1>2. \A p \in Processes : (IF pc[p] = "paging" THEN snap[p] ELSE {}) \in SUBSET Item
  BY DEF TypeOK
<1>3. pc' \in [Processes -> Places]
  BY <1>1 DEF ForgetAll
<1>4. snap' \in [Processes -> SUBSET Item]
  BY <1>2 DEF ForgetAll
<1>5. batch' \in [Flushes -> SUBSET Events] /\ answered' \in [Flushes -> SUBSET Events]
  BY ZenonT(20) DEF ForgetAll
<1>6. timer' \in BOOLEAN /\ holder' = None
  BY DEF ForgetAll
<1>7. stops' \in Nat
  BY DEF ForgetAll, TypeOK
<1> QED
  BY <1>3, <1>4, <1>5, <1>6, <1>7

LEMMA TypeEnqueue ==
    ASSUME TypeOK, NEW e \in Events,
           \/ Send(e) \/ Report(e) \/ PageRead(e) \/ Handler(e) \/ BecomesDue(e)
    PROVE  TypeOK'
<1> e \in Processes
  BY DEF Processes
<1>1. CASE Send(e)
  BY <1>1 DEF Send, TypeOK, Enter, Places, durable, history
<1>2. CASE Report(e)
  BY <1>2 DEF Report, TypeOK, Places, durable, history
<1>3. CASE PageRead(e)
  BY <1>3 DEF PageRead, TypeOK, Places, durable, history
<1>4. CASE EnqueueRead(e)
  BY <1>4 DEF EnqueueRead, TypeOK, Places, durable, history, counters
<1>5. CASE EnqueueSkip(e)
  BY <1>5 DEF EnqueueSkip, Leave, TypeOK, Places, durable, history, counters
<1>6. CASE EnqueueWrite(e)
  <2> DEFINE q == Enqueued(snap[e], e)
  <2>1. q \in SUBSET Item /\ Trim(q) \in SUBSET Item
    BY EnqueuedTyped, TrimKeeps DEF TypeOK
  <2>2. Keys(q) \in SUBSET Events
    BY <2>1, KeysTyped
  <2> HIDE DEF q
  <2>3. /\ queue' = Trim(q)
        /\ overflowed' = overflowed \union (Keys(q) \ Keys(Trim(q)))
        /\ snap' = [snap EXCEPT ![e] = q]
        /\ waiting' \in SUBSET Events
    BY <1>6 DEF EnqueueWrite, Store, q, TypeOK
  <2> QED
    BY <1>6, <2>1, <2>2, <2>3 DEF EnqueueWrite, Store, Leave, TypeOK, Places
<1>7. CASE EnqueueDone(e)
  <2>1. pc' \in [Processes -> Places] /\ timer' \in BOOLEAN /\ alarm' \in BOOLEAN
    BY <1>7 DEF EnqueueDone, TypeOK, Places, Processes, QueuePolicy
  <2> QED
    BY <1>7, <2>1 DEF EnqueueDone, TypeOK, history, counters
<1>8. CASE PageWrite(e)
  <2>1. queue' \in SUBSET Item
    BY <1>8 DEF PageWrite, Store, TypeOK, Item
  <2> QED
    BY <1>8, <2>1 DEF PageWrite, Store, TypeOK, Places
<1>9. CASE BecomesDue(e)
  BY <1>9 DEF BecomesDue, TypeOK, memory, history, counters
<1> QED
  BY <1>1, <1>2, <1>3, <1>4, <1>5, <1>6, <1>7, <1>8, <1>9 DEF Handler

LEMMA TypeFlush ==
    ASSUME TypeOK, NEW f \in Flushes,
           TimerFires(f) \/ AlarmFires(f) \/ HealthAlarmFires(f) \/ Flush(f) \/ Restart(f)
    PROVE  TypeOK'
<1> f \in Processes
  BY DEF Processes
<1>1. CASE TimerFires(f)
  BY <1>1 DEF TimerFires, Run, StartFlush, TypeOK, Places, durable, history, counters
<1>2. CASE AlarmFires(f)
  BY <1>2 DEF AlarmFires, Run, StartFlush, TypeOK, Places, history, counters
<1>3. CASE HealthAlarmFires(f)
  BY <1>3 DEF HealthAlarmFires, Run, StartFlush, TypeOK, Places, durable, history, counters
<1>4. CASE FlushEmpty(f)
  BY <1>4 DEF FlushEmpty, TypeOK, Places, history, counters
<1>5. CASE FlushRead(f)
  <2>1. Keys(Oldest(Ready(queue), policy.limits.batch)) \in SUBSET Events
    BY KeysTyped DEF Oldest, Ready, TypeOK
  <2>2. Kept(queue) \in SUBSET Item
    BY DEF Kept, TypeOK
  <2> QED
    BY <1>5, <2>1, <2>2 DEF FlushRead, TypeOK, Places, durable, history, counters
<1>6. CASE PostSucceeds(f)
  BY <1>6 DEF PostSucceeds, Posted, TypeOK, Places, durable
<1>7. ASSUME NEW a \in SUBSET batch[f], NEW stored \in SUBSET batch[f], PostFails(f, a, stored)
      PROVE  TypeOK'
  <2>1. tries' \in [Events -> Nat]
    BY <1>7 DEF PostFails, TypeOK
  <2>2. served' \in SUBSET Events /\ answered' \in [Flushes -> SUBSET Events]
    BY <1>7 DEF PostFails, Posted, TypeOK
  <2> QED
    BY <1>7, <2>1, <2>2 DEF PostFails, Posted, TypeOK, Places, durable
<1>8. CASE SettleRead(f)
  BY <1>8 DEF SettleRead, Enter, TypeOK, Places, durable, history, counters
<1>9. CASE SettleWrite(f)
  <2> DEFINE r == Retried(snap[f], batch[f], answered[f])
             q == Settled(snap[f], batch[f], answered[f])
  <2>1. r \in SUBSET Item /\ q \in SUBSET Item
    BY RetriedTyped, SettledTyped DEF TypeOK
  <2>2. /\ Trim(q) \in SUBSET Item /\ Kept(q) \in SUBSET Item
        /\ Keys({i \in r : ~GivesUp(i.attempts)}) \in SUBSET Events
        /\ Keys({i \in r : GivesUp(i.attempts)}) \in SUBSET Events
        /\ Keys(q) \in SUBSET Events
    <3> HIDE DEF r, q
    <3> QED BY <2>1, TrimKeeps, KeysTyped DEF Kept
  <2>3. /\ queue' = Trim(q)
        /\ waiting' = waiting \union Keys({i \in r : ~GivesUp(i.attempts)})
        /\ givenUp' = givenUp \union Keys({i \in r : GivesUp(i.attempts)})
        /\ overflowed' = overflowed \union (Keys(q) \ Keys(Trim(q)))
        /\ snap' = [snap EXCEPT ![f] = Kept(q)]
    BY <1>9 DEF SettleWrite
  <2> HIDE DEF r, q
  <2> QED
    BY <1>9, <2>2, <2>3 DEF SettleWrite, Leave, TypeOK, Places, counters
<1>10. CASE FlushAgain(f)
  BY <1>10 DEF FlushAgain, TypeOK, Places, durable, history, counters
<1>11. CASE FlushDone(f)
  BY <1>11 DEF FlushDone, TypeOK, Places, history, counters
<1>12. CASE Restart(f)
  BY <1>12, ForgetTyped DEF Restart, TypeOK, history
<1> QED
  BY <1>1, <1>2, <1>3, <1>4, <1>5, <1>6, <1>7, <1>8, <1>9, <1>10, <1>11, <1>12
  DEF Flush, PostEnds

LEMMA TypeStep == TypeOK /\ [Next]_vars => TypeOK'
<1> SUFFICES ASSUME TypeOK, [Next]_vars
             PROVE  TypeOK'
  OBVIOUS
<1>1. CASE Stop
  BY <1>1, ForgetTyped DEF Stop, TypeOK, durable, history
<1>2. CASE UNCHANGED vars
  BY <1>2 DEF vars, durable, memory, history, counters, TypeOK
<1> QED
  BY <1>1, <1>2, TypeEnqueue, TypeFlush DEF Next

\* The types hold for any events, flushes, limits and providers: in particular
\* everything stored is a whole item and every process is at a known place.
THEOREM TypeCorrect == Spec => []TypeOK
<1>1. Init => TypeOK
  BY TypeInit
<1>2. TypeOK /\ [Next]_vars => TypeOK'
  BY TypeStep
<1> QED
  BY <1>1, <1>2, PTL DEF Spec

-----------------------------------------------------------------------------
(* The queue lock *)

\* SectionsAreSerial with what it rests on: a locked queue is one that only
\* the worker writes, and whose handlers enter the section as they start.
Serial ==
    /\ PolicyFacts
    /\ SectionsAreSerial
    /\ policy.batched => \A p \in Processes : pc[p] # "arrived"
    /\ \A p \in Processes : pc[p] = "paging" => policy.paged

LEMMA SerialInit == Init => Serial
<1> SUFFICES ASSUME Init
             PROVE  Serial
  OBVIOUS
<1>1. PolicyFacts
  BY PoliciesAgree DEF Init, PolicyFacts
<1>2. \A p \in Processes : pc[p] = "idle"
  BY DEF Init
<1> QED
  BY <1>1, <1>2 DEF Serial, SectionsAreSerial, InSection

\* A step of one process p that writes only in its section.
LEMMA SerialMove ==
    ASSUME TypeOK, TypeOK', Serial, NEW p \in Processes, UNCHANGED policy,
           \A r \in Processes \ {p} :
               pc'[r] = pc[r] /\ snap'[r] = snap[r],
           pc'[p] = "arrived" => ~policy.batched,
           pc'[p] = "paging" => policy.paged,
           \/ /\ pc'[p] \notin InSection
              /\ UNCHANGED <<queue, holder>>
              /\ policy.locked => pc[p] \notin InSection
           \/ /\ pc'[p] \notin InSection
              /\ pc[p] \in InSection \/ ~policy.locked
              /\ holder' = None
           \/ /\ pc'[p] \in InSection
              /\ UNCHANGED queue
              /\ policy.locked => holder = None /\ holder' = p /\ snap'[p] = queue
    PROVE  Serial'
<1> USE DEF Serial
<1>1. PolicyFacts'
  BY DEF PolicyFacts
<1>2. policy'.batched => \A r \in Processes : pc'[r] # "arrived"
  OBVIOUS
<1>3. \A r \in Processes : pc'[r] = "paging" => policy'.paged
  OBVIOUS
<1>4. ASSUME policy.locked, NEW r \in Processes, pc'[r] \in InSection
      PROVE  holder' = r /\ snap'[r] = queue'
  <2>1. None \notin Processes
    BY ProcessesAreApart DEF Processes
  <2>2. CASE r = p
    BY <1>4, <2>2
  <2>3. CASE r # p
    <3>1. holder = r /\ snap[r] = queue /\ holder # None
      BY <1>4, <2>1, <2>3 DEF SectionsAreSerial
    <3>2. pc[p] \in InSection => holder = p
      BY <1>4 DEF SectionsAreSerial
    <3> QED
      BY <1>4, <2>3, <3>1, <3>2
  <2> QED
    BY <2>2, <2>3
<1> QED
  BY <1>1, <1>2, <1>3, <1>4 DEF SectionsAreSerial

LEMMA SerialEvents ==
    ASSUME TypeOK, TypeOK', Serial, NEW e \in Events,
           \/ Send(e) \/ Report(e) \/ PageRead(e) \/ Handler(e) \/ BecomesDue(e)
    PROVE  Serial'
<1> e \in Processes
  BY DEF Processes
<1> USE DEF InSection, durable, memory
<1>1. CASE Send(e)
  <2>1. pc'[e] = "storing" /\ snap'[e] = queue
    BY <1>1 DEF Send, TypeOK
  <2> QED
    BY <1>1, <2>1, SerialMove DEF Send, TypeOK, Enter
<1>2. CASE Report(e)
  <2>1. pc' = pc \/ (pc'[e] = "arrived" /\ pc[e] = "idle")
    BY <1>2 DEF Report, TypeOK
  <2>2. pc[e] = "idle"
    BY <1>2 DEF Report
  <2> QED
    BY <1>2, <2>1, <2>2, SerialMove DEF Report, TypeOK
<1>3. CASE PageRead(e)
  <2>1. pc'[e] = "paging" /\ pc[e] = "idle"
    BY <1>3 DEF PageRead, TypeOK
  <2> QED
    BY <1>3, <2>1, SerialMove DEF PageRead, TypeOK
<1>4. CASE EnqueueRead(e)
  <2>1. ~policy.locked
    BY <1>4 DEF EnqueueRead, Serial, PolicyFacts
  <2>2. pc'[e] = "storing"
    BY <1>4 DEF EnqueueRead, TypeOK
  <2> QED
    BY <1>4, <2>1, <2>2, SerialMove DEF EnqueueRead, TypeOK
<1>5. CASE EnqueueSkip(e)
  <2>1. pc'[e] = "idle" /\ pc[e] = "storing"
    BY <1>5 DEF EnqueueSkip, TypeOK
  <2> QED
    BY <1>5, <2>1, SerialMove DEF EnqueueSkip, TypeOK, Leave
<1>6. CASE EnqueueWrite(e)
  <2>1. pc'[e] = "stored" /\ pc[e] = "storing"
    BY <1>6 DEF EnqueueWrite, TypeOK
  <2>2. \A r \in Processes \ {e} : pc'[r] = pc[r] /\ snap'[r] = snap[r]
    BY <1>6 DEF EnqueueWrite, TypeOK
  <2>3. UNCHANGED policy /\ holder' = None
    BY <1>6 DEF EnqueueWrite, Leave
  <2> QED
    BY <2>1, <2>2, <2>3, SerialMove
<1>7. CASE EnqueueDone(e)
  <2>1. pc[e] = "stored"
    BY <1>7 DEF EnqueueDone
  <2>2. \A r \in Processes : \/ pc'[r] = pc[r] /\ (snap'[r] = snap[r] \/ r = e) /\ r # e
                             \/ pc'[r] \in {"idle", "reading"}
    BY <1>7, ProcessesAreApart DEF EnqueueDone, TypeOK, StartFlush, Processes
  <2>3. UNCHANGED <<policy, queue, holder>>
    BY <1>7 DEF EnqueueDone
  <2>4. SectionsAreSerial'
    BY <2>2, <2>3 DEF SectionsAreSerial, Serial
  <2> QED
    BY <2>2, <2>3, <2>4 DEF Serial, PolicyFacts
<1>8. CASE PageWrite(e)
  <2>1. pc'[e] = "idle" /\ pc[e] = "paging"
    BY <1>8 DEF PageWrite, TypeOK
  <2>2. ~policy.locked
    BY <2>1 DEF Serial, PolicyFacts
  <2>3. \A r \in Processes : r = e \/ pc'[r] = pc[r]
    BY <1>8 DEF PageWrite, TypeOK
  <2> QED
    BY <1>8, <2>1, <2>2, <2>3 DEF PageWrite, Serial, SectionsAreSerial, PolicyFacts
<1>9. CASE BecomesDue(e)
  BY <1>9 DEF BecomesDue, Serial, SectionsAreSerial, PolicyFacts
<1> QED
  BY <1>1, <1>2, <1>3, <1>4, <1>5, <1>6, <1>7, <1>8, <1>9 DEF Handler

LEMMA SerialFlushes ==
    ASSUME TypeOK, TypeOK', Serial, NEW f \in Flushes,
           TimerFires(f) \/ AlarmFires(f) \/ HealthAlarmFires(f) \/ Flush(f)
    PROVE  Serial'
<1> f \in Processes
  BY DEF Processes
<1> USE DEF InSection, durable
<1>1. CASE TimerFires(f) \/ HealthAlarmFires(f)
  <2>1. pc'[f] = "reading" /\ pc[f] = "idle"
    BY <1>1 DEF TimerFires, HealthAlarmFires, Run, StartFlush, TypeOK
  <2> QED
    BY <1>1, <2>1, SerialMove DEF TimerFires, HealthAlarmFires, Run, StartFlush, TypeOK
<1>2. CASE AlarmFires(f)
  <2>1. CASE "alarm" \in policy.wakers
    <3>1. pc'[f] = "reading" /\ pc[f] = "idle"
      BY <1>2, <2>1 DEF AlarmFires, Run, StartFlush, TypeOK
    <3> QED
      BY <1>2, <2>1, <3>1, SerialMove DEF AlarmFires, Run, StartFlush, TypeOK
  <2>2. CASE "alarm" \notin policy.wakers
    BY <1>2, <2>2 DEF AlarmFires, Serial, SectionsAreSerial, PolicyFacts
  <2> QED
    BY <2>1, <2>2
<1>3. CASE FlushEmpty(f)
  <2>1. pc'[f] = "idle" /\ pc[f] = "reading"
    BY <1>3 DEF FlushEmpty, TypeOK
  <2> QED
    BY <1>3, <2>1, SerialMove DEF FlushEmpty, TypeOK
<1>4. CASE FlushRead(f)
  <2>1. pc'[f] = "posting" /\ pc[f] = "reading"
    BY <1>4 DEF FlushRead, TypeOK
  <2> QED
    BY <1>4, <2>1, SerialMove DEF FlushRead, TypeOK
<1>5. ASSUME NEW a, Posted(f, a)
      PROVE  Serial'
  <2>1. pc'[f] = "posted" /\ pc[f] = "posting"
    BY <1>5 DEF Posted, TypeOK
  <2> QED
    BY <1>5, <2>1, SerialMove DEF Posted, TypeOK
<1>6. CASE SettleRead(f)
  <2>1. pc'[f] = "settling" /\ snap'[f] = IF policy.batched THEN queue ELSE snap[f]
    BY <1>6 DEF SettleRead, TypeOK
  <2>2. policy.locked => policy.batched
    BY DEF Serial, PolicyFacts
  <2>3. \A r \in Processes \ {f} : pc'[r] = pc[r] /\ snap'[r] = snap[r]
    BY <1>6 DEF SettleRead, TypeOK
  <2> QED
    BY <1>6, <2>1, <2>2, <2>3, SerialMove DEF SettleRead, Enter
<1>7. CASE SettleWrite(f)
  <2>1. pc'[f] = "settled" /\ pc[f] = "settling"
    BY <1>7 DEF SettleWrite, TypeOK
  <2>2. \A r \in Processes \ {f} : pc'[r] = pc[r] /\ snap'[r] = snap[r]
    BY <1>7 DEF SettleWrite, TypeOK
  <2>3. UNCHANGED policy /\ holder' = None
    BY <1>7 DEF SettleWrite, Leave
  <2> QED
    BY <2>1, <2>2, <2>3, SerialMove
<1>8. CASE FlushAgain(f)
  <2>1. pc'[f] = "reading" /\ pc[f] = "settled"
    BY <1>8 DEF FlushAgain, TypeOK
  <2> QED
    BY <1>8, <2>1, SerialMove DEF FlushAgain, TypeOK
<1>9. CASE FlushDone(f)
  <2>1. pc'[f] = "idle" /\ pc[f] = "settled"
    BY <1>9 DEF FlushDone, TypeOK
  <2> QED
    BY <1>9, <2>1, SerialMove DEF FlushDone, TypeOK
<1> QED
  BY <1>1, <1>2, <1>3, <1>4, <1>5, <1>6, <1>7, <1>8, <1>9
  DEF Flush, PostEnds, PostSucceeds, PostFails

\* A stopped worker holds no lock.
LEMMA SerialForget ==
    ASSUME TypeOK, Serial, NEW started, ForgetAll(started), UNCHANGED policy
    PROVE  Serial'
<1>1. \A p \in Processes : pc'[p] \in {"reading", "idle"} \/ (pc'[p] = "paging" /\ pc[p] = "paging")
  BY DEF ForgetAll
<1> QED
  BY <1>1 DEF Serial, SectionsAreSerial, InSection, PolicyFacts

LEMMA SerialStep == TypeOK /\ Serial /\ [Next]_vars => Serial'
<1> SUFFICES ASSUME TypeOK, Serial, [Next]_vars
             PROVE  Serial'
  OBVIOUS
<1>1. TypeOK'
  BY TypeStep
<1>2. CASE Stop
  BY <1>2, SerialForget DEF Stop, durable
<1>3. CASE \E f \in Flushes : Restart(f)
  BY <1>3, SerialForget DEF Restart
<1>4. CASE UNCHANGED vars
  BY <1>4 DEF vars, durable, memory, Serial, SectionsAreSerial, PolicyFacts
<1> QED
  BY <1>1, <1>2, <1>3, <1>4, SerialEvents, SerialFlushes DEF Next

\* Inside a locked section nobody else writes: what was read there is what is
\* stored, for any number of handlers and flushes.
THEOREM LockWorks == Spec => []SectionsAreSerial
<1>1. Init => TypeOK /\ Serial
  BY TypeInit, SerialInit
<1>2. TypeOK /\ Serial /\ [Next]_vars => (TypeOK /\ Serial)'
  BY TypeStep, SerialStep
<1>3. Serial => SectionsAreSerial
  BY DEF Serial
<1> QED
  BY <1>1, <1>2, <1>3, PTL DEF Spec

-----------------------------------------------------------------------------
(* What a write takes out of the queue *)

LEMMA EnqueuedKeys ==
    ASSUME NEW q \in SUBSET Item, NEW e \in Events
    PROVE  Keys(Enqueued(q, e)) = Keys(q) \union {e}
<1> DEFINE new == [event |-> e, attempts |-> 0, at |-> clock]
<1>1. Keys(q \union {new}) = Keys(q) \union {e}
  <2>1. new.event = e
    OBVIOUS
  <2> HIDE DEF new
  <2> QED
    BY <2>1 DEF Keys
<1> QED
  BY <1>1 DEF Enqueued

LEMMA SettledKeys ==
    ASSUME NEW q \in SUBSET Item, NEW b \in SUBSET Events, NEW a
    PROVE  /\ Keys(Settled(q, b, a)) \subseteq Keys(q)
           /\ Keys(q) \subseteq Keys(Settled(q, b, a)) \union (b \intersect a)
                                \union Keys({i \in Retried(q, b, a) : GivesUp(i.attempts)})
<1>1. Keys(Retried(q, b, a)) = Keys(q) \intersect (b \ a)
  BY RetriedTyped
<1>2. Keys(Settled(q, b, a)) =
        {i.event : i \in {j \in q : j.event \notin b}}
        \union Keys({i \in Retried(q, b, a) : ~GivesUp(i.attempts)})
  BY DEF Settled, Keys
<1>3. Keys(Retried(q, b, a)) =
        Keys({i \in Retried(q, b, a) : ~GivesUp(i.attempts)})
        \union Keys({i \in Retried(q, b, a) : GivesUp(i.attempts)})
  BY DEF Keys
<1>4. {i.event : i \in {j \in q : j.event \notin b}} = Keys(q) \ b
  BY DEF Keys
<1> QED
  BY <1>1, <1>2, <1>3, <1>4

-----------------------------------------------------------------------------
(* Nothing is lost *)

Accounted ==
    /\ NothingLost
    /\ \A f \in Flushes : answered[f] \subseteq served

LEMMA AccountedInit == Init => Accounted
BY DEF Init, Accounted, NothingLost

LEMMA AccountedStep == TypeOK /\ Serial /\ Accounted /\ [Next]_vars => Accounted'
<1> SUFFICES ASSUME TypeOK, Serial, Accounted, [Next]_vars
             PROVE  Accounted'
  OBVIOUS
<1> USE DEF Accounted, durable, memory, history, counters
<1>1. ASSUME NEW e \in Events, EnqueueWrite(e)
      PROVE  Accounted'
  <2> DEFINE q == Enqueued(snap[e], e)
  <2>1. /\ queue' = Trim(q)
        /\ overflowed' = overflowed \union (Keys(q) \ Keys(Trim(q)))
        /\ accepted' = accepted \union {e}
        /\ UNCHANGED <<policy, served, givenUp, answered>>
    BY <1>1 DEF EnqueueWrite, Store
  <2>2. policy.locked => snap[e] = queue
    BY <1>1 DEF EnqueueWrite, Serial, SectionsAreSerial, InSection, Processes
  <2>3. policy.locked => Keys(q) = Keys(queue) \union {e}
    BY <2>2, EnqueuedKeys DEF TypeOK
  <2> HIDE DEF q
  <2> QED
    BY <2>1, <2>3 DEF NothingLost
<1>2. ASSUME NEW e \in Events, PageWrite(e)
      PROVE  Accounted'
  BY <1>2 DEF PageWrite, Store, Serial, PolicyFacts, NothingLost, Processes
<1>3. ASSUME NEW f \in Flushes, SettleWrite(f)
      PROVE  Accounted'
  <2> DEFINE r == Retried(snap[f], batch[f], answered[f])
             q == Settled(snap[f], batch[f], answered[f])
             g == Keys({i \in r : GivesUp(i.attempts)})
  <2>1. /\ queue' = Trim(q)
        /\ givenUp' = givenUp \union g
        /\ overflowed' = overflowed \union (Keys(q) \ Keys(Trim(q)))
        /\ answered' = [answered EXCEPT ![f] = {}]
        /\ UNCHANGED <<policy, served, accepted>>
    BY <1>3 DEF SettleWrite
  <2>2. policy.locked => snap[f] = queue
    BY <1>3 DEF SettleWrite, Serial, SectionsAreSerial, InSection, Processes
  <2>3. policy.locked => Keys(queue) \subseteq Keys(q) \union answered[f] \union g
    BY <2>2, SettledKeys DEF TypeOK
  <2>4. \A h \in Flushes : answered'[h] \subseteq served
    BY <2>1 DEF TypeOK
  <2> HIDE DEF r, q, g
  <2> QED
    BY <2>1, <2>3, <2>4 DEF NothingLost
<1>4. ASSUME NEW f \in Flushes, PostEnds(f)
      PROVE  Accounted'
  <2>1. PICK a : /\ answered' = [answered EXCEPT ![f] = a]
                 /\ a \subseteq served' /\ served \subseteq served'
                 /\ UNCHANGED <<policy, queue, accepted, givenUp, overflowed>>
    BY <1>4 DEF PostEnds, PostSucceeds, PostFails, Posted
  <2>2. \A h \in Flushes : answered'[h] \subseteq served'
    BY <2>1 DEF TypeOK
  <2> QED
    BY <2>1, <2>2 DEF NothingLost
<1>5. ASSUME NEW started, ForgetAll(started), UNCHANGED <<policy, queue, served, history>>
      PROVE  Accounted'
  BY <1>5 DEF ForgetAll, NothingLost
<1>6. ASSUME UNCHANGED <<policy, queue, accepted, givenUp, overflowed, answered>>,
             served \subseteq served'
      PROVE  Accounted'
  BY <1>6 DEF NothingLost
<1>7. ASSUME NEW e \in Events,
             Send(e) \/ Report(e) \/ PageRead(e) \/ EnqueueRead(e) \/ EnqueueSkip(e)
             \/ EnqueueDone(e) \/ BecomesDue(e)
      PROVE  Accounted'
  BY <1>6, <1>7 DEF Send, Report, PageRead, EnqueueRead, EnqueueSkip, EnqueueDone, BecomesDue
<1>8. ASSUME NEW f \in Flushes,
             TimerFires(f) \/ AlarmFires(f) \/ HealthAlarmFires(f) \/ FlushEmpty(f) \/ FlushRead(f)
             \/ SettleRead(f) \/ FlushAgain(f) \/ FlushDone(f)
      PROVE  Accounted'
  BY <1>6, <1>8 DEF TimerFires, AlarmFires, HealthAlarmFires, FlushEmpty, FlushRead, SettleRead,
                    FlushAgain, FlushDone
<1>9. CASE Stop
  BY <1>5, <1>9 DEF Stop
<1>10. CASE \E f \in Flushes : Restart(f)
  BY <1>5, <1>10 DEF Restart
<1>11. CASE UNCHANGED vars
  BY <1>6, <1>11 DEF vars
<1> QED
  BY <1>1, <1>2, <1>3, <1>4, <1>7, <1>8, <1>9, <1>10, <1>11 DEF Next, Handler, Flush

\* A locked queue loses no event it has accepted, for any events, limits and
\* overlapping flushes, and wherever the worker is stopped.
THEOREM LosesNothing == Spec => []NothingLost
<1>1. Init => TypeOK /\ Serial /\ Accounted
  BY TypeInit, SerialInit, AccountedInit
<1>2. TypeOK /\ Serial /\ Accounted /\ [Next]_vars => (TypeOK /\ Serial /\ Accounted)'
  BY TypeStep, SerialStep, AccountedStep
<1>3. Accounted => NothingLost
  BY DEF Accounted
<1> QED
  BY <1>1, <1>2, <1>3, PTL DEF Spec

-----------------------------------------------------------------------------
(* One item per event *)

Single(q) == \A i, j \in q : i.event = j.event => i = j

OneEach ==
    policy.resent # "push" => Single(queue) /\ \A p \in Processes : Single(snap[p])

LEMMA EnqueuedSingle ==
    ASSUME NEW q \in SUBSET Item, NEW e \in Events, Single(q),
           e \in Keys(q) => policy.resent = "replace"
    PROVE  Single(Enqueued(q, e))
<1>1. CASE e \in Keys(q)
  BY <1>1 DEF Enqueued
<1>2. CASE e \notin Keys(q)
  BY <1>2 DEF Enqueued, Keys, Single
<1> QED
  BY <1>1, <1>2

LEMMA SettledSingle ==
    ASSUME NEW q \in SUBSET Item, NEW b \in SUBSET Events, NEW a, Single(q)
    PROVE  Single(Settled(q, b, a))
<1>1. \A i \in Retried(q, b, a) : \E j \in q : /\ j.event \in b \ a
                                             /\ i = [j EXCEPT !.attempts = @ + 1]
                                             /\ i.event = j.event
  BY DEF Retried, Item
<1> QED
  BY <1>1 DEF Settled, Single

LEMMA OneEachInit == Init => OneEach
BY DEF Init, OneEach, Single

LEMMA OneEachStep == TypeOK /\ Serial /\ OneEach /\ [Next]_vars => OneEach'
<1> SUFFICES ASSUME TypeOK, Serial, OneEach, [Next]_vars, policy.resent # "push"
             PROVE  OneEach'
  BY DEF OneEach, Next, vars, durable, Handler, Flush, PostEnds, Send, Report, PageRead,
         EnqueueRead, EnqueueSkip, EnqueueWrite, EnqueueDone, PageWrite, BecomesDue, TimerFires,
         AlarmFires, HealthAlarmFires, FlushEmpty, FlushRead, PostSucceeds, PostFails, Posted,
         SettleRead, SettleWrite, FlushAgain, FlushDone, Stop, Restart
<1> USE DEF durable, memory, history, counters
<1>1. Single(queue) /\ (\A p \in Processes : Single(snap[p])) /\ ~policy.paged
  BY DEF OneEach, Serial, PolicyFacts
<1>2. Single({})
  BY DEF Single
<1>3. ASSUME NEW p \in Processes, NEW q, Single(q), snap' = [snap EXCEPT ![p] = q], Single(queue')
      PROVE  OneEach'
  BY <1>1, <1>3 DEF OneEach, TypeOK
<1>4. ASSUME UNCHANGED <<queue, snap>>
      PROVE  OneEach'
  BY <1>1, <1>4 DEF OneEach
<1>5. ASSUME NEW e \in Events, EnqueueWrite(e)
      PROVE  OneEach'
  <2> DEFINE q == Enqueued(snap[e], e)
  <2>1. e \in Keys(snap[e]) => policy.resent = "replace"
    BY <1>5 DEF EnqueueWrite, TypeOK, QueuePolicy
  <2>2. Single(q)
    BY <1>1, <2>1, EnqueuedSingle DEF TypeOK, Processes
  <2>3. queue' = Trim(q) /\ snap' = [snap EXCEPT ![e] = q]
    BY <1>5 DEF EnqueueWrite, Store
  <2> HIDE DEF q
  <2>4. Single(queue')
    BY <2>2, <2>3, TrimKeeps DEF Single
  <2> QED
    BY <1>3, <2>2, <2>3, <2>4 DEF Processes
<1>6. ASSUME NEW f \in Flushes, SettleWrite(f)
      PROVE  OneEach'
  <2> DEFINE q == Settled(snap[f], batch[f], answered[f])
  <2>1. Single(q)
    BY <1>1, SettledSingle DEF TypeOK, Processes
  <2>2. queue' = Trim(q) /\ snap' = [snap EXCEPT ![f] = Kept(q)]
    BY <1>6 DEF SettleWrite
  <2> HIDE DEF q
  <2>3. Single(queue') /\ Single(Kept(q))
    BY <1>2, <2>1, <2>2, TrimKeeps DEF Single, Kept
  <2> QED
    BY <1>3, <2>2, <2>3 DEF Processes
<1>7. ASSUME NEW e \in Events, Send(e) \/ EnqueueRead(e) \/ EnqueueSkip(e) \/ EnqueueDone(e)
      PROVE  OneEach'
  <2>1. (snap' = [snap EXCEPT ![e] = queue] \/ snap' = [snap EXCEPT ![e] = {}]) /\ UNCHANGED queue
    BY <1>7 DEF Send, EnqueueRead, EnqueueSkip, EnqueueDone
  <2> QED
    BY <1>1, <1>2, <1>3, <2>1 DEF Processes
<1>8. ASSUME NEW e \in Events, PageRead(e) \/ PageWrite(e)
      PROVE  OneEach'
  BY <1>1, <1>8 DEF PageRead, PageWrite, Serial, Processes
<1>9. ASSUME NEW f \in Flushes, FlushRead(f) \/ SettleRead(f) \/ FlushDone(f)
      PROVE  OneEach'
  <2>1. PICK q \in {{}, queue, snap[f]} : snap' = [snap EXCEPT ![f] = q] /\ UNCHANGED queue
    BY <1>9 DEF FlushRead, SettleRead, FlushDone, Kept
  <2> QED
    BY <1>1, <1>2, <1>3, <2>1 DEF Processes
<1>10. ASSUME NEW started, ForgetAll(started), UNCHANGED queue
       PROVE  OneEach'
  <2>1. \A p \in Processes : snap'[p] \in {snap[p], {}}
    BY <1>10 DEF ForgetAll
  <2> QED
    BY <1>1, <1>2, <1>10, <2>1 DEF OneEach
<1>11. CASE Stop \/ \E f \in Flushes : Restart(f)
  BY <1>10, <1>11 DEF Stop, Restart
<1>12. ASSUME NEW e \in Events, Report(e) \/ BecomesDue(e)
       PROVE  OneEach'
  BY <1>4, <1>12 DEF Report, BecomesDue
<1>13. ASSUME NEW f \in Flushes,
             TimerFires(f) \/ AlarmFires(f) \/ HealthAlarmFires(f) \/ FlushEmpty(f) \/ PostEnds(f)
             \/ FlushAgain(f)
       PROVE  OneEach'
  BY <1>4, <1>13 DEF TimerFires, AlarmFires, HealthAlarmFires, FlushEmpty, PostEnds, PostSucceeds,
                     PostFails, Posted, FlushAgain
<1>14. CASE UNCHANGED vars
  BY <1>4, <1>14 DEF vars
<1> QED
  BY <1>5, <1>6, <1>7, <1>8, <1>9, <1>11, <1>12, <1>13, <1>14 DEF Next, Handler, Flush

\* However often a page reports an event and however flushes and handlers
\* overlap, the queue holds one item for it, in every queue but ChatGPT's.
THEOREM QueuesOnce == Spec => []OneItemPerEvent
<1>1. Init => TypeOK /\ Serial /\ OneEach
  BY TypeInit, SerialInit, OneEachInit
<1>2. TypeOK /\ Serial /\ OneEach /\ [Next]_vars => (TypeOK /\ Serial /\ OneEach)'
  BY TypeStep, SerialStep, OneEachStep
<1>3. OneEach => OneItemPerEvent
  BY DEF OneEach, Single, OneItemPerEvent
<1> QED
  BY <1>1, <1>2, <1>3, PTL DEF Spec

-----------------------------------------------------------------------------
(* The queue is looked at again *)

\* NeverStranded, with what each kind of flush will look at when it ends: the
\* capture queues at what is stored, the usage queue at its own copy.
Watched ==
    \/ timer
    \/ alarm
    \/ \E e \in Events : pc[e] = "stored"
    \/ \E f \in Flushes : pc[f] \notin {"idle", "settled"}
    \/ \E f \in Flushes : pc[f] = "settled" /\ (policy.batched \/ snap[f] # {})

Attended ==
    "alarm" \in policy.wakers /\ ~policy.paged /\ stops = 0 /\ queue # {} => Watched

LEMMA AttendedStep == TypeOK /\ Serial /\ Attended /\ [Next]_vars => Attended'
<1> SUFFICES ASSUME TypeOK, Serial, Attended, [Next]_vars, queue' # {},
                    policy'.wakers = policy.wakers, policy'.paged = policy.paged,
                    "alarm" \in policy.wakers, ~policy.paged, stops' = 0
             PROVE  Watched'
  BY DEF Attended, Next, vars, durable, Handler, Flush, PostEnds, Send, Report, PageRead,
         EnqueueRead, EnqueueSkip, EnqueueWrite, EnqueueDone, PageWrite, BecomesDue, TimerFires,
         AlarmFires, HealthAlarmFires, FlushEmpty, FlushRead, PostSucceeds, PostFails, Posted,
         SettleRead, SettleWrite, FlushAgain, FlushDone, Stop, Restart
<1> USE DEF durable, memory, history, counters
<1>1. \A p \in Processes : pc[p] # "paging"
  BY DEF Serial
<1>2. ~policy.batched => policy.backstop
  BY DEF Serial, PolicyFacts
<1>3. stops = 0 /\ queue # {} => Watched
  BY DEF Attended
<1>4. Events \intersect Flushes = {} /\ Events \subseteq Processes /\ Flushes \subseteq Processes
  BY ProcessesAreApart DEF Processes
<1>5. ASSUME NEW e \in Events,
             Send(e) \/ Report(e) \/ PageRead(e) \/ EnqueueRead(e) \/ EnqueueSkip(e)
      PROVE  Watched'
  <2>1. /\ UNCHANGED <<policy, queue, alarm, timer, stops>>
        /\ pc[e] # "stored"
        /\ \A p \in Processes : p # e => pc'[p] = pc[p]
        /\ \A f \in Flushes : snap'[f] = snap[f]
    BY <1>4, <1>5 DEF Send, Report, PageRead, EnqueueRead, EnqueueSkip, TypeOK
  <2> QED
    BY <1>3, <1>4, <2>1 DEF Watched
<1>6. ASSUME NEW e \in Events, EnqueueWrite(e)
      PROVE  Watched'
  <2>1. pc'[e] = "stored"
    BY <1>4, <1>6 DEF EnqueueWrite, TypeOK
  <2> QED
    BY <2>1 DEF Watched
<1>7. ASSUME NEW e \in Events, EnqueueDone(e)
      PROVE  Watched'
  <2>1. alarm' \/ timer' \/ \E f \in Flushes : pc'[f] = "reading"
    BY <1>2, <1>4, <1>7 DEF EnqueueDone, TypeOK, StartFlush
  <2> QED
    BY <2>1 DEF Watched
<1>8. ASSUME NEW e \in Events, BecomesDue(e)
      PROVE  Watched'
  BY <1>3, <1>8 DEF BecomesDue, Watched
<1>9. ASSUME NEW f \in Flushes,
             TimerFires(f) \/ AlarmFires(f) \/ HealthAlarmFires(f) \/ FlushRead(f) \/ PostEnds(f)
             \/ SettleRead(f) \/ FlushAgain(f)
      PROVE  Watched'
  <2>1. pc'[f] \in {"reading", "posting", "posted", "settling"}
    BY <1>4, <1>9 DEF TimerFires, AlarmFires, HealthAlarmFires, Run, StartFlush, FlushRead, PostEnds,
                      PostSucceeds, PostFails, Posted, SettleRead, FlushAgain, TypeOK
  <2> QED
    BY <2>1 DEF Watched
<1>10. ASSUME NEW f \in Flushes, FlushEmpty(f)
       PROVE  Watched'
  BY <1>10 DEF FlushEmpty, Watched
<1>11. ASSUME NEW f \in Flushes, SettleWrite(f)
       PROVE  Watched'
  <2> DEFINE q == Settled(snap[f], batch[f], answered[f])
  <2>1. queue' = Trim(q) /\ snap'[f] = Kept(q) /\ pc'[f] = "settled" /\ UNCHANGED policy
    BY <1>4, <1>11 DEF SettleWrite, TypeOK
  <2> HIDE DEF q
  <2>2. ~policy.batched => snap'[f] # {}
    BY <2>1, TrimKeeps DEF Kept
  <2> QED
    BY <2>1, <2>2 DEF Watched
<1>12. ASSUME NEW f \in Flushes, FlushDone(f)
       PROVE  Watched'
  <2>1. CASE policy.batched
    BY <1>12, <2>1 DEF FlushDone, Watched
  <2>2. CASE ~policy.batched /\ snap[f] # {}
    BY <1>12, <2>2 DEF FlushDone, Watched
  <2>3. CASE ~policy.batched /\ snap[f] = {}
    <3>1. /\ UNCHANGED <<policy, queue, timer, stops>>
          /\ alarm => alarm'
          /\ pc[f] = "settled"
          /\ \A p \in Processes : p # f => pc'[p] = pc[p] /\ snap'[p] = snap[p]
      BY <1>12 DEF FlushDone, TypeOK
    <3> QED
      BY <1>3, <1>4, <2>3, <3>1 DEF Watched
  <2> QED
    BY <2>1, <2>2, <2>3
<1>13. ~Stop /\ ~\E f \in Flushes : Restart(f)
  <2>1. ASSUME NEW started, ForgetAll(started)
        PROVE  FALSE
    <3>1. stops \in Nat /\ stops' = stops + 1
      BY <2>1 DEF TypeOK, ForgetAll
    <3> QED
      BY <1>1, <3>1
  <2>2. ~Stop
    BY <2>1 DEF Stop
  <2>3. ASSUME NEW f \in Flushes, Restart(f)
        PROVE  FALSE
    <3>1. ForgetAll(IF "startup" \in policy.wakers THEN {f} ELSE {})
      BY <2>3 DEF Restart
    <3> QED
      BY <2>1, <3>1
  <2> QED
    BY <2>2, <2>3
<1>14. \A e \in Events : ~PageWrite(e)
  BY <1>1, <1>4 DEF PageWrite
<1>15. CASE UNCHANGED vars
  BY <1>3, <1>15 DEF vars, Watched
<1> QED
  BY <1>5, <1>6, <1>7, <1>8, <1>9, <1>10, <1>11, <1>12, <1>13, <1>14, <1>15
  DEF Next, Handler, Flush

\* While the worker lives, a queue whose retry alarm is listened to always has
\* a timer, an alarm, a handler or a flush that will come back to its items.
THEOREM AlwaysAttended == Spec => []NeverStranded
<1>1. Init => TypeOK /\ Serial /\ Attended
  BY TypeInit, SerialInit DEF Init, Attended
<1>2. TypeOK /\ Serial /\ Attended /\ [Next]_vars => (TypeOK /\ Serial /\ Attended)'
  BY TypeStep, SerialStep, AttendedStep
<1>3. Attended => NeverStranded
  BY DEF Attended, Watched, NeverStranded, Awake
<1> QED
  BY <1>1, <1>2, <1>3, PTL DEF Spec

-----------------------------------------------------------------------------
(* The queue is an outbox *)

Reliable == TypeOK /\ Serial /\ Accounted /\ OneEach

LEMMA DeliveryInit == TypeOK /\ Init => Delivery!Init
<1>1. Keys({}) = {}
  BY DEF Keys
<1> QED
  BY <1>1 DEF Init, Delivery!Init, TypeOK, QueuePolicy

LEMMA DeliveryStep == Reliable /\ [Next]_vars => [Delivery!Next]_(Delivery!deliveryVars)
<1> SUFFICES ASSUME Reliable, [Next]_vars
             PROVE  [Delivery!Next]_(Delivery!deliveryVars)
  OBVIOUS
<1> USE DEF durable, memory, history, counters, Reliable
<1>1. ASSUME UNCHANGED <<policy, queue, givenUp, overflowed>>, served \subseteq served',
             served' \subseteq Events
      PROVE  Delivery!Next
  BY <1>1 DEF Delivery!Next, Delivery!Serve
<1>2. ASSUME UNCHANGED <<policy, queue, givenUp, overflowed, served>>
      PROVE  UNCHANGED Delivery!deliveryVars
  BY <1>2 DEF Delivery!deliveryVars
<1>3. ASSUME NEW e \in Events, EnqueueWrite(e)
      PROVE  Delivery!Next
  <2> DEFINE q == Enqueued(snap[e], e)
             out == Keys(q) \ Keys(Trim(q))
  <2>1. /\ queue' = Trim(q)
        /\ overflowed' = overflowed \union out
        /\ UNCHANGED <<policy, served, givenUp>>
    BY <1>3 DEF EnqueueWrite, Store
  <2>2. Keys(q) = Keys(snap[e]) \union {e} /\ Keys(Trim(q)) \subseteq Keys(q)
    BY EnqueuedKeys, TrimKeeps DEF TypeOK, Processes, Keys
  <2>3. policy.locked => snap[e] = queue
    BY <1>3 DEF EnqueueWrite, Serial, SectionsAreSerial, InSection, Processes
  <2>4. Keys(Trim(q)) \in SUBSET Events
    <3>1. q \in SUBSET Item
      BY EnqueuedTyped DEF TypeOK, Processes
    <3> HIDE DEF q
    <3> QED
      BY <3>1, TrimKeeps, KeysTyped
  <2> HIDE DEF q
  <2>5. CASE policy.locked
    <3>1. Keys(queue') = (Keys(queue) \union {e}) \ out
      BY <2>1, <2>2, <2>3, <2>5
    <3>2. out \in SUBSET (Keys(queue) \union {e})
      BY <2>2, <2>3, <2>5
    <3>3. (givenUp \union overflowed)' = (givenUp \union overflowed) \union out
      BY <2>1
    <3> HIDE DEF out
    <3>4. Delivery!Accept(e)
      BY <2>1, <3>1, <3>2, <3>3 DEF Delivery!Accept
    <3> QED
      BY <3>4 DEF Delivery!Next
  <2>6. CASE ~policy.locked
    BY <2>1, <2>4, <2>6 DEF Delivery!Next, Delivery!Overwrite
  <2> QED
    BY <2>5, <2>6
<1>4. ASSUME NEW e \in Events, PageWrite(e)
      PROVE  Delivery!Next
  <2>1. ~policy.locked
    BY <1>4 DEF PageWrite, Serial, PolicyFacts, Processes
  <2>2. Keys(queue') \in SUBSET Events
    <3>1. queue' \in SUBSET Item
      BY TypeStep DEF TypeOK
    <3> QED
      BY <3>1, KeysTyped
  <2> QED
    BY <1>4, <2>1, <2>2 DEF PageWrite, Store, Delivery!Next, Delivery!Overwrite
<1>5. ASSUME NEW f \in Flushes, SettleWrite(f)
      PROVE  Delivery!Next
  <2> DEFINE r == Retried(snap[f], batch[f], answered[f])
             q == Settled(snap[f], batch[f], answered[f])
             g == Keys({i \in r : GivesUp(i.attempts)})
             out == g \union (Keys(q) \ Keys(Trim(q)))
             done == answered[f] \intersect batch[f]
  <2>1. /\ queue' = Trim(q)
        /\ givenUp' = givenUp \union g
        /\ overflowed' = overflowed \union (Keys(q) \ Keys(Trim(q)))
        /\ UNCHANGED <<policy, served>>
    BY <1>5 DEF SettleWrite
  <2>2. /\ snap[f] \in SUBSET Item /\ batch[f] \in SUBSET Events
        /\ answered[f] \subseteq served
    BY DEF TypeOK, Processes, Accounted
  <2>3. /\ Keys(q) \subseteq Keys(snap[f])
        /\ Keys(snap[f]) \subseteq Keys(q) \union done \union g
        /\ Keys(Trim(q)) \subseteq Keys(q)
    BY <2>2, SettledKeys, TrimKeeps DEF Keys
  <2>4. g \subseteq Keys(snap[f]) /\ Keys(snap[f]) \subseteq Events
    <3>1. Keys(snap[f]) \subseteq Events
      BY <2>2, KeysTyped
    <3>2. \A j \in r : \E k \in snap[f] : j = [k EXCEPT !.attempts = @ + 1]
      BY DEF Retried
    <3>3. \A k \in snap[f] : [k EXCEPT !.attempts = @ + 1].event = k.event
      BY <2>2 DEF Item
    <3>4. \A j \in r : \E k \in snap[f] : j.event = k.event
      BY <3>2, <3>3
    <3> HIDE DEF r
    <3> QED
      BY <3>1, <3>4 DEF Keys
  <2>5. policy.locked => snap[f] = queue
    BY <1>5 DEF SettleWrite, Serial, SectionsAreSerial, InSection, Processes
  <2>6. policy.locked => Keys(q) \intersect (done \union g) = {}
    <3> SUFFICES ASSUME policy.locked, NEW i \in q, i.event \in done \union g
                 PROVE  FALSE
      BY DEF Keys
    <3>1. Single(snap[f])
      BY DEF OneEach, Serial, PolicyFacts, Processes
    <3>2. \A j \in r : \E k \in snap[f] : /\ k.event \in batch[f] \ answered[f]
                                         /\ j = [k EXCEPT !.attempts = @ + 1]
                                         /\ j.event = k.event
      BY <2>2 DEF Retried, Item
    <3>3. CASE i.event \in done
      BY <3>2, <3>3 DEF Settled
    <3>4. CASE i.event \in g
      <4>1. PICK j \in r : GivesUp(j.attempts) /\ j.event = i.event
        BY <3>4 DEF Keys
      <4>2. PICK k \in snap[f] : k.event \in batch[f] \ answered[f]
                                 /\ j = [k EXCEPT !.attempts = @ + 1] /\ j.event = k.event
        BY <3>2, <4>1
      <4>3. i \in r /\ ~GivesUp(i.attempts)
        BY <4>1, <4>2 DEF Settled
      <4>4. PICK m \in snap[f] : i = [m EXCEPT !.attempts = @ + 1] /\ i.event = m.event
        BY <3>2, <4>3
      <4>5. k = m
        BY <3>1, <4>1, <4>2, <4>4 DEF Single
      <4> QED
        BY <4>1, <4>2, <4>3, <4>4, <4>5
    <3> QED
      BY <3>3, <3>4
  <2> HIDE DEF q, r, g
  <2>7. CASE policy.locked
    <3>1. Keys(queue') = Keys(queue) \ (done \union out)
      BY <2>1, <2>3, <2>4, <2>5, <2>6, <2>7
    <3>2. out \in SUBSET Keys(queue) /\ done \in SUBSET served
      BY <2>2, <2>3, <2>4, <2>5, <2>7
    <3>3. (givenUp \union overflowed)' = (givenUp \union overflowed) \union out
      BY <2>1
    <3> HIDE DEF out, done
    <3>4. Delivery!Settle
      BY <2>1, <3>1, <3>2, <3>3 DEF Delivery!Settle
    <3> QED
      BY <3>4 DEF Delivery!Next
  <2>8. CASE ~policy.locked
    <3>1. Keys(queue') \in SUBSET Events
      BY <2>1, <2>3, <2>4
    <3> QED
      BY <2>1, <2>8, <3>1 DEF Delivery!Next, Delivery!Overwrite
  <2> QED
    BY <2>7, <2>8
<1>6. ASSUME NEW f \in Flushes, PostEnds(f)
      PROVE  Delivery!Next
  BY <1>1, <1>6 DEF PostEnds, PostSucceeds, PostFails, Posted, TypeOK
<1>7. ASSUME NEW e \in Events, Report(e)
      PROVE  Delivery!Next
  BY <1>1, <1>7 DEF Report, TypeOK
<1>8. ASSUME NEW e \in Events,
             Send(e) \/ PageRead(e) \/ EnqueueRead(e) \/ EnqueueSkip(e) \/ EnqueueDone(e)
             \/ BecomesDue(e)
      PROVE  UNCHANGED Delivery!deliveryVars
  BY <1>2, <1>8 DEF Send, PageRead, EnqueueRead, EnqueueSkip, EnqueueDone, BecomesDue
<1>9. ASSUME NEW f \in Flushes,
             TimerFires(f) \/ AlarmFires(f) \/ HealthAlarmFires(f) \/ FlushEmpty(f) \/ FlushRead(f)
             \/ SettleRead(f) \/ FlushAgain(f) \/ FlushDone(f) \/ Restart(f)
      PROVE  UNCHANGED Delivery!deliveryVars
  BY <1>2, <1>9 DEF TimerFires, AlarmFires, HealthAlarmFires, FlushEmpty, FlushRead, SettleRead,
                    FlushAgain, FlushDone, Restart
<1>10. CASE Stop
  BY <1>2, <1>10 DEF Stop
<1>11. CASE UNCHANGED vars
  BY <1>2, <1>11 DEF vars
<1> QED
  BY <1>3, <1>4, <1>5, <1>6, <1>7, <1>8, <1>9, <1>10, <1>11 DEF Next, Handler, Flush

\* Each queue implements the promise of an outbox, the locked ones without any
\* Overwrite: what leaves the queue was answered or given up.
THEOREM ImplementsDelivery == Spec => DeliverySpec
<1>1. Init => Reliable /\ Delivery!Init
  BY TypeInit, SerialInit, AccountedInit, OneEachInit, DeliveryInit DEF Reliable
<1>2. Reliable /\ [Next]_vars => Reliable'
  BY TypeStep, SerialStep, AccountedStep, OneEachStep DEF Reliable
<1>3. Reliable /\ [Next]_vars => [Delivery!Next]_(Delivery!deliveryVars)
  BY DeliveryStep
<1> QED
  BY <1>1, <1>2, <1>3, PTL DEF Spec, DeliverySpec, Delivery!Spec

-----------------------------------------------------------------------------
(* What a queue can hold *)

\* A set of items with places of their own, of which Trim keeps the newest.
Dated(q, now) ==
    /\ IsFiniteSet(q)
    /\ \A i \in q : i.at < now
    /\ \A i, j \in q : i.at = j.at => i = j

AllDated ==
    /\ Dated(queue, clock) /\ \A p \in Processes : Dated(snap[p], clock)
    /\ QueueBounded

LEMMA LeastNat ==
    ASSUME NEW S \in SUBSET Nat, S # {}
    PROVE  \E m \in S : \A r \in S : m <= r
<1>1. S \subseteq Nat
  OBVIOUS
<1>2. PICK m \in S : \A r \in S : <<r, m>> \notin OpToRel(<, Nat)
  BY <1>1, NatLessThanWellFounded, WFMin
<1>3. ASSUME NEW r \in S  PROVE m <= r
  <2>1. SUFFICES ASSUME r < m  PROVE FALSE
    BY <1>1
  <2>2. <<r, m>> \in Nat \X Nat /\ <<r, m>>[1] < <<r, m>>[2]
    BY <1>1, <2>1
  <2> QED
    BY <1>2, <2>2, Zenon DEF OpToRel
<1> QED
  BY <1>3

\* The items a trimmed queue holds are no more than its limit: all but the
\* oldest of them are newer than that one, and these are fewer than the limit.
LEMMA TrimBounds ==
    ASSUME TypeOK, NEW q \in SUBSET Item, NEW now, Dated(q, now)
    PROVE  Cardinality(Trim(q)) <= policy.limits.limit
<1> DEFINE T == Trim(q)
           n == policy.limits.limit
<1>1. IsFiniteSet(q) /\ IsFiniteSet(T) /\ T \subseteq q /\ n \in Nat
  BY TrimKeeps, FS_Subset DEF Dated, TypeOK, QueuePolicy
<1>2. CASE T = {}
  BY <1>1, <1>2, FS_EmptySet
<1>3. CASE T # {}
  <2> DEFINE places == {i.at : i \in T}
  <2>1. places \in SUBSET Nat /\ places # {}
    BY <1>1, <1>3 DEF Item
  <2>2. PICK m \in places : \A x \in places : m <= x
    BY <2>1, LeastNat
  <2>3. PICK i \in T : i.at = m
    OBVIOUS
  <2> DEFINE newer == {j \in q : j.at > i.at}
  <2>4. Cardinality(newer) < n
    BY DEF Trim
  <2>5. T \ {i} \subseteq newer
    <3> SUFFICES ASSUME NEW j \in T, j # i  PROVE j.at > i.at
      BY <1>1
    <3>1. j.at # i.at /\ i.at <= j.at /\ i.at \in Nat /\ j.at \in Nat
      BY <1>1, <2>2, <2>3 DEF Dated, Item
    <3> QED
      BY <3>1
  <2>6. IsFiniteSet(newer) /\ Cardinality(newer) \in Nat
    BY <1>1, FS_Subset, FS_CardinalityType
  <2>7. Cardinality(T \ {i}) <= Cardinality(newer)
    BY <2>5, <2>6, FS_Subset
  <2>8. Cardinality(T \ {i}) = Cardinality(T) - 1 /\ Cardinality(T) \in Nat
    BY <1>1, <2>3, FS_RemoveElement, FS_CardinalityType
  <2> HIDE DEF T, n, newer
  <2> QED
    BY <1>1, <2>4, <2>6, <2>7, <2>8 DEF T, n
<1> QED
  BY <1>2, <1>3

LEMMA TrimDated ==
    ASSUME NEW q, NEW now, Dated(q, now)
    PROVE  Dated(Trim(q), now)
BY TrimKeeps, FS_Subset DEF Dated

\* A new item is the newest one.
LEMMA EnqueuedDated ==
    ASSUME TypeOK, NEW q \in SUBSET Item, NEW e \in Events, Dated(q, clock)
    PROVE  /\ Dated(q, clock + 1)
           /\ Dated(q \union {[event |-> e, attempts |-> 0, at |-> clock]}, clock + 1)
<1> DEFINE new == [event |-> e, attempts |-> 0, at |-> clock]
<1>1. new.at = clock
  OBVIOUS
<1> HIDE DEF new
<1>2. \A i \in q : i.at \in Nat /\ i.at < clock
  BY DEF Dated, Item
<1>3. clock \in Nat
  BY DEF TypeOK
<1>4. IsFiniteSet(q \union {new})
  BY FS_AddElement DEF Dated
<1> QED
  BY <1>1, <1>2, <1>3, <1>4 DEF Dated, new

\* An item that goes back keeps its place.
LEMMA SettledDated ==
    ASSUME NEW q \in SUBSET Item, NEW b, NEW a, NEW now, Dated(q, now)
    PROVE  Dated(Settled(q, b, a), now)
<1> DEFINE again == {j \in q : j.event \in b \ a}
           Retry(i) == [i EXCEPT !.attempts = @ + 1]
           f == [i \in again |-> Retry(i)]
<1>1. IsFiniteSet(again)
  BY FS_Subset DEF Dated
<1>2. f \in Surjection(again, Retried(q, b, a))
  BY DEF Surjection, Retried
<1>3. IsFiniteSet(Retried(q, b, a))
  BY <1>1, <1>2, FS_Surjection
<1>4. IsFiniteSet({i \in q : i.event \notin b}) /\ IsFiniteSet({i \in Retried(q, b, a) : ~GivesUp(i.attempts)})
  BY <1>3, FS_Subset DEF Dated
<1>5. IsFiniteSet(Settled(q, b, a))
  BY <1>4, FS_Union DEF Settled
<1>6. \A x \in Settled(q, b, a) : \E i \in q :
        /\ x.at = i.at
        /\ x = IF i.event \in b THEN Retry(i) ELSE i
  <2>1. \A i \in q : Retry(i).at = i.at
    BY DEF Item
  <2> HIDE DEF again
  <2> QED
    BY <2>1 DEF Settled, Retried
<1> HIDE DEF Retry
<1> QED
  BY <1>5, <1>6 DEF Dated

\* Only three kinds of steps write a queue; the others keep it, and let a copy
\* go or take a new one.
LEMMA QueueMoves ==
    ASSUME TypeOK, [Next]_vars
    PROVE  \/ \E e \in Events : EnqueueWrite(e) \/ PageWrite(e)
           \/ \E f \in Flushes : SettleWrite(f)
           \/ /\ UNCHANGED <<policy, queue, clock>>
              /\ \A p \in Processes : snap'[p] \in {snap[p], queue, {}}
<1> USE DEF durable, memory, history, counters
<1> DEFINE Moved == /\ UNCHANGED <<policy, queue, clock>>
                    /\ \A p \in Processes : snap'[p] \in {snap[p], queue, {}}
<1>1. ASSUME NEW p \in Processes, NEW q \in {queue, snap[p], {}},
             snap' = [snap EXCEPT ![p] = q], UNCHANGED <<policy, queue, clock>>
      PROVE  Moved
  BY <1>1 DEF TypeOK
<1>2. ASSUME UNCHANGED <<policy, queue, clock, snap>>
      PROVE  Moved
  BY <1>2
<1> HIDE DEF Moved
<1>3. ASSUME NEW e \in Events,
             Send(e) \/ EnqueueRead(e) \/ EnqueueSkip(e) \/ EnqueueDone(e) \/ PageRead(e)
      PROVE  Moved
  BY <1>1, <1>3 DEF Send, EnqueueRead, EnqueueSkip, EnqueueDone, PageRead, Processes
<1>4. ASSUME NEW f \in Flushes, FlushRead(f) \/ SettleRead(f) \/ FlushDone(f)
      PROVE  Moved
  <2>1. PICK q \in {queue, snap[f], {}} : snap' = [snap EXCEPT ![f] = q] /\ UNCHANGED <<policy, queue, clock>>
    BY <1>4 DEF FlushRead, SettleRead, FlushDone, Kept
  <2> QED
    BY <1>1, <2>1 DEF Processes
<1>5. ASSUME NEW e \in Events, Report(e) \/ BecomesDue(e)
      PROVE  Moved
  BY <1>2, <1>5 DEF Report, BecomesDue
<1>6. ASSUME NEW f \in Flushes,
             TimerFires(f) \/ AlarmFires(f) \/ HealthAlarmFires(f) \/ FlushEmpty(f) \/ PostEnds(f)
             \/ FlushAgain(f)
      PROVE  Moved
  BY <1>2, <1>6 DEF TimerFires, AlarmFires, HealthAlarmFires, FlushEmpty, PostEnds, PostSucceeds,
                    PostFails, Posted, FlushAgain
<1>7. ASSUME NEW started, ForgetAll(started), UNCHANGED <<policy, queue, clock>>
      PROVE  Moved
  BY <1>7 DEF ForgetAll, Moved
<1>8. ASSUME Stop \/ \E f \in Flushes : Restart(f)
      PROVE  Moved
  BY <1>7, <1>8 DEF Stop, Restart
<1>9. ASSUME UNCHANGED vars
      PROVE  Moved
  BY <1>2, <1>9 DEF vars
<1>10. ASSUME NEW e \in Events,
              Send(e) \/ Report(e) \/ PageRead(e) \/ Handler(e) \/ BecomesDue(e)
       PROVE  EnqueueWrite(e) \/ PageWrite(e) \/ Moved
  BY <1>3, <1>5, <1>10 DEF Handler
<1>11. ASSUME NEW f \in Flushes,
              TimerFires(f) \/ AlarmFires(f) \/ HealthAlarmFires(f) \/ Flush(f)
       PROVE  SettleWrite(f) \/ Moved
  BY <1>4, <1>6, <1>11 DEF Flush
<1>12. \/ \E e \in Events : EnqueueWrite(e) \/ PageWrite(e)
       \/ \E f \in Flushes : SettleWrite(f)
       \/ Moved
  BY <1>8, <1>9, <1>10, <1>11 DEF Next
<1> QED
  BY <1>12 DEF Moved

LEMMA DatedInit == TypeOK /\ Init => AllDated
<1> SUFFICES ASSUME TypeOK, Init
             PROVE  AllDated
  OBVIOUS
<1>1. Dated({}, clock)
  BY FS_EmptySet DEF Dated
<1>2. QueueBounded
  BY FS_EmptySet DEF Init, QueueBounded, TypeOK, QueuePolicy
<1> QED
  BY <1>1, <1>2 DEF AllDated, Init

LEMMA DatedStep == TypeOK /\ Serial /\ AllDated /\ [Next]_vars => AllDated'
<1> SUFFICES ASSUME TypeOK, Serial, AllDated, [Next]_vars
             PROVE  AllDated'
  OBVIOUS
<1>1. Dated(queue, clock) /\ (\A p \in Processes : Dated(snap[p], clock)) /\ Dated({}, clock) /\ Dated({}, clock + 1)
  BY FS_EmptySet DEF AllDated, Dated
<1>2. \A p \in Processes : snap[p] \in SUBSET Item
  BY DEF TypeOK
<1>3. ASSUME NEW e \in Events, EnqueueWrite(e)
      PROVE  AllDated'
  <2> DEFINE q == Enqueued(snap[e], e)
  <2>1. q \in SUBSET Item
    BY <1>2, EnqueuedTyped DEF Processes
  <2>2. Dated(q, clock + 1) /\ \A p \in Processes : Dated(snap[p], clock + 1)
    BY <1>1, <1>2, EnqueuedDated DEF Enqueued, Processes
  <2>3. queue' = Trim(q) /\ snap' = [snap EXCEPT ![e] = q] /\ clock' = clock + 1 /\ policy' = policy
    BY <1>3 DEF EnqueueWrite, Store
  <2> HIDE DEF q
  <2>4. Dated(queue', clock') /\ Cardinality(queue') <= policy.limits.limit
    BY <2>1, <2>2, <2>3, TrimDated, TrimBounds
  <2> QED
    BY <2>2, <2>3, <2>4 DEF AllDated, QueueBounded, TypeOK
<1>4. ASSUME NEW e \in Events, PageWrite(e)
      PROVE  AllDated'
  <2> DEFINE new == [event |-> e, attempts |-> 0, at |-> clock]
  <2>1. /\ queue' = snap[e] \union {new}
        /\ snap' = [snap EXCEPT ![e] = {}] /\ clock' = clock + 1 /\ policy' = policy /\ policy.paged
    BY <1>4 DEF PageWrite, Store, Serial, Processes
  <2>2. Dated(snap[e] \union {new}, clock + 1) /\ \A p \in Processes : Dated(snap[p], clock + 1)
    BY <1>1, <1>2, EnqueuedDated DEF Processes
  <2> HIDE DEF new
  <2> QED
    BY <1>1, <2>1, <2>2 DEF AllDated, QueueBounded, TypeOK
<1>5. ASSUME NEW f \in Flushes, SettleWrite(f)
      PROVE  AllDated'
  <2> DEFINE q == Settled(snap[f], batch[f], answered[f])
  <2>1. q \in SUBSET Item
    BY <1>2, SettledTyped DEF TypeOK, Processes
  <2>2. Dated(q, clock)
    BY <1>1, <1>2, SettledDated DEF Processes
  <2>3. queue' = Trim(q) /\ snap' = [snap EXCEPT ![f] = Kept(q)] /\ clock' = clock /\ policy' = policy
    BY <1>5 DEF SettleWrite, counters
  <2> HIDE DEF q
  <2>4. Dated(queue', clock) /\ Dated(Kept(q), clock) /\ Cardinality(queue') <= policy.limits.limit
    BY <1>1, <2>1, <2>2, <2>3, TrimDated, TrimBounds DEF Kept
  <2> QED
    BY <1>1, <2>3, <2>4 DEF AllDated, QueueBounded, TypeOK
<1>6. ASSUME UNCHANGED <<policy, queue, clock>>, \A p \in Processes : snap'[p] \in {snap[p], queue, {}}
      PROVE  AllDated'
  BY <1>1, <1>6 DEF AllDated, QueueBounded
<1> QED
  BY <1>3, <1>4, <1>5, <1>6, QueueMoves

\* However many events come in while others fail and go back, what the worker
\* stores never exceeds the limit of the provider's queue.
THEOREM StaysBounded == Spec => []QueueBounded
<1>1. Init => TypeOK /\ Serial /\ AllDated
  BY TypeInit, SerialInit, DatedInit
<1>2. TypeOK /\ Serial /\ AllDated /\ [Next]_vars => (TypeOK /\ Serial /\ AllDated)'
  BY TypeStep, SerialStep, DatedStep
<1>3. AllDated => QueueBounded
  BY DEF AllDated
<1> QED
  BY <1>1, <1>2, <1>3, PTL DEF Spec

-----------------------------------------------------------------------------
(* What is given up has failed often enough *)

\* The flushes that have counted a failed upload of e, and have not yet written
\* that down in the queue.
Uncounted == {"posted", "settling"}

Failing(e) == {f \in Flushes : pc[f] \in Uncounted /\ e \in batch[f] \ answered[f]}

\* The failures of e that every copy of the queue may know of.
Known(e) == tries[e] - Cardinality(Failing(e))

AllCounted ==
    /\ \A e \in Events : IsFiniteSet(Failing(e)) /\ Known(e) >= 0
    /\ \A i \in queue : i.attempts <= Known(i.event)
    /\ \A p \in Processes : \A i \in snap[p] : i.attempts <= Known(i.event)
    /\ GivenUpAfterRetries

\* A flush comes to have a failure it did not count by a failed upload alone.
LEMMA FailingMoves ==
    ASSUME TypeOK, [Next]_vars
    PROVE  \/ \E f \in Flushes : \E a, stored \in SUBSET batch[f] : PostFails(f, a, stored)
           \/ /\ tries' = tries
              /\ \A e \in Events : Failing(e)' \subseteq Failing(e)
<1> USE DEF durable, memory, history, counters
<1> DEFINE Same(f) == pc'[f] \in Uncounted =>
                          /\ pc[f] \in Uncounted
                          /\ batch'[f] = batch[f] /\ answered'[f] = answered[f]
           Fewer == tries' = tries /\ \A f \in Flushes : Same(f)
<1>1. \A p \in Processes : pc[p] \in Places
  BY DEF TypeOK
<1>2. ASSUME NEW e \in Events,
             Send(e) \/ Report(e) \/ PageRead(e) \/ EnqueueRead(e) \/ EnqueueSkip(e)
             \/ EnqueueWrite(e) \/ PageWrite(e) \/ BecomesDue(e)
      PROVE  Fewer
  <2>1. \A f \in Flushes : f # e /\ f \in Processes
    BY ProcessesAreApart DEF Processes
  <2>2. UNCHANGED <<tries, batch, answered>> /\ \A f \in Flushes : pc'[f] = pc[f]
    BY <1>2, <2>1 DEF Send, Report, PageRead, EnqueueRead, EnqueueSkip, EnqueueWrite, PageWrite,
                      BecomesDue, TypeOK
  <2> QED
    BY <2>2
<1>3. ASSUME NEW e \in Events, EnqueueDone(e)
      PROVE  Fewer
  <2>1. UNCHANGED <<tries, batch, answered>>
    BY <1>3 DEF EnqueueDone
  <2>2. \A f \in Flushes : pc'[f] \in {pc[f], "reading"}
    BY <1>3, ProcessesAreApart DEF EnqueueDone, TypeOK, Processes
  <2> QED
    BY <2>1, <2>2 DEF Uncounted
<1>4. ASSUME NEW f \in Flushes,
             TimerFires(f) \/ AlarmFires(f) \/ HealthAlarmFires(f) \/ FlushEmpty(f) \/ FlushAgain(f)
             \/ FlushDone(f)
      PROVE  Fewer
  <2>1. UNCHANGED <<tries, batch, answered>> /\ \A g \in Flushes : pc'[g] \in {pc[g], "reading", "idle"}
    BY <1>4 DEF TimerFires, AlarmFires, HealthAlarmFires, Run, FlushEmpty, FlushAgain, FlushDone,
                TypeOK, Processes
  <2> QED
    BY <2>1 DEF Uncounted
<1>5. ASSUME NEW f \in Flushes, FlushRead(f) \/ SettleRead(f) \/ SettleWrite(f)
      PROVE  Fewer
  BY <1>5 DEF FlushRead, SettleRead, SettleWrite, TypeOK, Processes, Uncounted
<1>6. ASSUME NEW started, ForgetAll(started), UNCHANGED tries
      PROVE  Fewer
  <2>1. \A f \in Flushes : pc'[f] \in {"reading", "paging", "idle"}
    BY <1>6 DEF ForgetAll, Processes
  <2> QED
    BY <1>6, <2>1 DEF Uncounted
<1>7. ASSUME Stop \/ \E f \in Flushes : Restart(f)
      PROVE  Fewer
  BY <1>6, <1>7 DEF Stop, Restart
<1>8. ASSUME UNCHANGED vars
      PROVE  Fewer
  BY <1>8 DEF vars
<1>9. ASSUME Fewer
      PROVE  tries' = tries /\ \A e \in Events : Failing(e)' \subseteq Failing(e)
  BY <1>9 DEF Failing
<1>10. ASSUME NEW f \in Flushes, PostSucceeds(f)
       PROVE  tries' = tries /\ \A e \in Events : Failing(e)' \subseteq Failing(e)
  BY <1>10 DEF PostSucceeds, Posted, Failing, TypeOK, Processes
<1> HIDE DEF Fewer
<1>11. ASSUME NEW e \in Events, Send(e) \/ Report(e) \/ PageRead(e) \/ Handler(e) \/ BecomesDue(e)
       PROVE  Fewer
  BY <1>2, <1>3, <1>11 DEF Handler
<1>12. ASSUME NEW f \in Flushes, TimerFires(f) \/ AlarmFires(f) \/ HealthAlarmFires(f) \/ Flush(f)
       PROVE  Fewer \/ PostEnds(f)
  BY <1>4, <1>5, <1>12 DEF Flush
<1>13. Fewer \/ \E f \in Flushes : PostEnds(f)
  BY <1>7, <1>8, <1>11, <1>12 DEF Next
<1> QED
  BY <1>9, <1>10, <1>13 DEF PostEnds

\* So what may be known of an event only grows.
LEMMA KnownGrows ==
    ASSUME TypeOK, AllCounted, [Next]_vars
    PROVE  \A e \in Events : /\ IsFiniteSet(Failing(e)')
                             /\ Known(e) \in Int /\ Known(e)' \in Int
                             /\ Known(e)' >= Known(e)
                             /\ tries'[e] >= tries[e]
<1> SUFFICES ASSUME NEW e \in Events
             PROVE  /\ IsFiniteSet(Failing(e)')
                    /\ Known(e) \in Int /\ Known(e)' \in Int
                    /\ Known(e)' >= Known(e)
                    /\ tries'[e] >= tries[e]
  OBVIOUS
<1>1. IsFiniteSet(Failing(e)) /\ Cardinality(Failing(e)) \in Nat /\ tries[e] \in Nat
  BY FS_CardinalityType DEF AllCounted, TypeOK
<1>2. CASE tries' = tries /\ Failing(e)' \subseteq Failing(e)
  <2>1. /\ IsFiniteSet(Failing(e)') /\ Cardinality(Failing(e)') \in Nat
        /\ Cardinality(Failing(e)') <= Cardinality(Failing(e))
    BY <1>1, <1>2, FS_Subset, FS_CardinalityType
  <2> QED
    BY <1>1, <1>2, <2>1 DEF Known
<1>3. ASSUME NEW f \in Flushes, NEW a, NEW stored, PostFails(f, a, stored)
      PROVE  /\ IsFiniteSet(Failing(e)')
             /\ Known(e) \in Int /\ Known(e)' \in Int
             /\ Known(e)' >= Known(e)
             /\ tries'[e] >= tries[e]
  <2> DEFINE one == IF e \in batch[f] \ a THEN 1 ELSE 0
  <2>1. tries'[e] = tries[e] + one
    BY <1>3 DEF PostFails
  <2>2. Failing(e)' \subseteq IF e \in batch[f] \ a THEN Failing(e) \union {f} ELSE Failing(e)
    BY <1>3 DEF PostFails, Posted, durable, Failing, TypeOK, Processes
  <2>3. IsFiniteSet(Failing(e) \union {f}) /\ Cardinality(Failing(e) \union {f}) <= Cardinality(Failing(e)) + 1
    <3>1. /\ IsFiniteSet(Failing(e) \union {f})
          /\ Cardinality(Failing(e) \union {f}) =
                IF f \in Failing(e) THEN Cardinality(Failing(e)) ELSE Cardinality(Failing(e)) + 1
      BY <1>1, FS_AddElement
    <3> QED
      BY <1>1, <3>1
  <2>4. /\ IsFiniteSet(Failing(e)') /\ Cardinality(Failing(e)') \in Nat
        /\ Cardinality(Failing(e)') <= Cardinality(Failing(e)) + one
    <3>1. CASE e \in batch[f] \ a
      <4>1. IsFiniteSet(Failing(e)') /\ Cardinality(Failing(e)') <= Cardinality(Failing(e) \union {f})
        BY <2>2, <2>3, <3>1, FS_Subset
      <4>2. Cardinality(Failing(e)') \in Nat /\ Cardinality(Failing(e) \union {f}) \in Nat
        BY <2>3, <4>1, FS_CardinalityType
      <4> QED
        BY <1>1, <2>3, <3>1, <4>1, <4>2
    <3>2. CASE e \notin batch[f] \ a
      BY <1>1, <2>2, <3>2, FS_Subset, FS_CardinalityType
    <3> QED
      BY <3>1, <3>2
  <2> QED
    BY <1>1, <2>1, <2>4 DEF Known
<1> QED
  BY <1>2, <1>3, FailingMoves

LEMMA CountedInit == TypeOK /\ Init => AllCounted
<1> SUFFICES ASSUME TypeOK, Init
             PROVE  AllCounted
  OBVIOUS
<1>1. \A e \in Events : Failing(e) = {}
  BY DEF Init, Failing, Uncounted, Processes
<1>2. \A e \in Events : IsFiniteSet(Failing(e)) /\ Known(e) >= 0
  BY <1>1, FS_EmptySet DEF Known, Init
<1> QED
  BY <1>2 DEF AllCounted, Init, GivenUpAfterRetries

\* An item that goes back has one failure more, and that one was not known.
LEMMA RetriedKnown ==
    ASSUME TypeOK, AllCounted, NEW f \in Flushes, SettleWrite(f), NEW e \in Events,
           e \in batch[f] \ answered[f]
    PROVE  Known(e)' = Known(e) + 1 /\ tries'[e] >= Known(e) + 1
<1>1. IsFiniteSet(Failing(e)) /\ Cardinality(Failing(e)) \in Nat /\ tries[e] \in Nat
  BY FS_CardinalityType DEF AllCounted, TypeOK
<1>2. f \in Failing(e)
  BY DEF SettleWrite, Failing, Uncounted
<1>3. Failing(e)' = Failing(e) \ {f} /\ tries'[e] = tries[e]
  BY DEF SettleWrite, Failing, Uncounted, TypeOK, Processes
<1>4. Cardinality(Failing(e) \ {f}) = Cardinality(Failing(e)) - 1
  BY <1>1, <1>2, FS_RemoveElement
<1>5. Cardinality(Failing(e)) # 0
  BY <1>1, <1>2, FS_EmptySet
<1> QED
  BY <1>1, <1>3, <1>4, <1>5 DEF Known

LEMMA CountedStep == TypeOK /\ AllCounted /\ [Next]_vars => AllCounted'
<1> SUFFICES ASSUME TypeOK, AllCounted, [Next]_vars
             PROVE  AllCounted'
  OBVIOUS
<1> DEFINE Fits(q) == \A i \in q : i.attempts <= Known(i.event)
           FitsNow(q) == \A i \in q : i.attempts <= Known(i.event)'
<1>1. \A e \in Events : /\ IsFiniteSet(Failing(e)') /\ Known(e)' \in Int /\ Known(e) \in Int
                        /\ Known(e)' >= Known(e) /\ Known(e)' >= 0
                        /\ tries'[e] >= tries[e]
  BY KnownGrows DEF AllCounted
<1>2. (\A p \in Processes : snap[p] \in SUBSET Item) /\ queue \in SUBSET Item
  BY DEF TypeOK
<1>3. Fits(queue) /\ \A p \in Processes : Fits(snap[p])
  BY DEF AllCounted
<1>4. ASSUME NEW q \in SUBSET Item, Fits(q)
      PROVE  FitsNow(q)
  <2> SUFFICES ASSUME NEW i \in q
               PROVE  i.attempts <= Known(i.event)'
    OBVIOUS
  <2>1. i.attempts \in Nat /\ i.event \in Events
    BY DEF Item
  <2> QED
    BY <1>1, <1>4, <2>1
<1>5. FitsNow(queue) /\ (\A p \in Processes : FitsNow(snap[p])) /\ FitsNow({})
  <2> HIDE DEF Fits, FitsNow
  <2>1. FitsNow(queue) /\ \A p \in Processes : FitsNow(snap[p])
    BY <1>2, <1>3, <1>4
  <2> QED
    BY <2>1 DEF FitsNow
<1>6. ASSUME givenUp' = givenUp, policy' = policy
      PROVE  GivenUpAfterRetries'
  <2> SUFFICES ASSUME NEW e \in givenUp
               PROVE  tries'[e] > policy.limits.attempts
    BY <1>6 DEF GivenUpAfterRetries
  <2>1. e \in Events /\ tries[e] \in Nat /\ policy.limits.attempts \in Nat
    BY DEF TypeOK, QueuePolicy
  <2>2. tries[e] > policy.limits.attempts
    BY DEF AllCounted, GivenUpAfterRetries
  <2>3. tries'[e] \in Nat
    BY <2>1, TypeStep DEF TypeOK
  <2> QED
    BY <1>1, <2>1, <2>2, <2>3
<1>7. ASSUME FitsNow(queue'), \A p \in Processes : FitsNow(snap'[p]), GivenUpAfterRetries'
      PROVE  AllCounted'
  BY <1>1, <1>7 DEF AllCounted
<1>8. ASSUME NEW e \in Events, FitsNow(snap[e])
      PROVE  FitsNow(snap[e] \union {[event |-> e, attempts |-> 0, at |-> clock]})
  <2> DEFINE new == [event |-> e, attempts |-> 0, at |-> clock]
  <2>1. new.attempts = 0 /\ new.event = e
    OBVIOUS
  <2> HIDE DEF new
  <2>2. \A i \in snap[e] \union {new} : i.attempts <= Known(i.event)'
    BY <1>1, <1>8, <2>1
  <2> QED
    BY <2>2 DEF new
<1> HIDE DEF Fits, FitsNow
<1>9. ASSUME NEW q, FitsNow(q)
      PROVE  FitsNow(Trim(q))
  BY <1>9, TrimKeeps DEF FitsNow
<1>10. ASSUME NEW e \in Events, EnqueueWrite(e)
       PROVE  AllCounted'
  <2> DEFINE q == Enqueued(snap[e], e)
  <2>1. FitsNow(q)
    BY <1>5, <1>8 DEF Enqueued, Processes
  <2>2. queue' = Trim(q) /\ snap' = [snap EXCEPT ![e] = q] /\ UNCHANGED <<givenUp, policy>>
    BY <1>10 DEF EnqueueWrite, Store
  <2> HIDE DEF q
  <2>3. \A p \in Processes : snap'[p] \in {snap[p], q}
    BY <2>2 DEF TypeOK
  <2> QED
    BY <1>5, <1>6, <1>7, <1>9, <2>1, <2>2, <2>3
<1>11. ASSUME NEW e \in Events, PageWrite(e)
       PROVE  AllCounted'
  <2> DEFINE new == [event |-> e, attempts |-> 0, at |-> clock]
  <2>1. /\ queue' = snap[e] \union {new} /\ snap' = [snap EXCEPT ![e] = {}]
        /\ UNCHANGED <<givenUp, policy>>
    BY <1>11 DEF PageWrite, Store
  <2>2. FitsNow(snap[e] \union {new})
    BY <1>5, <1>8 DEF Processes
  <2> HIDE DEF new
  <2>3. \A p \in Processes : snap'[p] \in {snap[p], {}}
    BY <2>1 DEF TypeOK
  <2> QED
    BY <1>5, <1>6, <1>7, <2>1, <2>2, <2>3
<1>12. ASSUME NEW f \in Flushes, SettleWrite(f)
       PROVE  AllCounted'
  <2> DEFINE again == Retried(snap[f], batch[f], answered[f])
             q == Settled(snap[f], batch[f], answered[f])
  <2>1. \A x \in again :
            /\ x.event \in Events /\ x.attempts \in Nat
            /\ x.attempts <= Known(x.event)' /\ x.attempts <= tries'[x.event]
    <3> SUFFICES ASSUME NEW i \in snap[f], i.event \in batch[f] \ answered[f]
                 PROVE  LET x == [i EXCEPT !.attempts = @ + 1]
                        IN  /\ x.event \in Events /\ x.attempts \in Nat
                            /\ x.attempts <= Known(x.event)' /\ x.attempts <= tries'[x.event]
      BY DEF Retried
    <3>1. i \in Item /\ i.attempts \in Nat /\ i.event \in Events
      BY <1>2 DEF Item, Processes
    <3>2. i.attempts <= Known(i.event)
      BY <1>3 DEF Fits, Processes
    <3>3. Known(i.event)' = Known(i.event) + 1 /\ tries'[i.event] >= Known(i.event) + 1
      BY <1>12, <3>1, RetriedKnown
    <3>4. Known(i.event) \in Int /\ tries'[i.event] \in Nat
      BY <1>1, <3>1, TypeStep DEF TypeOK
    <3>5. i.attempts + 1 <= Known(i.event)' /\ i.attempts + 1 <= tries'[i.event]
      BY <3>1, <3>2, <3>3, <3>4
    <3> DEFINE x == [i EXCEPT !.attempts = @ + 1]
    <3>6. x.event = i.event /\ x.attempts = i.attempts + 1
      BY <3>1 DEF Item
    <3> HIDE DEF x
    <3>7. /\ x.event \in Events /\ x.attempts \in Nat
          /\ x.attempts <= Known(x.event)' /\ x.attempts <= tries'[x.event]
      BY <3>1, <3>5, <3>6
    <3> QED
      BY <3>7 DEF x
  <2>2. FitsNow(q)
    BY <1>5, <2>1 DEF FitsNow, Settled, Processes
  <2>3. /\ queue' = Trim(q) /\ snap' = [snap EXCEPT ![f] = Kept(q)] /\ policy' = policy
        /\ givenUp' = givenUp \union Keys({i \in again : GivesUp(i.attempts)})
    BY <1>12 DEF SettleWrite
  <2> HIDE DEF q, again
  <2>4. \A p \in Processes : snap'[p] \in {snap[p], q, {}}
    BY <2>3 DEF TypeOK, Kept
  <2>5. GivenUpAfterRetries'
    <3> SUFFICES ASSUME NEW e \in givenUp'
                 PROVE  tries'[e] > policy.limits.attempts
      BY <2>3 DEF GivenUpAfterRetries
    <3>1. CASE e \in givenUp
      <4>1. tries'[e] >= tries[e] /\ tries[e] \in Nat /\ tries'[e] \in Nat
        BY <1>1, <3>1, TypeStep DEF TypeOK
      <4>2. tries[e] > policy.limits.attempts /\ policy.limits.attempts \in Nat
        BY <3>1 DEF AllCounted, GivenUpAfterRetries, TypeOK, QueuePolicy
      <4> QED
        BY <4>1, <4>2
    <3>2. CASE e \notin givenUp
      <4>1. PICK x \in again : GivesUp(x.attempts) /\ x.event = e
        BY <2>3, <3>2 DEF Keys
      <4>2. x.attempts > policy.limits.attempts /\ policy.limits.attempts \in Nat
        BY <4>1 DEF GivesUp, TypeOK, QueuePolicy
      <4>3. tries'[e] \in Nat
        BY <2>1, <4>1, TypeStep DEF TypeOK
      <4> QED
        BY <2>1, <4>1, <4>2, <4>3
    <3> QED
      BY <3>1, <3>2
  <2> QED
    BY <1>5, <1>7, <1>9, <2>2, <2>3, <2>4, <2>5
<1>13. ASSUME UNCHANGED <<policy, queue, clock>>, \A p \in Processes : snap'[p] \in {snap[p], queue, {}},
              givenUp' = givenUp
       PROVE  AllCounted'
  BY <1>5, <1>6, <1>7, <1>13
<1>14. (\E f \in Flushes : SettleWrite(f)) \/ givenUp' = givenUp
  BY DEF Next, Handler, Flush, PostEnds, vars, durable, memory, history, counters, Send, Report, PageRead,
         EnqueueRead, EnqueueSkip, EnqueueWrite, EnqueueDone, PageWrite, BecomesDue, TimerFires,
         AlarmFires, HealthAlarmFires, FlushEmpty, FlushRead, PostSucceeds, PostFails, Posted,
         SettleRead, FlushAgain, FlushDone, Stop, Restart
<1> QED
  BY <1>10, <1>11, <1>12, <1>13, <1>14, QueueMoves

\* However many flushes upload the same events and count their failures into
\* the queue, an event is given up only after more failed uploads than the
\* provider's ceiling.
THEOREM RetriedEnough == Spec => []GivenUpAfterRetries
<1>1. Init => TypeOK /\ AllCounted
  BY TypeInit, CountedInit
<1>2. TypeOK /\ AllCounted /\ [Next]_vars => (TypeOK /\ AllCounted)'
  BY TypeStep, CountedStep
<1>3. AllCounted => GivenUpAfterRetries
  BY DEF AllCounted
<1> QED
  BY <1>1, <1>2, <1>3, PTL DEF Spec

=============================================================================

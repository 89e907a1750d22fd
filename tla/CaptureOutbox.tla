---------------------------- MODULE CaptureOutbox ----------------------------
(***************************************************************************)
(* The queues in which the browser extension keeps the events it captures  *)
(* on a tool's pages until the backend has them: one queue per provider,   *)
(* in chrome.storage.local, filled and flushed by the service worker of    *)
(* the extension (background-<provider>-capture.js, background-main.js).   *)
(* Each read and each write of the storage is a step of its own: what the  *)
(* worker awaits, another handler or another flush may come between.  The  *)
(* worker may be stopped at any step and loses all but storage and alarms. *)
(***************************************************************************)
EXTENDS Naturals, FiniteSets

CONSTANTS
    Events,             \* by client_event_id
    Flushes,            \* invocations of flush that may overlap
    None,
    Providers,          \* whose queue this is
    FlushThreshold,     \* CAPTURE_FLUSH_EVENT_THRESHOLD
    Limits,             \* per provider: CAPTURE_BATCH_MAX, CAPTURE_QUEUE_HARD_LIMIT,
                        \* CAPTURE_RETRY_MAX_ATTEMPTS; bound: uploads that fail
    MaxMessages,        \* bound: events the pages report, repeats included
    MaxStops            \* bound: times the worker is stopped

ASSUME ProcessesAreApart == Events \intersect Flushes = {} /\ None \notin Events \union Flushes

ASSUME LimitsAreNumbers ==
    /\ {FlushThreshold, MaxMessages, MaxStops} \subseteq Nat
    /\ \A p \in DOMAIN Limits : Limits[p] \in [batch : Nat, limit : Nat, attempts : Nat, failures : Nat]

-----------------------------------------------------------------------------
(* How the queues differ *)

Wakers == {"alarm", "startup", "health"}

QueuePolicy == [
    locked : BOOLEAN,                       \* with...QueueLock around read and write
    resent : {"skip", "push", "replace"},   \* an event that is queued already
    endless : BOOLEAN,                      \* no ceiling on the attempts
    backstop : BOOLEAN,                     \* an alarm is armed for each new event
    batched : BOOLEAN,                      \* one POST per flush, re-reads the queue
    paged : BOOLEAN,                        \* the page may write the queue, too
    wakers : SUBSET Wakers,                 \* what starts a flush besides new events
    limits : [batch : Nat, limit : Nat, attempts : Nat, failures : Nat]]

FreepikPolicy == [
    locked |-> TRUE, resent |-> "skip", endless |-> FALSE, backstop |-> FALSE,
    batched |-> TRUE, paged |-> FALSE, wakers |-> {"alarm", "startup"},
    limits |-> Limits["freepik"]]

HiggsfieldPolicy == [FreepikPolicy EXCEPT !.limits = Limits["higgsfield"]]

EnvatoPolicy == [FreepikPolicy EXCEPT !.limits = Limits["envato"]]

\* The retry alarm is armed, but nothing listens to it.
HeygenPolicy == [FreepikPolicy EXCEPT !.wakers = {}, !.limits = Limits["heygen"]]

FlowPolicy == [HeygenPolicy EXCEPT !.limits = Limits["flow"]]

ElevenlabsPolicy == [HeygenPolicy EXCEPT !.limits = Limits["elevenlabs"]]

ChatGptPolicy == [
    locked |-> FALSE, resent |-> "push", endless |-> TRUE, backstop |-> TRUE,
    batched |-> TRUE, paged |-> TRUE, wakers |-> {"alarm", "startup", "health"},
    limits |-> Limits["chatgpt"]]

\* Kling's usage events are posted at once and queued only when that fails.
UsagePolicy == [
    locked |-> FALSE, resent |-> "replace", endless |-> FALSE, backstop |-> TRUE,
    batched |-> FALSE, paged |-> FALSE, wakers |-> {"alarm", "startup"},
    limits |-> Limits["kling"]]

PolicyOf == [
    freepik |-> FreepikPolicy, higgsfield |-> HiggsfieldPolicy, envato |-> EnvatoPolicy,
    heygen |-> HeygenPolicy, flow |-> FlowPolicy, elevenlabs |-> ElevenlabsPolicy,
    chatgpt |-> ChatGptPolicy, kling |-> UsagePolicy]

ASSUME KnownProviders == Providers \subseteq DOMAIN PolicyOf /\ DOMAIN PolicyOf = DOMAIN Limits

-----------------------------------------------------------------------------
VARIABLES
    policy,     \* of the queue at hand, fixed
    queue,      \* storage: the stored items
    waiting,    \* events whose items have a nextAttemptAt in the future
    alarm,      \* the retry alarm is armed
    timer,      \* memory: the quiet or the max-wait timer is running
    holder,     \* memory: the process that runs inside the queue lock
    pc,         \* memory: where a handler or a flush stands
    snap,       \* memory: the queue as it read it
    batch,      \* memory: the events a flush uploads
    answered,   \* memory: those its upload got an answer for
    served,     \* backend: events stored, or rejected for good
    accepted,   \* history: events that were put into the queue
    tries,      \* history: uploads of a queued event that failed
    givenUp,    \* history: dropped for the retry ceiling
    overflowed, \* history: dropped for the queue limit
    clock, messages, failures, stops   \* counters: items stored, messages, faults

durable == <<policy, queue, waiting, alarm>>
memory == <<timer, holder, pc, snap, batch, answered>>
history == <<accepted, tries, givenUp, overflowed>>
counters == <<clock, messages, failures, stops>>
vars == <<durable, memory, served, history, counters>>

Processes == Events \union Flushes

\* attempts, and its place in the queue by the time it was stored
Item == [event : Events, attempts : Nat, at : Nat]

\* A page's event: sent to the worker, read, stored; or written by the page.
\* A flush: started, batch chosen, answer in, queue re-read, stored.
Places == {"idle", "arrived", "storing", "stored", "paging",
           "reading", "posting", "posted", "settling", "settled"}

InSection == {"storing", "settling"}

TypeOK ==
    /\ policy \in QueuePolicy
    /\ queue \in SUBSET Item
    /\ waiting \in SUBSET Events
    /\ alarm \in BOOLEAN
    /\ timer \in BOOLEAN
    /\ holder \in Processes \union {None}
    /\ pc \in [Processes -> Places]
    /\ snap \in [Processes -> SUBSET Item]
    /\ batch \in [Flushes -> SUBSET Events]
    /\ answered \in [Flushes -> SUBSET Events]
    /\ served \in SUBSET Events
    /\ accepted \in SUBSET Events
    /\ tries \in [Events -> Nat]
    /\ givenUp \in SUBSET Events
    /\ overflowed \in SUBSET Events
    /\ clock \in Nat
    /\ messages \in Nat
    /\ failures \in Nat
    /\ stops \in Nat

Init ==
    /\ policy \in {PolicyOf[p] : p \in Providers}
    /\ queue = {} /\ waiting = {} /\ alarm = FALSE
    /\ timer = FALSE /\ holder = None
    /\ pc = [p \in Processes |-> "idle"]
    /\ snap = [p \in Processes |-> {}]
    /\ batch = [f \in Flushes |-> {}]
    /\ answered = [f \in Flushes |-> {}]
    /\ served = {}
    /\ accepted = {} /\ tries = [e \in Events |-> 0]
    /\ givenUp = {} /\ overflowed = {}
    /\ clock = 0 /\ messages = 0 /\ failures = 0 /\ stops = 0

-----------------------------------------------------------------------------
(* The queue *)

Keys(q) == {i.event : i \in q}

\* Due items; an item of a capture queue is due from the start.
Ready(q) == {i \in q : i.event \notin waiting \/ (policy.batched /\ i.attempts = 0)}

Oldest(q, n) == {i \in q : Cardinality({j \in q : j.at < i.at}) < n}

\* Faulty variant of Trim: off by one.
TrimLate(q) == {i \in q : Cardinality({j \in q : j.at > i.at}) <= policy.limits.limit}

\* A write keeps the newest items up to the limit.
Trim(q) == {i \in q : Cardinality({j \in q : j.at > i.at}) < policy.limits.limit}

\* Faulty variant of Enqueued: pushes without looking for the event.
EnqueuedAgain(q, e) == q \union {[event |-> e, attempts |-> 0, at |-> clock]}

\* A new item for e, or the old one again with a new due time.
Enqueued(q, e) ==
    IF policy.resent = "replace" /\ e \in Keys(q)
      THEN q
      ELSE q \union {[event |-> e, attempts |-> 0, at |-> clock]}

\* Faulty variant of GivesUp: off by one.
GivesUpEarly(attempts) == ~policy.endless /\ attempts >= policy.limits.attempts

GivesUp(attempts) == ~policy.endless /\ attempts > policy.limits.attempts

\* One more attempt for the items whose upload got no answer.
Retried(q, b, a) ==
    {[i EXCEPT !.attempts = @ + 1] : i \in {j \in q : j.event \in b \ a}}

\* Faulty variant of Settled: a batch leaves the queue once it was posted.
SettledWhole(q, b, a) == {i \in q : i.event \notin b}

Settled(q, b, a) ==
    {i \in q : i.event \notin b} \union {i \in Retried(q, b, a) : ~GivesUp(i.attempts)}

\* Faulty variant of Enter: does not wait for the lock.
EnterUnchecked(p) ==
    IF policy.locked THEN holder' = p ELSE UNCHANGED holder

Enter(p) ==
    IF policy.locked THEN holder = None /\ holder' = p ELSE UNCHANGED holder

Leave == holder' = None

StartFlush(f) ==
    /\ f \in Flushes
    /\ pc[f] = "idle"

-----------------------------------------------------------------------------
(* A page reports an event *)

\* Its handler reads the queue, inside the lock if there is one.
Send(e) ==
    /\ policy.batched
    /\ pc[e] = "idle"
    /\ messages < MaxMessages
    /\ messages' = messages + 1
    /\ Enter(e)
    /\ snap' = [snap EXCEPT ![e] = queue]
    /\ pc' = [pc EXCEPT ![e] = "storing"]
    /\ UNCHANGED <<durable, timer, batch, answered, served, history, clock, failures, stops>>

\* A usage event is posted first.  Its answer, too, may be lost.
Report(e) ==
    /\ ~policy.batched
    /\ pc[e] = "idle"
    /\ messages < MaxMessages
    /\ messages' = messages + 1
    /\ \/ served' = served \union {e} /\ UNCHANGED <<pc, failures>>
       \/ /\ failures < policy.limits.failures
          /\ failures' = failures + 1
          /\ served' \in {served, served \union {e}}
          /\ pc' = [pc EXCEPT ![e] = "arrived"]
    /\ UNCHANGED <<durable, timer, holder, snap, batch, answered, history, clock, stops>>

EnqueueRead(e) ==
    /\ pc[e] = "arrived"
    /\ snap' = [snap EXCEPT ![e] = queue]
    /\ pc' = [pc EXCEPT ![e] = "storing"]
    /\ UNCHANGED <<durable, timer, holder, batch, answered, served, history, counters>>

\* Queued already: nothing is stored, and no flush is scheduled.
EnqueueSkip(e) ==
    /\ pc[e] = "storing"
    /\ policy.resent = "skip"
    /\ e \in Keys(snap[e])
    /\ Leave
    /\ snap' = [snap EXCEPT ![e] = {}]
    /\ pc' = [pc EXCEPT ![e] = "idle"]
    /\ UNCHANGED <<durable, timer, batch, answered, served, history, counters>>

Store(e, q) ==
    /\ queue' = q
    /\ accepted' = accepted \union {e}
    /\ clock' = clock + 1

EnqueueWrite(e) ==
    LET q == Enqueued(snap[e], e) IN
    /\ pc[e] = "storing"
    /\ policy.resent = "skip" => e \notin Keys(snap[e])
    /\ Store(e, Trim(q))
    /\ overflowed' = overflowed \union (Keys(q) \ Keys(Trim(q)))
    /\ waiting' = IF policy.batched THEN waiting ELSE waiting \union {e}
    /\ Leave
    /\ snap' = [snap EXCEPT ![e] = q]
    /\ pc' = [pc EXCEPT ![e] = "stored"]
    /\ UNCHANGED <<policy, alarm, timer, batch, answered, served, tries, givenUp,
                   messages, failures, stops>>

\* Flush at once when enough is due, else arm the timers.
EnqueueDone(e) ==
    /\ pc[e] = "stored"
    /\ alarm' = (alarm \/ policy.backstop)
    /\ IF policy.batched /\ Cardinality(Ready(snap[e])) >= FlushThreshold
         THEN \E f \in Flushes :
                  /\ StartFlush(f)
                  /\ pc' = [pc EXCEPT ![e] = "idle", ![f] = "reading"]
                  /\ timer' = FALSE
         ELSE /\ pc' = [pc EXCEPT ![e] = "idle"]
              /\ timer' = (timer \/ policy.batched)
    /\ snap' = [snap EXCEPT ![e] = {}]
    /\ UNCHANGED <<policy, queue, waiting, holder, batch, answered, served, history, counters>>

\* A page that outlives its worker and cannot reach it any more reads and writes the queue itself.
PageRead(e) ==
    /\ policy.paged
    /\ stops > 0
    /\ pc[e] = "idle"
    /\ messages < MaxMessages
    /\ messages' = messages + 1
    /\ snap' = [snap EXCEPT ![e] = queue]
    /\ pc' = [pc EXCEPT ![e] = "paging"]
    /\ UNCHANGED <<durable, timer, holder, batch, answered, served, history,
                   clock, failures, stops>>

PageWrite(e) ==
    /\ pc[e] = "paging"
    /\ Store(e, snap[e] \union {[event |-> e, attempts |-> 0, at |-> clock]})
    /\ snap' = [snap EXCEPT ![e] = {}]
    /\ pc' = [pc EXCEPT ![e] = "idle"]
    /\ UNCHANGED <<policy, waiting, alarm, timer, holder, batch, answered, served,
                   tries, givenUp, overflowed, messages, failures, stops>>

-----------------------------------------------------------------------------
(* A flush *)

Run(f) ==
    /\ StartFlush(f)
    /\ pc' = [pc EXCEPT ![f] = "reading"]
    /\ timer' = FALSE

TimerFires(f) ==
    /\ timer
    /\ Run(f)
    /\ UNCHANGED <<durable, holder, snap, batch, answered, served, history, counters>>

AlarmFires(f) ==
    /\ alarm
    /\ alarm' = FALSE
    /\ IF "alarm" \in policy.wakers THEN Run(f) ELSE UNCHANGED <<pc, timer>>
    /\ UNCHANGED <<policy, queue, waiting, holder, snap, batch, answered, served, history,
                   counters>>

\* On an empty queue the flush does nothing.
HealthAlarmFires(f) ==
    /\ "health" \in policy.wakers
    /\ queue # {}
    /\ Run(f)
    /\ UNCHANGED <<durable, holder, snap, batch, answered, served, history, counters>>

\* Time passes: an event's items are due again.
BecomesDue(e) ==
    /\ e \in waiting
    /\ waiting' = waiting \ {e}
    /\ UNCHANGED <<policy, queue, alarm, memory, served, history, counters>>

\* Faulty variant of Kept: the keys without their items.
KeptKeys(q) == IF policy.batched THEN {} ELSE Keys(q)

\* The usage queue works on the copy it has read, to the end of the flush.
Kept(q) == IF policy.batched THEN {} ELSE q

\* Faulty variant of FlushEmpty: nothing is due, so nothing is armed.
FlushEmptyUnarmed(f) ==
    /\ pc[f] = "reading"
    /\ queue = {} \/ (policy.batched /\ Ready(queue) = {})
    /\ pc' = [pc EXCEPT ![f] = "idle"]
    /\ UNCHANGED <<durable, timer, holder, snap, batch, answered, served, history, counters>>

FlushEmpty(f) ==
    /\ pc[f] = "reading"
    /\ queue = {} \/ (policy.batched /\ Ready(queue) = {})
    /\ alarm' = (alarm \/ queue # {})
    /\ pc' = [pc EXCEPT ![f] = "idle"]
    /\ UNCHANGED <<policy, queue, waiting, timer, holder, snap, batch, answered, served,
                   history, counters>>

FlushRead(f) ==
    /\ pc[f] = "reading"
    /\ queue # {}
    /\ policy.batched => Ready(queue) # {}
    /\ snap' = [snap EXCEPT ![f] = Kept(queue)]
    /\ batch' = [batch EXCEPT ![f] = Keys(Oldest(Ready(queue), policy.limits.batch))]
    /\ pc' = [pc EXCEPT ![f] = "posting"]
    /\ UNCHANGED <<durable, timer, holder, answered, served, history, counters>>

Posted(f, a) ==
    /\ pc[f] = "posting"
    /\ answered' = [answered EXCEPT ![f] = a]
    /\ pc' = [pc EXCEPT ![f] = "posted"]
    /\ UNCHANGED <<durable, timer, holder, snap, batch, accepted, givenUp, overflowed,
                   clock, messages, stops>>

\* Faulty variant of PostSucceeds: takes any reply for an answer.
PostAssumed(f) ==
    /\ Posted(f, batch[f])
    /\ UNCHANGED <<served, tries, failures>>

PostSucceeds(f) ==
    /\ Posted(f, batch[f])
    /\ served' = served \union batch[f]
    /\ UNCHANGED <<tries, failures>>

\* A batch fails as a whole, single posts fail one by one; the backend may
\* have stored what it gave no answer for.
PostFails(f, a, stored) ==
    /\ failures < policy.limits.failures
    /\ failures' = failures + 1
    /\ a \subseteq stored /\ stored \subseteq batch[f] /\ a # batch[f]
    /\ policy.batched => a = {}
    /\ Posted(f, a)
    /\ served' = served \union stored
    /\ tries' = [e \in Events |-> tries[e] + IF e \in batch[f] \ a THEN 1 ELSE 0]

\* The capture queues read the queue again, the usage queue does not.
SettleRead(f) ==
    /\ pc[f] = "posted"
    /\ Enter(f)
    /\ snap' = [snap EXCEPT ![f] = IF policy.batched THEN queue ELSE @]
    /\ pc' = [pc EXCEPT ![f] = "settling"]
    /\ UNCHANGED <<durable, timer, batch, answered, served, history, counters>>

SettleWrite(f) ==
    LET retried == Retried(snap[f], batch[f], answered[f])
        q == Settled(snap[f], batch[f], answered[f])
    IN
    /\ pc[f] = "settling"
    /\ queue' = Trim(q)
    /\ waiting' = waiting \union Keys({i \in retried : ~GivesUp(i.attempts)})
    /\ givenUp' = givenUp \union Keys({i \in retried : GivesUp(i.attempts)})
    /\ overflowed' = overflowed \union (Keys(q) \ Keys(Trim(q)))
    /\ Leave
    /\ snap' = [snap EXCEPT ![f] = Kept(q)]
    /\ batch' = [batch EXCEPT ![f] = {}]
    /\ answered' = [answered EXCEPT ![f] = {}]
    /\ pc' = [pc EXCEPT ![f] = "settled"]
    /\ UNCHANGED <<policy, alarm, timer, served, accepted, tries, counters>>

\* Go on while something is due, else see that the alarm is armed.
FlushAgain(f) ==
    /\ pc[f] = "settled"
    /\ policy.batched /\ Ready(queue) # {}
    /\ pc' = [pc EXCEPT ![f] = "reading"]
    /\ timer' = FALSE
    /\ UNCHANGED <<durable, holder, snap, batch, answered, served, history, counters>>

\* Faulty variant of FlushDone: leaves the retry to whatever is armed.
FlushDoneUnarmed(f) ==
    /\ pc[f] = "settled"
    /\ policy.batched => Ready(queue) = {}
    /\ snap' = [snap EXCEPT ![f] = {}]
    /\ pc' = [pc EXCEPT ![f] = "idle"]
    /\ UNCHANGED <<durable, timer, holder, batch, answered, served, history, counters>>

FlushDone(f) ==
    LET left == IF policy.batched THEN queue ELSE snap[f] IN
    /\ pc[f] = "settled"
    /\ policy.batched => Ready(queue) = {}
    /\ alarm' = (alarm \/ left # {})
    /\ snap' = [snap EXCEPT ![f] = {}]
    /\ pc' = [pc EXCEPT ![f] = "idle"]
    /\ UNCHANGED <<policy, queue, waiting, timer, holder, batch, answered, served,
                   history, counters>>

-----------------------------------------------------------------------------
(* The worker is stopped *)

\* All that is in its memory is gone; a page's own write is not.
ForgetAll(started) ==
    /\ stops < MaxStops
    /\ stops' = stops + 1
    /\ timer' = FALSE
    /\ holder' = None
    /\ pc' = [p \in Processes |->
                IF p \in started THEN "reading"
                ELSE IF pc[p] = "paging" THEN "paging" ELSE "idle"]
    /\ snap' = [p \in Processes |-> IF pc[p] = "paging" THEN snap[p] ELSE {}]
    /\ batch' = [f \in Flushes |-> {}]
    /\ answered' = [f \in Flushes |-> {}]

Stop ==
    /\ ForgetAll({})
    /\ UNCHANGED <<durable, served, history, clock, messages, failures>>

\* The browser starts or the extension is updated; the alarm may be gone.
Restart(f) ==
    /\ ForgetAll(IF "startup" \in policy.wakers THEN {f} ELSE {})
    /\ alarm' \in {alarm, FALSE}
    /\ UNCHANGED <<policy, queue, waiting, served, history, clock, messages, failures>>

-----------------------------------------------------------------------------
Handler(e) ==
    \/ EnqueueRead(e) \/ EnqueueSkip(e) \/ EnqueueWrite(e) \/ EnqueueDone(e)
    \/ PageWrite(e)

PostEnds(f) ==
    PostSucceeds(f) \/ \E a, stored \in SUBSET batch[f] : PostFails(f, a, stored)

Flush(f) ==
    \/ FlushEmpty(f) \/ FlushRead(f) \/ PostEnds(f) \/ SettleRead(f) \/ SettleWrite(f)
    \/ FlushAgain(f) \/ FlushDone(f)

Next ==
    \/ \E e \in Events :
          Send(e) \/ Report(e) \/ PageRead(e) \/ Handler(e) \/ BecomesDue(e)
    \/ \E f \in Flushes :
          TimerFires(f) \/ AlarmFires(f) \/ HealthAlarmFires(f) \/ Flush(f) \/ Restart(f)
    \/ Stop

Spec == Init /\ [][Next]_vars

\* What has been started goes on, timers and alarms fire, time passes.
\* Nothing makes a page send, an upload fail or the worker stop.
FairSpec ==
    /\ Spec
    /\ \A e \in Events : WF_vars(Handler(e)) /\ WF_vars(BecomesDue(e))
    /\ \A f \in Flushes : WF_vars(Flush(f))
    /\ WF_vars(\E f \in Flushes : TimerFires(f))
    /\ WF_vars(\E f \in Flushes : AlarmFires(f))
    /\ WF_vars(\E f \in Flushes : HealthAlarmFires(f))

-----------------------------------------------------------------------------
(* Properties *)

\* What an event in a serialised section has read is what is stored: nobody
\* else writes between its read and its write (withFreepikQueueLock).
SectionsAreSerial ==
    policy.locked => \A p \in Processes : pc[p] \in InSection => holder = p /\ snap[p] = queue

\* An event a locked queue has accepted is in the queue until the backend has
\* answered for it, or it has failed too often or was the oldest of too many;
\* whatever handlers and flushes overlap and wherever the worker is stopped.
NothingLost ==
    policy.locked => accepted \subseteq Keys(queue) \union served \union givenUp \union overflowed

\* Only what has failed more often than the ceiling allows is given up, also
\* when two flushes upload the same items and both count their failure.
GivenUpAfterRetries ==
    \A e \in givenUp : tries[e] > policy.limits.attempts

\* However often a page reports an event, it has one item in the queue;
\* ChatGPT's queue alone pushes again.
OneItemPerEvent ==
    policy.resent # "push" => \A i, j \in queue : i.event = j.event => i = j

\* The queue never outgrows its limit (the page's own write skips the check).
QueueBounded ==
    ~policy.paged => Cardinality(queue) <= policy.limits.limit

\* Something that will look at the queue.
Awake ==
    \/ timer
    \/ alarm
    \/ \E e \in Events : pc[e] = "stored"
    \/ \E f \in Flushes : pc[f] # "idle"

\* As long as the worker lives, a queue whose retry alarm is listened to is
\* never left with items and with nothing that will come back to them.
NeverStranded ==
    "alarm" \in policy.wakers /\ ~policy.paged /\ stops = 0 /\ queue # {} => Awake

\* The queue is delivered to the end: ChatGPT's whatever happens to the
\* worker, for the periodic alarm comes back to it; the other ones with a
\* retry alarm if the worker is not stopped, and any queue if, besides, no
\* upload fails.
QueueDrains ==
    \/ "health" \in policy.wakers
    \/ "alarm" \in policy.wakers /\ [](stops = 0)
    \/ [](stops = 0 /\ failures = 0)
    => <>[](queue = {})

\* The queue keeps the promise of an outbox.
Delivery == INSTANCE EventDelivery
    WITH guarded <- policy.locked, pending <- Keys(queue), abandoned <- givenUp \union overflowed

DeliverySpec == Delivery!Spec

=============================================================================

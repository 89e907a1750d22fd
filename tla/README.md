# A TLA+ model of the RMW task system

The repository is a task management system for a studio: a FastAPI backend
(`backend/`, SQLAlchemy on PostgreSQL, optional Redis and R2 storage), a React
dashboard (`my-dashboard/`) with a Cloudflare worker in front of the API, and a
Chrome extension that captures the use of AI tools
(`browser-extension/tool-hub-autologin/`). This directory models the life of a
task, where most of the rules are, and the four places where the program is
concurrent by design: the event queues of the extension, the live views of the
dashboard, the notification outbox and the caches. It keeps the inventory of the
rest. Paths below are relative to the repository.

## 1. Inventory

| Component | State | Operations | What is hard |
|---|---|---|---|
| Staged workflow of a task, `backend/routers/tasks_router.py` | `tasks` (status, workflow status, current stage, locks, result, `metadata_json`), `task_stages`, `task_stage_assignees`, `task_stage_submissions`, `task_participants` | create, start, submit, approve, need-improvement, forward, revoke, hold, unhold, edit result, update a stage, edit details, replace the stages | the same fact in several rows; three kinds of status that gate different endpoints; two server processes on the same rows without locks |
| Generic task, same file | the same `tasks` row; the parts of several workers in `metadata_json` | assign, start, submit (ANY / ALL mode), approve, need-improvement, edit result | read-modify-write of `metadata_json`; completeness recomputed only by a submit |
| Notification dispatcher, same file 107-262 | bounded queue, worker tasks, open sockets | enqueue, push, stop | queued before the transaction commits; the queue is lost on restart; a timed out enqueue still happens |
| Notification outbox, `backend/services/notification_outbox_service.py`, `backend/main.py` | rows pending / dispatched / failed, attempts, next attempt | record, dispatch batch every 30 s in every process | no claim on rows; retries; an abandoned batch thread |
| Response cache, `backend/utils/cache.py`, and edge worker, `my-dashboard/cloudflare/worker.js` | Redis keys; a KV store and a memory per isolate | read-compute-store, invalidate by pattern, purge, expire | a store that overtakes an invalidation; a purge that fails or reaches one isolate |
| Event queues of the extension, `background-*-capture.js`, `background-main.js`, `content-chatgpt.js` | a queue per provider in `chrome.storage.local`, timers in memory, alarms | report, enqueue, flush, retry, give up | every storage access is asynchronous; flushes overlap; Chrome stops the worker at will |
| Realtime socket, `my-dashboard/src/services/api.js` 1244-1381 | subscribers, the socket, three timers | subscribe, unsubscribe, open, close, reconnect | events of a socket that was given up |
| Live badges and panels, `compofleftsidebar/InboxButton.jsx` and others | what is shown, timers, the fetch under way | fetch, refresh on a push, interval | answers out of order, refreshes dropped, pushes that never come |
| Sessions, `backend/auth.py` | signed tokens, `session_revoked_at`, Redis copies, in-memory fallback | create, verify, revoke, reset | revocation with a granularity of a second; Redis outages |
| Approvals, `backend/routers/admin_router.py`, `auth_router.py` | users, requests, pending password changes | sign up, review, reject, change password | row locks on some paths only |
| Asset mirror, `backend/providers/*/asset_mirror.py` | status of each captured generation | sweep in every process | no claim on rows; partial failure between two uploads |
| Report schedules, `backend/routers/report_distribution_router.py` | next run of each schedule | run due | the same report mailed by every process |
| Archive, `backend/archive_service.py` | two databases | archive, log | a failure between the two commits |
| Ingest of captured events, recovery, reports, groups, messages, drafts, uploads | rows of their own | single-row updates and reads | little; not modelled |
| Content scripts, dashboard user interface | the DOM of pages | read it, draw it | little that a model reaches; not modelled |

The components meet in few places. Every task handler writes its rows in one
transaction, queues notifications on the dispatcher *before* the commit, and
invalidates the response cache *after* it. The dashboard and the edge worker read
through the cache. `create_notification` does not use the outbox; only the
notifications for administrators do. A push tells the dashboard to fetch, it does
not carry the data. The extension talks to the backend through the queues alone.

What makes each component correct: the stage rows and the summary on the task
tell the same story and someone can always act on it (workflow); no part of a
worker is lost and a complete task is submitted (generic task); a recorded
notification is delivered or given up for a reason (outbox); old copies die out
(cache); a captured event is kept until the backend has answered for it (event
queues); there is one socket, and views catch up with the data (live views); a
revoked session stays revoked (sessions); a row is never left half mirrored
(asset mirror).
`PROJECT.json` lists the hazards of the code, each at its line, with the
properties that watch them.

## 2. The modules

| Module | Models |
|---|---|
| `WorkflowRows` | the rows of a staged task and, as operators, what each handler checks and what it writes: the helpers of `tasks_router.py` (826-1030, 1307-1459, 1962-2029, 3861-4279) |
| `StagedWorkflow` | one action per endpoint, each a single step: one server process |
| `WorkflowHandoff` | the abstract promise: the work is in the hands of one stage at a time |
| `StagedWorkflowRaces` | the same handlers split into load and commit, in several server processes |
| `CaptureOutbox` | the event queues of the extension: one specification whose `policy` tells the eight providers' queues apart |
| `EventDelivery` | the abstract promise of such a queue: an event accepted is pending until it is served or abandoned |
| `RealtimeSocket` | the socket a page shares among its subscribers, with its timers |
| `LiveViews` | composes `RealtimeSocket` and `CachedAnswer` with the server's processes, their hubs and workers, the network, and a component that shows data |
| `NotificationOutbox` | `NotificationDispatcher.enqueue`, its queue, and the batches over the outbox rows, in several server processes |
| `EdgeCache` | Redis, KV store, isolate memories and the browser's copy for one cached question, and the tail of the handlers that change the answer |
| `CachedAnswer` | the abstract promise of these caches: which answers can still be given |
| `MC*` | instances for TLC |
| `WorkflowRowsProofs` | lemmas about the operators of `WorkflowRows`: what the helpers and the write sets of the handlers yield |
| `StagedWorkflowProofs` | theorems about `StagedWorkflow` for every value of its constants: types, order of the stages, the summary on the task row |
| `StagedWorkflowHistoryProofs` | ... submissions, holds, completion, who can act, what approvers see, and that it implements `WorkflowHandoff` |
| `StagedWorkflowRacesProofs` | theorems about `StagedWorkflowRaces`: what holds for any number of server processes, and that one process is `StagedWorkflow` |
| `CaptureOutboxProofs`, `LiveViewsProofs`, `NotificationOutboxProofs`, `EdgeCacheProofs` | theorems about these modules for every value of their constants |

Definitions whose comment begins with "Faulty variant" are used by no action:
each is a plausible bug in the definition it names, and the property listed with
it under `mutants` in `PROJECT.json` is violated when it takes that place.

### State and code

`task` is the row of `tasks`: `workflow` is `workflow_status`, `current` is
`current_stage_id` (0 for NULL; a stage is named by its order), `assignees` is
`current_assignee_ids_json`, `meta` is what the handlers keep in `metadata_json`:
the mark `workflowFinalApprovalPending`, the hold, and the links of the result.
A text or a list of links is represented by where it comes from: `<<s, v>>` is
version `v` of the submission of stage `s`, `Edited` an edit of the result,
`NoResult` nothing. `stages` holds the rows of `task_stages` and, per user,
whether the assignee row is absent, active or inactive. `subs` holds per stage
the number of submissions and the versions with `is_current`. `members` are the
users with an active ASSIGNEE row in `task_participants`.

`Sync` is `_sync_task_workflow_summary`; every handler that changes a stage ends
with it, and so does the action. The session options `autoflush=False` and
`expire_on_commit=False` (`backend/database_config.py:243`) matter: a handler
that loads a stage again gets the object it already changed, and after a bulk
update the objects it loaded before are stale. The latter is why `UpdateStage`
recomputes the summary from `stages` and not from `stages'`.

`Submit`, `Approve` and `RequestImprovement` take a stage `s`: 0 is the generic
endpoint, which addresses the current stage, another value the endpoint with the
stage in its URL. A request a handler refuses changes nothing and is no step.

The handlers are `async` functions without an `await` between loading the task
and committing, over a synchronous database session: in one process they do not
interleave, and one step per request is exact. `backend/ecosystem.config.cjs`
starts two processes. `StagedWorkflowRaces` gives each a request: `Load` copies
the task row, a decide step reads the stage rows and computes the write set,
`Commit` merges it. The write set is what SQLAlchemy writes: the columns whose
value changed, `metadata_json` as one column, the inserted submission. The unique
indexes on submissions make a commit impossible; `Rollback` is every way a
request ends without one, a crash included.

**The event queues of the extension** (`CaptureOutbox`). `queue` is the array in
`chrome.storage.local`, an item an event with its `attempts` and its place `at`;
`waiting` are the events whose `nextAttemptAt` lies in the future; `alarm` is the
retry alarm, which Chrome keeps. These survive; `timer`, `holder` (who runs inside
the promise chain that serves as the lock), `pc`, `snap`, `batch` and `answered`
are the worker's memory and are lost at `Stop` and `Restart`. Every `await` of the
code is a boundary between two steps, so a handler that reads, checks and writes
is `EnqueueRead`, `EnqueueSkip` / `EnqueueWrite`, `EnqueueDone`. The eight
providers share the code by copying it; `policy` says where the copies differ
(lock, repeated events, ceiling on attempts, alarms somebody listens to), one
record per provider, and `Init` picks one. `EventDelivery` is what such a queue
promises, and `guarded` says which promise a queue without a lock makes.

**The live views** (`RealtimeSocket`, `LiveViews`). `RealtimeSocket` holds the
closure of `subscribeRealtimeNotifications`: the subscribers, the current socket,
the reconnect and the idle timer, and per socket its `readyState`, which the
browser changes. `LiveViews` EXTENDS it and adds the server (`queued`, `hub`, one
of each per process), the network (`sending`) and one subscriber that shows data:
`kind` tells the badges, which skip a fetch when one is under way, from the panels,
which do not. Each of its steps is a step of `RealtimeSocket` or leaves the socket
alone; that is a theorem, so the invariants of the socket are proved once.
What a badge fetches is `/api/tasks/inbox/unread-count`, which the backend keeps in
Redis for 30 s (`tasks_router.py:5064`), the edge worker in its KV store and in each
isolate's memory, and the browser as long as `max-age` says (`worker.js:158-226`).
The outbox badge's count is kept in Redis alone, for 15 s (`tasks_router.py:6957`).
`Reads` therefore takes any answer of `Cache!Answerable`: the committed version or
one of the `old` versions that some cache still has. A change may leave the answer
so far in a cache, and `CopiesExpire` drops old copies: that is `CachedAnswer`, which
`EdgeCache` is proved to implement. The panels fetch routes that no cache serves.
`aged` is history: the requests whose answer was out of date when it was given.

**The notification outbox** (`NotificationOutbox`). A request and the batches are
threads; `home` is the process of each. `enqueue` is three steps, the call, the
put on the event loop and the answer, because the caller waits five seconds only;
`late` are the puts whose caller has gone. A thread of a process that shuts down
may find its loop closed, which `enqueue` answers with no. `Written` is the
commit of a session that loaded the row earlier: it writes the columns it
changed, over whatever a batch in the other process has stored.

**The caches** (`EdgeCache`). One question, one key: `redis`, `kv`, `mem[i]` and
`browser` are the versions of the answer that are kept, the last one in the HTTP
cache of the page, where every answer of the worker may be put with a `max-age`; `pc` is how far a GET has come, `step`
how far the tail of the handler that changed the answer. `setup` is the
deployment: with or without Redis, KV store and purge URL. `quiet` is history: no
request was under way from the last commit to the end of its purge. `Held` is what
can still be given as an answer without the database: to a page, all of this is
`CachedAnswer`, with `Held \ {version}` for its old answers.

### Left out

* Titles, descriptions, comments, history, notifications: rows nobody reads back
  in a guard.
* The repair of rows in the stage `submitted_to_spoc`: only the generic submit
  writes that value, so a staged task never has it.
* A replacement of the stages by another number of stages, and switching the
  workflow off, which turns the task into a generic one.
* Roles by position and by role table are one set each; a forward that names
  a department only resolves to some set of users.
* Deletion of a task, and users that become inactive after they were assigned.
* In `StagedWorkflowRaces`: forward, result edits, stage updates, detail edits
  and timed holds. A request reads the stage rows in one step, though the code
  reads them in two or three queries. The approval gate and the names of the
  current assignees, two more keys of `metadata_json`, are represented by writing
  the column whenever the current stage or its assignees change.
* Where the schema was created by `create_all`, `tasks.current_stage_id` has its
  foreign key and replacing the stages fails when it deletes the current one; in
  a migrated database the column has none. `ReplaceStages` is the latter.
* In `CaptureOutbox`: ChatGPT's immediate flush in an incognito window, its
  `DRY_RUN` mode and the switch that refuses new events; the `setTimeout` that
  stands in where alarms are missing; that a page reports an event while the same
  event is being handled. As many flushes overlap as `Flushes` has members. A batch
  is answered as a whole: an answer that arrives but has no result for some of its
  items, which then count as failed (`background-freepik-capture.js:301-345`), is
  not in the model.
* In `LiveViews`: the layers of the caches and their purges, which `EdgeCache` has;
  old copies appear as far as `CachedAnswer` goes. Subscribers that subscribe or leave
  inside a callback; what a component itself remembers in the page, and its local
  changes; the deduplication of the browser alerts;
  `InboxPanel` (its fetches are a library's) and `NotificationsPanel`. Backoff and
  heartbeat are untimed: that a dead socket is noticed is `SocketLost`. Accepting a
  socket and adding it to the hub are one step, no `await` separates them. A token
  that has become invalid is not followed.
* In `NotificationOutbox`: the order of rows and the limit of a hundred per batch;
  the order in which the loop runs its callbacks; the push, which `LiveViews` has.
* In `EdgeCache`: the KV store is taken as consistent (a lagging one keeps old copies
  longer, they expire all the same); other keys. Answers
  with errors are not kept. Routers
  that never call the purge, such as groups, are the setup without a purge URL.

## 3. The runs

| Run | Expected | Question |
|---|---|---|
| `StagedWorkflow` | holds | the invariants and action properties below, in one process |
| `StagedWorkflowRaces` | holds | what survives when requests of two processes meet |
| `CaptureOutbox` | holds | which queues lose nothing, which are never stranded, which are delivered |
| `LiveViews` | holds | one socket, nothing heard twice; when a view turns back, and when it catches up |
| `NotificationOutbox` | holds | nothing lost without a trace, nothing given up early |
| `EdgeCache` | holds | what a purge guarantees, and that old copies die out |
| `FinalApprovalByCreator` | violated | is a required final approval always asked for? |
| `WaitingCanBeApproved` | violated | can what waits for approval be approved? |
| `CancelledIsFinal` | violated | does a revoked task stay revoked? |
| `WorkIsOfferedToAssignees` | violated | is the work offered to those who may do it? |
| `HoldKept` | violated | does a hold last until it is lifted? |
| `CompletedMeansAllCompleted` | violated | is every stage of a completed workflow completed? |

`StagedWorkflow` checks, beside its type invariant: `StageFrontier` and
`FinalPendingAtEnd` (the stages are worked on in order, a final approval is
pending only at the end), `SummaryAgrees` (the summary on the task is what
recomputing it would give), `SubmissionsSound`, `ReviewShowsCurrentWork` (text and
links an approver sees are the current submission), `StuckOnlyIfForwardedInReview`
(somebody can start, submit or approve, exactly unless the task was forwarded while
it waited for approval; `WaitingCanBeApproved` is about that case), `HeldWorkStops`, `CompletedIsFinal`, and `HandoffSpec`: the rows
implement `WorkflowHandoff`.

`StagedWorkflowRaces` checks what the unique indexes and the order of the
handlers still guarantee (`OneCurrentSubmission`, `AcceptedHasWork`,
`OpenedInOrder`), and `UndisturbedIsSerial`: a commit into whose request no other
commit fell is a step of `StagedWorkflow`. That property ties the two modules
together: it shows that writing only changed columns writes enough, and it
says when the results of `StagedWorkflow` apply to several processes.

`CaptureOutbox` checks that the lock works (`SectionsAreSerial`) and what it is for:
`NothingLost`, `OneItemPerEvent`, `QueueBounded`; that an event is dropped for
failures only after as many as the ceiling allows, though two flushes may upload
the same items (`GivenUpAfterRetries`); that a queue with items has something that
comes back to it (`NeverStranded`), and under fairness that it is delivered
(`QueueDrains`). The last two say for which queues, and the exceptions are
what the model tells about the code: the queues of HeyGen, Flow and ElevenLabs arm an alarm
nobody listens to, so a failed upload waits for the next event; a worker that is
stopped before a timer has fired leaves a queue with no alarm armed to the next
event or the next start of the browser, and only ChatGPT's has a periodic alarm
that comes back to it; the queues of ChatGPT and Kling have no lock and may lose an
event to an overlapping write. `DeliverySpec` is the refinement of `EventDelivery`.

`LiveViews` checks `OneLiveSocket`, `NeverDeaf` (with a subscriber the page is
connected, about to learn that it is not, or about to reconnect),
`ReleasedWhenIdle` and, in the composition, `HeardOnce`, `OnlyCachesTurnBack` (a badge
shows an older state after a newer one only if a cache gave it an old copy; panels do
so, too, when answers overtake each other, which is why the property names the
badge), `SocketFollowsSubscribers` and `ViewCatchesUp`. The last one says how far a
push carries. A page that stays visible catches up by its interval, once the old
copies are gone. A hidden page depends on pushes: it catches up with a single server
process, as a push reaches the sockets of its own process only, and if no refresh
was skipped, overtaken, lost or answered with an old copy (`gap`). So a badge that is
told of a change while a cache has the answer of a moment ago may stay wrong until
the page is looked at.

`NotificationOutbox` checks `NothingForgotten`, `GivenUpAfterAllAttempts` (overlapping
batches overwrite each other's count of attempts, downwards only),
`NeverReopened` (a stale batch writes only the columns it changed) and `RowsAreSettled`. It
does not say that a notification is sent: a row is dispatched when it has entered
a queue in memory, and a crash loses the queue.

`EdgeCache` checks `QuietPurge`, what a purge guarantees and when (it cannot reach the
browser, nor the other isolates), and `FreshInTheEnd`, that a copy never feeds a
layer in a way that keeps it alive, the browser included. `AnswerSpec`, the
refinement of `CachedAnswer`, is proved.

The six violated properties state what the interface, a message or another
endpoint says; `findings` in `PROJECT.json` quotes each one and tells what the
counterexample shows.

### Bounds

`StagedWorkflow.cfg` has three stages, so that one stage has another before and
another after it (a completed stage in the middle can be sent back); every choice of approval
gates; a creator, a head of department, a worker who is the spoc of the
department, and a worker of the other stages whom requests may also add to the
first; one department (the department only decides whether a spoc may approve).
`MaxVersions = 2` submissions of a stage give one resubmission, which is what
tells a current from an earlier version. It bounds `Submit` by its guard.
The runs of the violated properties need two stages only.

`StagedWorkflowRaces.cfg` has two processes and two stages, and
`MaxMissed = 1`: at most one commit of the other process falls into a request.
The number of server processes is two in the configuration of the repository,
and each of the phenomena found needs one commit to be missed.
The processes are interchangeable, so the run uses symmetry.

`CaptureOutbox.cfg` has two events and two flushes, the least that overlap; every
provider; limits of one or two, so that batches are smaller than the queue and
Envato's queue overflows and gives up at once; two reports (an event repeated, or
two), one stop of the worker, one or two failing uploads (640,000 states).
One stop may strike between any two steps, on the way in and on the way out.

`LiveViews.cfg` has the viewer and a subscriber that only holds the socket, two
sockets and two fetches (an old and a new one), one or two server processes, one
change, two mounts, one turn of the page, one fault. `Subscribe` needs an unused
socket, so `Sockets` bounds how many late closes overlap.

`NotificationOutbox.cfg` has one administrator, two batches, two processes, a queue for
one notification, three attempts, one late put and two faults. Two batches in two
processes and two in one are both among the initial states. The inductive
invariant of the proof was also checked with two administrators, where one commit
writes two rows.

`EdgeCache.cfg` has two requests, two isolates, one change and four deployments: a
store that overtakes an invalidation needs one request, a second may find what the
first left. `QuietPurge` was also checked with two changes whose handlers
overlap.

`CHECK_DEADLOCK FALSE` is set where the system can really come to rest: all
submissions used up or the task revoked while held, every event delivered, every
row settled, nobody left who asks.

### Fairness

The staged workflow assumes none: every action is a request of a person, and
nothing in the code makes a person send it. `StuckOnlyIfForwardedInReview` is the safety
property that takes the place of liveness there: the next step is possible, with
one exception.

The other modules have a `FairSpec` whose conjuncts are weak fairness of what goes
on by itself:

* `CaptureOutbox`: a handler or flush that was started goes on as long as the worker
  lives; timers and alarms fire; a retry time comes. Not: that pages report, that
  uploads fail, that the worker is stopped.
* `LiveViews`: timers fire (`setTimeout`, `setInterval`), requests are answered, the
  browser and the server complete a connection, pushes arrive, a worker takes what
  is queued, old copies die out (`CopiesExpire`; `FreshInTheEnd` of `EdgeCache` is what
  justifies it). Not: that anyone mounts, looks at the page or changes data.
* `NotificationOutbox`: threads come to their end (`enqueue` never waits longer
  than five seconds), the event loop runs what it was handed, each process starts a
  batch every 30 seconds (`main.py`), a supervisor replaces a process that exits.
* `EdgeCache`: a request is answered, since every store access that fails is
  caught; an entry of any layer expires, the browser's by its `max-age`. Not: that a handler comes to its purge.

No action that stands for a fault is fair, and faults are bounded, so the liveness properties
say what happens once they cease. `QueueDrains`, `SocketFollowsSubscribers`,
`ViewCatchesUp`, `RowsAreSettled` and `FreshInTheEnd` rest on this fairness.

## 4. What is proved

The theorems hold for every value of the constants of their modules: any number of
stages, users, plans, events, flushes, sockets, processes, batches, requests and
isolates, and any bound. Every invariant and every action property that the
passing runs check is proved, and so are the refinements of `WorkflowHandoff`,
`EventDelivery`, `RealtimeSocket` and `CachedAnswer`; liveness is not.

| Theorem | Statement | Module |
|---|---|---|
| `TypeCorrect` | `Spec => []TypeOK` | `StagedWorkflowProofs` |
| `WorkMovesInOrder` | `Spec => [](StageFrontier /\ FinalPendingAtEnd)` | `StagedWorkflowProofs` |
| `FinalApprovalComesLast` | `Spec => []FinalPendingAtEnd` | `StagedWorkflowProofs` |
| `SummaryIsRight` | `Spec => []SummaryAgrees` | `StagedWorkflowProofs` |
| `SubmissionsAreSound` | `Spec => []SubmissionsSound` | `StagedWorkflowHistoryProofs` |
| `HeldWorkStands` | `Spec => HeldWorkStops` | `StagedWorkflowHistoryProofs` |
| `CompletedStays` | `Spec => CompletedIsFinal` | `StagedWorkflowHistoryProofs` |
| `StuckOnlyThere` | `Spec => []StuckOnlyIfForwardedInReview` | `StagedWorkflowHistoryProofs` |
| `ReviewShowsIt` | `Spec => []ReviewShowsCurrentWork` | `StagedWorkflowHistoryProofs` |
| `ImplementsHandoff` | `Spec => HandoffSpec` | `StagedWorkflowHistoryProofs` |
| `TypeCorrect` | `Spec => []TypeOK` | each of the five modules below |
| `LastSubmissionIsCurrent` | `Spec => []OneCurrentSubmission` | `StagedWorkflowRacesProofs` |
| `AcceptedWork` | `Spec => []AcceptedHasWork` | `StagedWorkflowRacesProofs` |
| `StagesOpenInOrder` | `Spec => []OpenedInOrder` | `StagedWorkflowRacesProofs` |
| `AloneIsSerial` | `Spec => UndisturbedIsSerial` | `StagedWorkflowRacesProofs` |
| `OneProcessIsSerial` | with one process, `StagedWorkflowRaces` implements `StagedWorkflow` | `StagedWorkflowRacesProofs` |
| `LockWorks` | `Spec => []SectionsAreSerial` | `CaptureOutboxProofs` |
| `LosesNothing` | `Spec => []NothingLost` | `CaptureOutboxProofs` |
| `QueuesOnce` | `Spec => []OneItemPerEvent` | `CaptureOutboxProofs` |
| `StaysBounded` | `Spec => []QueueBounded` | `CaptureOutboxProofs` |
| `RetriedEnough` | `Spec => []GivenUpAfterRetries` | `CaptureOutboxProofs` |
| `AlwaysAttended` | `Spec => []NeverStranded` | `CaptureOutboxProofs` |
| `ImplementsDelivery` | `Spec => DeliverySpec` | `CaptureOutboxProofs` |
| `SocketImplemented` | `LiveViews` implements `RealtimeSocket` | `LiveViewsProofs` |
| `OneSocket` | `Spec => []OneLiveSocket` | `LiveViewsProofs` |
| `SubscribersAreServed` | `Spec => []NeverDeaf` | `LiveViewsProofs` |
| `IdleSocketGoes` | `Spec => []ReleasedWhenIdle` | `LiveViewsProofs` |
| `NothingHeardTwice` | `Spec => []HeardOnce` | `LiveViewsProofs` |
| `BadgeTurnsBackByCache` | `Spec => OnlyCachesTurnBack` | `LiveViewsProofs` |
| `NothingDisappears` | `Spec => []NothingForgotten` | `NotificationOutboxProofs` |
| `AllAttemptsMade` | `Spec => []GivenUpAfterAllAttempts` | `NotificationOutboxProofs` |
| `SettledForGood` | `Spec => NeverReopened` | `NotificationOutboxProofs` |
| `PurgeIsThorough` | `Spec => []QuietPurge` | `EdgeCacheProofs` |
| `ImplementsAnswers` | `Spec => AnswerSpec` | `EdgeCacheProofs` |

### The staged workflow

The assumptions are those of `WorkflowRows`: the roles are sets of users, every
user has a department, there is at least one stage and one plan, a stage of a
plan has an assignee (`_normalize_stage_payload`), a submission bound of at least
one.

The order of the stages rests on the inductive invariant
`OneStage == TypeOK /\ StageFrontier /\ FinalPendingAtEnd`. `StageFrontier` alone is
not inductive: a need-improvement may send a completed stage back when a final
approval is pending, and only because the mark implies that *all* stages are
completed does the stage sent back become the one open stage. Conversely the
mark is set only when the last stage is completed, and that all others are, too,
is the frontier. The lemmas follow the handlers: what happens to the frontier when
a stage changes from one open status to another (`FrontierStays`), when it is
completed and the next is opened (`FrontierPasses`), and that a frontier is
unique (`OpenIsFrontier`).

The other theorems rest on a larger inductive invariant,
`Whole == OneStage /\ Agrees(task, stages) /\ SoundWork`:

* `Agrees` is `SummaryAgrees` of any task row and stage rows. Handlers that
  recompute the summary last establish it by themselves (`SyncAgrees`); a stage
  update recomputes it first, which is right because the summary reads only what
  the update leaves alone (`SyncReads`); `start` overrides the status afterwards,
  which is right because the started stage is the only open one
  (`StartedAgrees`, from `StageFrontier`).
* `SoundWork` is `SubmissionsSound` and that a stage sent back has a submission.
  `need-improvement` also accepts a stage in work; that it never meets one is
  `ReworkWasSubmitted`: a task that waits for approval has, by `Agrees`, a
  submitted stage, and by `StageFrontier` no second open one. Without this the
  plan of a stage sent back could be replaced, as `edit_task_details` looks for
  submissions only, and `HeldWorkStops` would fail when that happens on hold.

`CompletedIsFinal` then follows because the summary of a completed workflow has no
current stage, nothing pending and only completed stages, each with a submission,
so that each endpoint is refused by one of its checks. `StuckOnlyIfForwardedInReview`
needs, in addition, that every stage has an active assignee (`Staffed`). `StuckOrNot`
goes through where the work can be: at the end or in a submitted stage only an
approval can follow, which the status `forwarded` refuses to everybody; in any other
stage its assignee can start, whatever the status of the task.
`ReviewShowsCurrentWork` is inductive next to `Whole`: an approval puts back the
metadata it read on entry, and the links in it are still right because the stage
was under review. The refinement maps each handler to a step of `WorkflowHandoff`
by what it does to the frontier (`AtFrontier`, `AtEnd`, `CompleteHandoff`).

### Several server processes

One assumption more: `MaxMissed` is a number (`MissedAssumption`). Other requests commit
between the load of a request and its own commit, so that most of what the previous
section proves fails here, as the violated runs show. What is left rests on
`RacesInv == RowsOK /\ RequestsOK`.

`RowsOK` is about the database: well-formed rows, one current submission per
stage, and work behind each status: a stage submitted or completed has a submission,
a stage that was opened has one of the stage before it, a completed workflow has one
of each stage. None of this is inductive by itself,
as a commit overwrites rows that others wrote since. `RequestsOK` therefore says of
each request that is about to commit:

* It writes columns of well-formed rows (`TaskWrites`, `StageWrites`); merged into
  any well-formed row, they leave one (`WrittenTask`, `WrittenStage`).
* Its writes are `Justified`: for every status it will write there is that work, or
  the same commit inserts it. That
  stays true whatever others commit, because a submission is superseded but never
  deleted. Since the index admits the insert or the request rolls back, the work
  is there when the status is.
* If it missed no commit, merging its writes yields exactly what the handler of a
  single process computes (`YieldsSerial`). This is where writing only the
  changed columns could write too little: a column left out must hold, in the row
  as it is, the value that the handler computed (`TaskOverwritten`).

`AloneIsSerial` needs in addition that the operators of `StagedWorkflow` and those
of this module, two instances of `WorkflowRows`, are the same (`SameChecks`,
`SameSync`, `SameWrites`). `OneProcessIsSerial` assumes that there is at most one
process and follows with `NoneMissed`: its requests miss nothing, because whoever
commits is the request itself. So each theorem about `StagedWorkflow` is a theorem
about one process that loads, decides and commits in separate steps, and the
abstraction of a handler to one step is proved for the deployment with one process.

### The event queues

Assumptions: an event is no flush (`ProcessesAreApart`), limits are numbers
(`LimitsAreNumbers`), every provider has a policy (`KnownProviders`). `Serial` is
`SectionsAreSerial` and what the policies have in common (`PolicyFacts`: a locked
queue skips repeated events, is flushed in batches, is not written by a page). It is
inductive next to `TypeOK`: whoever writes the queue of a locked provider holds
the lock, so no other process is inside a section with a snapshot to spoil.
`Accounted` adds to `NothingLost` that the events a flush takes for answered are
served; `OneEach` adds that snapshots, too, have one item per event, which a queue
without a lock needs, since it stores what it read. `Attended` is weaker in what
it asks of the worker than `NeverStranded` and says which step still comes: a
flush that is about to end has seen what is left and will arm the alarm. The refinement
`ImplementsDelivery` follows from all of them (`Reliable`).

`QueueBounded` bounds a cardinality, and `TrimBounds` needs no induction for it. By
`Dated` the items of the queue and of every snapshot have distinct places, and a
write that cuts the queue keeps an item only when fewer than the limit are
newer. The oldest item kept has all others before it, so they are fewer than the
limit. `GivenUpAfterRetries` is about a sum over overlapping flushes: an item's
count is at most the failed uploads of its event, less the flushes that had one
fail and have not written yet (`AllCounted`). A flush adds one to the count it
read when it writes, and leaves that set with the same step; a count that another flush
overwrote is too low, never too high.

### The live views

`SocketInv` is the conjunction of the three socket invariants and its types; it is
inductive for `RealtimeSocket` alone, and `SocketNextIn` carries it to `LiveViews`.
`HeardInv` says why a message is heard once: a version is queued in one process,
pushed once, and of the sockets it is on its way to at most one is not closing.
`BadgeInv`: a badge has one fetch at a time, and what that carries is at least
what is shown, unless it was `aged`, answered with an old copy. So a badge that turns
back shows the answer of an aged request.

### The notification outbox

`IInv` adds three facts to the types. `YesWasPut`: who was told yes is in `queued`.
`RowsBegin`: the request writes its rows at once and before any batch reads one.
`Accounting`: the attempts of a row, and those every batch remembers, are at most
the calls that were made; a batch that has called may count one more. So
an overwritten count is too low and never too high, and `failed` means that all
attempts were made.

### The caches

`IInv` adds `Numbered` (changes are handled after they are committed) and
`Cleaned`: while the handler of the latest change runs and no request does, each
layer it has passed holds nothing old, and afterwards requests carry only what is
new. `QuietPurge` is its last part.

`ImplementsAnswers` rests on `Behind`: no layer and no request carries a version that
is not committed yet. Layers and requests only pass on what they have, or take the
committed version (`PassedOn`, `StepsPassOn`), so that every step but a commit lets
`Held` keep or lose its old members, and a commit makes at most one member old
(`CommitLeaves`).

### Only model-checked

Liveness: `QueueDrains`, `SocketFollowsSubscribers`, `ViewCatchesUp`, `RowsAreSettled`
and `FreshInTheEnd` rest on fairness, hence on `ENABLED`, and on an order that
decreases with every retry, which is an induction; both are out of the prover's
reach. TLC checks them under the fairness described above.

The runs that expect a violation show counterexamples; there is nothing to prove.

## 5. Not modelled, and what the models do not say

Most of the repository is user interface, content scripts that read other sites'
pages, and read-only reports. Their lines hold few states a model could
check, so the model covers a small share of the lines and most of the state
machines.

Left out for the same reason or for their shape, see `PROJECT.json`:

* The generic task: parts of several workers are keys of `metadata_json`, and two
  submissions that meet lose one. `StagedWorkflowRaces` shows the same column
  losing a hold (`HoldKept`). A `GenericTask` module would be the next one to write,
  with load and commit of two processes from the start.
* Replacing the stages while another process submits.
* Asset mirror and report schedules: sweeps without a claim, the shape of
  `NotificationOutbox`'s batches.
* Sessions: revocation compares clocks with the granularity of a second; the rest
  is signing and reading of single rows. Approvals: single-row reviews. Archive:
  two commits, one after the other.
* In the extension: launches and tickets (`background-main.js`), suppression of
  password saving. In the dashboard: `AuthContext.jsx`, the activity tracker, the
  other caches and panels.

Some hazards have no property because the code makes no promise that one could state:
ChatGPT's queue is written without a lock, so an event may be overwritten although a
comment calls the pipeline lossless; a late write of Kling's queue may bring back an
answered event; a notification that is in a queue in memory when its process crashes
is marked dispatched. `OneItemPerEvent`, `NothingLost` and `NothingForgotten` name
the queues and rows they hold for; the runs include the others, and say nothing of them.

Further work, in this order: `GenericTask`; detail edits and stage updates in
`StagedWorkflowRaces`; `AssetMirror`.

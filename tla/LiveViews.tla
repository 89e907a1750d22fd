------------------------------- MODULE LiveViews -------------------------------
(***************************************************************************)
(* How a change on the server gets into what a page shows: the request     *)
(* commits and queues a notification in its server process, a worker of    *)
(* that process pushes it to the sockets its NotificationHub knows         *)
(* (routers/tasks_router.py), the page's socket broadcasts it, and a       *)
(* component fetches anew (the badges and panels of leftsidebar/).  The    *)
(* push is a hint: the component shows what it has fetched.  What a badge  *)
(* fetches may come from a cache and be older than the change it was told  *)
(* of; the caches are those of EdgeCache, here as far as CachedAnswer goes.*)
(***************************************************************************)
EXTENDS RealtimeSocket, Naturals, FiniteSets

CONSTANTS
    Viewer,         \* the subscriber whose view is followed
    Kinds,          \* of component, of those below
    Fetches,        \* bound: requests of the viewer under way
    MaxProcesses,   \* WEB_CONCURRENCY, at most
    MaxChanges,     \* bound: changes of the viewer's data
    MaxMounts,      \* bound: subscriptions
    MaxTurns,       \* bound: times the page is hidden or shown
    MaxFaults       \* bound: connections lost, pushes cut short, fetches failed

AllKinds == {"badge",   \* InboxButton, OutboxButton: one fetch at a time, cached
             "panel"}   \* TaskChatPanel, AdminRequestPanel: no such guard, no cache

ASSUME ViewerSubscribes == Viewer \in Subscribers /\ Kinds \subseteq AllKinds

ASSUME BoundsAreNumbers == {MaxProcesses, MaxChanges, MaxMounts, MaxTurns, MaxFaults} \subseteq Nat

VARIABLES
    processes,      \* the server's, fixed
    kind,           \* of the viewer, fixed
    version,        \* of the viewer's data, committed
    old,            \* earlier versions that some cache may still answer with
    queued,         \* <<process, version>> in the dispatcher of a process
    hub,            \* the process whose hub has the socket
    sending,        \* <<socket, version>>: pushed, not yet received
    heard,          \* history: versions a message told the page of
    echoed,         \* history: told more than once
    visible,        \* document.visibilityState
    pending,        \* timers of the viewer: the first fetch, a refresh
    fetches,        \* its requests: Asked, or the version the answer carries
    aged,           \* history: those whose answer was out of date when given
    view,           \* the version it shows; 0: none
    gap,            \* history: a refresh was skipped, overtaken, lost or aged
    mounts, turns, faults   \* counters

serverVars == <<processes, version, old, queued, hub>>
pushVars == <<sending, heard, echoed>>
viewVars == <<kind, pending, fetches, aged, view, gap>>
vars == <<socketVars, serverVars, pushVars, visible, viewVars, mounts, turns, faults>>

Versions == 1..(MaxChanges + 1)
Free == 0
Asked == MaxChanges + 2

Cache == INSTANCE CachedAnswer WITH First <- 1, Last <- MaxChanges + 1

TypeOK ==
    /\ SocketTypeOK
    /\ processes \in 1..MaxProcesses
    /\ kind \in Kinds
    /\ version \in Versions
    /\ old \subseteq Versions
    /\ queued \subseteq (1..processes) \X Versions
    /\ hub \in [Sockets -> 0..processes]
    /\ sending \subseteq Sockets \X Versions
    /\ heard \subseteq Versions
    /\ echoed \subseteq Versions
    /\ visible \in BOOLEAN
    /\ pending \subseteq {"first", "refresh"}
    /\ fetches \in [Fetches -> {Free, Asked} \union Versions]
    /\ aged \subseteq Fetches
    /\ view \in 0..(MaxChanges + 1)
    /\ gap \in BOOLEAN
    /\ mounts \in 0..MaxMounts
    /\ turns \in 0..MaxTurns
    /\ faults \in 0..MaxFaults

Init ==
    /\ SocketInit
    /\ processes \in 1..MaxProcesses
    /\ kind \in Kinds
    /\ Cache!Init
    /\ queued = {}
    /\ hub = [s \in Sockets |-> 0]
    /\ sending = {} /\ heard = {} /\ echoed = {}
    /\ visible = TRUE
    /\ pending = {}
    /\ fetches = [k \in Fetches |-> Free] /\ aged = {}
    /\ view = 0
    /\ gap = FALSE
    /\ mounts = 0 /\ turns = 0 /\ faults = 0

Fault == faults < MaxFaults /\ faults' = faults + 1

-----------------------------------------------------------------------------
(* The viewer *)

Idle == {k \in Fetches : fetches[k] = Free}

\* Faulty variant of Fetch: a badge does not look for a fetch under way.
FetchUnguarded ==
    /\ Idle # {}
    /\ fetches' = [fetches EXCEPT ![CHOOSE k \in Fetches : k \in Idle] = Asked]
    /\ UNCHANGED gap

\* A badge with a fetch under way skips this one.
Fetch ==
    IF kind = "badge" /\ Idle # Fetches
      THEN gap' = TRUE /\ UNCHANGED fetches
      ELSE /\ Idle # {}
           /\ fetches' = [fetches EXCEPT ![CHOOSE k \in Fetches : k \in Idle] = Asked]
           /\ UNCHANGED gap

\* Faulty variant of Told: a message is enough.
ToldNothing == UNCHANGED pending

\* onMessage and onOpen of the viewer: refresh in a quarter of a second.
Told ==
    pending' = IF Viewer \in subscribers THEN pending \union {"refresh"} ELSE pending

\* A badge fetches after a while, if the page is visible then.
Mount(u) ==
    /\ mounts < MaxMounts
    /\ mounts' = mounts + 1
    /\ Subscribe(u)
    /\ IF u # Viewer
         THEN UNCHANGED <<pending, fetches, gap>>
         ELSE IF kind = "badge"
           THEN pending' = {"first"} /\ UNCHANGED <<fetches, gap>>
           ELSE Fetch /\ UNCHANGED pending
    /\ UNCHANGED <<serverVars, pushVars, visible, kind, aged, view, turns, faults>>

Unmount(u) ==
    /\ Unsubscribe(u)
    /\ pending' = IF u = Viewer THEN {} ELSE pending
    /\ UNCHANGED <<serverVars, pushVars, visible, kind, fetches, aged, view, gap,
                   mounts, turns, faults>>

FirstFires ==
    /\ "first" \in pending
    /\ pending' = pending \ {"first"}
    /\ IF visible THEN Fetch ELSE gap' = TRUE /\ UNCHANGED fetches
    /\ UNCHANGED <<socketVars, serverVars, pushVars, visible, kind, aged, view,
                   mounts, turns, faults>>

RefreshFires ==
    /\ "refresh" \in pending
    /\ pending' = pending \ {"refresh"}
    /\ Fetch
    /\ UNCHANGED <<socketVars, serverVars, pushVars, visible, kind, aged, view,
                   mounts, turns, faults>>

\* Every three minutes, on a visible page only; bound: a panel has no other
\* fetch under way then (it may have before this one is answered).
IntervalFires ==
    /\ Viewer \in subscribers
    /\ visible
    /\ kind # "badge" => Idle = Fetches
    /\ Fetch
    /\ UNCHANGED <<socketVars, serverVars, pushVars, visible, kind, pending, aged,
                   view, mounts, turns, faults>>

\* The browser, the edge worker, Redis or the database answers.
Reads(k) ==
    /\ fetches[k] = Asked
    /\ \E v \in Cache!Answerable :
        /\ fetches' = [fetches EXCEPT ![k] = v]
        /\ aged' = IF v < version THEN aged \union {k} ELSE aged
        /\ gap' = (gap \/ v < version)
    /\ UNCHANGED <<socketVars, serverVars, pushVars, visible, kind, pending, view,
                   mounts, turns, faults>>

\* The answer is shown even if a newer one has been shown before.
Answers(k) ==
    /\ fetches[k] \in Versions
    /\ view' = fetches[k]
    /\ gap' = (gap \/ fetches[k] < view)
    /\ fetches' = [fetches EXCEPT ![k] = Free]
    /\ aged' = aged \ {k}
    /\ UNCHANGED <<socketVars, serverVars, pushVars, visible, kind, pending, mounts, turns, faults>>

Fails(k) ==
    /\ Fault
    /\ fetches[k] # Free
    /\ fetches' = [fetches EXCEPT ![k] = Free]
    /\ aged' = aged \ {k}
    /\ gap' = TRUE
    /\ UNCHANGED <<socketVars, serverVars, pushVars, visible, kind, pending, view, mounts, turns>>

Turns ==
    /\ turns < MaxTurns
    /\ turns' = turns + 1
    /\ visible' = ~visible
    /\ UNCHANGED <<socketVars, serverVars, pushVars, viewVars, mounts, faults>>

-----------------------------------------------------------------------------
(* The server *)

\* The request's process does nothing else between the enqueue and the commit.
\* A cached answer may outlive the invalidation that follows it (EdgeCache).
Change(p) ==
    /\ p \in 1..processes
    /\ Cache!Change
    /\ old' # old => kind = "badge"
    /\ queued' = queued \union {<<p, version + 1>>}
    /\ UNCHANGED <<socketVars, processes, hub, pushVars, visible, viewVars, mounts, turns, faults>>

\* Copies are dropped, overwritten or expire.
CopiesExpire ==
    /\ Cache!Forgets
    /\ UNCHANGED <<socketVars, processes, queued, hub, pushVars, visible, viewVars,
                   mounts, turns, faults>>

\* A worker takes the sockets that the hub of its process knows by now.
Push(p, v) ==
    /\ <<p, v>> \in queued
    /\ queued' = queued \ {<<p, v>>}
    /\ sending' = sending \union {<<s, v>> : s \in {t \in Sockets : hub[t] = p}}
    /\ UNCHANGED <<socketVars, processes, version, old, hub, heard, echoed, visible, viewVars,
                   mounts, turns, faults>>

\* The push takes longer than push_timeout_seconds: who was not sent to yet
\* is not sent to any more.
PushTimesOut(s, v) ==
    /\ Fault
    /\ <<s, v>> \in sending
    /\ sending' = sending \ {<<s, v>>}
    /\ gap' = TRUE
    /\ UNCHANGED <<socketVars, serverVars, heard, echoed, visible, kind, pending, fetches, aged,
                   view, mounts, turns>>

\* notifications_ws: accepted and known to the hub in one go.
Accepts(s, p) ==
    /\ p \in 1..processes
    /\ readyState[s] = "CONNECTING"
    /\ hub[s] = 0
    /\ hub' = [hub EXCEPT ![s] = p]
    /\ UNCHANGED <<socketVars, processes, version, old, queued, pushVars, visible, viewVars,
                   mounts, turns, faults>>

-----------------------------------------------------------------------------
(* The socket's events *)

SocketOpens(s) ==
    /\ hub[s] # 0
    /\ Opens(s)
    /\ Told
    /\ UNCHANGED <<serverVars, pushVars, visible, kind, fetches, aged, view, gap,
                   mounts, turns, faults>>

MessageArrives(s, v) ==
    /\ <<s, v>> \in sending
    /\ readyState[s] = "OPEN"
    /\ sending' = sending \ {<<s, v>>}
    /\ heard' = heard \union {v}
    /\ echoed' = echoed \union ({v} \intersect heard)
    /\ Told
    /\ UNCHANGED <<socketVars, serverVars, visible, kind, fetches, aged, view, gap,
                   mounts, turns, faults>>

CloseBegins(s) ==
    /\ Fault
    /\ StartsToClose(s)
    /\ UNCHANGED <<serverVars, pushVars, visible, viewVars, mounts, turns>>

\* Faulty variant of Gone: the hub keeps an entry without a process.
GoneKeepingEntry(s) ==
    /\ Closed(s)
    /\ hub' = [hub EXCEPT ![s] = None]
    /\ sending' = {m \in sending : m[1] # s}
    /\ UNCHANGED <<processes, version, old, queued, heard, echoed, visible, viewVars, mounts, turns>>

\* What was under way on the socket is gone, and the hub will find out.
Gone(s) ==
    /\ Closed(s)
    /\ hub' = [hub EXCEPT ![s] = 0]
    /\ sending' = {m \in sending : m[1] # s}
    /\ UNCHANGED <<processes, version, old, queued, heard, echoed, visible, viewVars, mounts, turns>>

SocketLost(s) ==
    /\ Fault
    /\ readyState[s] \in Live
    /\ Gone(s)

SocketClosed(s) ==
    /\ readyState[s] = "CLOSING"
    /\ Gone(s)
    /\ UNCHANGED faults

TimerOfSocket ==
    /\ ReconnectFires \/ IdleCloseFires
    /\ UNCHANGED <<serverVars, pushVars, visible, viewVars, mounts, turns, faults>>

-----------------------------------------------------------------------------
Page ==
    FirstFires \/ RefreshFires \/ TimerOfSocket

Network(s) ==
    \/ \E p \in 1..processes : Accepts(s, p)
    \/ SocketOpens(s)
    \/ SocketClosed(s)
    \/ \E v \in Versions : MessageArrives(s, v)

Next ==
    \/ \E u \in Subscribers : Mount(u) \/ Unmount(u)
    \/ Page \/ IntervalFires \/ Turns
    \/ \E k \in Fetches : Reads(k) \/ Answers(k) \/ Fails(k)
    \/ \E p \in 1..processes : Change(p) \/ \E v \in Versions : Push(p, v)
    \/ CopiesExpire
    \/ \E s \in Sockets : \/ Network(s) \/ CloseBegins(s) \/ SocketLost(s)
                          \/ \E v \in Versions : PushTimesOut(s, v)

Spec == Init /\ [][Next]_vars

\* Timers fire, the server answers and accepts, what was pushed arrives, and
\* old copies die out, which is FreshInTheEnd of EdgeCache.
\* Nobody has to mount, to look at the page or to change anything; faults are
\* not fair, and there are finitely many.
FairSpec ==
    /\ Spec
    /\ WF_vars(FirstFires) /\ WF_vars(RefreshFires) /\ WF_vars(IntervalFires)
    /\ WF_vars(TimerOfSocket)
    /\ \A k \in Fetches : WF_vars(Reads(k) \/ Answers(k))
    /\ \A s \in Sockets : WF_vars(Network(s))
    /\ WF_vars(\E p \in 1..processes, v \in Versions : Push(p, v))
    /\ WF_vars(CopiesExpire)

-----------------------------------------------------------------------------
(* Properties *)

\* No message reaches the page twice, however its sockets come and go: one
\* push goes to at most one socket of the page that still listens.
HeardOnce == echoed = {}

\* A badge, which fetches once at a time (inFlightRef), shows an older state
\* after a newer one only if a cache gave it an answer that was out of date
\* already; the panels do so, too, when answers overtake each other.
OnlyCachesTurnBack ==
    [][kind = "badge" /\ view' < view => \E k \in aged : fetches[k] = view']_vars

\* When connections are no longer lost, the page's socket is open and known
\* to a server process if somebody subscribes, and none is open if nobody does.
SocketFollowsSubscribers ==
    <>[](IF subscribers = {}
           THEN \A s \in Sockets : readyState[s] = "unused" /\ hub[s] = 0
           ELSE current # None /\ readyState[current] = "OPEN" /\ hub[current] # 0)

Fresh == Viewer \in subscribers => view = version

\* The view catches up with the data: on a visible page because it fetches
\* every now and then, when old copies have expired; on a hidden one by the
\* pushes alone, if there is one server process only and no refresh was
\* skipped, overtaken, lost or answered with an old copy.
ViewCatchesUp ==
    <>[](visible \/ (processes = 1 /\ ~gap)) => <>[]Fresh

=============================================================================

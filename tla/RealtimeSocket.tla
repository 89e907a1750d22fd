---------------------------- MODULE RealtimeSocket ----------------------------
(***************************************************************************)
(* The one WebSocket that a dashboard page shares among its subscribers    *)
(* (services/api.js, subscribeRealtimeNotifications).  The page's code     *)
(* runs one callback at a time: a subscription, its end, a timer, or an    *)
(* event of a socket, which may come late, from a socket given up before.  *)
(***************************************************************************)
CONSTANTS
    Subscribers,    \* components of the page that subscribe
    Sockets,        \* bound: WebSocket objects that are not closed yet
    None

ASSUME NoneIsNoSocket == None \notin Sockets

VARIABLES
    subscribers,    \* realtimeSubscribers
    current,        \* realtimeSocket
    readyState,     \* of each socket; "unused" also after onclose
    reconnect,      \* realtimeReconnectTimer is pending
    idleClose,      \* realtimeIdleCloseTimer is pending
    heartbeat       \* realtimeHeartbeatTimer is running

timers == <<reconnect, idleClose, heartbeat>>
socketVars == <<subscribers, current, readyState, timers>>

Live == {"CONNECTING", "OPEN"}

SocketTypeOK ==
    /\ subscribers \in SUBSET Subscribers
    /\ current \in Sockets \union {None}
    /\ readyState \in [Sockets -> {"unused", "CLOSING"} \union Live]
    /\ reconnect \in BOOLEAN
    /\ idleClose \in BOOLEAN
    /\ heartbeat \in BOOLEAN

SocketInit ==
    /\ subscribers = {}
    /\ current = None
    /\ readyState = [s \in Sockets |-> "unused"]
    /\ reconnect = FALSE
    /\ idleClose = FALSE
    /\ heartbeat = FALSE

-----------------------------------------------------------------------------
HasLive == current # None /\ readyState[current] \in Live

Unused == {s \in Sockets : readyState[s] = "unused"}

\* clearRealtimeTimers, and a new WebSocket.
Connect ==
    /\ reconnect' = FALSE
    /\ idleClose' = FALSE
    /\ heartbeat' = FALSE
    /\ Unused # {}
    /\ current' = CHOOSE s \in Sockets : s \in Unused
    /\ readyState' = [readyState EXCEPT ![current'] = "CONNECTING"]

Subscribe(u) ==
    /\ u \notin subscribers
    /\ subscribers' = subscribers \union {u}
    /\ IF HasLive
         THEN /\ idleClose' = FALSE
              /\ UNCHANGED <<current, readyState, reconnect, heartbeat>>
         ELSE Connect

\* Faulty variant of Unsubscribe: stops the timers whoever leaves.
UnsubscribeStoppingAll(u) ==
    /\ u \in subscribers
    /\ subscribers' = subscribers \ {u}
    /\ reconnect' = FALSE
    /\ idleClose' = TRUE
    /\ heartbeat' = FALSE
    /\ UNCHANGED <<current, readyState>>

\* Faulty variant of Unsubscribe: a reconnect that is pending stays so.
UnsubscribeLeavingTimers(u) ==
    /\ u \in subscribers
    /\ subscribers' = subscribers \ {u}
    /\ idleClose' = (subscribers' = {} \/ idleClose)
    /\ UNCHANGED <<current, readyState, reconnect, heartbeat>>

\* The last one to leave stops all timers, the heartbeat's too, and leaves
\* the socket three more seconds.
Unsubscribe(u) ==
    /\ u \in subscribers
    /\ subscribers' = subscribers \ {u}
    /\ IF subscribers' # {}
         THEN UNCHANGED timers
         ELSE /\ reconnect' = FALSE
              /\ idleClose' = TRUE
              /\ heartbeat' = FALSE
    /\ UNCHANGED <<current, readyState>>

ReconnectFires ==
    /\ reconnect
    /\ IF subscribers = {} \/ HasLive
         THEN /\ reconnect' = FALSE
              /\ UNCHANGED <<current, readyState, idleClose, heartbeat>>
         ELSE Connect
    /\ UNCHANGED subscribers

\* Faulty variant of IdleCloseFires: forgets the socket without closing it.
IdleCloseForgets ==
    /\ idleClose
    /\ idleClose' = FALSE
    /\ current' = IF subscribers = {} THEN None ELSE current
    /\ UNCHANGED <<subscribers, readyState, reconnect, heartbeat>>

IdleCloseFires ==
    /\ idleClose
    /\ idleClose' = FALSE
    /\ IF subscribers # {}
         THEN UNCHANGED <<current, readyState>>
         ELSE /\ readyState' = [s \in Sockets |->
                    IF s = current /\ HasLive THEN "CLOSING" ELSE readyState[s]]
              /\ current' = None
    /\ UNCHANGED <<subscribers, reconnect, heartbeat>>

\* onopen
Opens(s) ==
    /\ readyState[s] = "CONNECTING"
    /\ readyState' = [readyState EXCEPT ![s] = "OPEN"]
    /\ heartbeat' = TRUE
    /\ UNCHANGED <<subscribers, current, reconnect, idleClose>>

\* The other side has begun to close; onclose is still to come.
StartsToClose(s) ==
    /\ readyState[s] = "OPEN"
    /\ readyState' = [readyState EXCEPT ![s] = "CLOSING"]
    /\ UNCHANGED <<subscribers, current, timers>>

\* Faulty variant of Closed: does not ask whose close this is.
ClosedUnasked(s) ==
    /\ readyState[s] # "unused"
    /\ readyState' = [readyState EXCEPT ![s] = "unused"]
    /\ current' = None
    /\ heartbeat' = FALSE
    /\ reconnect' = (reconnect \/ subscribers # {})
    /\ UNCHANGED <<subscribers, idleClose>>

\* Faulty variant of Closed: leaves reconnecting to the next subscriber.
ClosedQuietly(s) ==
    /\ readyState[s] # "unused"
    /\ readyState' = [readyState EXCEPT ![s] = "unused"]
    /\ current' = IF current = s THEN None ELSE current
    /\ heartbeat' = FALSE
    /\ UNCHANGED <<subscribers, reconnect, idleClose>>

\* onclose, whether the socket was open or not.  It stops the heartbeat even
\* if another socket is current by now.
Closed(s) ==
    /\ readyState[s] # "unused"
    /\ readyState' = [readyState EXCEPT ![s] = "unused"]
    /\ current' = IF current = s THEN None ELSE current
    /\ heartbeat' = FALSE
    /\ reconnect' = (reconnect \/ subscribers # {})
    /\ UNCHANGED <<subscribers, idleClose>>

-----------------------------------------------------------------------------
SocketNext ==
    \/ \E u \in Subscribers : Subscribe(u) \/ Unsubscribe(u)
    \/ \E s \in Sockets : Opens(s) \/ StartsToClose(s) \/ Closed(s)
    \/ ReconnectFires
    \/ IdleCloseFires

SocketSpec == SocketInit /\ [][SocketNext]_socketVars

-----------------------------------------------------------------------------
(* Properties *)

\* A page never has two sockets that could both receive: what is connecting
\* or open is the current one, whatever closes late and whoever comes and goes.
OneLiveSocket ==
    \A s \in Sockets : readyState[s] \in Live => s = current

\* With a subscriber there is a socket that is live, or whose onclose is still
\* to come and will reconnect, or a reconnect is pending already.
NeverDeaf ==
    subscribers # {} =>
        reconnect \/ (current # None /\ readyState[current] # "unused")

\* With no subscriber left nothing reconnects, and a live socket is about to
\* be closed.
ReleasedWhenIdle ==
    subscribers = {} => ~reconnect /\ (HasLive => idleClose)

=============================================================================

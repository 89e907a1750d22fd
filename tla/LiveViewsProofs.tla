--------------------------- MODULE LiveViewsProofs ---------------------------
(***************************************************************************)
(* What holds of the page's socket for any number of subscribers, sockets, *)
(* server processes and faults: the steps of LiveViews are steps of        *)
(* RealtimeSocket or leave it alone, and RealtimeSocket keeps SocketInv.   *)
(***************************************************************************)
EXTENDS LiveViews, TLAPS

\* The three properties of the socket are inductive together.
SocketInv ==
    /\ SocketTypeOK
    /\ OneLiveSocket
    /\ NeverDeaf
    /\ ReleasedWhenIdle

-----------------------------------------------------------------------------
(* The socket alone *)

LEMMA SocketInitially == SocketInit => SocketInv
  BY NoneIsNoSocket
  DEF SocketInit, SocketInv, SocketTypeOK, OneLiveSocket, NeverDeaf, ReleasedWhenIdle, Live, HasLive

\* A new socket is connecting, and the only live one.
LEMMA ConnectIsSafe ==
  ASSUME SocketInv, ~HasLive, Connect, subscribers' \in SUBSET Subscribers, subscribers' # {}
  PROVE  SocketInv'
<1>1. /\ current' \in Sockets
      /\ readyState' = [readyState EXCEPT ![current'] = "CONNECTING"]
      /\ reconnect' = FALSE /\ idleClose' = FALSE /\ heartbeat' = FALSE
  BY DEF Connect, Unused
<1>2. current' # None
  BY <1>1, NoneIsNoSocket
<1>3. readyState'[current'] = "CONNECTING"
  BY <1>1 DEF SocketInv, SocketTypeOK
<1>4. \A s \in Sockets : readyState[s] \notin Live
  BY NoneIsNoSocket DEF SocketInv, OneLiveSocket, HasLive
<1>5. SocketTypeOK'
  BY <1>1 DEF SocketInv, SocketTypeOK, Live
<1>6. OneLiveSocket'
  BY <1>1, <1>4 DEF OneLiveSocket, SocketInv, SocketTypeOK
<1>7. NeverDeaf' /\ ReleasedWhenIdle'
  BY <1>1, <1>2, <1>3 DEF NeverDeaf, ReleasedWhenIdle
<1> QED
  BY <1>5, <1>6, <1>7 DEF SocketInv

\* Every callback of the page's code keeps the three.
LEMMA SocketStep == SocketInv /\ [SocketNext]_socketVars => SocketInv'
<1> SUFFICES ASSUME SocketInv, [SocketNext]_socketVars
             PROVE  SocketInv'
  OBVIOUS
<1> USE NoneIsNoSocket
<1>1. ASSUME NEW u \in Subscribers, Subscribe(u)
      PROVE  SocketInv'
  <2>1. CASE HasLive
    BY <1>1, <2>1
    DEF Subscribe, SocketInv, SocketTypeOK, OneLiveSocket, NeverDeaf, ReleasedWhenIdle, HasLive, Live
  <2>2. CASE ~HasLive
    BY <1>1, <2>2, ConnectIsSafe DEF Subscribe, SocketInv, SocketTypeOK
  <2> QED
    BY <2>1, <2>2
<1>2. ASSUME NEW u \in Subscribers, Unsubscribe(u)
      PROVE  SocketInv'
  BY <1>2
  DEF Unsubscribe, timers, SocketInv, SocketTypeOK, OneLiveSocket, NeverDeaf, ReleasedWhenIdle, HasLive
<1>3. ASSUME NEW s \in Sockets, Opens(s)
      PROVE  SocketInv'
  BY <1>3
  DEF Opens, SocketInv, SocketTypeOK, OneLiveSocket, NeverDeaf, ReleasedWhenIdle, HasLive, Live
<1>4. ASSUME NEW s \in Sockets, StartsToClose(s)
      PROVE  SocketInv'
  BY <1>4
  DEF StartsToClose, timers, SocketInv, SocketTypeOK, OneLiveSocket, NeverDeaf, ReleasedWhenIdle,
      HasLive, Live
<1>5. ASSUME NEW s \in Sockets, Closed(s)
      PROVE  SocketInv'
  BY <1>5
  DEF Closed, SocketInv, SocketTypeOK, OneLiveSocket, NeverDeaf, ReleasedWhenIdle, HasLive, Live
<1>6. ASSUME ReconnectFires
      PROVE  SocketInv'
  <2>1. CASE subscribers = {} \/ HasLive
    BY <1>6, <2>1
    DEF ReconnectFires, SocketInv, SocketTypeOK, OneLiveSocket, NeverDeaf, ReleasedWhenIdle, HasLive, Live
  <2>2. CASE ~(subscribers = {} \/ HasLive)
    BY <1>6, <2>2, ConnectIsSafe DEF ReconnectFires, SocketInv, SocketTypeOK
  <2> QED
    BY <2>1, <2>2
<1>7. ASSUME IdleCloseFires
      PROVE  SocketInv'
  BY <1>7
  DEF IdleCloseFires, SocketInv, SocketTypeOK, OneLiveSocket, NeverDeaf, ReleasedWhenIdle, HasLive, Live
<1>8. CASE UNCHANGED socketVars
  BY <1>8
  DEF socketVars, timers, SocketInv, SocketTypeOK, OneLiveSocket, NeverDeaf, ReleasedWhenIdle, HasLive
<1> QED
  BY <1>1, <1>2, <1>3, <1>4, <1>5, <1>6, <1>7, <1>8 DEF SocketNext

-----------------------------------------------------------------------------
(* The socket among the other parts *)

LEMMA SocketNextIn == [Next]_vars => [SocketNext]_socketVars
<1>1. ASSUME NEW u \in Subscribers, Mount(u) \/ Unmount(u)
      PROVE  SocketNext
  BY <1>1 DEF Mount, Unmount, SocketNext
<1>2. ASSUME Page \/ IntervalFires \/ Turns
      PROVE  [SocketNext]_socketVars
  BY <1>2 DEF Page, FirstFires, RefreshFires, TimerOfSocket, IntervalFires, Turns, SocketNext
<1>3. ASSUME NEW k \in Fetches, Reads(k) \/ Answers(k) \/ Fails(k)
      PROVE  UNCHANGED socketVars
  BY <1>3 DEF Reads, Answers, Fails
<1>4. ASSUME CopiesExpire \/ \E p \in 1..processes : Change(p) \/ \E v \in Versions : Push(p, v)
      PROVE  UNCHANGED socketVars
  BY <1>4 DEF CopiesExpire, Change, Push
<1>5. ASSUME NEW s \in Sockets, Network(s)
      PROVE  [SocketNext]_socketVars
  BY <1>5 DEF Network, Accepts, SocketOpens, SocketClosed, Gone, MessageArrives, SocketNext
<1>6. ASSUME NEW s \in Sockets,
             CloseBegins(s) \/ SocketLost(s) \/ \E v \in Versions : PushTimesOut(s, v)
      PROVE  [SocketNext]_socketVars
  BY <1>6 DEF CloseBegins, SocketLost, Gone, PushTimesOut, SocketNext
<1>7. CASE UNCHANGED vars
  BY <1>7 DEF vars
<1> QED
  BY <1>1, <1>2, <1>3, <1>4, <1>5, <1>6, <1>7 DEF Next

\* The page's socket in the whole system behaves as RealtimeSocket says.
THEOREM SocketImplemented == Spec => SocketSpec
<1>1. Init => SocketInit
  BY DEF Init
<1> QED
  BY <1>1, SocketNextIn, PTL DEF Spec, SocketSpec

\* At no time can two sockets of a page receive: OneLiveSocket.
THEOREM OneSocket == Spec => []OneLiveSocket
<1>1. SocketInv => OneLiveSocket
  BY DEF SocketInv
<1> QED
  BY <1>1, SocketImplemented, SocketInitially, SocketStep, PTL DEF SocketSpec

\* Who subscribes has a socket, or will have one: NeverDeaf.
THEOREM SubscribersAreServed == Spec => []NeverDeaf
<1>1. SocketInv => NeverDeaf
  BY DEF SocketInv
<1> QED
  BY <1>1, SocketImplemented, SocketInitially, SocketStep, PTL DEF SocketSpec

\* Without subscribers the socket goes, and stays away: ReleasedWhenIdle.
THEOREM IdleSocketGoes == Spec => []ReleasedWhenIdle
<1>1. SocketInv => ReleasedWhenIdle
  BY DEF SocketInv
<1> QED
  BY <1>1, SocketImplemented, SocketInitially, SocketStep, PTL DEF SocketSpec

-----------------------------------------------------------------------------
(* Types *)

LEMMA VersionsAreNumbers ==
  /\ MaxChanges \in Nat
  /\ Versions \subseteq Nat
  /\ Free \notin Versions /\ Asked \notin Versions /\ Asked # Free
  BY BoundsAreNumbers DEF Versions, Free, Asked

LEMMA TypeInit == Init => TypeOK
<1> SUFFICES ASSUME Init
             PROVE  TypeOK
  OBVIOUS
<1>1. SocketTypeOK
  BY SocketInitially DEF Init, SocketInv
<1>2. 1 \in Versions
  BY VersionsAreNumbers DEF Versions
<1>3. /\ view \in 0..(MaxChanges + 1)
      /\ mounts \in 0..MaxMounts /\ turns \in 0..MaxTurns /\ faults \in 0..MaxFaults
  BY BoundsAreNumbers DEF Init
<1>4. /\ processes \in 1..MaxProcesses
      /\ hub \in [Sockets -> 0..processes]
  BY BoundsAreNumbers DEF Init
<1> QED
  BY <1>1, <1>2, <1>3, <1>4 DEF Init, TypeOK, Cache!Init

\* What a fetch that is started, or skipped, leaves.
LEMMA FetchTyped ==
  ASSUME TypeOK, Fetch
  PROVE  /\ fetches' \in [Fetches -> {Free, Asked} \union Versions]
         /\ gap' \in BOOLEAN
  BY DEF TypeOK, Fetch, Idle

LEMMA TypeStep == TypeOK /\ SocketInv /\ [Next]_vars => TypeOK'
<1> SUFFICES ASSUME TypeOK, SocketInv, [Next]_vars
             PROVE  TypeOK'
  OBVIOUS
<1> USE BoundsAreNumbers, VersionsAreNumbers
<1>1. SocketTypeOK'
  BY SocketNextIn, SocketStep DEF SocketInv
<1>2. ASSUME NEW u \in Subscribers, Mount(u)
      PROVE  TypeOK'
  <2>1. /\ pending' \subseteq {"first", "refresh"}
        /\ fetches' \in [Fetches -> {Free, Asked} \union Versions]
        /\ gap' \in BOOLEAN
    BY <1>2, FetchTyped DEF Mount, TypeOK
  <2>2. mounts' \in 0..MaxMounts
    BY <1>2 DEF Mount, TypeOK
  <2> QED
    BY <1>1, <1>2, <2>1, <2>2 DEF Mount, TypeOK, serverVars, pushVars
<1>3. ASSUME NEW u \in Subscribers, Unmount(u)
      PROVE  TypeOK'
  BY <1>1, <1>3 DEF Unmount, TypeOK, serverVars, pushVars
<1>4. ASSUME FirstFires \/ RefreshFires
      PROVE  TypeOK'
  BY <1>1, <1>4, FetchTyped DEF FirstFires, RefreshFires, TypeOK, serverVars, pushVars
<1>5. ASSUME TimerOfSocket
      PROVE  TypeOK'
  BY <1>1, <1>5 DEF TimerOfSocket, TypeOK, serverVars, pushVars, viewVars
<1>6. ASSUME IntervalFires
      PROVE  TypeOK'
  BY <1>1, <1>6, FetchTyped DEF IntervalFires, TypeOK, serverVars, pushVars
<1>7. ASSUME Turns
      PROVE  TypeOK'
  BY <1>1, <1>7 DEF Turns, TypeOK, serverVars, pushVars, viewVars
<1>8. ASSUME NEW k \in Fetches, Reads(k)
      PROVE  TypeOK'
  <2>1. Cache!Answerable \subseteq Versions
    BY DEF TypeOK, Cache!Answerable
  <2>2. fetches' \in [Fetches -> {Free, Asked} \union Versions]
    BY <1>8, <2>1 DEF Reads, TypeOK
  <2>3. aged' \subseteq Fetches /\ gap' \in BOOLEAN
    BY <1>8 DEF Reads, TypeOK
  <2> QED
    BY <1>1, <1>8, <2>2, <2>3 DEF Reads, TypeOK, serverVars, pushVars
<1>9. ASSUME NEW k \in Fetches, Answers(k)
      PROVE  TypeOK'
  BY <1>1, <1>9 DEF Answers, TypeOK, serverVars, pushVars, Versions
<1>10. ASSUME NEW k \in Fetches, Fails(k)
       PROVE  TypeOK'
  BY <1>1, <1>10 DEF Fails, Fault, TypeOK, serverVars, pushVars
<1>11. ASSUME NEW p \in 1..processes, Change(p)
       PROVE  TypeOK'
  <2>1. version + 1 \in Versions
    BY <1>11 DEF Change, Cache!Change, TypeOK, Versions
  <2> QED
    BY <1>1, <1>11, <2>1 DEF Change, Cache!Change, TypeOK, pushVars, viewVars
<1>12. ASSUME NEW p \in 1..processes, NEW v \in Versions, Push(p, v)
       PROVE  TypeOK'
  BY <1>1, <1>12 DEF Push, TypeOK, viewVars
<1>13. ASSUME NEW s \in Sockets, NEW p \in 1..processes, Accepts(s, p)
       PROVE  TypeOK'
  BY <1>1, <1>13 DEF Accepts, TypeOK, pushVars, viewVars
<1>14. ASSUME NEW s \in Sockets, SocketOpens(s)
       PROVE  TypeOK'
  BY <1>1, <1>14 DEF SocketOpens, Told, TypeOK, serverVars, pushVars
<1>15. ASSUME NEW s \in Sockets, SocketClosed(s) \/ SocketLost(s)
       PROVE  TypeOK'
  <2>1. faults' \in 0..MaxFaults
    BY <1>15 DEF SocketClosed, SocketLost, Fault, TypeOK
  <2>2. Gone(s)
    BY <1>15 DEF SocketClosed, SocketLost
  <2>3. hub' \in [Sockets -> 0..processes] /\ sending' \subseteq Sockets \X Versions
    BY <2>2 DEF Gone, TypeOK
  <2> QED
    BY <1>1, <2>1, <2>2, <2>3 DEF Gone, TypeOK, viewVars
<1>16. ASSUME NEW s \in Sockets, NEW v \in Versions, MessageArrives(s, v)
       PROVE  TypeOK'
  BY <1>1, <1>16 DEF MessageArrives, Told, TypeOK, serverVars
<1>17. ASSUME NEW s \in Sockets, CloseBegins(s)
       PROVE  TypeOK'
  BY <1>1, <1>17 DEF CloseBegins, Fault, TypeOK, serverVars, pushVars, viewVars
<1>18. ASSUME NEW s \in Sockets, NEW v \in Versions, PushTimesOut(s, v)
       PROVE  TypeOK'
  BY <1>1, <1>18 DEF PushTimesOut, Fault, TypeOK, serverVars
<1>19. ASSUME CopiesExpire
       PROVE  TypeOK'
  BY <1>1, <1>19 DEF CopiesExpire, Cache!Forgets, TypeOK, pushVars, viewVars
<1>20. CASE UNCHANGED vars
  BY <1>1, <1>20 DEF vars, TypeOK, serverVars, pushVars, viewVars
<1> QED
  BY <1>2, <1>3, <1>4, <1>5, <1>6, <1>7, <1>8, <1>9, <1>10, <1>11, <1>12, <1>13, <1>14, <1>15,
     <1>16, <1>17, <1>18, <1>19, <1>20
  DEF Next, Page, Network

\* Every variable keeps its type, for any bounds: TypeOK.
THEOREM TypeCorrect == Spec => []TypeOK
<1>1. Init => SocketInv
  BY SocketInitially DEF Init
<1> QED
  BY <1>1, TypeInit, TypeStep, SocketNextIn, SocketStep, PTL DEF Spec

-----------------------------------------------------------------------------
(* A message is heard once *)

\* Where the messages are: queued once and not heard yet; pushed to sockets
\* that the hub knew; and, once heard, only with sockets that are closing.
HeardInv ==
    /\ echoed = {}
    /\ \A s \in Sockets : hub[s] # 0 => readyState[s] # "unused"
    /\ \A s \in Sockets, v \in Versions :
           <<s, v>> \in sending => readyState[s] # "unused" /\ v <= version
    /\ \A p \in 1..processes, v \in Versions :
           <<p, v>> \in queued =>
               /\ v <= version
               /\ v \notin heard
               /\ \A q \in 1..processes : <<q, v>> \in queued => q = p
               /\ \A s \in Sockets : <<s, v>> \notin sending
    /\ \A v \in heard : v <= version
    /\ \A s \in Sockets, v \in heard : <<s, v>> \in sending => readyState[s] = "CLOSING"

LEMMA HeardInit == Init => HeardInv
  BY DEF Init, HeardInv

\* Steps that move no message and open no closed socket.
LEMMA HeardKept ==
  ASSUME TypeOK, HeardInv, UNCHANGED <<serverVars, pushVars>>,
         \A s \in Sockets : /\ readyState[s] # "unused" => readyState'[s] # "unused"
                            /\ readyState[s] = "CLOSING" => readyState'[s] = "CLOSING"
  PROVE  HeardInv'
  BY DEF HeardInv, TypeOK, serverVars, pushVars

LEMMA HeardStep == TypeOK /\ SocketInv /\ HeardInv /\ [Next]_vars => HeardInv'
<1> SUFFICES ASSUME TypeOK, SocketInv, HeardInv, [Next]_vars
             PROVE  HeardInv'
  OBVIOUS
<1> USE VersionsAreNumbers
<1>1. ASSUME Connect
      PROVE  \A s \in Sockets : readyState[s] # "unused" => readyState'[s] = readyState[s]
  BY <1>1 DEF Connect, Unused, TypeOK, SocketTypeOK
<1>2. ASSUME NEW u \in Subscribers, Mount(u) \/ Unmount(u)
      PROVE  HeardInv'
  <2>1. \A s \in Sockets : readyState[s] # "unused" => readyState'[s] = readyState[s]
    BY <1>1, <1>2 DEF Mount, Unmount, Subscribe, Unsubscribe
  <2> QED
    BY <1>2, <2>1, HeardKept DEF Mount, Unmount
<1>3. ASSUME FirstFires \/ RefreshFires \/ IntervalFires \/ Turns
      PROVE  HeardInv'
  BY <1>3, HeardKept DEF FirstFires, RefreshFires, IntervalFires, Turns, socketVars
<1>4. ASSUME TimerOfSocket
      PROVE  HeardInv'
  <2>1. CASE ReconnectFires
    <3>1. \A s \in Sockets : readyState[s] # "unused" => readyState'[s] = readyState[s]
      BY <1>1, <2>1 DEF ReconnectFires
    <3> QED
      BY <1>4, <3>1, HeardKept DEF TimerOfSocket
  <2>2. CASE IdleCloseFires
    <3>1. \A s \in Sockets : readyState'[s] \in {readyState[s], "CLOSING"}
      BY <2>2 DEF IdleCloseFires
    <3> QED
      BY <1>4, <3>1, HeardKept DEF TimerOfSocket
  <2> QED
    BY <1>4, <2>1, <2>2 DEF TimerOfSocket
<1>5. ASSUME NEW k \in Fetches, Reads(k) \/ Answers(k) \/ Fails(k)
      PROVE  HeardInv'
  BY <1>5, HeardKept DEF Reads, Answers, Fails, socketVars
<1>6. ASSUME NEW p \in 1..processes, Change(p)
      PROVE  HeardInv'
  <2>1. /\ version \in Versions /\ version' = version + 1
        /\ queued' = queued \union {<<p, version + 1>>}
        /\ UNCHANGED <<readyState, processes, hub, sending, heard, echoed>>
    BY <1>6 DEF Change, Cache!Change, TypeOK, socketVars, pushVars
  <2>2. \A v \in Versions : v <= version => v <= version' /\ v # version + 1
    BY <2>1
  <2>3. heard \subseteq Versions
    BY DEF TypeOK
  <2> QED
    BY <2>1, <2>2, <2>3 DEF HeardInv, TypeOK
<1>7. ASSUME NEW p \in 1..processes, NEW v \in Versions, Push(p, v)
      PROVE  HeardInv'
  <2>1. /\ <<p, v>> \in queued
        /\ queued' = queued \ {<<p, v>>}
        /\ UNCHANGED <<readyState, processes, version, hub, heard, echoed>>
    BY <1>7 DEF Push, socketVars
  <2>2. \A s \in Sockets, w \in Versions :
            <<s, w>> \in sending' => \/ <<s, w>> \in sending
                                    \/ (w = v /\ hub[s] = p)
    BY <1>7 DEF Push
  <2>3. p # 0 /\ heard \subseteq Versions
    BY DEF TypeOK
  <2> QED
    BY <2>1, <2>2, <2>3 DEF HeardInv
<1>8. ASSUME NEW s \in Sockets, NEW p \in 1..processes, Accepts(s, p)
      PROVE  HeardInv'
  BY <1>8 DEF Accepts, HeardInv, TypeOK, pushVars, socketVars
<1>9. ASSUME NEW s \in Sockets, SocketOpens(s)
      PROVE  HeardInv'
  <2>1. \A t \in Sockets : /\ readyState[t] # "unused" => readyState'[t] # "unused"
                           /\ readyState[t] = "CLOSING" => readyState'[t] = "CLOSING"
    BY <1>9 DEF SocketOpens, Opens, TypeOK, SocketTypeOK
  <2> QED
    BY <1>9, <2>1, HeardKept DEF SocketOpens
<1>10. ASSUME NEW s \in Sockets, SocketClosed(s) \/ SocketLost(s)
       PROVE  HeardInv'
  <2>1. /\ readyState' = [readyState EXCEPT ![s] = "unused"]
        /\ hub' = [hub EXCEPT ![s] = 0]
        /\ sending' = {m \in sending : m[1] # s}
        /\ UNCHANGED <<processes, version, queued, heard, echoed>>
    BY <1>10 DEF SocketClosed, SocketLost, Gone, Closed
  <2>2. \A t \in Sockets, v \in Versions :
            <<t, v>> \in sending' => <<t, v>> \in sending /\ t # s
    BY <2>1
  <2>3. \A t \in Sockets : t # s => readyState'[t] = readyState[t] /\ hub'[t] = hub[t]
    BY <2>1 DEF TypeOK, SocketTypeOK
  <2>4. hub'[s] = 0
    BY <2>1 DEF TypeOK
  <2>5. heard \subseteq Versions
    BY DEF TypeOK
  <2> QED
    BY <2>1, <2>2, <2>3, <2>4, <2>5 DEF HeardInv
<1>11. ASSUME NEW s \in Sockets, NEW v \in Versions, MessageArrives(s, v)
       PROVE  HeardInv'
  <2>1. /\ <<s, v>> \in sending /\ readyState[s] = "OPEN"
        /\ sending' = sending \ {<<s, v>>}
        /\ heard' = heard \union {v}
        /\ echoed' = echoed \union ({v} \intersect heard)
        /\ UNCHANGED <<readyState, processes, version, queued, hub>>
    BY <1>11 DEF MessageArrives, socketVars, serverVars
  <2>2. v \notin heard
    BY <2>1 DEF HeardInv
  <2>3. \A t \in Sockets : t # s => readyState[t] \notin Live
    BY <2>1 DEF SocketInv, OneLiveSocket, Live
  <2>4. \A t \in Sockets : <<t, v>> \in sending /\ t # s => readyState[t] = "CLOSING"
    BY <2>3 DEF HeardInv, TypeOK, SocketTypeOK
  <2>5. \A t \in Sockets, w \in heard' : <<t, w>> \in sending' => readyState'[t] = "CLOSING"
    BY <2>1, <2>4 DEF HeardInv
  <2>6. heard \subseteq Versions
    BY DEF TypeOK
  <2> QED
    BY <2>1, <2>2, <2>5, <2>6 DEF HeardInv
<1>12. ASSUME NEW s \in Sockets, CloseBegins(s)
       PROVE  HeardInv'
  <2>1. \A t \in Sockets : /\ readyState[t] # "unused" => readyState'[t] # "unused"
                           /\ readyState[t] = "CLOSING" => readyState'[t] = "CLOSING"
    BY <1>12 DEF CloseBegins, StartsToClose, TypeOK, SocketTypeOK
  <2> QED
    BY <1>12, <2>1, HeardKept DEF CloseBegins
<1>13. ASSUME NEW s \in Sockets, NEW v \in Versions, PushTimesOut(s, v)
       PROVE  HeardInv'
  BY <1>13 DEF PushTimesOut, HeardInv, socketVars, serverVars
<1>14. ASSUME CopiesExpire
       PROVE  HeardInv'
  BY <1>14 DEF CopiesExpire, Cache!Forgets, HeardInv, socketVars, pushVars
<1>15. CASE UNCHANGED vars
  BY <1>15, HeardKept DEF vars, socketVars
<1> QED
  BY <1>2, <1>3, <1>4, <1>5, <1>6, <1>7, <1>8, <1>9, <1>10, <1>11, <1>12, <1>13, <1>14, <1>15
  DEF Next, Page, Network

\* No message reaches the page twice: HeardOnce.
THEOREM NothingHeardTwice == Spec => []HeardOnce
<1>1. Init => TypeOK /\ SocketInv /\ HeardInv
  BY TypeInit, HeardInit, SocketInitially DEF Init
<1>2. TypeOK /\ SocketInv /\ HeardInv /\ [Next]_vars => (TypeOK /\ SocketInv /\ HeardInv)'
  BY TypeStep, SocketNextIn, SocketStep, HeardStep
<1>3. HeardInv => HeardOnce
  BY DEF HeardInv, HeardOnce
<1> QED
  BY <1>1, <1>2, <1>3, PTL DEF Spec

-----------------------------------------------------------------------------
(* Only caches turn a badge back *)

\* A badge has one fetch under way, which brings nothing older than it shows
\* unless a cache has answered it with an old copy.
BadgeInv ==
    /\ view <= version
    /\ kind = "badge" =>
         /\ \A j, k \in Fetches : fetches[j] # Free /\ fetches[k] # Free => j = k
         /\ \A k \in Fetches \ aged : fetches[k] \in Versions => view <= fetches[k]
    /\ \A k \in Fetches : fetches[k] \in Versions => fetches[k] <= version
    /\ \A v \in old : v <= version

\* If a badge goes back, an old copy was the answer.
TurnedBack == kind = "badge" /\ view' < view => \E k \in aged : fetches[k] = view'

LEMMA BadgeInit == Init => BadgeInv
  BY VersionsAreNumbers DEF Init, BadgeInv, Cache!Init

\* A fetch is started only if none is under way, or the component is a panel.
LEMMA BadgeFetch ==
  ASSUME TypeOK, BadgeInv, UNCHANGED <<kind, version, old, aged, view>>, Fetch \/ UNCHANGED fetches
  PROVE  BadgeInv'
<1>1. CASE UNCHANGED fetches
  BY <1>1 DEF BadgeInv
<1>2. ASSUME Fetch, fetches' # fetches
      PROVE  BadgeInv'
  <2> DEFINE k == CHOOSE i \in Fetches : i \in Idle
  <2>1. /\ kind = "badge" => Idle = Fetches
        /\ Idle # {}
        /\ fetches' = [fetches EXCEPT ![k] = Asked]
    BY <1>2 DEF Fetch
  <2>2. k \in Fetches
    BY <2>1 DEF Idle
  <2>3. \A j \in Fetches : fetches'[j] = IF j = k THEN Asked ELSE fetches[j]
    BY <2>1 DEF TypeOK
  <2>4. kind = "badge" => \A j \in Fetches : fetches[j] = Free
    BY <2>1 DEF Idle
  <2> HIDE DEF k
  <2> QED
    BY <2>2, <2>3, <2>4, VersionsAreNumbers DEF BadgeInv
<1> QED
  BY <1>1, <1>2

LEMMA BadgeStep == TypeOK /\ BadgeInv /\ [Next]_vars => BadgeInv' /\ TurnedBack
<1> SUFFICES ASSUME TypeOK, BadgeInv, [Next]_vars
             PROVE  BadgeInv' /\ TurnedBack
  OBVIOUS
<1> USE VersionsAreNumbers
<1>1. view \in Nat /\ version \in Nat
  BY DEF TypeOK
<1>2. ASSUME UNCHANGED <<kind, version, old, aged, view>>, Fetch \/ UNCHANGED fetches
      PROVE  BadgeInv' /\ TurnedBack
  BY <1>1, <1>2, BadgeFetch DEF TurnedBack
<1>3. ASSUME NEW u \in Subscribers, Mount(u) \/ Unmount(u)
      PROVE  BadgeInv' /\ TurnedBack
  BY <1>2, <1>3 DEF Mount, Unmount, serverVars
<1>4. ASSUME Page \/ IntervalFires \/ Turns
      PROVE  BadgeInv' /\ TurnedBack
  BY <1>2, <1>4
  DEF Page, FirstFires, RefreshFires, TimerOfSocket, IntervalFires, Turns, serverVars, viewVars
<1>5. ASSUME NEW k \in Fetches, Reads(k)
      PROVE  BadgeInv' /\ TurnedBack
  <2>1. PICK v \in Cache!Answerable :
            /\ fetches' = [fetches EXCEPT ![k] = v]
            /\ aged' = IF v < version THEN aged \union {k} ELSE aged
    BY <1>5 DEF Reads
  <2>2. /\ fetches[k] # Free
        /\ UNCHANGED <<kind, version, old, view>>
    BY <1>5 DEF Reads, serverVars
  <2>3. v \in Nat /\ v <= version
    BY <1>1, <2>1 DEF Cache!Answerable, BadgeInv, TypeOK
  <2>4. \A j \in Fetches : fetches'[j] = IF j = k THEN v ELSE fetches[j]
    BY <2>1 DEF TypeOK
  <2>5. k \notin aged' => view <= v
    BY <1>1, <2>1, <2>3 DEF BadgeInv
  <2>6. aged \subseteq aged' /\ aged' \subseteq aged \union {k}
    BY <2>1
  <2> QED
    BY <1>1, <2>2, <2>3, <2>4, <2>5, <2>6 DEF BadgeInv, TurnedBack
<1>6. ASSUME NEW k \in Fetches, Answers(k)
      PROVE  BadgeInv' /\ TurnedBack
  <2>1. /\ fetches[k] \in Versions
        /\ view' = fetches[k]
        /\ fetches' = [fetches EXCEPT ![k] = Free]
        /\ aged' = aged \ {k}
        /\ UNCHANGED <<kind, version, old>>
    BY <1>6 DEF Answers, serverVars
  <2>2. \A j \in Fetches : fetches'[j] = IF j = k THEN Free ELSE fetches[j]
    BY <2>1 DEF TypeOK
  <2>3. kind = "badge" => \A j \in Fetches : fetches'[j] = Free
    BY <2>1, <2>2 DEF BadgeInv
  <2>4. TurnedBack
    <3>1. SUFFICES ASSUME kind = "badge", view' < view
                   PROVE  k \in aged
      BY <2>1 DEF TurnedBack
    <3>2. k \notin aged => view <= view'
      BY <2>1, <3>1 DEF BadgeInv
    <3>3. view' \in Nat
      BY <2>1
    <3> QED
      BY <1>1, <3>1, <3>2, <3>3
  <2>5. view' <= version' /\ \A v \in old' : v <= version'
    BY <2>1 DEF BadgeInv
  <2>6. \A j \in Fetches : fetches'[j] \in Versions => fetches'[j] <= version'
    BY <2>1, <2>2 DEF BadgeInv
  <2>7. BadgeInv'
    BY <2>1, <2>3, <2>5, <2>6 DEF BadgeInv
  <2> QED
    BY <2>4, <2>7
<1>7. ASSUME NEW k \in Fetches, Fails(k)
      PROVE  BadgeInv' /\ TurnedBack
  <2>1. \A j \in Fetches : fetches'[j] = IF j = k THEN Free ELSE fetches[j]
    BY <1>7 DEF Fails, TypeOK
  <2> QED
    BY <1>1, <1>7, <2>1 DEF Fails, BadgeInv, TurnedBack, serverVars
<1>8. ASSUME NEW p \in 1..processes, Change(p)
      PROVE  BadgeInv' /\ TurnedBack
  <2>1. /\ version' = version + 1
        /\ old' \subseteq old \union {version}
        /\ UNCHANGED <<kind, view, fetches, aged>>
    BY <1>8 DEF Change, Cache!Change, viewVars
  <2>2. \A v \in Versions : v <= version => v <= version'
    BY <1>1, <2>1
  <2>3. view' <= version' /\ view' >= view
    BY <1>1, <2>1 DEF BadgeInv
  <2>4. \A v \in old' : v <= version'
    BY <1>1, <2>1, <2>2 DEF BadgeInv, TypeOK
  <2>5. BadgeInv'
    BY <2>1, <2>2, <2>3, <2>4 DEF BadgeInv
  <2> QED
    BY <1>1, <2>1, <2>5 DEF TurnedBack
<1>9. ASSUME NEW p \in 1..processes, NEW v \in Versions, Push(p, v)
      PROVE  BadgeInv' /\ TurnedBack
  BY <1>2, <1>9 DEF Push, viewVars
<1>10. ASSUME NEW s \in Sockets,
              Network(s) \/ CloseBegins(s) \/ SocketLost(s) \/ \E v \in Versions : PushTimesOut(s, v)
       PROVE  BadgeInv' /\ TurnedBack
  BY <1>2, <1>10
  DEF Network, Accepts, SocketOpens, SocketClosed, MessageArrives, CloseBegins, SocketLost, Gone,
      PushTimesOut, serverVars, viewVars
<1>11. ASSUME CopiesExpire
       PROVE  BadgeInv' /\ TurnedBack
  BY <1>1, <1>11 DEF CopiesExpire, Cache!Forgets, BadgeInv, TurnedBack, viewVars
<1>12. CASE UNCHANGED vars
  BY <1>2, <1>12 DEF vars, serverVars, viewVars
<1> QED
  BY <1>3, <1>4, <1>5, <1>6, <1>7, <1>8, <1>9, <1>10, <1>11, <1>12 DEF Next

\* However pushes, timers, other requests and caches interleave, a badge goes
\* back only to what an old copy told it: OnlyCachesTurnBack.
THEOREM BadgeTurnsBackByCache == Spec => OnlyCachesTurnBack
<1>1. Init => TypeOK /\ SocketInv /\ BadgeInv
  BY TypeInit, BadgeInit, SocketInitially DEF Init
<1>2. TypeOK /\ SocketInv /\ BadgeInv /\ [Next]_vars =>
        (TypeOK /\ SocketInv /\ BadgeInv)' /\ [TurnedBack]_vars
  BY TypeStep, SocketNextIn, SocketStep, BadgeStep
<1> QED
  BY <1>1, <1>2, PTL DEF Spec, OnlyCachesTurnBack, TurnedBack

=============================================================================

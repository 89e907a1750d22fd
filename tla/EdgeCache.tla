------------------------------ MODULE EdgeCache ------------------------------
(***************************************************************************)
(* The caches between the database and a page, for one question that is    *)
(* asked again and again, such as the list of all tasks of a session.      *)
(* Redis keeps the backend's responses (utils/cache.py); the edge worker   *)
(* (cloudflare/worker.js) keeps what the backend answers in its KV store   *)
(* and in the memory of each of its isolates, and allows the browser to    *)
(* keep the answer as well.  A request that changes tasks invalidates      *)
(* Redis after its commit and then has the edge purged; both may fail, and *)
(* either may overtake requests that are under way.  Every entry expires.  *)
(* The KV store is external, taken as consistent.                          *)
(***************************************************************************)
EXTENDS Naturals

CONSTANTS
    Requests,       \* GET requests that may overlap
    Isolates,       \* of the edge worker, each with a memory of its own
    Setups,         \* what is deployed, and what the handlers tell the caches
    None,
    MaxChanges      \* bound: changes of the data

ASSUME SetupsAreSetups == Setups \subseteq [redis : BOOLEAN, kv : BOOLEAN, purge : BOOLEAN]

ASSUME NumbersAreApart == MaxChanges \in Nat /\ None \notin Nat

VARIABLES
    setup,      \* REDIS_URL, DASHBOARD_KV and EDGE_CACHE_PURGE_URL, fixed
    version,    \* of the data in the database: the changes committed
    redis,      \* the copy in Redis
    kv,         \* the copy in the KV store
    mem,        \* the copy in each isolate's memory
    browser,    \* the copy in the page's HTTP cache
    pc,         \* where each request stands
    at,         \* the isolate it came to
    got,        \* the copy it carries
    step,       \* where the handler of each change stands
    site,       \* the isolate its purge came to
    quiet       \* history: no request met the latest change's handler

copies == <<redis, kv, mem, browser>>
request == <<pc, at, got>>
change == <<step, site>>
vars == <<setup, version, copies, request, change, quiet>>

Changes == 1..MaxChanges

Versions == 0..MaxChanges

\* Waits for the KV store, has its answer, waits for the origin, computes,
\* stores in Redis, is answered by the origin, has put into the KV store.
Places == {"idle", "looking", "found", "asking", "computing", "computed", "replied", "kept"}

\* A handler has committed, invalidated Redis, had the KV store purged, had
\* the memory purged; or its work was left undone.
Steps == {"todo", "committed", "invalidated", "kvPurged", "purged", "left"}

TypeOK ==
    /\ setup \in Setups
    /\ version \in Versions
    /\ redis \in Versions \union {None}
    /\ kv \in Versions \union {None}
    /\ mem \in [Isolates -> Versions \union {None}]
    /\ browser \in Versions \union {None}
    /\ pc \in [Requests -> Places]
    /\ at \in [Requests -> Isolates \union {None}]
    /\ got \in [Requests -> Versions \union {None}]
    /\ \A r \in Requests :
        /\ pc[r] # "idle" => at[r] \in Isolates
        /\ pc[r] \in {"found", "computed", "replied", "kept"} => got[r] \in Versions
    /\ step \in [Changes -> Steps]
    /\ site \in [Changes -> Isolates \union {None}]
    /\ quiet \in BOOLEAN

Init ==
    /\ setup \in Setups
    /\ version = 0
    /\ redis = None
    /\ kv = None
    /\ mem = [i \in Isolates |-> None]
    /\ browser = None
    /\ pc = [r \in Requests |-> "idle"]
    /\ at = [r \in Requests |-> None]
    /\ got = [r \in Requests |-> None]
    /\ step = [c \in Changes |-> "todo"]
    /\ site = [c \in Changes |-> None]
    /\ quiet = TRUE

-----------------------------------------------------------------------------
(* A request: handleCachedGet, cacheOriginJson and the backend's wrapper *)

Goes(r, place, copy) ==
    /\ pc' = [pc EXCEPT ![r] = place]
    /\ got' = [got EXCEPT ![r] = copy]

Ends(r) ==
    /\ Goes(r, "idle", None)
    /\ at' = [at EXCEPT ![r] = None]

\* The answer leaves with a max-age, for the page or for another client of the
\* session, and a copy stays in the isolate's memory.
Answered(r) ==
    /\ mem' = [mem EXCEPT ![at[r]] = got[r]]
    /\ browser' \in {browser, got[r]}
    /\ Ends(r)

Overlapping == version > 0 /\ step[version] \in {"committed", "invalidated", "kvPurged"}

\* A copy in memory is the answer at once.
MemoryHit(i) ==
    /\ mem[i] # None
    /\ browser' = mem[i]
    /\ UNCHANGED <<setup, version, redis, kv, mem, request, change, quiet>>

\* Whatever the browser has: a reload, or another client, passes it by.
Ask(r, i) ==
    /\ pc[r] = "idle"
    /\ mem[i] = None
    /\ at' = [at EXCEPT ![r] = i]
    /\ Goes(r, IF setup.kv THEN "looking" ELSE "asking", None)
    /\ quiet' = (quiet /\ ~Overlapping)
    /\ UNCHANGED <<setup, version, copies, change>>

\* Faulty variant of KvAnswers: a miss is taken for a hit.
KvAnswersUnchecked(r) ==
    /\ pc[r] = "looking"
    /\ Goes(r, "found", kv)
    /\ UNCHANGED <<setup, version, copies, at, change, quiet>>

\* DASHBOARD_KV.get; it may fail, and that counts as a miss.
KvAnswers(r) ==
    /\ pc[r] = "looking"
    /\ \/ kv # None /\ Goes(r, "found", kv)
       \/ Goes(r, "asking", None)
    /\ UNCHANGED <<setup, version, copies, at, change, quiet>>

\* Faulty variant of KvHit: a hit stores its copy again and keeps it alive.
KvHitKept(r) ==
    /\ pc[r] = "found"
    /\ Goes(r, "replied", got[r])
    /\ UNCHANGED <<setup, version, copies, at, change, quiet>>

KvHit(r) ==
    /\ pc[r] = "found"
    /\ Answered(r)
    /\ UNCHANGED <<setup, version, redis, kv, change, quiet>>

\* redis_client.get; a miss or a failure has the endpoint run.
OriginLooks(r) ==
    /\ pc[r] = "asking"
    /\ \/ setup.redis /\ redis # None /\ Goes(r, "replied", redis)
       \/ Goes(r, "computing", None)
    /\ UNCHANGED <<setup, version, copies, at, change, quiet>>

Computes(r) ==
    /\ pc[r] = "computing"
    /\ Goes(r, IF setup.redis THEN "computed" ELSE "replied", version)
    /\ UNCHANGED <<setup, version, copies, at, change, quiet>>

\* redis_client.setex; may fail.
RedisStores(r) ==
    /\ pc[r] = "computed"
    /\ redis' \in {redis, got[r]}
    /\ Goes(r, "replied", got[r])
    /\ UNCHANGED <<setup, version, kv, mem, browser, at, change, quiet>>

\* No response, or one with an error, is handed on and kept nowhere.
OriginFails(r) ==
    /\ pc[r] \in {"asking", "computing"}
    /\ Ends(r)
    /\ UNCHANGED <<setup, version, copies, change, quiet>>

\* DASHBOARD_KV.put, where there is a KV store; may fail.
Keeps(r) ==
    /\ pc[r] = "replied"
    /\ kv' \in IF setup.kv THEN {kv, got[r]} ELSE {kv}
    /\ Goes(r, "kept", got[r])
    /\ UNCHANGED <<setup, version, redis, mem, browser, at, change, quiet>>

KeptAnswers(r) ==
    /\ pc[r] = "kept"
    /\ Answered(r)
    /\ UNCHANGED <<setup, version, redis, kv, change, quiet>>

-----------------------------------------------------------------------------
(* A change: the tail of a handler, purge_edge_cache and handlePurge *)

NoneUnderWay == \A r \in Requests : pc[r] = "idle"

\* Changes are numbered by their commits; their handlers may overlap.
Commit(c) ==
    /\ c = version + 1
    /\ version' = c
    /\ step' = [step EXCEPT ![c] = "committed"]
    /\ quiet' = NoneUnderWay
    /\ UNCHANGED <<setup, copies, request, site>>

\* invalidate_pattern; a failure is logged, and the handler goes on.
Invalidate(c) ==
    /\ step[c] = "committed"
    /\ \/ redis' = None /\ UNCHANGED quiet
       \/ UNCHANGED redis /\ quiet' = (quiet /\ c # version)
    /\ step' = [step EXCEPT ![c] = "invalidated"]
    /\ UNCHANGED <<setup, version, kv, mem, browser, request, site>>

\* The purge comes to one of the isolates and deletes the keys it lists.
PurgeKv(c, i) ==
    /\ step[c] = "invalidated"
    /\ setup.purge
    /\ kv' = None
    /\ step' = [step EXCEPT ![c] = "kvPurged"]
    /\ site' = [site EXCEPT ![c] = i]
    /\ UNCHANGED <<setup, version, redis, mem, browser, request, quiet>>

\* Faulty variant of PurgeMemory: the isolate's memory is left alone.
PurgeKvOnly(c) ==
    /\ step[c] = "kvPurged"
    /\ step' = [step EXCEPT ![c] = "purged"]
    /\ UNCHANGED <<setup, version, copies, request, site, quiet>>

PurgeMemory(c) ==
    /\ step[c] = "kvPurged"
    /\ mem' = [mem EXCEPT ![site[c]] = None]
    /\ step' = [step EXCEPT ![c] = "purged"]
    /\ UNCHANGED <<setup, version, redis, kv, browser, request, site, quiet>>

\* The process dies, nobody is to be told, the purge is lost or fails.
IsLeft(c) ==
    /\ step[c] \in {"committed", "invalidated", "kvPurged"}
    /\ step' = [step EXCEPT ![c] = "left"]
    /\ site' = [site EXCEPT ![c] = None]
    /\ UNCHANGED <<setup, version, copies, request, quiet>>

-----------------------------------------------------------------------------
(* Time *)

RedisExpires ==
    /\ redis # None
    /\ redis' = None
    /\ UNCHANGED <<setup, version, kv, mem, browser, request, change, quiet>>

KvExpires ==
    /\ kv # None
    /\ kv' = None
    /\ UNCHANGED <<setup, version, redis, mem, browser, request, change, quiet>>

MemoryExpires(i) ==
    /\ mem[i] # None
    /\ mem' = [mem EXCEPT ![i] = None]
    /\ UNCHANGED <<setup, version, redis, kv, browser, request, change, quiet>>

BrowserExpires ==
    /\ browser # None
    /\ browser' = None
    /\ UNCHANGED <<setup, version, redis, kv, mem, request, change, quiet>>

-----------------------------------------------------------------------------
Proceeds(r) ==
    \/ KvAnswers(r) \/ KvHit(r) \/ OriginLooks(r) \/ Computes(r) \/ OriginFails(r)
    \/ RedisStores(r) \/ Keeps(r) \/ KeptAnswers(r)

Handles(c) ==
    \/ Commit(c) \/ Invalidate(c) \/ PurgeMemory(c) \/ IsLeft(c)
    \/ \E i \in Isolates : PurgeKv(c, i)

Expires ==
    RedisExpires \/ KvExpires \/ BrowserExpires \/ \E i \in Isolates : MemoryExpires(i)

Next ==
    \/ \E r \in Requests : Proceeds(r) \/ \E i \in Isolates : Ask(r, i)
    \/ \E i \in Isolates : MemoryHit(i)
    \/ \E c \in Changes : Handles(c)
    \/ Expires

Spec == Init /\ [][Next]_vars

\* A request that came in is answered; an entry expires.  No change has to
\* come, and no purge has to arrive.
FairSpec ==
    /\ Spec
    /\ \A r \in Requests : WF_vars(Proceeds(r))
    /\ WF_vars(RedisExpires) /\ WF_vars(KvExpires) /\ WF_vars(BrowserExpires)
    /\ \A i \in Isolates : WF_vars(MemoryExpires(i))

-----------------------------------------------------------------------------
(* Properties *)

\* When the latest change's handler did all its work and no request was under
\* way meanwhile, Redis, the KV store and the isolate that was purged hold
\* nothing older, whatever handlers of earlier changes still do: only a
\* request that overlaps the handler can bring an old copy back.
QuietPurge ==
    (quiet /\ version > 0) =>
        (step[version] = "purged" => {redis, kv, mem[site[version]]} \subseteq {None, version})

\* What can still be given as an answer, without the database.
Held ==
    ({redis, kv, browser} \union {mem[i] : i \in Isolates} \union {got[r] : r \in Requests})
        \ {None}

\* Also when requests overtake invalidations, when purges are lost or reach
\* one isolate only, old copies die out: no layer takes them back from a
\* layer behind it, so they are gone for good once the changes end.
FreshInTheEnd == <>[](Held \subseteq {version})

\* To a page all of this is a set of old answers that loses its members, and
\* gains one only by a change (ImplementsAnswers, in EdgeCacheProofs).
Answer == INSTANCE CachedAnswer
            WITH First <- 0, Last <- MaxChanges, old <- Held \ {version}

AnswerSpec == Answer!Spec

=============================================================================

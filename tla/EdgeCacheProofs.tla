--------------------------- MODULE EdgeCacheProofs ---------------------------
(***************************************************************************)
(* Theorems about EdgeCache for any number of requests, isolates and       *)
(* changes and every deployment.  QuietPurge speaks of a handler that is   *)
(* through; the invariant follows the latest handler on its way: what it   *)
(* has cleaned stays clean, because a request that could dirty it again    *)
(* would have ended the quiet, or started after the commit with nothing    *)
(* but clean layers to read from.                                          *)
(***************************************************************************)
EXTENDS EdgeCache, TLAPS

Latest == {None, version}

Through == version > 0 /\ step[version] = "purged"

\* Until the handler is through no request is under way; what it has passed
\* is clean; afterwards requests carry only what is clean.
Cleaned ==
    quiet /\ version > 0 =>
        /\ Overlapping => NoneUnderWay
        /\ step[version] \in {"invalidated", "kvPurged", "purged"} => redis \in Latest
        /\ step[version] \in {"kvPurged", "purged"} => kv \in Latest
        /\ Through => /\ mem[site[version]] \in Latest
                      /\ \A r \in Requests : got[r] \in Latest

\* Changes are handled once they are committed, a purge has its isolate, and a
\* request that is through carries nothing.
Numbered ==
    /\ \A c \in Changes : c > version <=> step[c] = "todo"
    /\ \A c \in Changes : step[c] \in {"kvPurged", "purged"} => site[c] \in Isolates
    /\ \A r \in Requests : pc[r] = "idle" => got[r] = None

IInv == TypeOK /\ Numbered /\ Cleaned

-----------------------------------------------------------------------------
LEMMA InitInv == Init => IInv
  BY SetupsAreSetups, NumbersAreApart
  DEF Init, IInv, TypeOK, Numbered, Cleaned, Changes, Versions, Places, Steps

\* Every action keeps the types: a request that found an answer carries one.
LEMMA TypeStep == TypeOK /\ [Next]_vars => TypeOK'
  <1> SUFFICES ASSUME TypeOK, [Next]_vars PROVE TypeOK'
    OBVIOUS
  <1> USE NumbersAreApart DEF TypeOK, Changes, Versions, Places, Steps
  <1>1. ASSUME NEW r \in Requests, NEW i \in Isolates, Ask(r, i) PROVE TypeOK'
    BY <1>1 DEF Ask, Goes, Overlapping, copies, request, change
  <1>2. ASSUME NEW r \in Requests, KvAnswers(r) PROVE TypeOK'
    BY <1>2 DEF KvAnswers, Goes, copies, request, change
  <1>3. ASSUME NEW r \in Requests, KvHit(r) PROVE TypeOK'
    BY <1>3 DEF KvHit, Answered, Ends, Goes, copies, request, change
  <1>4. ASSUME NEW r \in Requests, OriginLooks(r) PROVE TypeOK'
    BY <1>4 DEF OriginLooks, Goes, copies, request, change
  <1>5. ASSUME NEW r \in Requests, Computes(r) PROVE TypeOK'
    BY <1>5 DEF Computes, Goes, copies, request, change
  <1>6. ASSUME NEW r \in Requests, OriginFails(r) PROVE TypeOK'
    BY <1>6 DEF OriginFails, Ends, Goes, copies, request, change
  <1>7. ASSUME NEW r \in Requests, RedisStores(r) PROVE TypeOK'
    BY <1>7 DEF RedisStores, Goes, copies, request, change
  <1>8. ASSUME NEW r \in Requests, Keeps(r) PROVE TypeOK'
    BY <1>8 DEF Keeps, Goes, copies, request, change
  <1>9. ASSUME NEW r \in Requests, KeptAnswers(r) PROVE TypeOK'
    BY <1>9 DEF KeptAnswers, Answered, Ends, Goes, copies, request, change
  <1>10. ASSUME NEW c \in Changes, Commit(c) PROVE TypeOK'
    <2>1. version' \in Versions /\ quiet' \in BOOLEAN
      BY <1>10 DEF Commit, NoneUnderWay
    <2>2. step' \in [Changes -> Steps]
      BY <1>10 DEF Commit
    <2> QED
      BY <1>10, <2>1, <2>2 DEF Commit, copies, request
  <1>11. ASSUME NEW c \in Changes, Invalidate(c) PROVE TypeOK'
    BY <1>11 DEF Invalidate, copies, request, change
  <1>12. ASSUME NEW c \in Changes, NEW i \in Isolates, PurgeKv(c, i) PROVE TypeOK'
    BY <1>12 DEF PurgeKv, copies, request, change
  <1>13. ASSUME NEW c \in Changes, PurgeMemory(c) PROVE TypeOK'
    BY <1>13 DEF PurgeMemory, copies, request, change
  <1>14. ASSUME NEW c \in Changes, IsLeft(c) PROVE TypeOK'
    BY <1>14 DEF IsLeft, copies, request, change
  <1>15. ASSUME RedisExpires PROVE TypeOK'
    BY <1>15 DEF RedisExpires, copies, request, change
  <1>16. ASSUME KvExpires PROVE TypeOK'
    BY <1>16 DEF KvExpires, copies, request, change
  <1>17. ASSUME NEW i \in Isolates, MemoryExpires(i) PROVE TypeOK'
    BY <1>17 DEF MemoryExpires, copies, request, change
  <1>18. ASSUME NEW i \in Isolates, MemoryHit(i) PROVE TypeOK'
    BY <1>18 DEF MemoryHit, copies, request, change
  <1>19. ASSUME BrowserExpires PROVE TypeOK'
    BY <1>19 DEF BrowserExpires, copies, request, change
  <1>20. ASSUME UNCHANGED vars PROVE TypeOK'
    BY <1>20 DEF vars, copies, request, change
  <1> QED
    BY <1>1, <1>2, <1>3, <1>4, <1>5, <1>6, <1>7, <1>8, <1>9, <1>10, <1>11, <1>12, <1>13,
       <1>14, <1>15, <1>16, <1>17, <1>18, <1>19, <1>20 DEF Next, Proceeds, Handles, Expires

\* A change has its number from its commit on, a purge its isolate.
LEMMA NumberedStep == TypeOK /\ Numbered /\ [Next]_vars => Numbered'
  <1> SUFFICES ASSUME TypeOK, Numbered, [Next]_vars PROVE Numbered'
    OBVIOUS
  <1> USE NumbersAreApart DEF TypeOK, Numbered, Changes, Versions, Places, Steps
  <1>1. ASSUME NEW r \in Requests, NEW i \in Isolates, Ask(r, i) PROVE Numbered'
    BY <1>1 DEF Ask, Goes, Overlapping, copies, request, change
  <1>2. ASSUME NEW r \in Requests, KvAnswers(r) PROVE Numbered'
    BY <1>2 DEF KvAnswers, Goes, copies, request, change
  <1>3. ASSUME NEW r \in Requests, KvHit(r) PROVE Numbered'
    BY <1>3 DEF KvHit, Answered, Ends, Goes, copies, request, change
  <1>4. ASSUME NEW r \in Requests, OriginLooks(r) PROVE Numbered'
    BY <1>4 DEF OriginLooks, Goes, copies, request, change
  <1>5. ASSUME NEW r \in Requests, Computes(r) PROVE Numbered'
    BY <1>5 DEF Computes, Goes, copies, request, change
  <1>6. ASSUME NEW r \in Requests, OriginFails(r) PROVE Numbered'
    BY <1>6 DEF OriginFails, Ends, Goes, copies, request, change
  <1>7. ASSUME NEW r \in Requests, RedisStores(r) PROVE Numbered'
    BY <1>7 DEF RedisStores, Goes, copies, request, change
  <1>8. ASSUME NEW r \in Requests, Keeps(r) PROVE Numbered'
    BY <1>8 DEF Keeps, Goes, copies, request, change
  <1>9. ASSUME NEW r \in Requests, KeptAnswers(r) PROVE Numbered'
    BY <1>9 DEF KeptAnswers, Answered, Ends, Goes, copies, request, change
  <1>10. ASSUME NEW c \in Changes, Commit(c) PROVE Numbered'
    BY <1>10 DEF Commit, copies, request, change
  <1>11. ASSUME NEW c \in Changes, Invalidate(c) PROVE Numbered'
    BY <1>11 DEF Invalidate, copies, request, change
  <1>12. ASSUME NEW c \in Changes, NEW i \in Isolates, PurgeKv(c, i) PROVE Numbered'
    BY <1>12 DEF PurgeKv, copies, request, change
  <1>13. ASSUME NEW c \in Changes, PurgeMemory(c) PROVE Numbered'
    BY <1>13 DEF PurgeMemory, copies, request, change
  <1>14. ASSUME NEW c \in Changes, IsLeft(c) PROVE Numbered'
    BY <1>14 DEF IsLeft, copies, request, change
  <1>15. ASSUME RedisExpires PROVE Numbered'
    BY <1>15 DEF RedisExpires, copies, request, change
  <1>16. ASSUME KvExpires PROVE Numbered'
    BY <1>16 DEF KvExpires, copies, request, change
  <1>17. ASSUME NEW i \in Isolates, MemoryExpires(i) PROVE Numbered'
    BY <1>17 DEF MemoryExpires, copies, request, change
  <1>18. ASSUME NEW i \in Isolates, MemoryHit(i) PROVE Numbered'
    BY <1>18 DEF MemoryHit, copies, request, change
  <1>19. ASSUME BrowserExpires PROVE Numbered'
    BY <1>19 DEF BrowserExpires, copies, request, change
  <1>20. ASSUME UNCHANGED vars PROVE Numbered'
    BY <1>20 DEF vars, copies, request, change
  <1> QED
    BY <1>1, <1>2, <1>3, <1>4, <1>5, <1>6, <1>7, <1>8, <1>9, <1>10, <1>11, <1>12, <1>13,
       <1>14, <1>15, <1>16, <1>17, <1>18, <1>19, <1>20 DEF Next, Proceeds, Handles, Expires

\* While the handler is at work a quiet change meets no request, and after it
\* a request finds only clean copies or the database itself.
LEMMA CleanedStep == IInv /\ [Next]_vars => Cleaned'
  <1> SUFFICES ASSUME IInv, [Next]_vars PROVE Cleaned'
    OBVIOUS
  <1> USE NumbersAreApart DEF IInv, TypeOK, Numbered, Cleaned, Latest, Through, Overlapping, NoneUnderWay, Changes, Versions
  <1>1. ASSUME NEW r \in Requests, NEW i \in Isolates, Ask(r, i) PROVE Cleaned'
    BY <1>1 DEF Ask, Goes, Overlapping, copies, request, change
  <1>2. ASSUME NEW r \in Requests, KvAnswers(r) PROVE Cleaned'
    BY <1>2 DEF KvAnswers, Goes, copies, request, change
  <1>3. ASSUME NEW r \in Requests, KvHit(r) PROVE Cleaned'
    BY <1>3 DEF KvHit, Answered, Ends, Goes, copies, request, change
  <1>4. ASSUME NEW r \in Requests, OriginLooks(r) PROVE Cleaned'
    BY <1>4 DEF OriginLooks, Goes, copies, request, change
  <1>5. ASSUME NEW r \in Requests, Computes(r) PROVE Cleaned'
    BY <1>5 DEF Computes, Goes, copies, request, change
  <1>6. ASSUME NEW r \in Requests, OriginFails(r) PROVE Cleaned'
    BY <1>6 DEF OriginFails, Ends, Goes, copies, request, change
  <1>7. ASSUME NEW r \in Requests, RedisStores(r) PROVE Cleaned'
    BY <1>7 DEF RedisStores, Goes, copies, request, change
  <1>8. ASSUME NEW r \in Requests, Keeps(r) PROVE Cleaned'
    BY <1>8 DEF Keeps, Goes, copies, request, change
  <1>9. ASSUME NEW r \in Requests, KeptAnswers(r) PROVE Cleaned'
    BY <1>9 DEF KeptAnswers, Answered, Ends, Goes, copies, request, change
  <1>10. ASSUME NEW c \in Changes, Commit(c) PROVE Cleaned'
    BY <1>10 DEF Commit, copies, request, change
  <1>11. ASSUME NEW c \in Changes, Invalidate(c) PROVE Cleaned'
    <2>1. UNCHANGED <<version, kv, mem, pc, got, site>> /\ (redis' = None \/ redis' = redis)
      BY <1>11 DEF Invalidate, request
    <2>2. \A d \in Changes : step'[d] = IF d = c THEN "invalidated" ELSE step[d]
      BY <1>11 DEF Invalidate
    <2>3. quiet' => quiet /\ (c = version => redis' = None)
      BY <1>11 DEF Invalidate
    <2>4. step[c] = "committed" /\ (version > 0 => version \in Changes)
      BY <1>11 DEF Invalidate
    <2>5. CASE c = version
      BY <2>1, <2>2, <2>3, <2>4, <2>5
    <2>6. CASE c # version
      BY <2>1, <2>2, <2>3, <2>4, <2>6
    <2> QED
      BY <2>5, <2>6
  <1>12. ASSUME NEW c \in Changes, NEW i \in Isolates, PurgeKv(c, i) PROVE Cleaned'
    BY <1>12 DEF PurgeKv, copies, request, change
  <1>13. ASSUME NEW c \in Changes, PurgeMemory(c) PROVE Cleaned'
    <2>1. UNCHANGED <<version, quiet, redis, kv, pc, got, site>> /\ mem' = [mem EXCEPT ![site[c]] = None]
      BY <1>13 DEF PurgeMemory, request
    <2>2. \A d \in Changes : step'[d] = IF d = c THEN "purged" ELSE step[d]
      BY <1>13 DEF PurgeMemory
    <2>3. step[c] = "kvPurged" /\ site[c] \in Isolates /\ (version > 0 => version \in Changes)
      BY <1>13 DEF PurgeMemory
    <2>4. \A i \in Isolates : mem'[i] \in {None, mem[i]}
      BY <2>1
    <2>5. CASE c = version
      <3>1. mem'[site'[version']] = None
        BY <2>1, <2>3, <2>5
      <3>2. quiet /\ version > 0 => \A r \in Requests : got[r] = None
        BY <2>3, <2>5
      <3> QED
        BY <2>1, <2>2, <2>3, <2>5, <3>1, <3>2
    <2>6. CASE c # version
      BY <2>1, <2>2, <2>3, <2>4, <2>6
    <2> QED
      BY <2>5, <2>6
  <1>14. ASSUME NEW c \in Changes, IsLeft(c) PROVE Cleaned'
    BY <1>14 DEF IsLeft, copies, request, change
  <1>15. ASSUME RedisExpires PROVE Cleaned'
    BY <1>15 DEF RedisExpires, copies, request, change
  <1>16. ASSUME KvExpires PROVE Cleaned'
    BY <1>16 DEF KvExpires, copies, request, change
  <1>17. ASSUME NEW i \in Isolates, MemoryExpires(i) PROVE Cleaned'
    BY <1>17 DEF MemoryExpires, copies, request, change
  <1>18. ASSUME NEW i \in Isolates, MemoryHit(i) PROVE Cleaned'
    BY <1>18 DEF MemoryHit, copies, request, change
  <1>19. ASSUME BrowserExpires PROVE Cleaned'
    BY <1>19 DEF BrowserExpires, copies, request, change
  <1>20. ASSUME UNCHANGED vars PROVE Cleaned'
    BY <1>20 DEF vars, copies, request, change
  <1> QED
    BY <1>1, <1>2, <1>3, <1>4, <1>5, <1>6, <1>7, <1>8, <1>9, <1>10, <1>11, <1>12, <1>13,
       <1>14, <1>15, <1>16, <1>17, <1>18, <1>19, <1>20 DEF Next, Proceeds, Handles, Expires

LEMMA Inductive == Spec => []IInv
  <1>1. IInv /\ [Next]_vars => IInv'
    BY TypeStep, NumberedStep, CleanedStep DEF IInv
  <1> QED
    BY InitInv, <1>1, PTL DEF Spec

\* For any constants every reachable state is well typed.
THEOREM TypeCorrect == Spec => []TypeOK
  <1>1. IInv => TypeOK
    BY DEF IInv
  <1> QED
    BY Inductive, <1>1, PTL

\* For any number of requests, isolates and overlapping handlers: where no
\* request meets the handler of the latest change, nothing old is left in
\* what it has invalidated and purged.
THEOREM PurgeIsThorough == Spec => []QuietPurge
  <1>1. IInv => QuietPurge
    BY DEF IInv, Cleaned, Latest, Through, QuietPurge
  <1> QED
    BY Inductive, <1>1, PTL

-----------------------------------------------------------------------------
(* What a page can be told *)

\* No copy is ahead of the data, as none is made but from the data.
Behind == Held \subseteq 0..version

\* Between changes copies come from copies, or from the data as they are.
Passed == Held' \subseteq Held \union {version} /\ version' = version

\* It is enough to look at each place by itself.
LEMMA PassedOn ==
  ASSUME NEW K, K = Held \union {None, version},
         version' = version, redis' \in K, kv' \in K, browser' \in K,
         \A i \in Isolates : mem'[i] \in K, \A r \in Requests : got'[r] \in K
  PROVE  Passed
  BY DEF Passed, Held

\* Every step but a commit passes copies on, drops them or makes new ones.
LEMMA StepsPassOn ==
  ASSUME TypeOK, [Next]_vars, ~ \E c \in Changes : Commit(c)
  PROVE  Passed
  <1> DEFINE K == Held \union {None, version}
  <1>1. /\ redis \in K /\ kv \in K /\ browser \in K
        /\ \A i \in Isolates : mem[i] \in K
        /\ \A r \in Requests : got[r] \in K
    BY DEF Held
  <1>2. None \in K /\ version \in K
    OBVIOUS
  <1>3. mem \in [Isolates -> Versions \union {None}] /\ got \in [Requests -> Versions \union {None}]
    BY DEF TypeOK
  <1>4. \A r \in Requests : pc[r] # "idle" => at[r] \in Isolates
    BY DEF TypeOK
  <1> HIDE DEF K
  <1>5. SUFFICES /\ version' = version /\ redis' \in K /\ kv' \in K /\ browser' \in K
                 /\ \A i \in Isolates : mem'[i] \in K
                 /\ \A r \in Requests : got'[r] \in K
    BY PassedOn DEF K
  <1>6. CASE \E r \in Requests, i \in Isolates : Ask(r, i)
    BY <1>1, <1>2, <1>3, <1>6 DEF Ask, Goes, copies
  <1>7. CASE \E r \in Requests : KvAnswers(r) \/ OriginLooks(r) \/ Computes(r)
    BY <1>1, <1>2, <1>3, <1>7 DEF KvAnswers, OriginLooks, Computes, Goes, copies
  <1>8. CASE \E r \in Requests : KvHit(r) \/ KeptAnswers(r)
    BY <1>1, <1>2, <1>3, <1>4, <1>8 DEF KvHit, KeptAnswers, Answered, Ends, Goes
  <1>9. CASE \E r \in Requests : OriginFails(r) \/ RedisStores(r) \/ Keeps(r)
    BY <1>1, <1>2, <1>3, <1>9 DEF OriginFails, RedisStores, Keeps, Ends, Goes, copies
  <1>10. CASE \E i \in Isolates : MemoryHit(i) \/ MemoryExpires(i)
    BY <1>1, <1>2, <1>3, <1>10 DEF MemoryHit, MemoryExpires, request
  <1>11. CASE Expires \/ UNCHANGED vars
    BY <1>1, <1>2, <1>3, <1>11
    DEF Expires, RedisExpires, KvExpires, BrowserExpires, MemoryExpires, vars, copies, request
  <1>12. CASE \E c \in Changes : Invalidate(c) \/ PurgeMemory(c) \/ IsLeft(c)
                               \/ \E i \in Isolates : PurgeKv(c, i)
    BY <1>1, <1>2, <1>3, <1>12 DEF Invalidate, PurgeMemory, PurgeKv, IsLeft, copies, request
  <1> QED
    BY <1>6, <1>7, <1>8, <1>9, <1>10, <1>11, <1>12 DEF Next, Proceeds, Handles

\* What the places hold after a commit is what they held before.
LEMMA CommitLeaves ==
  ASSUME TypeOK, NEW c \in Changes, Commit(c)
  PROVE  Held' = Held /\ version' = version + 1 /\ version + 1 \in 1..MaxChanges
  BY DEF Commit, Held, copies, request, TypeOK, Changes

LEMMA BehindStep == TypeOK /\ Behind /\ [Next]_vars => Behind'
  <1> SUFFICES ASSUME TypeOK, Behind, [Next]_vars PROVE Behind'
    OBVIOUS
  <1>1. version \in Nat
    BY NumbersAreApart DEF TypeOK, Versions
  <1>2. CASE \E c \in Changes : Commit(c)
    <2>1. Held' = Held /\ version' = version + 1
      BY <1>2, CommitLeaves
    <2>2. 0..version \subseteq 0..version'
      BY <1>1, <2>1
    <2> QED
      BY <2>1, <2>2 DEF Behind
  <1>3. CASE ~ \E c \in Changes : Commit(c)
    <2>1. Held' \subseteq Held \union {version} /\ version' = version
      BY <1>3, StepsPassOn DEF Passed
    <2>2. version \in 0..version
      BY <1>1
    <2> QED
      BY <2>1, <2>2 DEF Behind
  <1> QED
    BY <1>2, <1>3

\* A step changes the old answers as CachedAnswer allows.
LEMMA AnswerStep ==
  TypeOK /\ Behind /\ [Next]_vars => [Answer!Next]_<<version, Held \ {version}>>
  <1> SUFFICES ASSUME TypeOK, Behind, [Next]_vars
               PROVE  [Answer!Next]_<<version, Held \ {version}>>
    OBVIOUS
  <1>1. version \in Nat /\ MaxChanges \in Nat
    BY NumbersAreApart DEF TypeOK, Versions
  <1>2. CASE \E c \in Changes : Commit(c)
    <2>1. version + 1 \notin Held
      BY <1>1 DEF Behind
    <2>2. (Held \ {version})' \in {Held \ {version}, (Held \ {version}) \union {version}}
      BY <1>2, <2>1, CommitLeaves
    <2> QED
      BY <1>1, <1>2, <2>2, CommitLeaves DEF Answer!Next, Answer!Change
  <1>3. CASE ~ \E c \in Changes : Commit(c)
    <2>1. version' = version /\ (Held \ {version})' \subseteq Held \ {version}
      BY <1>3, StepsPassOn DEF Passed
    <2> QED
      BY <2>1 DEF Answer!Next, Answer!Forgets
  <1> QED
    BY <1>2, <1>3

\* For any number of requests, isolates and changes and every deployment the
\* caches do to the answers what CachedAnswer says: the badge of LiveViews is
\* answered from no other copies than these.
THEOREM ImplementsAnswers == Spec => AnswerSpec
  <1>1. Init => Behind /\ Answer!Init
    BY DEF Init, Behind, Held, Answer!Init
  <1>2. TypeOK /\ Behind /\ [Next]_vars => Behind'
    BY BehindStep
  <1> QED
    BY TypeCorrect, <1>1, <1>2, AnswerStep, PTL DEF Spec, AnswerSpec, Answer!Spec

=============================================================================

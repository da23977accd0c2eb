------------------------- MODULE CommentCacheProofs -------------------------
(***************************************************************************)
(* Proofs about the cached comment pages, for any number of shards, pages  *)
(* and requests: their types, that they are clients of the circuit breaker *)
(* and of the dead letter queue, and that every stale page is explained.   *)
(* What is proved of the queue by itself is used here by instantiation.    *)
(***************************************************************************)
EXTENDS CommentCache, FiniteSetTheorems, TLAPS

Queue == INSTANCE DeadLetterQueueProofs WITH Shards <- Named

USE ServiceAssumption, KeyAssumption, ContentAssumption

-----------------------------------------------------------------------------
\* The queue of this module is the one that DeadLetterQueueProofs is about.

LEMMA NamedFinite == IsFiniteSet(Named) /\ Queue!IsFiniteSet(Named) /\ Queue!IsFiniteSet(Pages)
<1>1. IsFiniteSet({Elsewhere})
  BY FS_Singleton
<1>2. IsFiniteSet(Named)
  BY <1>1, FS_Union DEF Named
<1>3. \A S : Queue!IsFiniteSet(S) <=> IsFiniteSet(S)
  BY DEF IsFiniteSet, Queue!IsFiniteSet
<1>. QED  BY <1>2, <1>3

LEMMA SameType ==
    /\ DLQ!TypeOK <=> Queue!TypeOK
    /\ DLQ!TypeOK' <=> Queue!TypeOK'
BY DEF DLQ!TypeOK, Queue!TypeOK, DLQ!Keys, Queue!Keys

LEMMA SamePush ==
  ASSUME NEW h, NEW s
  PROVE  DLQ!Push(h, s) <=> Queue!Push(h, s)
BY DEF DLQ!Push, Queue!Push, DLQ!Running, Queue!Running, DLQ!BeginAttempt,
       Queue!BeginAttempt, DLQ!run, Queue!run

LEMMA SameList ==
  ASSUME NEW h, NEW s, NEW answered
  PROVE  DLQ!ListPattern(h, s, answered) <=> Queue!ListPattern(h, s, answered)
BY DEF DLQ!ListPattern, Queue!ListPattern, DLQ!NextPattern, Queue!NextPattern,
       DLQ!KeysOf, Queue!KeysOf

LEMMA SameDelete ==
  ASSUME NEW h, NEW done, NEW answered
  PROVE  DLQ!DeleteAll(h, done, answered) <=> Queue!DeleteAll(h, done, answered)
BY DEF DLQ!DeleteAll, Queue!DeleteAll, DLQ!Listed, Queue!Listed, DLQ!Wanted, Queue!Wanted

LEMMA SameFinish ==
  ASSUME NEW h
  PROVE  /\ DLQ!Clear(h) <=> Queue!Clear(h)
         /\ DLQ!FailAttempt(h) <=> Queue!FailAttempt(h)
         /\ DLQ!Retry(h) <=> Queue!Retry(h)
         /\ DLQ!GiveUp(h) <=> Queue!GiveUp(h)
<1>1. \A S : DLQ!Cardinality(S) = Queue!Cardinality(S)
  BY DEF DLQ!Cardinality, Queue!Cardinality
<1>2. DLQ!FinalKeys(h) = Queue!FinalKeys(h)
  BY DEF DLQ!FinalKeys, Queue!FinalKeys, DLQ!Keys, Queue!Keys
<1>3. DLQ!AllDeleted(h) <=> Queue!AllDeleted(h)
  BY <1>1, <1>2 DEF DLQ!AllDeleted, Queue!AllDeleted
<1>4. DLQ!EndRun(h) <=> Queue!EndRun(h)
  BY DEF DLQ!EndRun, Queue!EndRun, DLQ!NothingFound, Queue!NothingFound
<1>. QED
  BY <1>3, <1>4 DEF DLQ!Clear, Queue!Clear, DLQ!FailAttempt, Queue!FailAttempt, DLQ!Retry,
     Queue!Retry, DLQ!GiveUp, Queue!GiveUp, DLQ!BeginAttempt, Queue!BeginAttempt

-----------------------------------------------------------------------------
\* Type correctness.

\* A request that reads names a shard, and what it is about to store is not the
\* null of a miss: with the types this is inductive.
Reading ==
    \A h \in Handlers :
        /\ pc[h] \in {"get", "loaded", "saved"} => shard[h] \in Shards
        /\ pc[h] = "loaded" => rows[h] # Absent

TypeInv == TypeOK /\ Reading

\* The parts of it that concern the pages and the requests.
RedisType ==
    /\ version \in [Shards -> (0..MaxVersion) \cup {NoRows}]
    /\ page \in [Keys -> Contents]
    /\ leaked \subseteq cached

RequestType ==
    /\ pc \in [Handlers -> {"idle", "get", "loaded", "saved", "committed",
                            "listed", "removed", "dlq"}]
    /\ shard \in [Handlers -> Named]
    /\ number \in [Handlers -> Pages]
    /\ rows \in [Handlers -> Contents]
    /\ listed \in [Handlers -> SUBSET Keys]
    /\ clean \in [Handlers -> BOOLEAN]
    /\ Reading

BreakerType == CB!TypeOK /\ fate \in [Handlers -> BOOLEAN]

QueueType == DLQ!TypeOK /\ \A h \in Handlers : DLQ!Running(h) <=> pc[h] = "dlq"

LEMMA TypeParts ==
    /\ TypeInv <=> RedisType /\ RequestType /\ BreakerType /\ QueueType
    /\ TypeInv' <=> RedisType' /\ RequestType' /\ BreakerType' /\ QueueType'
BY DEF TypeInv, TypeOK, RedisType, RequestType, BreakerType, QueueType

LEMMA SomeDefaults == SomeShard \in Shards /\ SomePage \in Pages
BY DEF SomeShard, SomePage

LEMMA ContentsHave == Absent \in Contents /\ NoRows \in Contents /\ 0..MaxVersion \subseteq Contents
BY DEF Contents

LEMMA TypeInit == Init => TypeInv
<1> SUFFICES ASSUME Init PROVE TypeInv
  OBVIOUS
<1>1. RedisType
  BY ContentsHave DEF Init, RedisType
<1>2. RequestType
  BY SomeDefaults, ContentsHave DEF Init, RequestType, Reading, Named
<1>3. BreakerType
  BY DEF Init, BreakerType, CB!Init, CB!TypeOK
<1>4. QueueType
  BY DEF Init, QueueType, DLQ!QueueInit, DLQ!TypeOK, DLQ!Running, DLQ!NothingFound,
         cached, DLQ!Keys, Keys, Named
<1>. QED  BY <1>1, <1>2, <1>3, <1>4, TypeParts

\* The breaker goes on by its own steps.
LEMMA CallType ==
  ASSUME BreakerType, NEW h \in Handlers, NEW done \in BOOLEAN, NEW answered \in BOOLEAN,
         Call(h, done, answered)
  PROVE  BreakerType' /\ CB!Next /\ (answered => done)
<1>1. CASE CB!Admit(h) /\ answered = done /\ fate' = [fate EXCEPT ![h] = done]
  BY <1>1 DEF CB!Admit, CB!Next, CB!TypeOK, BreakerType
<1>2. CASE CB!Refuse(h) /\ ~answered /\ UNCHANGED fate
  BY <1>2 DEF CB!Refuse, CB!Next, CB!TypeOK, CB!vars, BreakerType
<1>. QED  BY <1>1, <1>2 DEF Call

LEMMA SettleType ==
  ASSUME BreakerType, NEW h \in Handlers, Settle(h)
  PROVE  BreakerType' /\ CB!Next
<1>1. fate' \in [Handlers -> BOOLEAN]
  BY DEF Settle, BreakerType
<1>2. CASE CB!Succeed(h)
  <2>1. CASE state = "HALF_OPEN"
    BY <1>1, <1>2, <2>1 DEF CB!Succeed, CB!TypeOK, BreakerType, CB!Next
  <2>2. CASE state # "HALF_OPEN"
    BY <1>1, <1>2, <2>2 DEF CB!Succeed, CB!TypeOK, BreakerType, CB!Next
  <2>. QED  BY <2>1, <2>2
<1>3. CASE CB!Fail(h)
  <2>1. failures' \in 0..Threshold /\ inflight' \subseteq Handlers
    BY <1>3 DEF CB!Fail, CB!TypeOK, BreakerType
  <2>2. state' \in {"CLOSED", "OPEN", "HALF_OPEN"} /\ quiet' \in BOOLEAN
    BY <1>3 DEF CB!Fail, CB!TypeOK, BreakerType
  <2>. QED  BY <1>1, <1>3, <2>1, <2>2 DEF CB!TypeOK, BreakerType, CB!Next
<1>. QED  BY <1>2, <1>3 DEF Settle

\* What the requests keep while they leave the queue alone.
LEMMA QueueKept ==
  ASSUME QueueType, UNCHANGED queue, page' \in [Keys -> Contents],
         \A h \in Handlers : pc'[h] = "dlq" <=> pc[h] = "dlq"
  PROVE  QueueType'
BY DEF QueueType, queue, DLQ!TypeOK, DLQ!Running, cached, Keys, DLQ!Keys, Named

LEMMA RespondType ==
  ASSUME RequestType, NEW h \in Handlers, Respond(h)
  PROVE  RequestType'
BY SomeDefaults, ContentsHave DEF RequestType, Reading, Respond, Goto, Named

LEMMA RemoveType ==
  ASSUME page \in [Keys -> Contents], leaked \subseteq cached,
         NEW K, NEW done \in BOOLEAN, Remove(K, done)
  PROVE  page' \in [Keys -> Contents] /\ leaked' \subseteq cached'
BY ContentsHave DEF Remove, cached
LEMMA RequestStarts ==
  ASSUME TypeInv, NEW h \in Handlers,
         NEW redisOk \in BOOLEAN, NEW trueBody \in BOOLEAN, Request(h, redisOk, trueBody)
  PROVE  TypeInv'
<1> USE TypeParts DEF RedisType, RequestType, Reading, At, Goto
<1>1. PICK s \in Shards :
        \/ Commit(h, s)
        \/ \E S \in {{}, {s}}, b \in Named : Edit(h, S, b)
        \/ \E p \in Pages : Get(h, s, p, redisOk)
  <2>1. \A s \in Shards : (IF trueBody THEN {s} ELSE Named) \subseteq Named
    BY DEF Named
  <2>. QED  BY <2>1 DEF Request
<1>2. ASSUME NEW S \in {{}, {s}}, Write(S)
      PROVE  version' \in [Shards -> (0..MaxVersion) \cup {NoRows}]
  BY <1>2 DEF Write
<1>3. CASE Commit(h, s)
  <2>1. RedisType'
    BY <1>2, <1>3 DEF Commit, cached
  <2>2. RequestType'
    BY <1>3 DEF Commit, Named
  <2>3. BreakerType'
    BY <1>3 DEF Commit, BreakerType, CB!TypeOK, breaker
  <2>4. QueueType'
    <3>. SUFFICES \A g \in Handlers : pc'[g] = "dlq" <=> pc[g] = "dlq"
      BY <1>3, <2>1, QueueKept DEF Commit
    <3>. QED  BY <1>3 DEF Commit
  <2>. QED  BY <2>1, <2>2, <2>3, <2>4
<1>4. ASSUME NEW S \in {{}, {s}}, NEW b \in Named, Edit(h, S, b) PROVE TypeInv'
  <2>1. RedisType'
    BY <1>2, <1>4 DEF Edit, cached
  <2>2. RequestType'
    BY <1>4 DEF Edit
  <2>3. BreakerType'
    BY <1>4 DEF Edit, BreakerType, CB!TypeOK, breaker
  <2>4. QueueType'
    <3>. SUFFICES \A g \in Handlers : pc'[g] = "dlq" <=> pc[g] = "dlq"
      BY <1>4, <2>1, QueueKept DEF Edit
    <3>. QED  BY <1>4 DEF Edit
  <2>. QED  BY <2>1, <2>2, <2>3, <2>4
<1>5. ASSUME NEW p \in Pages, Get(h, s, p, redisOk) PROVE TypeInv'
  <2>1. PICK answered \in BOOLEAN :
          /\ Call(h, redisOk, answered)
          /\ rows' = [rows EXCEPT ![h] = IF answered THEN page[<<s, p>>] ELSE Absent]
    BY <1>5 DEF Get
  <2>2. RedisType'
    BY <1>5 DEF Get, redis, cached
  <2>3. RequestType'
    BY <1>5, <2>1, ContentsHave DEF Get, Keys, Named
  <2>4. BreakerType'
    BY <2>1, CallType
  <2>5. QueueType'
    <3>. SUFFICES \A g \in Handlers : pc'[g] = "dlq" <=> pc[g] = "dlq"
      BY <1>5, <2>2, QueueKept DEF Get
    <3>. QED  BY <1>5 DEF Get
  <2>. QED  BY <2>2, <2>3, <2>4, <2>5
<1>. QED  BY <1>1, <1>3, <1>4, <1>5

LEMMA ReadType ==
  ASSUME TypeInv, NEW h \in Handlers,
         NEW redisOk \in BOOLEAN, NEW dbOk \in BOOLEAN, ReadStep(h, redisOk, dbOk)
  PROVE  TypeInv'
<1> USE TypeParts DEF RedisType, At
<1>1. CASE Hit(h) \/ RespondPage(h)
  <2>1. Respond(h) /\ UNCHANGED <<redis, breaker, queue>> /\ pc[h] \in {"get", "saved"}
    BY <1>1 DEF Hit, RespondPage
  <2>2. RedisType' /\ BreakerType'
    BY <2>1 DEF redis, cached, breaker, BreakerType, CB!TypeOK
  <2>3. \A g \in Handlers : pc'[g] = "dlq" <=> pc[g] = "dlq"
    BY <2>1 DEF Respond, Goto, RequestType
  <2>. QED  BY <2>1, <2>2, <2>3, RespondType, QueueKept
<1>2. CASE Query(h, dbOk)
  <2>1. RequestType'
    BY <1>2, ContentsHave, ContentAssumption DEF Query, RequestType, Reading, Goto
  <2>2. RedisType' /\ BreakerType'
    BY <1>2 DEF Query, redis, cached, breaker, BreakerType, CB!TypeOK
  <2>3. \A g \in Handlers : pc'[g] = "dlq" <=> pc[g] = "dlq"
    BY <1>2 DEF Query, Goto, RequestType
  <2>. QED  BY <1>2, <2>1, <2>2, <2>3, QueueKept DEF Query
<1>3. CASE Save(h, redisOk)
  <2>1. Key(h) \in Keys /\ rows[h] \in Contents /\ rows[h] # Absent
    BY <1>3 DEF Save, RequestType, Reading, Key, Keys
  <2>2. RedisType'
    BY <1>3, <2>1 DEF Save, cached
  <2>3. RequestType'
    BY <1>3 DEF Save, RequestType, Reading, Goto
  <2>4. BreakerType'
    BY <1>3, CallType DEF Save
  <2>5. \A g \in Handlers : pc'[g] = "dlq" <=> pc[g] = "dlq"
    BY <1>3 DEF Save, Goto, RequestType
  <2>. QED  BY <1>3, <2>2, <2>3, <2>4, <2>5, QueueKept DEF Save
<1>. QED  BY <1>1, <1>2, <1>3 DEF ReadStep

LEMMA WriteType ==
  ASSUME TypeInv, NEW h \in Handlers, NEW redisOk \in BOOLEAN, WriteStep(h, redisOk)
  PROVE  TypeInv'
<1> USE TypeParts DEF RedisType, At
<1>1. CASE ListPages(h, redisOk)
  <2>1. PICK answered \in BOOLEAN :
          /\ Call(h, redisOk, answered)
          /\ IF answered
             THEN /\ listed' = [listed EXCEPT ![h] = cached \cap KeysOf(shard[h])]
                  /\ UNCHANGED leaked
             ELSE /\ leaked' = leaked \cup StaleOf(KeysOf(shard[h]))
                  /\ UNCHANGED listed
    BY <1>1 DEF ListPages
  <2>2. cached \cap KeysOf(shard[h]) \in SUBSET Keys
    BY DEF cached
  <2>3. listed' \in [Handlers -> SUBSET Keys]
    BY <2>1, <2>2 DEF RequestType
  <2>4. RequestType'
    BY <1>1, <2>3 DEF ListPages, RequestType, Reading, Goto
  <2>5. StaleOf(KeysOf(shard[h])) \subseteq cached
    BY DEF StaleOf, Stale, cached, KeysOf
  <2>6. RedisType'
    BY <1>1, <2>1, <2>5 DEF ListPages, cached
  <2>7. \A g \in Handlers : pc'[g] = "dlq" <=> pc[g] = "dlq"
    BY <1>1 DEF ListPages, Goto, RequestType
  <2>. QED  BY <1>1, <2>1, <2>4, <2>6, <2>7, CallType, QueueKept DEF ListPages
<1>2. CASE RemovePages(h, redisOk)
  <2> DEFINE done == redisOk /\ listed[h] # {}
  <2>1. Remove(listed[h], done) /\ done \in BOOLEAN
    BY <1>2 DEF RemovePages
  <2>2. PICK answered \in BOOLEAN :
          /\ Call(h, done, answered)
          /\ LET gone == IF answered THEN cached \cap listed[h] ELSE {} IN
             clean' = [clean EXCEPT ![h] = Cardinality(gone) = Cardinality(listed[h])]
    BY <1>2 DEF RemovePages
  <2>3. clean' \in [Handlers -> BOOLEAN]
    BY <2>2 DEF RequestType
  <2>4. RequestType'
    BY <1>2, <2>3 DEF RemovePages, RequestType, Reading, Goto
  <2>5. RedisType'
    BY <1>2, <2>1, RemoveType DEF RemovePages
  <2>6. BreakerType'
    BY <2>1, <2>2, CallType
  <2>7. \A g \in Handlers : pc'[g] = "dlq" <=> pc[g] = "dlq"
    BY <1>2 DEF RemovePages, Goto, RequestType
  <2>. QED  BY <1>2, <2>4, <2>5, <2>6, <2>7, QueueKept DEF RemovePages
<1>3. CASE RespondWritten(h)
  <2>1. RedisType' /\ BreakerType'
    BY <1>3 DEF RespondWritten, redis, cached, breaker, BreakerType, CB!TypeOK
  <2>2. \A g \in Handlers : pc'[g] = "dlq" <=> pc[g] = "dlq"
    BY <1>3 DEF RespondWritten, Respond, Goto, RequestType
  <2>. QED  BY <1>3, <2>1, <2>2, RespondType, QueueKept DEF RespondWritten
<1>4. CASE Enqueue(h)
  <2>1. RedisType' /\ BreakerType' /\ cached' = cached
    <3>1. leaked' \subseteq cached
      BY <1>4 DEF Enqueue, StaleOf, Stale, cached, KeysOf
    <3>. QED  BY <1>4, <3>1 DEF Enqueue, cached, breaker, BreakerType, CB!TypeOK
  <2>2. Queue!Push(h, shard[h]) /\ shard[h] \in Named
    BY <1>4, SamePush DEF Enqueue, RequestType
  <2>3. DLQ!TypeOK'
    BY <2>2, NamedFinite, SameType, Queue!TypePush DEF QueueType
  <2>4. RequestType' /\ (pc'[h] = "dlq" <=> dpc'[h] # "idle")
    <3>1. CASE dpc'[h] = "idle"
      BY <1>4, <3>1, RespondType DEF Enqueue, Respond, Goto, RequestType
    <3>2. CASE dpc'[h] # "idle"
      BY <1>4, <3>2 DEF Enqueue, Goto, RequestType, Reading
    <3>. QED  BY <3>1, <3>2
  <2>5. \A g \in Handlers \ {h} : dpc'[g] = dpc[g] /\ pc'[g] = pc[g]
    BY <1>4, <2>2 DEF Enqueue, Respond, Goto, RequestType, QueueType, DLQ!TypeOK,
                      Queue!Push, Queue!BeginAttempt, Queue!run
  <2>6. QueueType'
    BY <2>3, <2>4, <2>5 DEF QueueType, DLQ!Running
  <2>. QED  BY <2>1, <2>4, <2>6
<1>. QED  BY <1>1, <1>2, <1>3, <1>4 DEF WriteStep
\* Every step of a run is one of DeadLetterQueue, with the replies of the cache.
LEMMA QueueRuns ==
  ASSUME TypeInv, NEW h \in Handlers, NEW redisOk \in BOOLEAN, QueueStep(h, redisOk)
  PROVE  Queue!RunStep(h)
<1> USE DEF Queue!RunStep, Queue!Finish
<1>1. ASSUME NEW s \in Named, QueueList(h, s, redisOk) PROVE Queue!RunStep(h)
  BY <1>1, SameList DEF QueueList
<1>2. CASE QueueDelete(h, redisOk)
  <2>1. (redisOk /\ DLQ!Wanted(h) # {}) \in BOOLEAN
    OBVIOUS
  <2>. QED  BY <1>2, <2>1, SameDelete DEF QueueDelete
<1>3. CASE QueueClear(h) \/ QueueGiveUp(h) \/ QueueRetry(h)
  BY <1>3, SameFinish DEF QueueClear, QueueGiveUp, QueueRetry
<1>. QED  BY <1>1, <1>2, <1>3 DEF QueueStep

LEMMA QueueStepType ==
  ASSUME TypeInv, NEW h \in Handlers, NEW redisOk \in BOOLEAN, QueueStep(h, redisOk)
  PROVE  TypeInv'
<1> USE TypeParts DEF At
<1>1. DLQ!TypeOK'
  BY QueueRuns, NamedFinite, SameType, Queue!TypeRun DEF QueueType
<1>2. pc[h] = "dlq" /\ dpc \in [Handlers -> {"idle", "list", "verdict", "backoff"}]
  BY DEF QueueStep, QueueList, QueueDelete, QueueClear, QueueGiveUp, QueueRetry,
         QueueType, DLQ!TypeOK
<1>3. ASSUME NEW s \in Named, QueueList(h, s, redisOk) PROVE TypeInv'
  <2>1. RedisType' /\ RequestType' /\ BreakerType'
    BY <1>3, CallType DEF QueueList, redis, request, RedisType, cached, RequestType, Reading
  <2>2. pc' = pc /\ dpc' = dpc
    BY <1>3 DEF QueueList, request, DLQ!ListPattern
  <2>. QED  BY <1>1, <2>1, <2>2 DEF QueueType, DLQ!Running
<1>4. CASE QueueDelete(h, redisOk)
  <2> DEFINE done == redisOk /\ DLQ!Wanted(h) # {}
  <2>1. PICK answered \in BOOLEAN : Call(h, done, answered) /\ DLQ!DeleteAll(h, done, answered)
    BY <1>4 DEF QueueDelete
  <2>2. Remove(DLQ!Wanted(h), done) /\ done \in BOOLEAN /\ UNCHANGED <<version, request>>
    BY <1>4 DEF QueueDelete
  <2>3. RedisType' /\ RequestType' /\ BreakerType'
    BY <2>1, <2>2, CallType, RemoveType DEF RedisType, request, RequestType, Reading
  <2>4. pc' = pc /\ dpc' = [dpc EXCEPT ![h] = "verdict"]
    BY <2>1, <2>2 DEF request, DLQ!DeleteAll
  <2>. QED  BY <1>1, <1>2, <2>3, <2>4 DEF QueueType, DLQ!Running
<1>5. CASE QueueClear(h) \/ QueueGiveUp(h)
  <2>1. Respond(h) /\ dpc' = [dpc EXCEPT ![h] = "idle"] /\ UNCHANGED <<version, page, breaker>>
    BY <1>5 DEF QueueClear, QueueGiveUp, DLQ!Clear, DLQ!GiveUp, DLQ!EndRun
  <2>2. leaked' \subseteq cached
    <3>1. StaleOf(QueuedKeys) \subseteq cached
      BY DEF StaleOf, Stale, cached, KeysOf, QueuedKeys
    <3>. QED  BY <1>5, <3>1 DEF QueueClear, QueueGiveUp, RedisType
  <2>3. RedisType' /\ BreakerType'
    BY <2>1, <2>2 DEF RedisType, cached, breaker, BreakerType, CB!TypeOK
  <2>4. pc' = [pc EXCEPT ![h] = "idle"]
    BY <2>1 DEF Respond, Goto
  <2>5. QueueType'
    BY <1>1, <1>2, <2>1, <2>4 DEF QueueType, DLQ!Running, RequestType
  <2>. QED  BY <2>1, <2>3, <2>5, RespondType
<1>6. CASE QueueRetry(h)
  <2>1. RedisType' /\ RequestType' /\ BreakerType' /\ pc' = pc
    BY <1>6 DEF QueueRetry, redis, request, RedisType, cached, RequestType, Reading,
                breaker, BreakerType, CB!TypeOK
  <2>2. \E point \in {"backoff", "list"} : dpc' = [dpc EXCEPT ![h] = point]
    BY <1>6 DEF QueueRetry, DLQ!FailAttempt, DLQ!Retry, DLQ!BeginAttempt
  <2>. QED  BY <1>1, <1>2, <2>1, <2>2 DEF QueueType, DLQ!Running
<1>. QED  BY <1>3, <1>4, <1>5, <1>6 DEF QueueStep

LEMMA AloneType ==
  ASSUME TypeInv,
         \/ \E h \in Handlers : Settle(h)
         \/ TimeoutPasses
         \/ \E k \in Keys : Expire(k)
         \/ \E s \in Shards : Delete(s)
         \/ Restart
  PROVE  TypeInv'
<1> USE TypeParts
<1>1. CASE (\E h \in Handlers : Settle(h)) \/ TimeoutPasses
  <2>1. UNCHANGED <<redis, request, queue>>
    BY <1>1 DEF Settle, TimeoutPasses
  <2>2. RedisType' /\ RequestType' /\ pc' = pc
    BY <2>1 DEF redis, request, RedisType, cached, RequestType, Reading
  <2>3. QueueType'
    BY <2>1, <2>2, QueueKept DEF RedisType
  <2>4. BreakerType'
    BY <1>1, SettleType DEF TimeoutPasses, CB!TimeoutPasses, BreakerType, CB!TypeOK
  <2>. QED  BY <2>2, <2>3, <2>4
<1>2. ASSUME NEW k \in Keys, Expire(k) PROVE TypeInv'
  <2>1. RedisType'
    BY <1>2, RemoveType DEF Expire, RedisType
  <2>2. RequestType' /\ BreakerType' /\ pc' = pc
    BY <1>2 DEF Expire, request, RequestType, Reading, breaker, BreakerType, CB!TypeOK
  <2>. QED  BY <1>2, <2>1, <2>2, QueueKept DEF Expire, RedisType
<1>3. ASSUME NEW s \in Shards, Delete(s) PROVE TypeInv'
  <2>1. RedisType'
    BY <1>3 DEF Delete, RedisType, cached
  <2>2. RequestType' /\ BreakerType' /\ pc' = pc
    BY <1>3 DEF Delete, request, RequestType, Reading, breaker, BreakerType, CB!TypeOK
  <2>. QED  BY <1>3, <2>1, <2>2, QueueKept DEF Delete, RedisType
<1>4. CASE Restart
  <2>1. RedisType'
    <3>1. StaleOf(Keys) \subseteq cached
      BY DEF StaleOf, Stale, cached
    <3>. QED  BY <1>4, <3>1 DEF Restart, RedisType, cached
  <2>2. RequestType'
    BY <1>4, SomeDefaults, ContentsHave DEF Restart, RequestType, Reading, Named
  <2>3. BreakerType'
    BY <1>4 DEF Restart, BreakerType, CB!Restart, CB!TypeOK
  <2>4. QueueType'
    <3>1. DLQ!NothingFound \in [Named -> SUBSET DLQ!Keys]
      BY DEF DLQ!NothingFound
    <3>2. cached' = cached
      BY <1>4 DEF Restart, cached
    <3>. QED  BY <1>4, <3>1, <3>2 DEF Restart, DLQ!Restart, QueueType, DLQ!TypeOK, DLQ!Running
  <2>. QED  BY <2>1, <2>2, <2>3, <2>4
<1>. QED  BY <1>1, <1>2, <1>3, <1>4

LEMMA TypeNext == TypeInv /\ [Next]_vars => TypeInv'
<1> SUFFICES ASSUME TypeInv, [Next]_vars PROVE TypeInv'
  OBVIOUS
<1>1. CASE UNCHANGED vars
  BY <1>1 DEF vars, redis, request, breaker, queue, TypeInv, TypeOK, Reading, cached,
              CB!TypeOK, DLQ!TypeOK, DLQ!Running
<1>. QED
  BY <1>1, RequestStarts, ReadType, WriteType, QueueStepType, AloneType
     DEF Next, Step, RequestStep

LEMMA TypeInvariant == Spec => []TypeInv
BY TypeInit, TypeNext, PTL DEF Spec

\* With any number of requests, pages and shards, whatever faults Redis and the
\* database have, every request and every run of the queue keeps its types; a
\* request processes the queue exactly while its own run lasts, and what is
\* counted as leaked is in the cache.
THEOREM TypeCorrect == Spec => []TypeOK
<1>1. TypeInv => TypeOK
  BY DEF TypeInv
<1>. QED  BY <1>1, TypeInvariant, PTL
-----------------------------------------------------------------------------
\* The requests are clients of the breaker and of the queue.

LEMMA StepsBreaker == TypeInv /\ [Next]_vars => [CB!Next]_CB!vars
<1> SUFFICES ASSUME TypeInv, [Next]_vars PROVE [CB!Next]_CB!vars
  OBVIOUS
<1> USE TypeParts
<1>1. ASSUME UNCHANGED breaker PROVE UNCHANGED CB!vars
  BY <1>1 DEF breaker, CB!vars
<1>2. ASSUME NEW h \in Handlers, NEW redisOk \in BOOLEAN, NEW trueBody \in BOOLEAN,
             Request(h, redisOk, trueBody)
      PROVE  [CB!Next]_CB!vars
  BY <1>1, <1>2, CallType DEF Request, Commit, Edit, Get
<1>3. ASSUME NEW h \in Handlers, NEW redisOk \in BOOLEAN, NEW dbOk \in BOOLEAN,
             ReadStep(h, redisOk, dbOk)
      PROVE  [CB!Next]_CB!vars
  BY <1>1, <1>3, CallType DEF ReadStep, Hit, Query, Save, RespondPage
<1>4. ASSUME NEW h \in Handlers, NEW redisOk \in BOOLEAN, WriteStep(h, redisOk)
      PROVE  [CB!Next]_CB!vars
  <2>1. CASE ListPages(h, redisOk)
    BY <2>1, CallType DEF ListPages
  <2>2. CASE RemovePages(h, redisOk)
    <3>1. (redisOk /\ listed[h] # {}) \in BOOLEAN
      OBVIOUS
    <3>. QED  BY <2>2, <3>1, CallType DEF RemovePages
  <2>3. CASE RespondWritten(h) \/ Enqueue(h)
    BY <1>1, <2>3 DEF RespondWritten, Enqueue
  <2>. QED  BY <1>4, <2>1, <2>2, <2>3 DEF WriteStep
<1>5. ASSUME NEW h \in Handlers, NEW redisOk \in BOOLEAN, QueueStep(h, redisOk)
      PROVE  [CB!Next]_CB!vars
  <2>1. ASSUME NEW s \in Named, QueueList(h, s, redisOk) PROVE CB!Next
    BY <2>1, CallType DEF QueueList
  <2>2. CASE QueueDelete(h, redisOk)
    <3>1. (redisOk /\ DLQ!Wanted(h) # {}) \in BOOLEAN
      OBVIOUS
    <3>. QED  BY <2>2, <3>1, CallType DEF QueueDelete
  <2>3. CASE QueueClear(h) \/ QueueGiveUp(h) \/ QueueRetry(h)
    BY <1>1, <2>3 DEF QueueClear, QueueGiveUp, QueueRetry
  <2>. QED  BY <1>5, <2>1, <2>2, <2>3 DEF QueueStep
<1>6. ASSUME NEW h \in Handlers, Settle(h) PROVE CB!Next
  BY <1>6, SettleType
<1>7. CASE TimeoutPasses
  BY <1>7 DEF TimeoutPasses, CB!Next
<1>8. ASSUME NEW k \in Keys, Expire(k) PROVE UNCHANGED CB!vars
  BY <1>1, <1>8 DEF Expire
<1>9. CASE UNCHANGED vars
  BY <1>1, <1>9 DEF vars
<1>10. ASSUME NEW s \in Shards, Delete(s) PROVE UNCHANGED CB!vars
  BY <1>1, <1>10 DEF Delete
<1>11. CASE Restart
  BY <1>11 DEF Restart, CB!Next
<1>. QED
  BY <1>2, <1>3, <1>4, <1>5, <1>6, <1>7, <1>8, <1>9, <1>10, <1>11 DEF Next, Step, RequestStep

\* Reads, writes and runs of the queue use the circuit breaker as its
\* specification allows: what is proved of the breaker holds of it here.
THEOREM CacheUsesBreaker == Spec => CB!Spec
<1>1. Init => CB!Init
  BY DEF Init
<1>. QED  BY <1>1, StepsBreaker, TypeInvariant, PTL DEF Spec, CB!Spec

\* So the circuit is closed exactly while fewer failures than the threshold are
\* counted, though reads, removals and runs of the queue share it and settle in
\* any order.
THEOREM CacheTripConsistent == Spec => []CB!TripConsistent
<1>1. Init => CB!TripConsistent
  BY DEF Init, CB!Init, CB!TripConsistent
<1>2. TypeInv /\ CB!TripConsistent /\ [Next]_vars => CB!TripConsistent'
  <2>. SUFFICES ASSUME TypeInv, CB!TripConsistent, [CB!Next]_CB!vars PROVE CB!TripConsistent'
    BY StepsBreaker
  <2>1. CB!TypeOK
    BY DEF TypeInv, TypeOK
  <2>2. CASE UNCHANGED CB!vars
    BY <2>2 DEF CB!vars, CB!TripConsistent
  <2> USE <2>1 DEF CB!TypeOK, CB!TripConsistent
  <2>3. ASSUME NEW o \in Handlers, CB!Admit(o) \/ CB!Refuse(o) PROVE CB!TripConsistent'
    BY <2>3 DEF CB!Admit, CB!Refuse, CB!vars
  <2>4. ASSUME NEW o \in Handlers, CB!Succeed(o) PROVE CB!TripConsistent'
    BY <2>4 DEF CB!Succeed
  <2>5. ASSUME NEW o \in Handlers, CB!Fail(o) PROVE CB!TripConsistent'
    BY <2>5 DEF CB!Fail
  <2>6. ASSUME CB!TimeoutPasses PROVE CB!TripConsistent'
    BY <2>6 DEF CB!TimeoutPasses
  <2>7. ASSUME CB!Restart PROVE CB!TripConsistent'
    BY <2>7 DEF CB!Restart
  <2>. QED  BY <2>2, <2>3, <2>4, <2>5, <2>6, <2>7 DEF CB!Next
<1>. QED  BY <1>1, <1>2, TypeInvariant, PTL DEF Spec

LEMMA StepsQueue == TypeInv /\ [Next]_vars => [Queue!Next]_Queue!vars
<1> SUFFICES ASSUME TypeInv, [Next]_vars PROVE [Queue!Next]_Queue!vars
  OBVIOUS
<1> USE TypeParts
<1>1. ASSUME UNCHANGED queue, UNCHANGED page PROVE UNCHANGED Queue!vars
  BY <1>1 DEF queue, cached, Queue!vars, Queue!run
<1>2. ASSUME NEW h \in Handlers, NEW redisOk \in BOOLEAN, NEW trueBody \in BOOLEAN,
             Request(h, redisOk, trueBody)
      PROVE  UNCHANGED Queue!vars
  BY <1>1, <1>2 DEF Request, Commit, Edit, Get, redis
<1>3. ASSUME NEW h \in Handlers, NEW redisOk \in BOOLEAN, NEW dbOk \in BOOLEAN,
             ReadStep(h, redisOk, dbOk)
      PROVE  [Queue!Next]_Queue!vars
  <2>1. CASE Save(h, redisOk) /\ redisOk
    <3>1. Key(h) \in Keys /\ Key(h) \in Queue!Keys /\ rows[h] # Absent
      BY <2>1 DEF Save, At, RequestType, Reading, Key, Keys, Queue!Keys, Named
    <3>2. cached' = cached \cup {Key(h)}
      BY <2>1, <3>1 DEF Save, cached, RedisType
    <3>3. Queue!Fill(Key(h))
      BY <2>1, <3>2 DEF Save, queue, Queue!Fill, Queue!run
    <3>. QED  BY <3>1, <3>3 DEF Queue!Next
  <2>2. CASE Save(h, redisOk) /\ ~redisOk
    BY <1>1, <2>2 DEF Save
  <2>3. CASE Hit(h) \/ Query(h, dbOk) \/ RespondPage(h)
    BY <1>1, <2>3 DEF Hit, Query, RespondPage, redis
  <2>. QED  BY <1>3, <2>1, <2>2, <2>3 DEF ReadStep
<1>4. ASSUME NEW K \in SUBSET Keys, NEW done \in BOOLEAN, Remove(K, done), UNCHANGED queue
      PROVE  [Queue!Next]_Queue!vars
  <2>1. CASE done
    <3>1. cached' = cached \ K
      BY <1>4, <2>1 DEF Remove, cached, RedisType
    <3>2. K \in SUBSET Queue!Keys
      BY DEF Keys, Queue!Keys, Named
    <3>3. Queue!Vanish(K)
      BY <1>4, <3>1 DEF queue, Queue!Vanish, Queue!run
    <3>. QED  BY <3>2, <3>3 DEF Queue!Next
  <2>2. CASE ~done
    BY <1>1, <1>4, <2>2 DEF Remove
  <2>. QED  BY <2>1, <2>2
<1>5. ASSUME NEW h \in Handlers, NEW redisOk \in BOOLEAN, WriteStep(h, redisOk)
      PROVE  [Queue!Next]_Queue!vars
  <2>1. CASE ListPages(h, redisOk) \/ RespondWritten(h)
    BY <1>1, <2>1 DEF ListPages, RespondWritten, redis
  <2>2. CASE RemovePages(h, redisOk)
    <3>1. (redisOk /\ listed[h] # {}) \in BOOLEAN /\ listed[h] \in SUBSET Keys
      BY DEF RequestType
    <3>. QED  BY <1>4, <2>2, <3>1 DEF RemovePages
  <2>3. CASE Enqueue(h)
    BY <2>3, SamePush DEF Enqueue, RequestType, Queue!Next
  <2>. QED  BY <1>5, <2>1, <2>2, <2>3 DEF WriteStep
<1>6. ASSUME NEW h \in Handlers, NEW redisOk \in BOOLEAN, QueueStep(h, redisOk)
      PROVE  Queue!Next
  BY <1>6, QueueRuns DEF Queue!Next
<1>7. ASSUME NEW k \in Keys, Expire(k) PROVE [Queue!Next]_Queue!vars
  BY <1>4, <1>7 DEF Expire
<1>8. CASE (\E h \in Handlers : Settle(h)) \/ TimeoutPasses \/ UNCHANGED vars
  BY <1>1, <1>8 DEF Settle, TimeoutPasses, vars, redis
<1>9. ASSUME NEW s \in Shards, Delete(s) PROVE UNCHANGED Queue!vars
  BY <1>1, <1>9 DEF Delete
<1>10. CASE Restart
  <2>1. cached' = cached
    BY <1>10 DEF Restart, cached
  <2>2. Queue!Restart
    BY <1>10, <2>1 DEF Restart, DLQ!Restart, Queue!Restart, DLQ!NothingFound, Queue!NothingFound
  <2>. QED  BY <2>2 DEF Queue!Next
<1>. QED
  BY <1>2, <1>3, <1>5, <1>6, <1>7, <1>8, <1>9, <1>10 DEF Next, Step, RequestStep

\* Requests and expiring keys change the queue and the cached keys only in the
\* ways that DeadLetterQueue allows.
THEOREM CacheUsesQueue == Spec => Queue!Spec
<1>1. Init => Queue!Init
  <2>. SUFFICES ASSUME Init PROVE Queue!Init
    OBVIOUS
  <2>1. cached \in SUBSET Queue!Keys
    BY DEF Init, cached
  <2>. QED
    BY <2>1 DEF Init, Queue!Init, DLQ!QueueInit, Queue!QueueInit, DLQ!NothingFound,
                Queue!NothingFound
<1>. QED  BY <1>1, StepsQueue, TypeInvariant, PTL DEF Spec, Queue!Spec

\* So at most one request at a time processes the queue, though requests whose
\* removals failed append to it at any moment and through one shared breaker.
THEOREM OneRequestProcesses ==
  Spec => [](\A g, h \in Handlers : pc[g] = "dlq" /\ pc[h] = "dlq" => g = h)
<1>1. Queue!Spec => []Queue!OneRun
  BY NamedFinite, Queue!OneRunHolds
<1>2. TypeInv /\ Queue!OneRun
      => \A g, h \in Handlers : pc[g] = "dlq" /\ pc[h] = "dlq" => g = h
  BY DEF TypeInv, TypeOK, DLQ!Running, Queue!OneRun, Queue!Running
<1>. QED  BY <1>1, <1>2, CacheUsesQueue, TypeInvariant, PTL

\* And when a run empties the queue, DEL had reported every key that was listed
\* for its events, and none twice, while other requests store and remove pages.
THEOREM CacheClearsExactly == Spec => Queue!ClearExact
<1>1. Queue!Spec => Queue!ClearExact
  BY NamedFinite, Queue!ClearExactHolds
<1>. QED  BY <1>1, CacheUsesQueue, PTL
-----------------------------------------------------------------------------
\* Stale pages.

\* Request h is the one that will remove, or queue, the stale page under k.
PendingBy(h, k) ==
    /\ shard[h] = k[1]
    /\ \/ pc[h] = "committed"
       \/ pc[h] = "listed" /\ k \in listed[h]
       \/ pc[h] = "removed" /\ ~clean[h]

Explained(k) == Pending(k) \/ Queued(k) \/ k \in leaked

LEMMA ExplainedMeans ==
  /\ StaleExplained <=> \A k \in Keys : Stale(k) => Explained(k)
  /\ StaleExplained' <=> \A k \in Keys : Stale(k)' => Explained(k)'
  /\ \A k : Pending(k) <=> \E h \in Handlers : PendingBy(h, k)
  /\ \A k : Pending(k)' <=> \E h \in Handlers : PendingBy(h, k)'
BY DEF StaleExplained, Explained, Pending, PendingBy

\* While the queue is left alone, what is queued is still processed.
LEMMA QueuedKept ==
  ASSUME UNCHANGED queue, NEW k
  PROVE  Queued(k)' <=> Queued(k)
BY DEF queue, Queued, Live, DLQ!Running

\* A step of one request leaves what the others have to do.
OthersKeep(h) ==
    \A g \in Handlers \ {h} :
        shard'[g] = shard[g] /\ pc'[g] = pc[g] /\ listed'[g] = listed[g] /\ clean'[g] = clean[g]

LEMMA OthersPend ==
  ASSUME NEW h \in Handlers, NEW k, OthersKeep(h), Pending(k)
  PROVE  Pending(k)' \/ PendingBy(h, k)
BY ExplainedMeans DEF OthersKeep, PendingBy

LEMMA OnlyOwn ==
  ASSUME RequestType, NEW h \in Handlers,
         \/ \E s \in Shards : Commit(h, s)
         \/ \E S, b : Edit(h, S, b)
         \/ \E s, p, ok : Get(h, s, p, ok)
         \/ \E ok : Query(h, ok) \/ Save(h, ok) \/ ListPages(h, ok) \/ RemovePages(h, ok)
         \/ Respond(h)
         \/ \E point : Goto(h, point) /\ UNCHANGED <<shard, listed, clean>>
  PROVE  OthersKeep(h)
BY DEF RequestType, OthersKeep, Commit, Edit, Get, Query, Save, ListPages, RemovePages,
       Respond, Goto

LEMMA WritesExplained ==
  ASSUME TypeInv, StaleExplained, NEW h \in Handlers,
         NEW redisOk \in BOOLEAN, NEW trueBody \in BOOLEAN, Request(h, redisOk, trueBody)
  PROVE  StaleExplained'
<1> USE TypeParts, ExplainedMeans DEF Explained
<1> SUFFICES ASSUME NEW k \in Keys, Stale(k)' PROVE Explained(k)'
  OBVIOUS
<1>1. pc[h] = "idle" /\ ~PendingBy(h, k)
  BY DEF Request, Commit, Edit, Get, At, PendingBy
<1>2. OthersKeep(h)
  BY OnlyOwn DEF Request
<1>3. Pending(k) => Pending(k)'
  BY <1>1, <1>2, OthersPend
<1>4. UNCHANGED <<page, queue>> /\ (Queued(k) => Queued(k)')
  BY QueuedKept DEF Request, Commit, Edit, Get, redis
<1>5. PICK s \in Shards :
        \/ Commit(h, s)
        \/ \E S \in {{}, {s}} : \E b : Edit(h, S, b)
        \/ \E p \in Pages : Get(h, s, p, redisOk)
  BY DEF Request
<1>6. ASSUME NEW S \in {{}, {s}}, Write(S), leaked \subseteq leaked', k[1] \notin S
      PROVE  Explained(k)'
  <2>1. k[1] \in Shards /\ version'[k[1]] = version[k[1]]
    BY <1>6 DEF Write, Keys
  <2>2. Stale(k)
    BY <1>4, <2>1 DEF Stale
  <2>. QED  BY <1>3, <1>4, <1>6, <2>2
<1>7. CASE Commit(h, s)
  <2>1. CASE k[1] = s
    BY <1>7, <2>1 DEF Commit, Goto, PendingBy, RequestType
  <2>2. CASE k[1] # s
    BY <1>6, <1>7, <2>2 DEF Commit
  <2>. QED  BY <2>1, <2>2
<1>8. ASSUME NEW S \in {{}, {s}}, NEW b, Edit(h, S, b) PROVE Explained(k)'
  <2>1. CASE k[1] \notin S
    BY <1>6, <1>8, <2>1 DEF Edit
  <2>2. CASE k[1] = b
    BY <1>8, <2>2 DEF Edit, Goto, PendingBy, RequestType
  <2>3. CASE k[1] \in S \ {b}
    <3>1. k \in cached /\ k \in KeysOf(k[1])
      BY <1>4 DEF Stale, cached, KeysOf
    <3>. QED  BY <1>8, <2>3, <3>1 DEF Edit
  <2>. QED  BY <2>1, <2>2, <2>3
<1>9. ASSUME NEW p \in Pages, Get(h, s, p, redisOk) PROVE Explained(k)'
  <2>1. Stale(k) /\ leaked' = leaked
    BY <1>9 DEF Get, redis, Stale
  <2>. QED  BY <1>3, <1>4, <2>1
<1>. QED  BY <1>5, <1>7, <1>8, <1>9

LEMMA ReadsExplained ==
  ASSUME TypeInv, StaleExplained, NEW h \in Handlers,
         NEW redisOk \in BOOLEAN, NEW dbOk \in BOOLEAN, ReadStep(h, redisOk, dbOk)
  PROVE  StaleExplained'
<1> USE TypeParts, ExplainedMeans DEF Explained
<1> SUFFICES ASSUME NEW k \in Keys, Stale(k)' PROVE Explained(k)'
  OBVIOUS
<1>1. ~PendingBy(h, k)
  BY DEF ReadStep, Hit, Query, Save, RespondPage, At, PendingBy
<1>2. OthersKeep(h)
  BY OnlyOwn DEF ReadStep, Hit, RespondPage
<1>3. /\ Pending(k) => Pending(k)'
      /\ UNCHANGED <<version, queue>> /\ (Queued(k) => Queued(k)')
  BY <1>1, <1>2, OthersPend, QueuedKept DEF ReadStep, Hit, Query, Save, RespondPage, redis
<1>4. CASE Save(h, redisOk) /\ redisOk
  <2>1. CASE k = Key(h)
    <3>1. page'[k] = rows[h] /\ rows[h] # version[k[1]]
      BY <1>3, <1>4, <2>1 DEF Save, RedisType, Stale
    <3>2. k[1] = shard[h]
      BY <2>1 DEF Key
    <3>. QED  BY <1>4, <2>1, <3>1, <3>2 DEF Save
  <2>2. CASE k # Key(h)
    <3>1. Stale(k) /\ (k \in leaked => k \in leaked')
      BY <1>3, <1>4, <2>2 DEF Save, RedisType, Stale
    <3>. QED  BY <1>3, <3>1
  <2>. QED  BY <2>1, <2>2
<1>5. CASE ~(Save(h, redisOk) /\ redisOk)
  <2>1. UNCHANGED <<page, leaked>>
    BY <1>5 DEF ReadStep, Hit, Query, Save, RespondPage, redis
  <2>2. Stale(k)
    BY <1>3, <2>1 DEF Stale
  <2>. QED  BY <1>3, <2>1, <2>2
<1>. QED  BY <1>4, <1>5
\* Removing keys leaves no stale page among them and forgets no other leak.
LEMMA RemoveExplains ==
  ASSUME RedisType, NEW K, NEW done \in BOOLEAN, Remove(K, done), UNCHANGED version,
         NEW k \in Keys, Stale(k)'
  PROVE  Stale(k) /\ (k \in leaked => k \in leaked') /\ (k \in K => ~done)
BY DEF RedisType, Remove, Stale

LEMMA RemovalsExplained ==
  ASSUME TypeInv, StaleExplained, NEW h \in Handlers, NEW redisOk \in BOOLEAN,
         WriteStep(h, redisOk)
  PROVE  StaleExplained'
<1> USE TypeParts, ExplainedMeans DEF Explained
<1> SUFFICES ASSUME NEW k \in Keys, Stale(k)' PROVE Explained(k)'
  OBVIOUS
<1>1. OthersKeep(h)
  BY OnlyOwn DEF WriteStep, RespondWritten, Enqueue
<1>2. Pending(k) => Pending(k)' \/ PendingBy(h, k)
  BY <1>1, OthersPend
<1>3. CASE ListPages(h, redisOk)
  <2>1. UNCHANGED <<version, page, queue, shard>> /\ Stale(k) /\ (Queued(k) => Queued(k)')
    BY <1>3, QueuedKept DEF ListPages, Stale
  <2>2. PICK answered \in BOOLEAN :
          IF answered
          THEN /\ listed' = [listed EXCEPT ![h] = cached \cap KeysOf(shard[h])]
               /\ UNCHANGED leaked
          ELSE /\ leaked' = leaked \cup StaleOf(KeysOf(shard[h]))
               /\ UNCHANGED listed
    BY <1>3 DEF ListPages
  <2>3. CASE PendingBy(h, k)
    <3>1. k \in KeysOf(shard[h]) /\ k \in cached
      BY <2>1, <2>3 DEF PendingBy, KeysOf, Stale, cached
    <3>2. CASE answered
      <4>1. k \in listed'[h] /\ pc'[h] = "listed" /\ shard'[h] = k[1]
        BY <1>3, <2>1, <2>2, <2>3, <3>1, <3>2 DEF ListPages, Goto, PendingBy, RequestType
      <4>. QED  BY <4>1 DEF PendingBy
    <3>3. CASE ~answered
      BY <2>1, <2>2, <3>1, <3>3 DEF StaleOf
    <3>. QED  BY <3>2, <3>3
  <2>. QED  BY <1>2, <2>1, <2>2, <2>3
<1>4. CASE RemovePages(h, redisOk)
  <2> DEFINE done == redisOk /\ listed[h] # {}
  <2>1. Remove(listed[h], done) /\ done \in BOOLEAN /\ UNCHANGED <<version, shard, queue>>
    BY <1>4 DEF RemovePages
  <2>2. PICK answered \in BOOLEAN :
          /\ Call(h, done, answered)
          /\ LET gone == IF answered THEN cached \cap listed[h] ELSE {} IN
             clean' = [clean EXCEPT ![h] = Cardinality(gone) = Cardinality(listed[h])]
    BY <1>4 DEF RemovePages
  <2> HIDE DEF done
  <2>3. Stale(k) /\ (k \in leaked => k \in leaked') /\ (k \in listed[h] => ~done)
    BY <2>1, RemoveExplains
  <2>4. Queued(k) => Queued(k)'
    BY <2>1, QueuedKept
  <2>5. CASE PendingBy(h, k)
    <3>1. k \in listed[h] /\ ~done /\ ~answered
      BY <1>4, <2>1, <2>2, <2>3, <2>5, CallType DEF RemovePages, At, PendingBy
    <3>2. Cardinality(listed[h]) # 0 /\ Cardinality({}) = 0
      <4>1. IsFiniteSet(Keys)
        BY FS_Product DEF Keys
      <4>2. IsFiniteSet(listed[h])
        BY <4>1, FS_Subset DEF RequestType
      <4>. QED  BY <3>1, <4>2, FS_EmptySet
    <3>3. clean'[h] = FALSE
      BY <2>2, <3>1, <3>2 DEF RequestType
    <3>4. pc'[h] = "removed" /\ shard'[h] = k[1]
      BY <1>4, <2>1, <2>5 DEF RemovePages, Goto, PendingBy, RequestType
    <3>. QED  BY <3>3, <3>4 DEF PendingBy
  <2>. QED  BY <1>2, <2>3, <2>4, <2>5
<1>5. CASE RespondWritten(h)
  <2>1. ~PendingBy(h, k)
    BY <1>5 DEF RespondWritten, At, PendingBy
  <2>. QED  BY <1>2, <1>5, <2>1, QueuedKept DEF RespondWritten, redis, Stale
<1>6. CASE Enqueue(h)
  <2>1. UNCHANGED <<version, page>> /\ Stale(k) /\ leaked \subseteq leaked'
    BY <1>6 DEF Enqueue, Stale
  <2>2. events \in Seq(Named) /\ shard[h] \in Named /\ events' = Append(events, shard[h])
    BY <1>6 DEF Enqueue, DLQ!Push, QueueType, DLQ!TypeOK, RequestType
  <2>3. Live => Live'
    <3>1. dpc \in [Handlers -> {"idle", "list", "verdict", "backoff"}]
      BY DEF QueueType, DLQ!TypeOK
    <3>2. CASE Len(events') = Limit
      BY <1>6, <3>1, <3>2 DEF Enqueue, DLQ!Push, DLQ!BeginAttempt, DLQ!Running, Live
    <3>3. CASE Len(events') # Limit
      <4>1. dpc' = dpc /\ Len(events') = Len(events) + 1 /\ Len(events) \in Nat
        BY <1>6, <2>2, <3>3 DEF Enqueue, DLQ!Push, DLQ!run
      <4>. QED  BY <3>3, <4>1 DEF Live, DLQ!Running
    <3>. QED  BY <3>2, <3>3
  <2>4. Queued(k) => Queued(k)'
    BY <2>2, <2>3 DEF Queued
  <2>5. CASE PendingBy(h, k)
    <3>1. Len(events) + 1 \in DOMAIN events' /\ events'[Len(events) + 1] = shard[h]
      BY <2>2
    <3>2. shard[h] = k[1] => \E i \in DOMAIN events' : events'[i] = k[1]
      BY <3>1
    <3>3. CASE Live
      BY <2>3, <2>5, <3>2, <3>3 DEF PendingBy, Queued
    <3>4. CASE ~Live
      <4>1. k \in StaleOf(KeysOf(shard[h]))
        BY <2>1, <2>5 DEF PendingBy, StaleOf, KeysOf
      <4>. QED  BY <1>6, <3>4, <4>1 DEF Enqueue
    <3>. QED  BY <3>3, <3>4
  <2>. QED  BY <1>2, <2>1, <2>4, <2>5
<1>. QED  BY <1>3, <1>4, <1>5, <1>6 DEF WriteStep

LEMMA QueueExplained ==
  ASSUME TypeInv, StaleExplained, NEW h \in Handlers, NEW redisOk \in BOOLEAN,
         QueueStep(h, redisOk)
  PROVE  StaleExplained'
<1> USE TypeParts, ExplainedMeans DEF Explained
<1> SUFFICES ASSUME NEW k \in Keys, Stale(k)' PROVE Explained(k)'
  OBVIOUS
<1>0. dpc \in [Handlers -> {"idle", "list", "verdict", "backoff"}]
  BY DEF QueueType, DLQ!TypeOK
<1>1. pc[h] = "dlq" /\ ~PendingBy(h, k)
  BY DEF QueueStep, QueueList, QueueDelete, QueueClear, QueueGiveUp, QueueRetry, At, PendingBy
<1>2. OthersKeep(h)
  BY OnlyOwn DEF QueueStep, QueueList, QueueDelete, QueueClear, QueueGiveUp, QueueRetry,
                 request, OthersKeep
<1>3. Pending(k) => Pending(k)'
  BY <1>1, <1>2, OthersPend
<1>4. CASE QueueDelete(h, redisOk)
  <2> DEFINE done == redisOk /\ DLQ!Wanted(h) # {}
  <2>1. Remove(DLQ!Wanted(h), done) /\ done \in BOOLEAN /\ UNCHANGED <<version, events>>
    BY <1>4 DEF QueueDelete, DLQ!DeleteAll
  <2>2. dpc'[h] = "verdict"
    BY <1>0, <1>4 DEF QueueDelete, DLQ!DeleteAll
  <2> HIDE DEF done
  <2>3. Stale(k) /\ (k \in leaked => k \in leaked')
    BY <2>1, RemoveExplains
  <2>. QED  BY <1>3, <2>1, <2>2, <2>3 DEF Queued, Live, DLQ!Running
<1>5. CASE QueueClear(h) \/ QueueGiveUp(h)
  <2>1. UNCHANGED <<version, page>> /\ Stale(k)
    BY <1>5 DEF QueueClear, QueueGiveUp, Stale
  <2>2. Queued(k) => k \in StaleOf(QueuedKeys)
    BY <2>1 DEF Queued, StaleOf, KeysOf, QueuedKeys
  <2>. QED  BY <1>3, <1>5, <2>1, <2>2 DEF QueueClear, QueueGiveUp
<1>6. CASE (\E s \in Named : QueueList(h, s, redisOk)) \/ QueueRetry(h)
  <2>1. UNCHANGED <<version, page, leaked, events>>
    BY <1>6 DEF QueueList, QueueRetry, redis, DLQ!ListPattern, DLQ!FailAttempt, DLQ!Retry
  <2>2. dpc'[h] # "idle"
    BY <1>0, <1>6 DEF QueueList, QueueRetry, DLQ!ListPattern, DLQ!FailAttempt, DLQ!Retry,
                      DLQ!BeginAttempt
  <2>. QED  BY <1>3, <2>1, <2>2 DEF Stale, Queued, Live, DLQ!Running
<1>. QED  BY <1>4, <1>5, <1>6 DEF QueueStep

LEMMA ExplainedNext == TypeInv /\ StaleExplained /\ [Next]_vars => StaleExplained'
<1> SUFFICES ASSUME TypeInv, StaleExplained, [Next]_vars PROVE StaleExplained'
  OBVIOUS
<1>1. ASSUME UNCHANGED <<version, page, leaked, request, queue>> PROVE StaleExplained'
  BY <1>1, QueuedKept DEF StaleExplained, Stale, Pending, request
<1>2. CASE (\E h \in Handlers : Settle(h)) \/ TimeoutPasses \/ UNCHANGED vars
  BY <1>1, <1>2 DEF Settle, TimeoutPasses, vars, redis
<1>3. ASSUME NEW k \in Keys, Expire(k) PROVE StaleExplained'
  <2>. SUFFICES ASSUME NEW l \in Keys, Stale(l)'
                PROVE  Pending(l)' \/ Queued(l)' \/ l \in leaked'
    BY DEF StaleExplained
  <2>1. Stale(l) /\ (l \in leaked => l \in leaked')
    BY <1>3, RemoveExplains, TypeParts DEF Expire
  <2>. QED  BY <1>3, <2>1, QueuedKept DEF Expire, StaleExplained, Pending, request
<1>4. ASSUME NEW s \in Shards, Delete(s) PROVE StaleExplained'
  <2>. SUFFICES ASSUME NEW k \in Keys, Stale(k)'
                PROVE  Pending(k)' \/ Queued(k)' \/ k \in leaked'
    BY DEF StaleExplained
  <2>1. CASE k[1] = s
    BY <1>4, <2>1, TypeParts DEF Delete, Stale, cached, KeysOf, RedisType
  <2>2. CASE k[1] # s
    <3>1. k[1] \in Shards
      BY DEF Keys
    <3>2. Stale(k)
      BY <1>4, <2>2, <3>1, TypeParts DEF Delete, Stale, RedisType
    <3>. QED  BY <1>4, <3>2, QueuedKept DEF Delete, StaleExplained, Pending, request
  <2>. QED  BY <2>1, <2>2
<1>5. CASE Restart
  BY <1>5 DEF Restart, StaleExplained, Stale, StaleOf
<1>. QED
  BY <1>2, <1>3, <1>4, <1>5, WritesExplained, ReadsExplained, RemovalsExplained, QueueExplained
     DEF Next, Step, RequestStep

\* Whatever fails, however requests interleave, whatever shard a client names and
\* whenever shards are deleted or the process exits: a page that is of an older
\* version than the database has a request or an event in a live queue that will
\* remove it, or was lost track of at one of the places that the comment of
\* StaleExplained lists.
THEOREM StaleExplainedHolds == Spec => []StaleExplained
<1>1. Init => StaleExplained
  BY DEF Init, StaleExplained, Stale
<1>. QED  BY <1>1, ExplainedNext, TypeInvariant, PTL DEF Spec
=============================================================================

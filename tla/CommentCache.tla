---------------------------- MODULE CommentCache ----------------------------
(***************************************************************************)
(* The comment pages of a shard, cached in Redis beside the database.      *)
(* Request handlers read a page (getComments: GET, on a miss a query and a *)
(* SET) or write (add, edit, delete: the database, then removeCommentPages *)
(* = KEYS and DEL, then the dead letter queue if the counts differ).       *)
(*                                                                         *)
(* Every cache call goes through the one circuit breaker of CacheService   *)
(* (CircuitBreaker); the queue is that of DeadLetterQueue.  Commands of    *)
(* the one cache connection are executed in the order they are issued: a   *)
(* command takes effect in the step that issues it, and the handler goes   *)
(* on after its reply has settled in the breaker.                          *)
(***************************************************************************)
EXTENDS Naturals, Sequences, FiniteSets

CONSTANTS
    Shards, Pages, Handlers,
    Threshold, Limit, MaxAttempts, MaxEvents,
    MaxVersion, \* bound on the writes to a shard
    Elsewhere,  \* a shardId that a client may send: none of Shards
    Absent,     \* the null of a cache miss
    NoRows      \* the [] that db.shard.getComments returns when it fails, or
                \*   when the shard is deleted

ASSUME ServiceAssumption ==
    /\ Threshold \in Nat \ {0} /\ Limit \in Nat \ {0} /\ MaxAttempts \in Nat \ {0}
    /\ MaxEvents \in Nat /\ MaxEvents >= Limit
    /\ MaxVersion \in Nat

ASSUME KeyAssumption ==
    /\ IsFiniteSet(Shards) /\ IsFiniteSet(Pages) /\ Shards # {} /\ Pages # {}
    /\ Elsewhere \notin Shards

ASSUME ContentAssumption ==
    /\ Absent \notin 0..MaxVersion /\ NoRows \notin 0..MaxVersion
    /\ Absent # NoRows

VARIABLES
    version,    \* version[s]: how often the comments of s were written, or
                \*   NoRows when s is deleted
    page,       \* page[k]: the version cached under key k, NoRows or Absent
    pc,         \* pc[h]: the step of the request that h has done last
    shard,      \* shard[h], number[h]: the page that h reads, or the shard
    number,     \*   whose pages it removes
    rows,       \* rows[h]: what GET returned or the query read
    listed,     \* listed[h]: what KEYS returned to removeCommentPages
    clean,      \* clean[h]: the number that DEL returned equals that of KEYS
    fate,       \* fate[h]: Redis executes the command that h waits for
    leaked,     \* history: see StaleExplained
    state, failures, quiet, inflight,                           \* the breaker
    events, dpc, attempt, batch, known, found, removed          \* the queue

Keys == Shards \X Pages
Named == Shards \cup {Elsewhere}

KeysOf(s) == {k \in Keys : k[1] = s}
cached == {k \in Keys : page[k] # Absent}

CB == INSTANCE CircuitBreaker WITH Ops <- Handlers
DLQ == INSTANCE DeadLetterQueue WITH Shards <- Named

redis == <<version, page, leaked>>
request == <<pc, shard, number, rows, listed, clean>>
breaker == <<state, failures, quiet, inflight, fate>>
queue == <<events, dpc, attempt, batch, known, found, removed>>
vars == <<redis, request, breaker, queue>>

Contents == (0..MaxVersion) \cup {NoRows, Absent}

TypeOK ==
    /\ version \in [Shards -> (0..MaxVersion) \cup {NoRows}]
    /\ page \in [Keys -> Contents]
    /\ pc \in [Handlers -> {"idle", "get", "loaded", "saved", "committed",
                            "listed", "removed", "dlq"}]
    /\ shard \in [Handlers -> Named]
    /\ number \in [Handlers -> Pages]
    /\ rows \in [Handlers -> Contents]
    /\ listed \in [Handlers -> SUBSET Keys]
    /\ clean \in [Handlers -> BOOLEAN]
    /\ fate \in [Handlers -> BOOLEAN]
    /\ leaked \subseteq cached
    /\ CB!TypeOK /\ DLQ!TypeOK
    /\ \A h \in Handlers : DLQ!Running(h) <=> pc[h] = "dlq"

SomeShard == CHOOSE s \in Shards : TRUE
SomePage == CHOOSE p \in Pages : TRUE

Init ==
    /\ version = [s \in Shards |-> 0]
    /\ page = [k \in Keys |-> Absent]
    /\ pc = [h \in Handlers |-> "idle"]
    /\ shard = [h \in Handlers |-> SomeShard]
    /\ number = [h \in Handlers |-> SomePage]
    /\ rows = [h \in Handlers |-> Absent]
    /\ listed = [h \in Handlers |-> {}]
    /\ clean = [h \in Handlers |-> TRUE]
    /\ fate = [h \in Handlers |-> TRUE]
    /\ leaked = {}
    /\ CB!Init /\ DLQ!QueueInit

Key(h) == <<shard[h], number[h]>>
At(h, point) == pc[h] = point /\ h \notin inflight
Goto(h, point) == pc' = [pc EXCEPT ![h] = point]

\* The response is sent; the handler can serve another request.
Respond(h) ==
    /\ Goto(h, "idle")
    /\ shard' = [shard EXCEPT ![h] = SomeShard]
    /\ number' = [number EXCEPT ![h] = SomePage]
    /\ rows' = [rows EXCEPT ![h] = Absent]
    /\ listed' = [listed EXCEPT ![h] = {}]
    /\ clean' = [clean EXCEPT ![h] = TRUE]

(***************************************************************************)
(* A call of CacheService.  done: Redis executes the command.  The breaker *)
(* admits the call, and its reply is used if the command was executed; or  *)
(* it refuses, and the caller gets the fallback (null, 0, []) at once      *)
(* although the command was issued.                                        *)
(***************************************************************************)
Call(h, done, answered) ==
    \/ /\ CB!Admit(h) /\ answered = done
       /\ fate' = [fate EXCEPT ![h] = done]
    \/ /\ CB!Refuse(h) /\ ~answered
       /\ UNCHANGED fate

Settle(h) ==
    /\ IF fate[h] THEN CB!Succeed(h) ELSE CB!Fail(h)
    /\ fate' = [fate EXCEPT ![h] = TRUE]
    /\ UNCHANGED <<redis, request, queue>>

TimeoutPasses ==
    /\ CB!TimeoutPasses
    /\ UNCHANGED <<fate, redis, request, queue>>

(***************************************************************************)
(* Stale pages.                                                            *)
(***************************************************************************)
Stale(k) == page[k] \notin {Absent, version[k[1]]}
StaleOf(S) == {k \in S : Stale(k)}

Remove(K, done) ==
    /\ page' = IF done THEN [k \in Keys |-> IF k \in K THEN Absent ELSE page[k]] ELSE page
    /\ leaked' = IF done THEN leaked \ K ELSE leaked

(***************************************************************************)
(* getComments.                                                            *)
(***************************************************************************)
Get(h, s, p, ok) ==
    /\ At(h, "idle") /\ Goto(h, "get")
    /\ shard' = [shard EXCEPT ![h] = s]
    /\ number' = [number EXCEPT ![h] = p]
    /\ \E answered \in BOOLEAN :
          /\ Call(h, ok, answered)
          /\ rows' = [rows EXCEPT ![h] = IF answered THEN page[<<s, p>>] ELSE Absent]
    /\ UNCHANGED <<redis, listed, clean, queue>>

Hit(h) ==
    /\ At(h, "get") /\ rows[h] # Absent
    /\ Respond(h)
    /\ UNCHANGED <<redis, breaker, queue>>

\* A failed query is answered with [], so the caller's test for null never holds.
Query(h, ok) ==
    /\ At(h, "get") /\ rows[h] = Absent
    /\ Goto(h, "loaded")
    /\ rows' = [rows EXCEPT ![h] = IF ok THEN version[shard[h]] ELSE NoRows]
    /\ UNCHANGED <<redis, shard, number, listed, clean, breaker, queue>>

Save(h, ok) ==
    /\ At(h, "loaded") /\ Goto(h, "saved")
    /\ \E answered \in BOOLEAN : Call(h, ok, answered)
    /\ page' = IF ok THEN [page EXCEPT ![Key(h)] = rows[h]] ELSE page
    /\ leaked' = IF ~ok THEN leaked
                 ELSE IF rows[h] = version[shard[h]] THEN leaked \ {Key(h)}
                 ELSE leaked \cup {Key(h)}
    /\ UNCHANGED <<version, shard, number, rows, listed, clean, queue>>

RespondPage(h) ==
    /\ At(h, "saved")
    /\ Respond(h)
    /\ UNCHANGED <<redis, breaker, queue>>

(***************************************************************************)
(* addComment, editComment, deleteComment.                                 *)
(***************************************************************************)
\* addComment, editComment and deleteComment of the repository: the comments of
\* the shards in S change.  A write that fails changes nothing and does not reach
\* the cache.
Writing == {h \in Handlers : pc[h] \in {"committed", "listed", "removed"}}

Write(S) ==
    /\ Len(events) + Cardinality(Writing) < MaxEvents
    /\ \A s \in S : version[s] # NoRows /\ version[s] < MaxVersion
    /\ version' = [s \in Shards |-> IF s \in S THEN version[s] + 1 ELSE version[s]]

Commit(h, s) ==
    /\ At(h, "idle") /\ Goto(h, "committed")
    /\ Write({s})
    /\ shard' = [shard EXCEPT ![h] = s]
    /\ UNCHANGED <<page, leaked, number, rows, listed, clean, breaker, queue>>

\* editComment, deleteComment: the comment is one of S, or of no shard if it is
\* not there any more.  Which pages are removed is for the client to say: b is
\* the shardId of the body, and nobody compares it with that of the comment.
Edit(h, S, b) ==
    /\ At(h, "idle") /\ Goto(h, "committed")
    /\ Write(S)
    /\ shard' = [shard EXCEPT ![h] = b]
    /\ leaked' = leaked \cup (cached \cap UNION {KeysOf(s) : s \in S \ {b}})
    /\ UNCHANGED <<page, number, rows, listed, clean, breaker, queue>>

\* removeCommentPages: an unanswered KEYS is taken for "no page is cached".
ListPages(h, ok) ==
    /\ At(h, "committed") /\ Goto(h, "listed")
    /\ \E answered \in BOOLEAN :
          /\ Call(h, ok, answered)
          /\ IF answered
             THEN /\ listed' = [listed EXCEPT ![h] = cached \cap KeysOf(shard[h])]
                  /\ UNCHANGED leaked
             ELSE /\ leaked' = leaked \cup StaleOf(KeysOf(shard[h]))
                  /\ UNCHANGED listed
    /\ UNCHANGED <<version, page, shard, number, rows, clean, queue>>

\* Mutant of RemovePages: the number of deleted keys is not compared.
RemoveUnchecked(h, ok) ==
    /\ At(h, "listed") /\ Goto(h, "removed")
    /\ LET done == ok /\ listed[h] # {} IN
       /\ Remove(listed[h], done)
       /\ \E answered \in BOOLEAN : Call(h, done, answered)
    /\ UNCHANGED <<version, shard, number, rows, listed, clean, queue>>

\* DEL without keys is an error in Redis, which counts as a failure in the
\* breaker and as 0 deleted keys in removeCommentPages.
RemovePages(h, ok) ==
    /\ At(h, "listed") /\ Goto(h, "removed")
    /\ LET done == ok /\ listed[h] # {} IN
       /\ Remove(listed[h], done)
       /\ \E answered \in BOOLEAN :
             /\ Call(h, done, answered)
             /\ LET gone == IF answered THEN cached \cap listed[h] ELSE {} IN
                clean' = [clean EXCEPT ![h] = Cardinality(gone) = Cardinality(listed[h])]
    /\ UNCHANGED <<version, shard, number, rows, listed, queue>>

RespondWritten(h) ==
    /\ At(h, "removed") /\ clean[h]
    /\ Respond(h)
    /\ UNCHANGED <<redis, breaker, queue>>

\* The queue is processed, now or when it is as long as the limit.  Past the
\* limit and without a run it is not processed any more.
Live == Len(events) < Limit \/ \E h \in Handlers : DLQ!Running(h)

QueuedKeys == UNION {KeysOf(events[i]) : i \in DOMAIN events}

\* addToDeadLetterQueue; the request waits for the run it may start.
Enqueue(h) ==
    /\ At(h, "removed") /\ ~clean[h]
    /\ UNCHANGED <<version, page, breaker>>
    /\ leaked' = IF Live THEN leaked ELSE leaked \cup StaleOf(KeysOf(shard[h]))
    /\ DLQ!Push(h, shard[h])
    /\ IF dpc'[h] = "idle" THEN Respond(h)
       ELSE Goto(h, "dlq") /\ UNCHANGED <<shard, number, rows, listed, clean>>

(***************************************************************************)
(* processDLQ, as the steps of DeadLetterQueue with their cache calls.     *)
(***************************************************************************)
QueueList(h, s, ok) ==
    /\ At(h, "dlq")
    /\ UNCHANGED <<redis, request>>
    /\ \E answered \in BOOLEAN :
          Call(h, ok, answered) /\ DLQ!ListPattern(h, s, answered)

QueueDelete(h, ok) ==
    /\ At(h, "dlq")
    /\ UNCHANGED <<version, request>>
    /\ LET done == ok /\ DLQ!Wanted(h) # {} IN
       /\ Remove(DLQ!Wanted(h), done)
       /\ \E answered \in BOOLEAN :
             Call(h, done, answered) /\ DLQ!DeleteAll(h, done, answered)

\* Emptying the queue forgets every shard in it.
QueueClear(h) ==
    /\ At(h, "dlq")
    /\ UNCHANGED <<version, page, breaker>>
    /\ leaked' = leaked \cup StaleOf(QueuedKeys)
    /\ DLQ!Clear(h)
    /\ Respond(h)

\* Mutant of QueueGiveUp: the request that processed the queue is not answered.
QueueAbandon(h) ==
    /\ At(h, "dlq")
    /\ UNCHANGED <<redis, request, breaker>>
    /\ DLQ!GiveUp(h)

\* What is queued stays there, and the queue is past its limit.
QueueGiveUp(h) ==
    /\ At(h, "dlq")
    /\ UNCHANGED <<version, page, breaker>>
    /\ leaked' = leaked \cup StaleOf(QueuedKeys)
    /\ DLQ!GiveUp(h)
    /\ Respond(h)

QueueRetry(h) ==
    /\ At(h, "dlq")
    /\ UNCHANGED <<redis, request, breaker>>
    /\ DLQ!FailAttempt(h) \/ DLQ!Retry(h)

(***************************************************************************)
(* A key expires: SET gives it a time to live.                             *)
(***************************************************************************)
\* Mutant of Expire: pages are stored without a time to live.
ExpireNever(k) == FALSE /\ UNCHANGED vars

Expire(k) ==
    /\ page[k] # Absent
    /\ Remove({k}, TRUE)
    /\ UNCHANGED <<version, request, breaker, queue>>

(***************************************************************************)
(* The shard is deleted, and the process exits.                            *)
(***************************************************************************)
\* deleteShardById: the database deletes the comments with the shard; the calls
\* that would remove cached pages are commented out.
Delete(s) ==
    /\ version[s] # NoRows
    /\ version' = [version EXCEPT ![s] = NoRows]
    /\ leaked' = leaked \cup {k \in cached \cap KeysOf(s) : page[k] # NoRows}
    /\ UNCHANGED <<page, request, breaker, queue>>

\* gracefulShutdown exits at once, whatever is in progress, and the server is
\* started again: what is in memory, the queue among it, is gone.
Restart ==
    /\ UNCHANGED <<version, page>>
    /\ leaked' = leaked \cup StaleOf(Keys)
    /\ pc' = [h \in Handlers |-> "idle"]
    /\ shard' = [h \in Handlers |-> SomeShard]
    /\ number' = [h \in Handlers |-> SomePage]
    /\ rows' = [h \in Handlers |-> Absent]
    /\ listed' = [h \in Handlers |-> {}]
    /\ clean' = [h \in Handlers |-> TRUE]
    /\ fate' = [h \in Handlers |-> TRUE]
    /\ CB!Restart /\ DLQ!Restart

(***************************************************************************)
(* Next-state relations: redisOk says whether Redis executes the commands  *)
(* it is given, dbOk whether the query succeeds, trueBody whether a client *)
(* that edits a comment names the shard of the comment.                    *)
(***************************************************************************)
ReadStep(h, redisOk, dbOk) ==
    \/ Hit(h) \/ Query(h, dbOk) \/ Save(h, redisOk) \/ RespondPage(h)

WriteStep(h, redisOk) ==
    \/ ListPages(h, redisOk) \/ RemovePages(h, redisOk)
    \/ RespondWritten(h) \/ Enqueue(h)

QueueStep(h, redisOk) ==
    \/ \E s \in Named : QueueList(h, s, redisOk)
    \/ QueueDelete(h, redisOk)
    \/ QueueClear(h) \/ QueueGiveUp(h) \/ QueueRetry(h)

RequestStep(h, redisOk, dbOk) ==
    ReadStep(h, redisOk, dbOk) \/ WriteStep(h, redisOk) \/ QueueStep(h, redisOk)

Request(h, redisOk, trueBody) ==
    \E s \in Shards :
        \/ Commit(h, s)
        \/ \E S \in {{}, {s}}, b \in IF trueBody THEN {s} ELSE Named : Edit(h, S, b)
        \/ \E p \in Pages : Get(h, s, p, redisOk)

Step(redisOk, dbOk, trueBody) ==
    \/ \E h \in Handlers :
          Request(h, redisOk, trueBody) \/ RequestStep(h, redisOk, dbOk) \/ Settle(h)
    \/ TimeoutPasses
    \/ \E k \in Keys : Expire(k)

Next ==
    \/ \E redisOk, dbOk, trueBody \in BOOLEAN : Step(redisOk, dbOk, trueBody)
    \/ \E s \in Shards : Delete(s)
    \/ Restart

Spec == Init /\ [][Next]_vars

\* Redis executes every command it can execute, no query fails, clients name the
\* right shard, and neither the shards nor the process go away.
HealthySpec == Init /\ [][Step(TRUE, TRUE, TRUE)]_vars

\* Requests are served to their end, replies arrive, and what has a time to
\* live expires.
Service ==
    /\ \A h \in Handlers :
          WF_vars(Settle(h) \/ \E redisOk, dbOk \in BOOLEAN : RequestStep(h, redisOk, dbOk))
    /\ \A k \in Keys : WF_vars(Expire(k))

ServedSpec == Spec /\ Service

(***************************************************************************)
(* Every stale page has an explanation: a writer that has yet to list or   *)
(* remove it, an event in a queue that is still processed, or a leak.      *)
(* Leaks are recorded where the code loses track of a page:                *)
(*   - a SET of rows that are not current any more, or never were;         *)
(*   - an edit whose body names another shard than that of the comment;    *)
(*   - a KEYS of removeCommentPages that was not answered;                 *)
(*   - an event appended past the limit, with no run in progress;          *)
(*   - the end of a run that gives up: the queue stays, past the limit;    *)
(*   - the emptying of the queue, with events appended during the run;     *)
(*   - the deletion of the shard;                                          *)
(*   - the exit of the process.                                            *)
(* A queue shorter than the limit is processed when other removals fail,   *)
(* which may take any time: it counts as an explanation all the same.      *)
(***************************************************************************)
Pending(k) ==
    \E h \in Handlers :
        /\ shard[h] = k[1]
        /\ \/ pc[h] = "committed"
           \/ pc[h] = "listed" /\ k \in listed[h]
           \/ pc[h] = "removed" /\ ~clean[h]

Queued(k) == Live /\ \E i \in DOMAIN events : events[i] = k[1]

StaleExplained == \A k \in Keys : Stale(k) => Pending(k) \/ Queued(k) \/ k \in leaked

(***************************************************************************)
(* When writes and deletions stop and queries no longer fail, every page is*)
(* current or gone in the end: a leak is repaired by expiry only, and no   *)
(* read in progress brings it back.                                        *)
(***************************************************************************)
Settled ==
    /\ <>[][UNCHANGED version]_vars
    /\ <>[][\A h \in Handlers : ~Query(h, FALSE)]_vars

EventuallyFresh == Settled => <>[](\A k \in Keys : ~Stale(k))

AllIdle == \A h \in Handlers : pc[h] = "idle"

(***************************************************************************)
(* shard.ts:318: "invalidate all the comment pages".  When a write has     *)
(* been answered with success and no other request is in progress, no page *)
(* of the shard is of an older version.                                    *)
(***************************************************************************)
InvalidateAll == AllIdle => \A k \in Keys : ~Stale(k)

(***************************************************************************)
(* circuitBreaker.ts:14: the circuit is half-opened to "verify if cache    *)
(* has stabilized or not": it is open only because the cache was unstable. *)
(***************************************************************************)
StableStaysClosed == state = "CLOSED"
=============================================================================

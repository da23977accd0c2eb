--------------------------- MODULE DeadLetterQueue --------------------------
(***************************************************************************)
(* The dead letter queue of CacheRepository (repositories/cache/index.ts): *)
(* patterns of cache keys whose removal failed.  A request handler appends *)
(* one and awaits processDLQ() when that fills the queue to its limit.     *)
(* Every queued item is the pattern "shard:<s>:comments:page:*" of a shard,*)
(* so it is named by the shard.                                            *)
(*                                                                         *)
(* The cache service never throws: a call that Redis did not answer, or    *)
(* that the circuit breaker refused, returns [] or 0.  The breaker refuses *)
(* after the command was issued, so such a command may take effect.        *)
(***************************************************************************)
EXTENDS Naturals, Sequences, FiniteSets

CONSTANTS
    Shards, Pages,
    Handlers,    \* request handlers that may append
    Limit,       \* eventListLimit
    MaxAttempts, \* maxRetryAttempts
    MaxEvents    \* bound on the length of the queue

ASSUME QueueAssumption ==
    /\ Limit \in Nat \ {0} /\ MaxAttempts \in Nat \ {0}
    /\ MaxEvents \in Nat /\ MaxEvents >= Limit

ASSUME FiniteAssumption == IsFiniteSet(Shards) /\ IsFiniteSet(Pages)

Keys == Shards \X Pages
KeysOf(s) == {s} \X Pages

VARIABLES
    events,     \* the queue, shared by all handlers
    cached,     \* the keys in Redis
    dpc,        \* dpc[h]: "idle", or the await of processDLQ that h is at:
                \* "list", "verdict" (the reply of DEL) or "backoff"
    attempt,
    batch,      \* batch[h]: queuePatterns, the queue when the attempt began
    known,      \* known[h]: the patterns that localCache has, and
    found,      \* found[h][s]: the keys it has for s
    removed     \* removed[h]: the keys that DEL reported deleted

run == <<dpc, attempt, batch, known, found, removed>>
vars == <<events, cached, run>>

TypeOK ==
    /\ events \in Seq(Shards)
    /\ cached \subseteq Keys
    /\ dpc \in [Handlers -> {"idle", "list", "verdict", "backoff"}]
    /\ attempt \in [Handlers -> 0..MaxAttempts]
    /\ batch \in [Handlers -> Seq(Shards)]
    /\ known \in [Handlers -> SUBSET Shards]
    /\ found \in [Handlers -> [Shards -> SUBSET Keys]]
    /\ removed \in [Handlers -> SUBSET Keys]

NothingFound == [s \in Shards |-> {}]

QueueInit ==
    /\ events = <<>>
    /\ dpc = [h \in Handlers |-> "idle"]
    /\ attempt = [h \in Handlers |-> 0]
    /\ batch = [h \in Handlers |-> <<>>]
    /\ known = [h \in Handlers |-> {}]
    /\ found = [h \in Handlers |-> NothingFound]
    /\ removed = [h \in Handlers |-> {}]

Init == QueueInit /\ cached \in SUBSET Keys

Running(h) == dpc[h] # "idle"

(***************************************************************************)
(* addToDeadLetterQueue                                                    *)
(***************************************************************************)
\* An attempt of processDLQ begins with the queue as it is then.
BeginAttempt(h, n) ==
    /\ dpc' = [dpc EXCEPT ![h] = "list"]
    /\ attempt' = [attempt EXCEPT ![h] = n]
    /\ batch' = [batch EXCEPT ![h] = events']

\* The run is over; its local variables are gone.
EndRun(h) ==
    /\ dpc' = [dpc EXCEPT ![h] = "idle"]
    /\ attempt' = [attempt EXCEPT ![h] = 0]
    /\ batch' = [batch EXCEPT ![h] = <<>>]
    /\ known' = [known EXCEPT ![h] = {}]
    /\ found' = [found EXCEPT ![h] = NothingFound]
    /\ removed' = [removed EXCEPT ![h] = {}]

\* Mutant of Push: the queue is processed whenever it is long enough.
PushAtLeast(h, s) ==
    /\ ~Running(h) /\ Len(events) < MaxEvents
    /\ events' = Append(events, s)
    /\ IF Len(events') >= Limit
       THEN BeginAttempt(h, 1) /\ UNCHANGED <<known, found, removed>>
       ELSE UNCHANGED run
    /\ UNCHANGED cached

\* The queue is processed when its length is exactly the limit.
Push(h, s) ==
    /\ ~Running(h) /\ Len(events) < MaxEvents
    /\ events' = Append(events, s)
    /\ IF Len(events') = Limit
       THEN BeginAttempt(h, 1) /\ UNCHANGED <<known, found, removed>>
       ELSE UNCHANGED run
    /\ UNCHANGED cached

(***************************************************************************)
(* processDLQ: KEYS for each pattern it has not looked up in this run, one *)
(* DEL of all keys, then compare the number of keys deleted with the       *)
(* number of keys asked for.                                               *)
(***************************************************************************)
\* A key is asked for once per event whose pattern matched it.
FinalKeys(h) ==
    {ask \in (DOMAIN batch[h]) \X Keys : ask[2] \in found[h][batch[h][ask[1]]]}

Wanted(h) == UNION {found[h][batch[h][i]] : i \in DOMAIN batch[h]}

NextPattern(h, s) ==
    \E i \in DOMAIN batch[h] :
        /\ s = batch[h][i] /\ s \notin known[h]
        /\ \A j \in 1..(i - 1) : batch[h][j] \in known[h]

Listed(h) == \A i \in DOMAIN batch[h] : batch[h][i] \in known[h]

\* An unanswered KEYS finds nothing, and localCache keeps that.
ListPattern(h, s, answered) ==
    /\ dpc[h] = "list" /\ NextPattern(h, s)
    /\ known' = [known EXCEPT ![h] = @ \cup {s}]
    /\ found' = [found EXCEPT ![h][s] = IF answered THEN cached \cap KeysOf(s) ELSE {}]
    /\ UNCHANGED <<events, cached, dpc, attempt, batch, removed>>

\* done: Redis executed DEL; answered: its reply was awaited.  A DEL without
\* keys is an error in Redis: nothing is done.
DeleteAll(h, done, answered) ==
    /\ dpc[h] = "list" /\ Listed(h)
    /\ answered => done
    /\ done => Wanted(h) # {}
    /\ cached' = IF done THEN cached \ Wanted(h) ELSE cached
    /\ removed' = [removed EXCEPT ![h] = IF answered THEN cached \cap Wanted(h) ELSE {}]
    /\ dpc' = [dpc EXCEPT ![h] = "verdict"]
    /\ UNCHANGED <<events, attempt, batch, known, found>>

\* Mutant of AllDeleted: one deleted key is enough.
SomeDeleted(h) == FinalKeys(h) # {} => removed[h] # {}

\* count === finalKeys.length
AllDeleted(h) == Cardinality(removed[h]) = Cardinality(FinalKeys(h))

\* The whole queue is emptied, with what was appended during the run.
Clear(h) ==
    /\ dpc[h] = "verdict" /\ AllDeleted(h)
    /\ events' = <<>>
    /\ EndRun(h)
    /\ UNCHANGED cached

\* "Could not delete all keys".
FailAttempt(h) ==
    /\ dpc[h] = "verdict" /\ ~AllDeleted(h)
    /\ dpc' = [dpc EXCEPT ![h] = "backoff"]
    /\ UNCHANGED <<events, cached, attempt, batch, known, found, removed>>

\* Mutants of Retry: one attempt too many; attempts are not counted.
RetryOnceMore(h) ==
    /\ dpc[h] = "backoff" /\ attempt[h] <= MaxAttempts
    /\ UNCHANGED <<events, cached, known, found, removed>>
    /\ BeginAttempt(h, attempt[h] + 1)

RetryUncounted(h) ==
    /\ dpc[h] = "backoff" /\ attempt[h] < MaxAttempts
    /\ UNCHANGED <<events, cached, known, found, removed>>
    /\ BeginAttempt(h, attempt[h])

\* The backoff is over: next attempt, with the same localCache.
Retry(h) ==
    /\ dpc[h] = "backoff" /\ attempt[h] < MaxAttempts
    /\ UNCHANGED <<events, cached, known, found, removed>>
    /\ BeginAttempt(h, attempt[h] + 1)

\* After the last attempt processDLQ returns as if it had succeeded: the
\* caller's "final failure" branch is not reached and the queue stays.
GiveUp(h) ==
    /\ dpc[h] = "backoff" /\ attempt[h] = MaxAttempts
    /\ EndRun(h)
    /\ UNCHANGED <<events, cached>>

Finish(h) == Clear(h) \/ FailAttempt(h) \/ Retry(h) \/ GiveUp(h)

RunStep(h) ==
    \/ \E s \in Shards, answered \in BOOLEAN : ListPattern(h, s, answered)
    \/ \E done, answered \in BOOLEAN : DeleteAll(h, done, answered)
    \/ Finish(h)

(***************************************************************************)
(* Meanwhile other requests store pages, and pages expire or are removed,  *)
(* all pages of a shard by one DEL.                                        *)
(***************************************************************************)
Fill(k) == cached' = cached \cup {k} /\ UNCHANGED <<events, run>>
Vanish(K) == cached' = cached \ K /\ UNCHANGED <<events, run>>

\* The process exits and starts again: the queue and the runs are in its memory.
Restart ==
    /\ events' = <<>>
    /\ dpc' = [h \in Handlers |-> "idle"]
    /\ attempt' = [h \in Handlers |-> 0]
    /\ batch' = [h \in Handlers |-> <<>>]
    /\ known' = [h \in Handlers |-> {}]
    /\ found' = [h \in Handlers |-> NothingFound]
    /\ removed' = [h \in Handlers |-> {}]
    /\ UNCHANGED cached

Next ==
    \/ \E h \in Handlers : RunStep(h) \/ \E s \in Shards : Push(h, s)
    \/ \E k \in Keys : Fill(k)
    \/ \E K \in SUBSET Keys : Vanish(K)
    \/ Restart

Spec == Init /\ [][Next]_vars

\* Redis answers or fails, and the backoff timer fires.
RunFairness == \A h \in Handlers : WF_vars(RunStep(h))

FairSpec == Spec /\ RunFairness

(***************************************************************************)
(* However many handlers append, and whatever they append while a run is   *)
(* waiting, no second run starts: the length of the queue passes the limit *)
(* once until a run empties it.                                            *)
(***************************************************************************)
OneRun == \A g, h \in Handlers : Running(g) /\ Running(h) => g = h

(***************************************************************************)
(* When a run empties the queue, DEL had reported every key that the run's *)
(* listings returned, and no key was asked for twice: comparing two numbers*)
(* is enough, whatever other requests store or remove in between.          *)
(***************************************************************************)
ClearExact ==
    [][\A h \in Handlers :
         Clear(h) =>
            /\ removed[h] = Wanted(h)
            /\ \A i, j \in DOMAIN batch[h] :
                  i # j => found[h][batch[h][i]] \cap found[h][batch[h][j]] = {}]_vars

(***************************************************************************)
(* The request that filled the queue is answered in the end: a run stops   *)
(* after at most MaxAttempts attempts.                                     *)
(***************************************************************************)
RunEnds == \A h \in Handlers : Running(h) ~> ~Running(h)
=============================================================================

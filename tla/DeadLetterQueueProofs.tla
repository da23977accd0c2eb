------------------------ MODULE DeadLetterQueueProofs -----------------------
(***************************************************************************)
(* Proofs about the dead letter queue, for every limit, number of attempts *)
(* and number of handlers, shards and pages.                               *)
(***************************************************************************)
EXTENDS DeadLetterQueue, FiniteSetTheorems, WellFoundedInduction, TLAPS

USE QueueAssumption, FiniteAssumption

(***************************************************************************)
(* Type correctness.                                                       *)
(***************************************************************************)
LEMMA TypeInit == Init => TypeOK
BY DEF Init, QueueInit, TypeOK, NothingFound

LEMMA TypeRun ==
  ASSUME TypeOK, NEW h \in Handlers, RunStep(h)
  PROVE  TypeOK'
<1> USE DEF TypeOK, run
<1>1. ASSUME NEW s \in Shards, NEW answered \in BOOLEAN, ListPattern(h, s, answered)
      PROVE  TypeOK'
  <2>1. known' \in [Handlers -> SUBSET Shards]
    BY <1>1 DEF ListPattern
  <2>2. found' \in [Handlers -> [Shards -> SUBSET Keys]]
    <3> DEFINE new == IF answered THEN cached \cap KeysOf(s) ELSE {}
    <3>1. new \in SUBSET Keys  OBVIOUS
    <3>2. found' = [found EXCEPT ![h] = [found[h] EXCEPT ![s] = new]]
      BY <1>1 DEF ListPattern
    <3>3. [found[h] EXCEPT ![s] = new] \in [Shards -> SUBSET Keys]
      BY <3>1
    <3>. QED  BY <3>2, <3>3
  <2>. QED  BY <1>1, <2>1, <2>2 DEF ListPattern
<1>2. ASSUME NEW done \in BOOLEAN, NEW answered \in BOOLEAN, DeleteAll(h, done, answered)
      PROVE  TypeOK'
  BY <1>2 DEF DeleteAll
<1>3. CASE Clear(h)
  BY <1>3 DEF Clear, EndRun, NothingFound
<1>4. CASE FailAttempt(h)
  BY <1>4 DEF FailAttempt
<1>5. CASE Retry(h)
  BY <1>5 DEF Retry, BeginAttempt
<1>6. CASE GiveUp(h)
  BY <1>6 DEF GiveUp, EndRun, NothingFound
<1>. QED  BY <1>1, <1>2, <1>3, <1>4, <1>5, <1>6 DEF RunStep, Finish

LEMMA TypePush ==
  ASSUME TypeOK, NEW h \in Handlers, NEW s \in Shards, Push(h, s)
  PROVE  TypeOK'
<1>1. events' \in Seq(Shards)
  BY DEF TypeOK, Push
<1>2. CASE Len(events') = Limit
  <2>1. BeginAttempt(h, 1) /\ UNCHANGED <<known, found, removed, cached>>
    BY <1>2 DEF Push
  <2>2. 1 \in 0..MaxAttempts
    OBVIOUS
  <2>. QED  BY <1>1, <2>1, <2>2 DEF TypeOK, BeginAttempt
<1>3. CASE Len(events') # Limit
  BY <1>1, <1>3 DEF TypeOK, Push, run
<1>. QED  BY <1>2, <1>3

LEMMA TypeNext == TypeOK /\ [Next]_vars => TypeOK'
<1> SUFFICES ASSUME TypeOK, [Next]_vars PROVE TypeOK'
  OBVIOUS
<1>1. ASSUME \/ \E k \in Keys : Fill(k)
             \/ \E K \in SUBSET Keys : Vanish(K)
      PROVE  TypeOK'
  BY <1>1 DEF TypeOK, Fill, Vanish, run
<1>2. CASE UNCHANGED vars
  BY <1>2 DEF TypeOK, vars, run
<1>3. CASE Restart
  <2>1. NothingFound \in [Shards -> SUBSET Keys]
    BY DEF NothingFound
  <2>. QED  BY <1>3, <2>1 DEF Restart, TypeOK
<1>. QED  BY <1>1, <1>2, <1>3, TypeRun, TypePush DEF Next

\* The queue and the local state of every run keep their types.
THEOREM TypeCorrect == Spec => []TypeOK
BY TypeInit, TypeNext, PTL DEF Spec

(***************************************************************************)
(* A run starts only when the queue becomes Limit long, and it is at least *)
(* that long until the run ends: OneRun needs the length to be inductive.  *)
(***************************************************************************)
RunInv ==
    /\ OneRun
    /\ \A h \in Handlers : Running(h) => Len(events) >= Limit

LEMMA RunInvStep == TypeOK /\ RunInv /\ [Next]_vars => RunInv'
<1> SUFFICES ASSUME TypeOK, RunInv, [Next]_vars PROVE RunInv'
  OBVIOUS
<1> USE DEF TypeOK, RunInv, OneRun, Running, run
<1>1. ASSUME NEW h \in Handlers, NEW s \in Shards, Push(h, s) PROVE RunInv'
  <2>1. Len(events') = Len(events) + 1
    BY <1>1 DEF Push
  <2>2. CASE Len(events') = Limit
    <3>1. \A g \in Handlers : ~Running(g)
      BY <2>1, <2>2
    <3>. QED  BY <1>1, <2>2, <3>1 DEF Push, BeginAttempt
  <2>3. CASE Len(events') # Limit
    BY <1>1, <2>1, <2>3 DEF Push
  <2>. QED  BY <2>2, <2>3
<1>2. ASSUME NEW h \in Handlers, RunStep(h) PROVE RunInv'
  <2>1. Running(h)
    BY <1>2 DEF RunStep, ListPattern, DeleteAll, Finish, Clear, FailAttempt, Retry, GiveUp
  <2>2. CASE Clear(h)
    <3>1. \A g \in Handlers : ~Running(g)'
      BY <2>1, <2>2 DEF Clear, EndRun
    <3>. QED  BY <3>1
  <2>3. CASE ~Clear(h)
    <3>1. events' = events /\ \A g \in Handlers : Running(g)' => Running(g)
      BY <1>2, <2>1, <2>3 DEF RunStep, ListPattern, DeleteAll, Finish, FailAttempt,
                              Retry, GiveUp, BeginAttempt, EndRun
    <3>. QED  BY <3>1
  <2>. QED  BY <2>2, <2>3
<1>3. ASSUME \/ \E k \in Keys : Fill(k)
             \/ \E K \in SUBSET Keys : Vanish(K)
             \/ Restart
      PROVE  RunInv'
  BY <1>3 DEF Fill, Vanish, Restart
<1>4. CASE UNCHANGED vars
  BY <1>4 DEF vars
<1>. QED  BY <1>1, <1>2, <1>3, <1>4 DEF Next

\* No two requests ever process the queue at the same time.
THEOREM OneRunHolds == Spec => []OneRun
<1>1. Init => RunInv
  BY DEF Init, QueueInit, RunInv, OneRun, Running
<1>2. RunInv => OneRun
  BY DEF RunInv
<1>. QED  BY <1>1, <1>2, RunInvStep, TypeCorrect, PTL DEF Spec

(***************************************************************************)
(* Counting.  The keys asked for are counted once per index that asks, the *)
(* keys removed once: the two counts agree only if all were removed and no *)
(* key was asked for twice.                                                *)
(***************************************************************************)
LEMMA CountExact ==
  ASSUME NEW B, IsFiniteSet(B), NEW K, IsFiniteSet(K), NEW F \in [B -> SUBSET K],
         NEW R \in SUBSET UNION {F[i] : i \in B},
         Cardinality(R) = Cardinality({a \in B \X K : a[2] \in F[a[1]]})
  PROVE  /\ R = UNION {F[i] : i \in B}
         /\ \A i, j \in B : i # j => F[i] \cap F[j] = {}
<1> DEFINE Asks == {a \in B \X K : a[2] \in F[a[1]]}
           U == UNION {F[i] : i \in B}
           key == [a \in Asks |-> a[2]]
<1>1. IsFiniteSet(Asks)
  BY FS_Product, FS_Subset
<1>2. \A i \in B : \A k \in F[i] : <<i, k>> \in Asks
  OBVIOUS
<1>3. key \in Surjection(Asks, U)
  <2>1. key \in [Asks -> U]
    OBVIOUS
  <2>2. ASSUME NEW k \in U PROVE \E a \in Asks : key[a] = k
    <3>1. PICK i \in B : k \in F[i]
      OBVIOUS
    <3>2. <<i, k>> \in Asks /\ key[<<i, k>>] = k
      BY <1>2, <3>1
    <3>. QED  BY <3>2
  <2>. QED  BY <2>1, <2>2 DEF Surjection
<1> HIDE DEF Asks, U, key
<1>4. /\ IsFiniteSet(U)
      /\ Cardinality(U) <= Cardinality(Asks)
      /\ Cardinality(U) = Cardinality(Asks) => key \in Injection(Asks, U)
  BY <1>1, <1>3, FS_Surjection
<1>5. R \in SUBSET U
  BY DEF U
<1>6. /\ Cardinality(R) <= Cardinality(U)
      /\ Cardinality(U) = Cardinality(R) => U = R
  BY <1>4, <1>5, FS_Subset
<1>7. Cardinality(R) = Cardinality(Asks)
  BY DEF Asks
<1>8. Cardinality(U) = Cardinality(Asks)
  <2>1. Cardinality(U) \in Nat /\ Cardinality(Asks) \in Nat
    BY <1>1, <1>4, FS_CardinalityType
  <2>. QED  BY <1>4, <1>6, <1>7, <2>1
<1>9. R = U /\ key \in Injection(Asks, U)
  BY <1>4, <1>6, <1>7, <1>8
<1>10. ASSUME NEW i \in B, NEW j \in B, i # j, NEW k \in F[i] \cap F[j] PROVE FALSE
  <2>1. <<i, k>> \in Asks /\ <<j, k>> \in Asks /\ <<i, k>> # <<j, k>>
    BY <1>2, <1>10
  <2>2. key[<<i, k>>] = key[<<j, k>>]
    BY <2>1 DEF key
  <2>. QED  BY <1>9, <2>1, <2>2 DEF Injection, IsInjective
<1>. QED  BY <1>9, <1>10 DEF U

\* What DEL reports is among what it was asked for, until the run goes on.
RemovedInv == \A h \in Handlers : dpc[h] = "verdict" => removed[h] \subseteq Wanted(h)

LEMMA RemovedInvStep == TypeOK /\ RemovedInv /\ [Next]_vars => RemovedInv'
<1> SUFFICES ASSUME TypeOK, RemovedInv, [Next]_vars,
                    NEW g \in Handlers, dpc'[g] = "verdict"
             PROVE  removed'[g] \subseteq Wanted(g)'
  BY DEF RemovedInv
<1> USE DEF TypeOK, RemovedInv, run
<1>1. ASSUME NEW h \in Handlers, NEW s \in Shards, Push(h, s)
      PROVE  removed'[g] \subseteq Wanted(g)'
  BY <1>1 DEF Push, BeginAttempt, Running, Wanted
<1>2. ASSUME NEW h \in Handlers, RunStep(h) PROVE removed'[g] \subseteq Wanted(g)'
  <2>1. ASSUME NEW s \in Shards, NEW answered \in BOOLEAN, ListPattern(h, s, answered)
        PROVE  removed'[g] \subseteq Wanted(g)'
    <3>1. g # h /\ dpc[g] = "verdict"
      BY <2>1 DEF ListPattern
    <3>2. removed'[g] = removed[g] /\ batch'[g] = batch[g] /\ found'[g] = found[g]
      BY <2>1, <3>1 DEF ListPattern
    <3>. QED  BY <3>1, <3>2 DEF Wanted
  <2>2. ASSUME NEW done \in BOOLEAN, NEW answered \in BOOLEAN,
               DeleteAll(h, done, answered)
        PROVE  removed'[g] \subseteq Wanted(g)'
    <3>1. batch' = batch /\ found' = found
      BY <2>2 DEF DeleteAll
    <3>2. CASE g = h
      BY <2>2, <3>1, <3>2 DEF DeleteAll, Wanted
    <3>3. CASE g # h
      BY <2>2, <3>1, <3>3 DEF DeleteAll, Wanted
    <3>. QED  BY <3>2, <3>3
  <2>3. CASE Finish(h)
    <3>1. g # h /\ dpc[g] = "verdict"
      BY <2>3 DEF Finish, Clear, FailAttempt, Retry, GiveUp, BeginAttempt, EndRun
    <3>2. removed'[g] = removed[g] /\ batch'[g] = batch[g] /\ found'[g] = found[g]
      BY <2>3, <3>1 DEF Finish, Clear, FailAttempt, Retry, GiveUp, BeginAttempt, EndRun
    <3>. QED  BY <3>1, <3>2 DEF Wanted
  <2>. QED  BY <1>2, <2>1, <2>2, <2>3 DEF RunStep
<1>3. ASSUME \/ \E k \in Keys : Fill(k)
             \/ \E K \in SUBSET Keys : Vanish(K)
             \/ Restart
      PROVE  removed'[g] \subseteq Wanted(g)'
  BY <1>3 DEF Fill, Vanish, Restart, Wanted
<1>4. CASE UNCHANGED vars
  BY <1>4 DEF vars, Wanted
<1>. QED  BY <1>1, <1>2, <1>3, <1>4 DEF Next

LEMMA ClearStep ==
  ASSUME TypeOK, RemovedInv, NEW h \in Handlers, Clear(h)
  PROVE  /\ removed[h] = Wanted(h)
         /\ \A i, j \in DOMAIN batch[h] :
               i # j => found[h][batch[h][i]] \cap found[h][batch[h][j]] = {}
<1>1. dpc[h] = "verdict" /\ AllDeleted(h)
  BY DEF Clear
<1> DEFINE B == DOMAIN batch[h]
           F == [i \in B |-> found[h][batch[h][i]]]
<1>2. IsFiniteSet(B) /\ IsFiniteSet(Keys)
  <2>1. B = 1..Len(batch[h]) /\ Len(batch[h]) \in Nat
    BY DEF TypeOK
  <2>2. IsFiniteSet(1..Len(batch[h]))
    BY <2>1, FS_Interval
  <2>3. IsFiniteSet(Shards \X Pages)
    BY FS_Product DEF FiniteAssumption
  <2>. QED  BY <2>1, <2>2, <2>3 DEF Keys
<1>3. F \in [B -> SUBSET Keys]
  BY DEF TypeOK
<1>4. Wanted(h) = UNION {F[i] : i \in B}
  BY DEF Wanted
<1>5. FinalKeys(h) = {a \in B \X Keys : a[2] \in F[a[1]]}
  BY DEF FinalKeys
<1>6. removed[h] \in SUBSET UNION {F[i] : i \in B}
  BY <1>1, <1>4 DEF RemovedInv
<1> HIDE DEF B, F
<1>7. /\ removed[h] = UNION {F[i] : i \in B}
      /\ \A i, j \in B : i # j => F[i] \cap F[j] = {}
  BY <1>1, <1>2, <1>3, <1>5, <1>6, CountExact DEF AllDeleted
<1>. QED  BY <1>4, <1>7 DEF B, F

\* The queue is emptied only when DEL reported every listed key deleted and
\* no key was listed for two events, whatever faults and other requests do.
THEOREM ClearExactHolds == Spec => ClearExact
<1>1. Init => RemovedInv
  BY DEF Init, QueueInit, RemovedInv
<1>2. ASSUME TypeOK, RemovedInv, [Next]_vars
      PROVE  [\A h \in Handlers :
               Clear(h) =>
                  /\ removed[h] = Wanted(h)
                  /\ \A i, j \in DOMAIN batch[h] :
                        i # j => found[h][batch[h][i]] \cap found[h][batch[h][j]] = {}]_vars
  BY <1>2, ClearStep
<1>. QED  BY <1>1, <1>2, RemovedInvStep, TypeCorrect, PTL DEF Spec, ClearExact

(***************************************************************************)
(* A run comes to an end: how many of its steps are left, counting three   *)
(* for each attempt and one for each pattern that it may yet look up.      *)
(***************************************************************************)
Phase == [idle |-> 0, backoff |-> 1, verdict |-> 2, list |-> 3]

StepsLeft(h) ==
    3 * (MaxAttempts - attempt[h]) + Phase[dpc[h]] + Cardinality(Shards \ known[h])

\* A command of the run is on its way, or its next one can be issued.
GoesOn(h) ==
    \/ dpc[h] = "list" /\ Listed(h)
    \/ dpc[h] = "list" /\ \E s \in Shards : NextPattern(h, s)
    \/ dpc[h] = "verdict"
    \/ dpc[h] = "backoff" /\ attempt[h] <= MaxAttempts

\* Nobody waits within a run for anything but Redis and the backoff timer, and
\* no more than three steps per attempt and one per pattern are left.
RunsGoOn ==
    \A h \in Handlers : Running(h) =>
        GoesOn(h) /\ StepsLeft(h) \in 1..(3 * MaxAttempts + Cardinality(Shards))

\* Each of its steps takes one of them away, unless it ends the run, and nothing
\* that other requests do gives one back; only the exit of the process ends it
\* otherwise.
StepsCount ==
    [][\A h \in Handlers :
         /\ RunStep(h) => Running(h) /\ (Running(h)' => StepsLeft(h)' = StepsLeft(h) - 1)
         /\ Running(h) /\ ~RunStep(h) /\ ~Restart
            => Running(h)' /\ StepsLeft(h)' = StepsLeft(h)]_vars

Counted == \A h \in Handlers : Running(h) => attempt[h] \in 1..MaxAttempts

LEMMA LeastNat ==
  ASSUME NEW T \in SUBSET Nat, T # {}
  PROVE  \E n \in T : \A m \in T : n <= m
<1> DEFINE less == {ss \in Nat \X Nat : ss[1] < ss[2]}
<1>1. IsWellFoundedOn(less, Nat)
  BY NatLessThanWellFounded DEF OpToRel
<1> HIDE DEF less
<1>2. PICK n \in T : \A m \in T : ~ (<<m, n>> \in less)
  BY <1>1, WFMin
<1>3. ASSUME NEW m \in T PROVE n <= m
  <2>1. m \in Nat /\ n \in Nat
    OBVIOUS
  <2>2. m < n => <<m, n>> \in less
    BY <2>1 DEF less
  <2>. QED  BY <1>2, <2>1, <2>2
<1>. QED  BY <1>3

\* Patterns are looked up in the order of the queue.
LEMMA SomePattern ==
  ASSUME TypeOK, NEW h \in Handlers, ~Listed(h)
  PROVE  \E s \in Shards : NextPattern(h, s)
<1> DEFINE open == {i \in DOMAIN batch[h] : batch[h][i] \notin known[h]}
<1>1. batch[h] \in Seq(Shards) /\ DOMAIN batch[h] = 1..Len(batch[h]) /\ Len(batch[h]) \in Nat
  BY DEF TypeOK
<1>2. open # {} /\ open \in SUBSET Nat
  BY <1>1 DEF Listed
<1>3. PICK i \in open : \A j \in open : i <= j
  BY <1>2, LeastNat
<1>4. batch[h][i] \in Shards
  BY <1>1, <1>3
<1>5. \A j \in 1..(i - 1) : batch[h][j] \in known[h]
  BY <1>1, <1>3
<1>. QED  BY <1>3, <1>4, <1>5 DEF NextPattern

LEMMA CountedStep == TypeOK /\ Counted /\ [Next]_vars => Counted'
<1> SUFFICES ASSUME TypeOK, Counted, [Next]_vars PROVE Counted'
  OBVIOUS
<1> USE DEF TypeOK, Counted, Running, run
<1>1. ASSUME NEW h \in Handlers, NEW s \in Shards, Push(h, s) PROVE Counted'
  <2>1. CASE Len(events') = Limit
    BY <1>1, <2>1 DEF Push, BeginAttempt
  <2>2. CASE Len(events') # Limit
    BY <1>1, <2>2 DEF Push
  <2>. QED  BY <2>1, <2>2
<1>2. ASSUME NEW h \in Handlers, RunStep(h) PROVE Counted'
  <2>1. CASE Retry(h)
    <3>1. dpc[h] = "backoff" /\ attempt[h] \in 1..MaxAttempts
      BY <2>1 DEF Retry
    <3>2. attempt[h] + 1 \in 1..MaxAttempts
      BY <2>1, <3>1 DEF Retry
    <3>. QED  BY <2>1, <3>2 DEF Retry, BeginAttempt
  <2>2. CASE Clear(h) \/ GiveUp(h)
    BY <2>2 DEF Clear, GiveUp, EndRun
  <2>3. CASE ~Finish(h) \/ FailAttempt(h)
    <3>1. attempt' = attempt /\ \A g \in Handlers : Running(g)' => Running(g)
      BY <1>2, <2>3 DEF RunStep, ListPattern, DeleteAll, FailAttempt
    <3>. QED  BY <3>1
  <2>. QED  BY <2>1, <2>2, <2>3 DEF Finish
<1>3. ASSUME \/ \E k \in Keys : Fill(k)
             \/ \E K \in SUBSET Keys : Vanish(K)
             \/ Restart
      PROVE  Counted'
  BY <1>3 DEF Fill, Vanish, Restart
<1>4. CASE UNCHANGED vars
  BY <1>4 DEF vars
<1>. QED  BY <1>1, <1>2, <1>3, <1>4 DEF Next

\* Every step of a run is one of those left; steps of others take none away.
LEMMA OneStepLess ==
  ASSUME TypeOK, TypeOK', Counted, [Next]_vars, NEW h \in Handlers
  PROVE  /\ RunStep(h) => Running(h) /\ (Running(h)' => StepsLeft(h)' = StepsLeft(h) - 1)
         /\ Running(h) /\ ~RunStep(h) /\ ~Restart
            => Running(h)' /\ StepsLeft(h)' = StepsLeft(h)
<1> USE DEF TypeOK, Running, run
<1>1. ASSUME RunStep(h) PROVE Running(h)
  BY <1>1 DEF RunStep, ListPattern, DeleteAll, Finish, Clear, FailAttempt, Retry, GiveUp
<1>2. ASSUME RunStep(h), Running(h)' PROVE StepsLeft(h)' = StepsLeft(h) - 1
  <2>0. attempt[h] \in 1..MaxAttempts
    BY <1>1, <1>2 DEF Counted
  <2>1. IsFiniteSet(Shards \ known[h]) /\ Cardinality(Shards \ known[h]) \in Nat
    BY FS_Subset, FS_CardinalityType DEF FiniteAssumption
  <2>2. ASSUME NEW s \in Shards, NEW answered \in BOOLEAN, ListPattern(h, s, answered)
        PROVE  StepsLeft(h)' = StepsLeft(h) - 1
    <3>1. s \in Shards \ known[h] /\ known'[h] = known[h] \cup {s}
      BY <2>2 DEF ListPattern, NextPattern
    <3> DEFINE open == Shards \ known[h]
    <3>2. IsFiniteSet(open) /\ s \in open /\ Shards \ known'[h] = open \ {s}
      BY <2>1, <3>1
    <3> HIDE DEF open
    <3>3. Cardinality(open \ {s}) = Cardinality(open) - 1
      BY <3>2, FS_RemoveElement
    <3>4. Cardinality(Shards \ known'[h]) = Cardinality(Shards \ known[h]) - 1
      BY <3>2, <3>3 DEF open
    <3>5. dpc[h] = "list" /\ dpc' = dpc /\ attempt' = attempt
      BY <2>2 DEF ListPattern
    <3>. QED  BY <2>0, <2>1, <3>4, <3>5 DEF StepsLeft, Phase
  <2>3. ASSUME NEW done \in BOOLEAN, NEW answered \in BOOLEAN, DeleteAll(h, done, answered)
        PROVE  StepsLeft(h)' = StepsLeft(h) - 1
    <3>1. dpc[h] = "list" /\ dpc'[h] = "verdict" /\ attempt' = attempt /\ known' = known
      BY <2>3 DEF DeleteAll
    <3>. QED  BY <2>0, <2>1, <3>1 DEF StepsLeft, Phase
  <2>4. CASE FailAttempt(h)
    <3>1. dpc[h] = "verdict" /\ dpc'[h] = "backoff" /\ attempt' = attempt /\ known' = known
      BY <2>4 DEF FailAttempt
    <3>. QED  BY <2>0, <2>1, <3>1 DEF StepsLeft, Phase
  <2>5. CASE Retry(h)
    <3>1. /\ dpc[h] = "backoff" /\ dpc'[h] = "list" /\ known' = known
          /\ attempt'[h] = attempt[h] + 1
      BY <2>5 DEF Retry, BeginAttempt
    <3>. QED  BY <2>0, <2>1, <3>1 DEF StepsLeft, Phase
  <2>6. CASE Clear(h) \/ GiveUp(h)
    BY <1>2, <2>6 DEF Clear, GiveUp, EndRun
  <2>. QED  BY <1>2, <2>2, <2>3, <2>4, <2>5, <2>6 DEF RunStep, Finish
<1>3. ASSUME Running(h), ~RunStep(h), ~Restart PROVE Running(h)' /\ StepsLeft(h)' = StepsLeft(h)
  <2>1. dpc'[h] = dpc[h] /\ attempt'[h] = attempt[h] /\ known'[h] = known[h]
    <3>1. ASSUME NEW g \in Handlers, RunStep(g)
          PROVE  dpc'[h] = dpc[h] /\ attempt'[h] = attempt[h] /\ known'[h] = known[h]
      <4>1. g # h
        BY <1>3, <3>1
      <4>. QED
        BY <3>1, <4>1 DEF RunStep, ListPattern, DeleteAll, Finish, Clear, FailAttempt, Retry,
                          GiveUp, BeginAttempt, EndRun
    <3>2. ASSUME NEW g \in Handlers, NEW s \in Shards, Push(g, s)
          PROVE  dpc'[h] = dpc[h] /\ attempt'[h] = attempt[h] /\ known'[h] = known[h]
      <4>1. g # h
        BY <1>3, <3>2 DEF Push
      <4>. QED  BY <3>2, <4>1 DEF Push, BeginAttempt
    <3>. QED  BY <1>3, <3>1, <3>2 DEF Next, Fill, Vanish, vars
  <2>. QED  BY <1>3, <2>1 DEF StepsLeft
<1>. QED  BY <1>1, <1>2, <1>3

LEMMA GoingOn == TypeOK /\ Counted => RunsGoOn
<1> SUFFICES ASSUME TypeOK, Counted, NEW h \in Handlers, Running(h)
             PROVE  GoesOn(h) /\ StepsLeft(h) \in 1..(3 * MaxAttempts + Cardinality(Shards))
  BY DEF RunsGoOn
<1>1. attempt[h] \in 1..MaxAttempts /\ dpc[h] \in {"list", "verdict", "backoff"}
  BY DEF TypeOK, Counted, Running
<1>2. GoesOn(h)
  BY <1>1, SomePattern DEF GoesOn
<1>3. /\ Cardinality(Shards) \in Nat /\ Cardinality(Shards \ known[h]) \in Nat
      /\ Cardinality(Shards \ known[h]) <= Cardinality(Shards)
  BY FS_Subset, FS_CardinalityType DEF FiniteAssumption
<1>4. Phase[dpc[h]] \in 1..3
  BY <1>1 DEF Phase
<1>5. StepsLeft(h) \in 1..(3 * MaxAttempts + Cardinality(Shards))
  BY <1>1, <1>3, <1>4 DEF StepsLeft
<1>. QED  BY <1>2, <1>5

\* A request that processes the queue does so in a bounded number of steps, and
\* can always take the next one, whatever Redis answers and others append, as
\* long as the process runs: with weak fairness of those steps this is RunEnds,
\* for every limit and number of attempts.
THEOREM RunsAreBounded == Spec => []RunsGoOn /\ StepsCount
<1>1. Init => Counted
  BY DEF Init, QueueInit, Counted, Running
<1>2. ASSUME TypeOK, TypeOK', Counted, [Next]_vars
      PROVE  [\A h \in Handlers :
                /\ RunStep(h) => Running(h) /\ (Running(h)' => StepsLeft(h)' = StepsLeft(h) - 1)
                /\ Running(h) /\ ~RunStep(h) /\ ~Restart
                   => Running(h)' /\ StepsLeft(h)' = StepsLeft(h)]_vars
  BY <1>2, OneStepLess
<1>. QED
  BY <1>1, <1>2, CountedStep, GoingOn, TypeCorrect, PTL DEF Spec, StepsCount
=============================================================================

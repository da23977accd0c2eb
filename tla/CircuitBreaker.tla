--------------------------- MODULE CircuitBreaker ---------------------------
(***************************************************************************)
(* The circuit breaker in front of the Redis cache (circuitBreaker.ts).    *)
(* execute(operation) is given a promise: the command is on its way before *)
(* the state is looked at, so Refuse only refuses to wait for the reply.   *)
(* An admitted operation settles later, in whatever state the breaker is   *)
(* in by then.                                                             *)
(*                                                                         *)
(* Time is abstracted to quiet: whether more than the timeout has passed   *)
(* since the last failure.  failures is counted up to Threshold only: the  *)
(* code compares it with >= and resets it to 0, so more makes no difference*)
(***************************************************************************)
EXTENDS Integers

CONSTANTS
    Threshold,  \* failures that open the circuit (5 in CacheService)
    Ops         \* slots for operations that wait for Redis

ASSUME ThresholdAssumption == Threshold \in Nat \ {0}

VARIABLES
    state,      \* "CLOSED", "OPEN" or "HALF_OPEN"
    failures,   \* failures since the circuit was last closed
    quiet,      \* Date.now() - lastFailureTime > timeout
    inflight    \* admitted operations that have not settled

vars == <<state, failures, quiet, inflight>>

TypeOK ==
    /\ state \in {"CLOSED", "OPEN", "HALF_OPEN"}
    /\ failures \in 0..Threshold
    /\ quiet \in BOOLEAN
    /\ inflight \subseteq Ops

\* lastFailureTime is 0: the timeout has passed.
Init ==
    /\ state = "CLOSED"
    /\ failures = 0
    /\ quiet = TRUE
    /\ inflight = {}

\* Mutant of Admit: operations pass after the timeout, the state stays.
AdmitOnly(o) ==
    /\ o \notin inflight
    /\ state = "OPEN" => quiet
    /\ inflight' = inflight \cup {o}
    /\ UNCHANGED <<state, failures, quiet>>

\* An open circuit lets operations through again after the timeout.
Admit(o) ==
    /\ o \notin inflight
    /\ state = "OPEN" => quiet
    /\ state' = IF state = "OPEN" THEN "HALF_OPEN" ELSE state
    /\ inflight' = inflight \cup {o}
    /\ UNCHANGED <<failures, quiet>>

\* "Circuit is OPEN".
Refuse(o) ==
    /\ o \notin inflight
    /\ state = "OPEN" /\ ~quiet
    /\ UNCHANGED vars

\* Mutant of Succeed: the count is kept.
SucceedKeepCount(o) ==
    /\ o \in inflight
    /\ inflight' = inflight \ {o}
    /\ state' = IF state = "HALF_OPEN" THEN "CLOSED" ELSE state
    /\ UNCHANGED <<failures, quiet>>

\* The first success of a half-open circuit closes it, whenever the operation
\* was admitted.  A success of a closed circuit forgets no failure.
Succeed(o) ==
    /\ o \in inflight
    /\ inflight' = inflight \ {o}
    /\ IF state = "HALF_OPEN"
       THEN state' = "CLOSED" /\ failures' = 0
       ELSE UNCHANGED <<state, failures>>
    /\ UNCHANGED quiet

Fail(o) ==
    /\ o \in inflight
    /\ inflight' = inflight \ {o}
    /\ failures' = IF failures < Threshold THEN failures + 1 ELSE failures
    /\ state' = IF failures + 1 >= Threshold THEN "OPEN" ELSE state
    /\ quiet' = FALSE

TimeoutPasses ==
    /\ ~quiet
    /\ quiet' = TRUE
    /\ UNCHANGED <<state, failures, inflight>>

\* The process exits and starts again: nobody waits for a reply any more.
Restart ==
    /\ state' = "CLOSED"
    /\ failures' = 0
    /\ quiet' = TRUE
    /\ inflight' = {}

Next ==
    \/ \E o \in Ops : Admit(o) \/ Refuse(o) \/ Succeed(o) \/ Fail(o)
    \/ TimeoutPasses \/ Restart

Spec == Init /\ [][Next]_vars

(***************************************************************************)
(* The circuit is closed exactly while fewer than Threshold failures were  *)
(* counted since it was last closed: late settlements of operations that   *)
(* were admitted in another state keep state and failures in step.         *)
(***************************************************************************)
TripConsistent == state = "CLOSED" <=> failures < Threshold

(***************************************************************************)
(* If Redis recovers, so that from some time on no operation fails, the    *)
(* circuit closes and stays closed, whatever state the faults left it in.  *)
(***************************************************************************)
Recovers == (<>[][\A o \in Ops : ~Fail(o)]_vars) => <>[](state = "CLOSED")
=============================================================================

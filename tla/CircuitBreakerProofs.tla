------------------------ MODULE CircuitBreakerProofs ------------------------
(***************************************************************************)
(* Proofs about the circuit breaker, for every threshold and any number of *)
(* concurrent operations, and about the assistant that uses it.            *)
(***************************************************************************)
EXTENDS Assistant, TLAPS

USE ThresholdAssumption

\* The invariant that is inductive: a circuit that is not closed has counted
\* Threshold failures, so one more opens it again.
BreakerInv == TypeOK /\ TripConsistent

LEMMA BreakerStep ==
  ASSUME BreakerInv, Next
  PROVE  BreakerInv'
<1> USE DEF BreakerInv, TypeOK, TripConsistent
<1>1. ASSUME NEW o \in Ops, Admit(o) PROVE BreakerInv'
  BY <1>1 DEF Admit
<1>2. ASSUME NEW o \in Ops, Refuse(o) PROVE BreakerInv'
  BY <1>2 DEF Refuse, vars
<1>3. ASSUME NEW o \in Ops, Succeed(o) PROVE BreakerInv'
  <2>1. CASE state = "HALF_OPEN"  BY <1>3, <2>1 DEF Succeed
  <2>2. CASE state # "HALF_OPEN"  BY <1>3, <2>2 DEF Succeed
  <2>. QED  BY <2>1, <2>2
<1>4. ASSUME NEW o \in Ops, Fail(o) PROVE BreakerInv'
  <2>1. failures' \in 0..Threshold /\ (failures' < Threshold <=> failures + 1 < Threshold)
    BY <1>4 DEF Fail
  <2>2. state' \in {"CLOSED", "OPEN", "HALF_OPEN"} /\ inflight' \subseteq Ops
    BY <1>4 DEF Fail
  <2>3. quiet' \in BOOLEAN
    BY <1>4, Zenon DEF Fail
  <2>4. state' = "CLOSED" <=> failures + 1 < Threshold
    BY <1>4 DEF Fail
  <2>. QED  BY <2>1, <2>2, <2>3, <2>4
<1>5. CASE TimeoutPasses
  BY <1>5 DEF TimeoutPasses
<1>6. CASE Restart
  BY <1>6 DEF Restart
<1>. QED  BY <1>1, <1>2, <1>3, <1>4, <1>5, <1>6 DEF Next

LEMMA BreakerInvariant == Spec => []BreakerInv
<1>1. Init => BreakerInv
  BY DEF Init, BreakerInv, TypeOK, TripConsistent
<1>2. BreakerInv /\ [Next]_vars => BreakerInv'
  <2>1. CASE UNCHANGED vars
    BY <2>1 DEF vars, BreakerInv, TypeOK, TripConsistent
  <2>. QED  BY <2>1, BreakerStep
<1>. QED  BY <1>1, <1>2, PTL DEF Spec

\* The counter that stands for the code's unbounded one stays in 0..Threshold.
THEOREM TypeCorrect == Spec => []TypeOK
<1>1. BreakerInv => TypeOK
  BY DEF BreakerInv
<1>. QED  BY <1>1, BreakerInvariant, PTL

\* In every interleaving of settlements the circuit is closed exactly while
\* fewer than Threshold failures were counted since it was last closed.
THEOREM TripConsistentHolds == Spec => []TripConsistent
<1>1. BreakerInv => TripConsistent
  BY DEF BreakerInv
<1>. QED  BY <1>1, BreakerInvariant, PTL

-----------------------------------------------------------------------------
\* The assistant.

LEMMA CallType ==
    ASSUME AssistantTypeOK, NEW o \in Ops, NEW done \in BOOLEAN, NEW answered, Call(o, done, answered)
    PROVE  /\ Next
           /\ fate' \in [Ops -> BOOLEAN]
           /\ inflight' \subseteq inflight \cup {o}
<1>1. CASE Admit(o) /\ fate' = [fate EXCEPT ![o] = done]
  <2>1. inflight' = inflight \cup {o}
    BY <1>1 DEF Admit
  <2> QED
    BY <1>1, <2>1 DEF Next, AssistantTypeOK
<1>2. CASE Refuse(o) /\ UNCHANGED fate
  BY <1>2 DEF Refuse, Next, AssistantTypeOK, vars
<1> QED
  BY <1>1, <1>2 DEF Call

\* Every step of the assistant is a step of the breaker or leaves it alone.
LEMMA AssistantStepsBreaker == AssistantTypeOK /\ [AssistantNext]_assistantVars => [Next]_vars
<1> SUFFICES ASSUME AssistantTypeOK, [AssistantNext]_assistantVars PROVE [Next]_vars
  OBVIOUS
<1>1. ASSUME UNCHANGED breaker PROVE UNCHANGED vars
  BY <1>1 DEF breaker, vars
<1>2. ASSUME NEW o \in Ops, Proceed(o) PROVE [Next]_vars
  <2>1. ASSUME NEW done \in BOOLEAN, Get(o, done) PROVE Next
    BY <2>1, CallType DEF Get
  <2>2. ASSUME NEW done \in BOOLEAN, NEW parsed \in BOOLEAN, Fetch(o, parsed, done) PROVE Next
    BY <2>2, CallType DEF Fetch
  <2>3. CASE Settle(o)
    BY <2>3 DEF Settle, Next
  <2>4. CASE Hit(o) \/ FetchFails(o) \/ Answer(o) \/ AnswerRooms(o)
    BY <1>1, <2>4 DEF Hit, FetchFails, Answer, AnswerRooms
  <2> QED
    BY <1>2, <2>1, <2>2, <2>3, <2>4 DEF Proceed
<1>3. ASSUME NEW o \in Ops, AskInVain(o) \/ ListInVain(o) \/ \E q \in Queries : Ask(o, q) PROVE [Next]_vars
  BY <1>1, <1>3 DEF AskInVain, ListInVain, Ask, assistantVars
<1>7. ASSUME NEW o \in Ops, NEW done \in BOOLEAN, ListRooms(o, done) PROVE [Next]_vars
  BY <1>7, CallType DEF ListRooms, StoreRooms
<1>4. ASSUME ChangeFiles \/ \E k \in Keys : Expire(k) PROVE [Next]_vars
  BY <1>1, <1>4 DEF ChangeFiles, Expire
<1>5. CASE Elapse
  BY <1>5 DEF Elapse, Next
<1>6. CASE UNCHANGED assistantVars
  BY <1>1, <1>6 DEF assistantVars
<1>8. CASE RestartServer
  BY <1>8 DEF RestartServer, Next
<1> QED
  BY <1>2, <1>3, <1>4, <1>5, <1>6, <1>7, <1>8 DEF AssistantNext

\* The invariant: types, and entries that fit their keys.
EntriesFit ==
    \A k \in Keys : entry[k] # Nothing => entry[k].files = k[1] /\ entry[k].query = k[2]

\* Replies are kept only from GET or OpenAI to the answer.
RepliesInUse == \A o \in Ops : at[o] \in {"idle", "read", "rooms"} => reply[o] = Nothing

AssistantInv == AssistantTypeOK /\ BreakerInv /\ EntriesFit /\ RepliesInUse /\ AnswerFits

\* What concerns one request.
RequestOK(o) ==
    /\ at[o] \notin {"idle", "rooms"} => read[o] \in Contents /\ asked[o] \in Queries
    /\ o \in inflight => at[o] \in {"get", "set", "rooms"}
    /\ at[o] \in {"idle", "read", "rooms"} => reply[o] = Nothing
    /\ reply[o] # Nothing => reply[o].files = read[o] /\ reply[o].query = asked[o]

Data ==
    /\ files \in Contents \cup {Nothing}
    /\ entry \in [Keys -> Replies \cup {Nothing}]
    /\ at \in [Ops -> {"idle", "read", "get", "set", "rooms"}]
    /\ read \in [Ops -> Contents \cup {Nothing}]
    /\ asked \in [Ops -> Queries \cup {Nothing}]
    /\ reply \in [Ops -> Replies \cup {Nothing}]
    /\ fate \in [Ops -> BOOLEAN]
    /\ EntriesFit

LEMMA InvParts == AssistantInv <=> BreakerInv /\ Data /\ \A o \in Ops : RequestOK(o)
BY DEF AssistantInv, AssistantTypeOK, RepliesInUse, AnswerFits, Data, RequestOK, BreakerInv

LEMMA RespondOK ==
    ASSUME Data, NEW o \in Ops, o \notin inflight, Respond(o), UNCHANGED <<files, entry, breaker>>,
           \A p \in Ops : RequestOK(p)
    PROVE  Data' /\ \A p \in Ops : RequestOK(p)'
<1>1. Data'
  BY DEF Respond, Data, EntriesFit, breaker
<1>2. ASSUME NEW p \in Ops PROVE RequestOK(p)'
  <2>1. CASE p = o
    BY <2>1 DEF Respond, Data, RequestOK, breaker
  <2>2. CASE p # o
    BY <2>2 DEF Respond, Data, RequestOK, breaker
  <2> QED
    BY <2>1, <2>2
<1> QED
  BY <1>1, <1>2

LEMMA AssistantStep ==
    ASSUME AssistantInv, AssistantNext
    PROVE  Data' /\ \A p \in Ops : RequestOK(p)'
<1> USE InvParts
<1>0. BreakerInv /\ Data /\ (\A p \in Ops : RequestOK(p)) /\ AssistantTypeOK
  BY DEF AssistantInv
<1>1. ASSUME NEW o \in Ops, NEW q \in Queries, Ask(o, q)
      PROVE  Data' /\ \A p \in Ops : RequestOK(p)'
  <2>1. Data'
    BY <1>0, <1>1 DEF Ask, Data, EntriesFit, breaker
  <2>2. ASSUME NEW p \in Ops PROVE RequestOK(p)'
    <3>1. CASE p = o
      BY <1>0, <1>1, <3>1 DEF Ask, Data, RequestOK, breaker
    <3>2. CASE p # o
      BY <1>0, <1>1, <3>2 DEF Ask, Data, RequestOK, breaker
    <3> QED
      BY <3>1, <3>2
  <2> QED
    BY <2>1, <2>2
<1>2. ASSUME NEW o \in Ops, NEW done \in BOOLEAN, Get(o, done)
      PROVE  Data' /\ \A p \in Ops : RequestOK(p)'
  <2>1. PICK answered \in BOOLEAN :
            /\ Call(o, done, answered)
            /\ reply' = [reply EXCEPT ![o] = IF answered THEN entry[Key(o)] ELSE Nothing]
    BY <1>2 DEF Get
  <2>2. at[o] = "read" /\ at' = [at EXCEPT ![o] = "get"] /\ UNCHANGED <<files, entry, read, asked>>
    BY <1>2 DEF Get
  <2>3. fate' \in [Ops -> BOOLEAN] /\ inflight' \subseteq inflight \cup {o}
    BY <1>0, <2>1, CallType
  <2>4. read[o] \in Contents /\ asked[o] \in Queries
    BY <1>0, <2>2 DEF RequestOK
  <2>5. /\ Key(o) \in Keys
        /\ entry[Key(o)] # Nothing =>
              entry[Key(o)].files = read[o] /\ entry[Key(o)].query = asked[o]
    BY <1>0, <2>4 DEF Key, Keys, Data, EntriesFit
  <2>6. entry[Key(o)] \in Replies \cup {Nothing}
    BY <1>0, <2>5 DEF Data
  <2>7. Data'
    BY <1>0, <2>1, <2>2, <2>3, <2>6 DEF Data, EntriesFit
  <2>8. ASSUME NEW p \in Ops PROVE RequestOK(p)'
    <3>1. CASE p = o
      BY <1>0, <2>1, <2>2, <2>3, <2>4, <2>5, <3>1 DEF Data, RequestOK
    <3>2. CASE p # o
      BY <1>0, <2>1, <2>2, <2>3, <3>2 DEF Data, RequestOK
    <3> QED
      BY <3>1, <3>2
  <2> QED
    BY <2>7, <2>8
<1>3. ASSUME NEW o \in Ops, NEW done \in BOOLEAN, NEW parsed \in BOOLEAN, Fetch(o, parsed, done)
      PROVE  Data' /\ \A p \in Ops : RequestOK(p)'
  <2> DEFINE r == [files |-> read[o], query |-> asked[o], parsed |-> parsed]
  <2>1. /\ at[o] = "get" /\ at' = [at EXCEPT ![o] = "set"]
        /\ reply' = [reply EXCEPT ![o] = r]
        /\ UNCHANGED <<files, read, asked>>
        /\ entry' = IF done THEN [entry EXCEPT ![Key(o)] = reply'[o]] ELSE entry
    BY <1>3 DEF Fetch
  <2>2. fate' \in [Ops -> BOOLEAN] /\ inflight' \subseteq inflight \cup {o}
    BY <1>0, <1>3, CallType DEF Fetch
  <2>3. read[o] \in Contents /\ asked[o] \in Queries
    BY <1>0, <2>1 DEF RequestOK
  <2>4. r \in Replies /\ r.files = read[o] /\ r.query = asked[o]
    BY <2>3 DEF Replies
  <2> HIDE DEF r
  <2>5. reply'[o] = r
    BY <1>0, <2>1 DEF Data
  <2>6. Key(o) \in Keys /\ Key(o)[1] = read[o] /\ Key(o)[2] = asked[o]
    BY <2>3 DEF Key, Keys
  <2>7. entry' \in [Keys -> Replies \cup {Nothing}] /\ EntriesFit'
    <3>1. CASE ~done
      BY <1>0, <2>1, <3>1 DEF Data, EntriesFit
    <3>2. CASE done
      <4>1. entry' = [entry EXCEPT ![Key(o)] = r]
        BY <2>1, <2>5, <3>2
      <4> QED
        BY <1>0, <2>4, <2>6, <4>1 DEF Data, EntriesFit
    <3> QED
      BY <3>1, <3>2
  <2>8. Data'
    BY <1>0, <2>1, <2>2, <2>4, <2>7 DEF Data
  <2>9. ASSUME NEW p \in Ops PROVE RequestOK(p)'
    <3>1. CASE p = o
      BY <1>0, <2>1, <2>2, <2>3, <2>4, <2>5, <3>1 DEF Data, RequestOK
    <3>2. CASE p # o
      BY <1>0, <2>1, <2>2, <3>2 DEF Data, RequestOK
    <3> QED
      BY <3>1, <3>2
  <2> QED
    BY <2>8, <2>9
<1>4. ASSUME NEW o \in Ops, Settle(o)
      PROVE  Data' /\ \A p \in Ops : RequestOK(p)'
  <2>1. inflight' = inflight \ {o} /\ UNCHANGED <<files, entry, request>>
    BY <1>4 DEF Settle, Succeed, Fail
  <2>2. fate' \in [Ops -> BOOLEAN]
    BY <1>0, <1>4 DEF Settle, Data
  <2> QED
    BY <1>0, <2>1, <2>2 DEF Data, EntriesFit, RequestOK, request
<1>5. ASSUME NEW o \in Ops, Hit(o) \/ FetchFails(o) \/ Answer(o) \/ AnswerRooms(o)
      PROVE  Data' /\ \A p \in Ops : RequestOK(p)'
  BY <1>0, <1>5, RespondOK DEF Hit, FetchFails, Answer, AnswerRooms
<1>11. ASSUME NEW o \in Ops, NEW done \in BOOLEAN, ListRooms(o, done)
       PROVE  Data' /\ \A p \in Ops : RequestOK(p)'
  <2>1. PICK answered \in BOOLEAN : Call(o, done, answered)
    BY <1>11 DEF ListRooms, StoreRooms
  <2>2. /\ at[o] = "idle" /\ at' = [at EXCEPT ![o] = "rooms"]
        /\ UNCHANGED <<files, entry, read, asked, reply>>
    BY <1>11 DEF ListRooms
  <2>3. fate' \in [Ops -> BOOLEAN] /\ inflight' \subseteq inflight \cup {o}
    BY <1>0, <2>1, CallType
  <2>4. Data'
    BY <1>0, <2>2, <2>3 DEF Data, EntriesFit
  <2>5. ASSUME NEW p \in Ops PROVE RequestOK(p)'
    <3>1. CASE p = o
      BY <1>0, <2>2, <2>3, <3>1 DEF Data, RequestOK
    <3>2. CASE p # o
      BY <1>0, <2>2, <2>3, <3>2 DEF Data, RequestOK
    <3> QED
      BY <3>1, <3>2
  <2> QED
    BY <2>4, <2>5
<1>6. ASSUME UNCHANGED <<request, fate, inflight>>, Data'
      PROVE  Data' /\ \A p \in Ops : RequestOK(p)'
  BY <1>0, <1>6 DEF request, RequestOK
<1>7. CASE ChangeFiles
  <2>1. Data'
    BY <1>0, <1>7 DEF ChangeFiles, Data, EntriesFit, request, breaker
  <2> QED
    BY <1>6, <1>7, <2>1 DEF ChangeFiles, breaker
<1>8. ASSUME NEW k \in Keys, Expire(k)
      PROVE  Data' /\ \A p \in Ops : RequestOK(p)'
  <2>1. Data'
    BY <1>0, <1>8 DEF Expire, Data, EntriesFit, request, breaker
  <2> QED
    BY <1>6, <1>8, <2>1 DEF Expire, breaker
<1>9. CASE Elapse
  <2>1. UNCHANGED <<files, entry, request, fate, inflight>>
    BY <1>9 DEF Elapse, TimeoutPasses
  <2>2. Data'
    BY <1>0, <2>1 DEF Data, EntriesFit, request
  <2> QED
    BY <1>6, <2>1, <2>2
<1>10. ASSUME NEW o \in Ops, AskInVain(o) \/ ListInVain(o)
       PROVE  Data' /\ \A p \in Ops : RequestOK(p)'
  <2>1. UNCHANGED <<files, entry, request, fate, inflight>>
    BY <1>10 DEF AskInVain, ListInVain, assistantVars, breaker
  <2>2. Data'
    BY <1>0, <2>1 DEF Data, EntriesFit, request
  <2> QED
    BY <1>6, <2>1, <2>2
<1>12. CASE RestartServer
  BY <1>0, <1>12 DEF RestartServer, Restart, Data, EntriesFit, RequestOK
<1> QED
  BY <1>1, <1>2, <1>3, <1>4, <1>5, <1>7, <1>8, <1>9, <1>10, <1>11, <1>12
     DEF AssistantNext, Proceed

LEMMA AssistantInvariant == AssistantSpec => []AssistantInv
<1>1. AssistantInit => AssistantInv
  BY DEF AssistantInit, Init, AssistantInv, BreakerInv, TypeOK, TripConsistent, AssistantTypeOK,
         EntriesFit, RepliesInUse, AnswerFits
<1>2. AssistantInv /\ [AssistantNext]_assistantVars => AssistantInv'
  <2> SUFFICES ASSUME AssistantInv, [AssistantNext]_assistantVars PROVE AssistantInv'
    OBVIOUS
  <2>1. BreakerInv'
    <3>1. [Next]_vars
      BY AssistantStepsBreaker DEF AssistantInv
    <3>2. CASE Next
      BY <3>2, BreakerStep DEF AssistantInv
    <3>3. CASE UNCHANGED vars
      BY <3>3 DEF vars, AssistantInv, BreakerInv, TypeOK, TripConsistent
    <3> QED
      BY <3>1, <3>2, <3>3
  <2>2. Data' /\ \A p \in Ops : RequestOK(p)'
    <3>1. CASE UNCHANGED assistantVars
      <4>1. UNCHANGED <<files, entry, at, read, asked, reply, fate, inflight>>
        BY <3>1 DEF assistantVars, request, breaker
      <4>2. Data /\ \A p \in Ops : RequestOK(p)
        BY InvParts
      <4> QED
        BY <4>1, <4>2 DEF Data, EntriesFit, RequestOK
    <3> QED
      BY <3>1, AssistantStep
  <2> QED
    BY <2>1, <2>2 DEF AssistantInv, AssistantTypeOK, RepliesInUse, AnswerFits, Data, RequestOK,
                      BreakerInv
<1> QED
  BY <1>1, <1>2, PTL DEF AssistantSpec

(***************************************************************************)
(* The assistant's steps and everything that waits for Redis keep their    *)
(* types: no request ends while the breaker waits for one of its commands. *)
(***************************************************************************)
THEOREM AssistantTypeCorrect == AssistantSpec => []AssistantTypeOK
<1>1. AssistantInv => AssistantTypeOK
  BY DEF AssistantInv
<1> QED
  BY <1>1, AssistantInvariant, PTL

(***************************************************************************)
(* Whatever happens to the files and the cache, a reply is only used for   *)
(* the files that the request has read and its question.                   *)
(***************************************************************************)
THEOREM AnswerFitsHolds == AssistantSpec => []AnswerFits
<1>1. AssistantInv => AnswerFits
  BY DEF AssistantInv
<1> QED
  BY <1>1, AssistantInvariant, PTL

(***************************************************************************)
(* The assistant uses the breaker as its specification says, so what is    *)
(* proved of the breaker holds of it here, too.                            *)
(***************************************************************************)
THEOREM AssistantUsesBreaker == AssistantSpec => Spec
<1>1. AssistantInit => Init
  BY DEF AssistantInit
<1>2. AssistantInv /\ [AssistantNext]_assistantVars => [Next]_vars
  BY AssistantStepsBreaker DEF AssistantInv
<1> QED
  BY <1>1, <1>2, AssistantInvariant, PTL DEF AssistantSpec, Spec

(***************************************************************************)
(* A request is answered after at most five steps: GET, its settlement,    *)
(* OpenAI with SET, its settlement, and the answer.  A restart of the      *)
(* process ends it at once.                                                *)
(***************************************************************************)
Phase == [idle |-> 0, rooms |-> 1, set |-> 1, get |-> 3, read |-> 5]

StepsLeft(o) == Phase[at[o]] + (IF o \in inflight THEN 1 ELSE 0)

StepsBounded ==
    \A o \in Ops : StepsLeft(o) \in 0..5 /\ (StepsLeft(o) = 0 <=> at[o] = "idle")

StepsCount ==
    [][\A o \in Ops :
         /\ Proceed(o) => StepsLeft(o)' < StepsLeft(o)
         /\ RestartServer => StepsLeft(o)' = 0
         /\ at[o] # "idle" /\ ~Proceed(o) /\ ~RestartServer
            => at'[o] = at[o] /\ StepsLeft(o)' = StepsLeft(o)]_assistantVars

LEMMA CallWaits ==
    ASSUME NEW o \in Ops, NEW done \in BOOLEAN, NEW answered, Call(o, done, answered)
    PROVE  o \notin inflight /\ inflight' \subseteq inflight \cup {o} /\ inflight \subseteq inflight'
BY DEF Call, Admit, Refuse, vars

LEMMA OwnStep ==
    ASSUME AssistantTypeOK, NEW o \in Ops, Proceed(o)
    PROVE  StepsLeft(o)' < StepsLeft(o)
<1> USE DEF StepsLeft, Phase
<1>1. at \in [Ops -> {"idle", "read", "get", "set", "rooms"}]
      /\ (o \in inflight => at[o] \in {"get", "set", "rooms"})
  BY DEF AssistantTypeOK
<1>2. ASSUME NEW done \in BOOLEAN, Get(o, done) PROVE StepsLeft(o)' < StepsLeft(o)
  <2>1. at[o] = "read" /\ at'[o] = "get" /\ o \notin inflight
    BY <1>1, <1>2 DEF Get
  <2> QED
    BY <2>1
<1>3. ASSUME NEW done \in BOOLEAN, NEW parsed \in BOOLEAN, Fetch(o, parsed, done)
      PROVE  StepsLeft(o)' < StepsLeft(o)
  <2>1. at[o] = "get" /\ at'[o] = "set" /\ o \notin inflight
    BY <1>1, <1>3 DEF Fetch
  <2> QED
    BY <2>1
<1>4. CASE Settle(o)
  <2>1. o \in inflight /\ o \notin inflight' /\ at' = at
    BY <1>4 DEF Settle, Succeed, Fail, request
  <2>2. Phase[at[o]] \in 0..5
    BY <1>1
  <2> HIDE DEF Phase
  <2> QED
    BY <2>1, <2>2
<1>5. CASE Hit(o) \/ FetchFails(o) \/ Answer(o) \/ AnswerRooms(o)
  <2>1. at'[o] = "idle" /\ at[o] # "idle" /\ o \notin inflight /\ inflight' = inflight
    BY <1>1, <1>5 DEF Hit, FetchFails, Answer, AnswerRooms, Respond, breaker
  <2> QED
    BY <1>1, <2>1
<1> QED
  BY <1>2, <1>3, <1>4, <1>5 DEF Proceed

LEMMA OthersStep ==
    ASSUME AssistantTypeOK, [AssistantNext]_assistantVars, NEW o \in Ops, at[o] # "idle",
           ~Proceed(o), ~RestartServer
    PROVE  at'[o] = at[o] /\ StepsLeft(o)' = StepsLeft(o)
<1> SUFFICES at'[o] = at[o] /\ (o \in inflight' <=> o \in inflight)
  BY DEF StepsLeft
<1>1. at \in [Ops -> {"idle", "read", "get", "set", "rooms"}]
  BY DEF AssistantTypeOK
<1>2. ASSUME NEW p \in Ops, p # o, Proceed(p)
      PROVE  at'[o] = at[o] /\ (o \in inflight' <=> o \in inflight)
  <2>1. ASSUME NEW done \in BOOLEAN,
               Get(p, done) \/ \E parsed \in BOOLEAN : Fetch(p, parsed, done)
        PROVE  at'[o] = at[o] /\ (o \in inflight' <=> o \in inflight)
    BY <1>1, <1>2, <2>1, CallWaits DEF Get, Fetch
  <2>2. CASE Settle(p)
    BY <1>2, <2>2 DEF Settle, Succeed, Fail, request
  <2>3. CASE Hit(p) \/ FetchFails(p) \/ Answer(p) \/ AnswerRooms(p)
    BY <1>1, <1>2, <2>3 DEF Hit, FetchFails, Answer, AnswerRooms, Respond, breaker
  <2> QED
    BY <1>2, <2>1, <2>2, <2>3 DEF Proceed
<1>3. ASSUME NEW p \in Ops, NEW q \in Queries, Ask(p, q)
      PROVE  at'[o] = at[o] /\ (o \in inflight' <=> o \in inflight)
  BY <1>1, <1>3 DEF Ask, breaker
<1>4. ASSUME NEW p \in Ops, NEW done \in BOOLEAN, ListRooms(p, done)
      PROVE  at'[o] = at[o] /\ (o \in inflight' <=> o \in inflight)
  <2>1. p # o
    BY <1>4 DEF ListRooms
  <2> QED
    BY <1>1, <1>4, <2>1, CallWaits DEF ListRooms, StoreRooms
<1>5. ASSUME \/ \E p \in Ops : AskInVain(p) \/ ListInVain(p)
             \/ \E k \in Keys : Expire(k)
             \/ ChangeFiles \/ Elapse \/ UNCHANGED assistantVars
      PROVE  at'[o] = at[o] /\ (o \in inflight' <=> o \in inflight)
  BY <1>5 DEF AskInVain, ListInVain, Expire, ChangeFiles, Elapse, TimeoutPasses,
              assistantVars, request, breaker
<1> QED
  BY <1>2, <1>3, <1>4, <1>5 DEF AssistantNext

\* Questions and lists of rooms are answered after at most five steps of their
\* own, whatever state the circuit is in and whatever others do, unless the
\* process exits: with weak fairness of those steps this is Answered.
THEOREM AnswersAreBounded == AssistantSpec => []StepsBounded /\ StepsCount
<1>1. AssistantInv => StepsBounded
  <2> SUFFICES ASSUME AssistantInv, NEW o \in Ops
               PROVE  StepsLeft(o) \in 0..5 /\ (StepsLeft(o) = 0 <=> at[o] = "idle")
    BY DEF StepsBounded
  <2>1. at[o] \in {"idle", "read", "get", "set", "rooms"}
        /\ (o \in inflight => at[o] \in {"get", "set", "rooms"})
    BY DEF AssistantInv, AssistantTypeOK
  <2> QED
    BY <2>1 DEF StepsLeft, Phase
<1>2. ASSUME AssistantInv, [AssistantNext]_assistantVars
      PROVE  [\A o \in Ops :
                /\ Proceed(o) => StepsLeft(o)' < StepsLeft(o)
                /\ RestartServer => StepsLeft(o)' = 0
                /\ at[o] # "idle" /\ ~Proceed(o) /\ ~RestartServer
                   => at'[o] = at[o] /\ StepsLeft(o)' = StepsLeft(o)]_assistantVars
  <2>1. ASSUME NEW o \in Ops, RestartServer PROVE StepsLeft(o)' = 0
    BY <2>1 DEF RestartServer, Restart, StepsLeft, Phase
  <2> QED
    BY <1>2, <2>1, OwnStep, OthersStep DEF AssistantInv
<1> QED
  BY <1>1, <1>2, AssistantInvariant, PTL DEF AssistantSpec, StepsCount
=============================================================================

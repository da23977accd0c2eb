------------------------- MODULE RoomPresenceProofs -------------------------
(***************************************************************************)
(* Proofs, for any number of users, rooms, sockets and handlers, of the    *)
(* invariants of RoomPresence.                                             *)
(***************************************************************************)
EXTENDS RoomPresenceProps, TLAPS

USE OwnerAssumption, NoRoomAssumption, NoSocketAssumption

(***************************************************************************)
(* Type correctness.                                                       *)
(***************************************************************************)
LEMMA TypeInit == Init => TypeOK
BY DEF Init, TypeOK, Points

LEMMA TypeStep ==
  ASSUME NEW ok \in BOOLEAN, TypeOK, Step(ok)
  PROVE  TypeOK'
<1> USE DEF TypeOK, Points, index, task, history, Close, End, Tear, Subscribe, UserOf
<1>1. ASSUME NEW s \in Sockets, SocketStep(s) PROVE TypeOK'
  BY <1>1 DEF SocketStep, Connect, Authenticate, Refuse, DropUnattended
<1>2. ASSUME NEW s \in Sockets, DropUnlisted(s, ok) PROVE TypeOK'
  BY <1>2 DEF DropUnlisted, Get
<1>3. ASSUME NEW t \in Tasks, JoinStep(t, ok) PROVE TypeOK'
  <2>1. CASE JoinSkip(t)  BY <2>1 DEF JoinSkip
  <2>2. CASE JoinAdmit(t, ok)  BY <2>2 DEF JoinAdmit, Set
  <2>3. CASE JoinAdd(t, ok)  BY <2>3 DEF JoinAdd, SAdd
  <2>. QED  BY <1>3, <2>1, <2>2, <2>3 DEF JoinStep
<1>4. ASSUME NEW t \in Tasks, LeaveStep(t, ok) PROVE TypeOK'
  <2>1. CASE LeaveRemove(t, ok)  BY <2>1 DEF LeaveRemove, SRem
  <2>2. CASE LeaveForget(t, ok)  BY <2>2 DEF LeaveForget, Del
  <2>. QED  BY <1>4, <2>1, <2>2 DEF LeaveStep
<1>5. ASSUME NEW t \in Tasks, NEW s \in Sockets, DropListed(t, s) PROVE TypeOK'
  BY <1>5 DEF DropListed, Get
<1>6. ASSUME NEW t \in Tasks, NEW s \in Sockets, NEW r \in Rooms,
             JoinRead(t, s, r, ok)
      PROVE  TypeOK'
  BY <1>6 DEF JoinRead, Get
<1>. QED  BY <1>1, <1>2, <1>3, <1>4, <1>5, <1>6 DEF Step

LEMMA TypeNext == TypeOK /\ [Next]_vars => TypeOK'
<1>1. CASE UNCHANGED vars
  BY <1>1 DEF vars, TypeOK
<1>2. ASSUME TypeOK, Restart PROVE TypeOK'
  BY <1>2 DEF TypeOK, Points, Restart, Between, UserOf, index
<1>. QED  BY <1>1, <1>2, TypeStep DEF Next

\* Every behaviour of the sockets and their handlers, faults and restarts
\* included, keeps the types: a handler that waits has a socket and a room.
THEOREM TypeCorrect == Spec => []TypeOK
BY TypeInit, TypeNext, PTL DEF Spec

(***************************************************************************)
(* A fact that the proofs below rest on: socket.io admits no closed socket *)
(* to a room and empties the rooms of one that closes (Subscribe, Close).  *)
(***************************************************************************)
NoDeadSubscription == \A s \in Sockets : conn[s] # "up" => sioRooms[s] = {}

LEMMA NoDeadStep ==
  ASSUME NEW ok \in BOOLEAN, TypeOK, NoDeadSubscription, Step(ok)
  PROVE  NoDeadSubscription'
<1> USE DEF TypeOK, NoDeadSubscription, index, task, history, Close, Subscribe
<1>1. ASSUME NEW s \in Sockets, SocketStep(s) PROVE NoDeadSubscription'
  BY <1>1 DEF SocketStep, Connect, Authenticate, Refuse, DropUnattended
<1>2. ASSUME NEW s \in Sockets, DropUnlisted(s, ok) PROVE NoDeadSubscription'
  BY <1>2 DEF DropUnlisted, Get
<1>3. ASSUME NEW t \in Tasks, JoinStep(t, ok) PROVE NoDeadSubscription'
  BY <1>3 DEF JoinStep, JoinSkip, JoinAdmit, JoinAdd, Set, SAdd
<1>4. ASSUME NEW t \in Tasks, LeaveStep(t, ok) PROVE NoDeadSubscription'
  BY <1>4 DEF LeaveStep, LeaveRemove, LeaveForget, SRem, Del
<1>5. ASSUME NEW t \in Tasks, NEW s \in Sockets, DropListed(t, s)
      PROVE  NoDeadSubscription'
  BY <1>5 DEF DropListed, Get
<1>6. ASSUME NEW t \in Tasks, NEW s \in Sockets, NEW r \in Rooms,
             JoinRead(t, s, r, ok)
      PROVE  NoDeadSubscription'
  BY <1>6 DEF JoinRead, Get
<1>. QED  BY <1>1, <1>2, <1>3, <1>4, <1>5, <1>6 DEF Step

\* socket.io's own doing: none of the handlers can break it.
LEMMA NoDeadSubscriptionHolds == Spec => []NoDeadSubscription
<1>1. Init => NoDeadSubscription
  BY DEF Init, NoDeadSubscription
<1>2. TypeOK /\ NoDeadSubscription /\ [Next]_vars => NoDeadSubscription'
  <2>1. CASE UNCHANGED vars  BY <2>1 DEF vars, NoDeadSubscription
  <2>2. CASE Restart  BY <2>2 DEF Restart, NoDeadSubscription
  <2>. QED  BY <2>1, <2>2, NoDeadStep DEF Next
<1>. QED  BY <1>1, <1>2, TypeCorrect, PTL DEF Spec

(***************************************************************************)
(* The key of a user is backed by the set of the room.  IndexBacked is     *)
(* inductive given the types: a handler that breaks one half of it is at a *)
(* point that the other half excuses, and a lost command is recorded.      *)
(***************************************************************************)
LEMMA IndexStep ==
  ASSUME NEW ok \in BOOLEAN, TypeOK, IndexBacked, Step(ok)
  PROVE  IndexBacked'
<1> USE DEF TypeOK, Points, IndexBacked, Between, UserOf, index, task, history,
            End, Tear
<1>1. ASSUME NEW s \in Sockets, SocketStep(s) PROVE IndexBacked'
  BY <1>1 DEF SocketStep, Connect, Authenticate, Refuse, DropUnattended
<1>2. ASSUME NEW s \in Sockets, DropUnlisted(s, ok) PROVE IndexBacked'
  BY <1>2 DEF DropUnlisted, Get
<1>3. ASSUME NEW t \in Tasks, JoinStep(t, ok) PROVE IndexBacked'
  <2>1. CASE JoinSkip(t)  BY <2>1 DEF JoinSkip
  <2>2. CASE JoinAdmit(t, ok)  BY <2>2 DEF JoinAdmit, Set
  <2>3. CASE JoinAdd(t, ok)  BY <2>3 DEF JoinAdd, SAdd
  <2>. QED  BY <1>3, <2>1, <2>2, <2>3 DEF JoinStep
<1>4. ASSUME NEW t \in Tasks, LeaveStep(t, ok) PROVE IndexBacked'
  <2>1. CASE LeaveRemove(t, ok)  BY <2>1 DEF LeaveRemove, SRem
  <2>2. CASE LeaveForget(t, ok)  BY <2>2 DEF LeaveForget, Del
  <2>. QED  BY <1>4, <2>1, <2>2 DEF LeaveStep
<1>5. ASSUME NEW t \in Tasks, NEW s \in Sockets, DropListed(t, s)
      PROVE  IndexBacked'
  BY <1>5 DEF DropListed, Get
<1>6. ASSUME NEW t \in Tasks, NEW s \in Sockets, NEW r \in Rooms,
             JoinRead(t, s, r, ok)
      PROVE  IndexBacked'
  BY <1>6 DEF JoinRead, Get
<1>. QED  BY <1>1, <1>2, <1>3, <1>4, <1>5, <1>6 DEF Step

\* Any interleaving of joins and disconnects of any number of tabs, faults and
\* restarts included, leaves the key of a user naming a room whose set has the
\* user, unless a handler is between its two commands or the second was lost.
THEOREM IndexBackedHolds == Spec => []IndexBacked
<1>1. Init => IndexBacked
  BY DEF Init, IndexBacked
<1>2. TypeOK /\ IndexBacked /\ [Next]_vars => IndexBacked'
  <2>1. CASE UNCHANGED vars
    BY <2>1 DEF vars, TypeOK, IndexBacked, Between, UserOf
  <2>2. ASSUME TypeOK, IndexBacked, Restart PROVE IndexBacked'
    BY <2>2 DEF Restart, TypeOK, IndexBacked, index
  <2>. QED  BY <2>1, <2>2, IndexStep DEF Next
<1>. QED  BY <1>1, <1>2, TypeCorrect, PTL DEF Spec

(***************************************************************************)
(* Who is subscribed is listed.  SREM is the step that could break it, so  *)
(* the invariant has to know that no socket of a user who is not crowded   *)
(* is open while a handler of an earlier socket of that user waits.        *)
(***************************************************************************)
OneOpen ==
    \A s1, s2 \in Sockets :
        s1 # s2 /\ Owner[s1] = Owner[s2] /\ Owner[s1] \notin crowded
            => conn[s1] = "closed" \/ conn[s2] = "closed"

NoneBehind ==
    \A t \in Tasks, s \in Sockets :
        (/\ pc[t] # "idle" /\ UserOf(t) = Owner[s]
         /\ conn[s] # "closed" /\ Owner[s] \notin crowded)
            => sock[t] = s /\ pc[t] \in {"joinRead", "joinSet"}

SessionInv == OneOpen /\ NoneBehind

LEMMA OneOpenStep ==
  ASSUME NEW ok \in BOOLEAN, TypeOK, OneOpen, Step(ok)
  PROVE  OneOpen'
<1> USE DEF TypeOK, OneOpen, Close
<1>1. ASSUME NEW s \in Sockets, SocketStep(s) PROVE OneOpen'
  <2>1. CASE Connect(s)  BY <2>1 DEF Connect, Alone
  <2>2. CASE Authenticate(s)  BY <2>2 DEF Authenticate, history
  <2>3. CASE Refuse(s)  BY <2>3 DEF Refuse, history
  <2>4. CASE DropUnattended(s)  BY <2>4 DEF DropUnattended, history
  <2>. QED  BY <1>1, <2>1, <2>2, <2>3, <2>4 DEF SocketStep
<1>2. ASSUME NEW s \in Sockets, DropUnlisted(s, ok) PROVE OneOpen'
  BY <1>2 DEF DropUnlisted, history, Get
<1>3. ASSUME NEW t \in Tasks, JoinStep(t, ok) \/ LeaveStep(t, ok) PROVE OneOpen'
  BY <1>3 DEF JoinStep, JoinSkip, JoinAdmit, JoinAdd,
              LeaveStep, LeaveRemove, LeaveForget, history, Set, SAdd, SRem, Del
<1>4. ASSUME NEW t \in Tasks, NEW s \in Sockets, DropListed(t, s) PROVE OneOpen'
  BY <1>4 DEF DropListed, history, Get
<1>5. ASSUME NEW t \in Tasks, NEW s \in Sockets, NEW r \in Rooms,
             JoinRead(t, s, r, ok)
      PROVE  OneOpen'
  BY <1>5 DEF JoinRead, history, Get
<1>. QED  BY <1>1, <1>2, <1>3, <1>4, <1>5 DEF Step

LEMMA NoneBehindStep ==
  ASSUME NEW ok \in BOOLEAN, TypeOK, OneOpen, NoneBehind, Step(ok)
  PROVE  NoneBehind'
<1> USE DEF TypeOK, Points, NoneBehind, UserOf, task, Close
<1>0. ASSUME NEW t \in Tasks, End(t), UNCHANGED <<conn, crowded>> PROVE NoneBehind'
  <2>. SUFFICES ASSUME NEW t2 \in Tasks, NEW s \in Sockets,
                       pc'[t2] # "idle", UserOf(t2)' = Owner[s],
                       conn'[s] # "closed", Owner[s] \notin crowded'
                PROVE  sock'[t2] = s /\ pc'[t2] \in {"joinRead", "joinSet"}
    OBVIOUS
  <2>1. t2 # t /\ pc'[t2] = pc[t2] /\ sock'[t2] = sock[t2]
    BY <1>0 DEF End
  <2>. QED  BY <1>0, <2>1
<1>1. ASSUME NEW s \in Sockets, SocketStep(s) PROVE NoneBehind'
  <2>1. CASE Connect(s)  BY <2>1 DEF Connect, Alone, Busy, Held
  <2>2. CASE Authenticate(s)  BY <2>2 DEF Authenticate, history
  <2>3. CASE Refuse(s)  BY <2>3 DEF Refuse, history
  <2>4. CASE DropUnattended(s)  BY <2>4 DEF DropUnattended, history
  <2>. QED  BY <1>1, <2>1, <2>2, <2>3, <2>4 DEF SocketStep
<1>2. ASSUME NEW s \in Sockets, DropUnlisted(s, ok) PROVE NoneBehind'
  BY <1>2 DEF DropUnlisted, history, Get
<1>3. ASSUME NEW t \in Tasks, JoinStep(t, ok) PROVE NoneBehind'
  <2>1. CASE JoinSkip(t)  BY <1>0, <2>1 DEF JoinSkip, history
  <2>2. CASE JoinAdmit(t, ok)  BY <2>2 DEF JoinAdmit, history, Set
  <2>3. CASE JoinAdd(t, ok)  BY <1>0, <2>3 DEF JoinAdd, SAdd
  <2>. QED  BY <1>3, <2>1, <2>2, <2>3 DEF JoinStep
<1>4. ASSUME NEW t \in Tasks, LeaveStep(t, ok) PROVE NoneBehind'
  <2>1. CASE LeaveRemove(t, ok)
    <3>1. CASE ok  BY <2>1, <3>1 DEF LeaveRemove, history, SRem
    <3>2. CASE ~ok  BY <1>0, <2>1, <3>2 DEF LeaveRemove, history, SRem
    <3>. QED  BY <3>1, <3>2
  <2>2. CASE LeaveForget(t, ok)  BY <1>0, <2>2 DEF LeaveForget, Del
  <2>. QED  BY <1>4, <2>1, <2>2 DEF LeaveStep
<1>5. ASSUME NEW t \in Tasks, NEW s \in Sockets, DropListed(t, s) PROVE NoneBehind'
  BY <1>5 DEF DropListed, OneOpen, history, Get
<1>6. ASSUME NEW t \in Tasks, NEW s \in Sockets, NEW r \in Rooms,
             JoinRead(t, s, r, ok)
      PROVE  NoneBehind'
  BY <1>6 DEF JoinRead, OneOpen, history, Get
<1>. QED  BY <1>1, <1>2, <1>3, <1>4, <1>5, <1>6 DEF Step

LEMMA ListedStep ==
  ASSUME NEW ok \in BOOLEAN,
         TypeOK, SessionInv, NoDeadSubscription, SubscribedIsListed, Step(ok)
  PROVE  SubscribedIsListed'
<1> USE DEF TypeOK, Points, SubscribedIsListed, UserOf, index, task, history,
            Close, End, Tear
<1>1. ASSUME NEW s \in Sockets, SocketStep(s) PROVE SubscribedIsListed'
  BY <1>1 DEF SocketStep, Connect, Authenticate, Refuse, DropUnattended
<1>2. ASSUME NEW s \in Sockets, DropUnlisted(s, ok) PROVE SubscribedIsListed'
  BY <1>2 DEF DropUnlisted, Get
<1>3. ASSUME NEW t \in Tasks, JoinStep(t, ok) PROVE SubscribedIsListed'
  <2>1. CASE JoinSkip(t)  BY <2>1 DEF JoinSkip
  <2>2. CASE JoinAdmit(t, ok)  BY <2>2 DEF JoinAdmit, Subscribe, Set
  <2>3. CASE JoinAdd(t, ok)  BY <2>3 DEF JoinAdd, SAdd
  <2>. QED  BY <1>3, <2>1, <2>2, <2>3 DEF JoinStep
<1>4. ASSUME NEW t \in Tasks, LeaveStep(t, ok) PROVE SubscribedIsListed'
  <2>1. CASE LeaveRemove(t, ok)
    <3>1. \A s \in Sockets :
            Owner[s] = UserOf(t) /\ Owner[s] \notin crowded => sioRooms[s] = {}
      BY <2>1 DEF LeaveRemove, SessionInv, NoneBehind, NoDeadSubscription, SRem
    <3>. QED  BY <2>1, <3>1 DEF LeaveRemove, SRem
  <2>2. CASE LeaveForget(t, ok)  BY <2>2 DEF LeaveForget, Del
  <2>. QED  BY <1>4, <2>1, <2>2 DEF LeaveStep
<1>5. ASSUME NEW t \in Tasks, NEW s \in Sockets, DropListed(t, s)
      PROVE  SubscribedIsListed'
  BY <1>5 DEF DropListed, Get
<1>6. ASSUME NEW t \in Tasks, NEW s \in Sockets, NEW r \in Rooms,
             JoinRead(t, s, r, ok)
      PROVE  SubscribedIsListed'
  BY <1>6 DEF JoinRead, Get
<1>. QED  BY <1>1, <1>2, <1>3, <1>4, <1>5, <1>6 DEF Step

\* Whoever receives the messages of a room is in the set of the room, whatever
\* rooms a user with one session switches to, whenever it drops and whenever
\* the process restarts, as long as none of the user's commands was lost.
THEOREM SubscribedIsListedHolds == Spec => []SubscribedIsListed
<1>1. Init => SessionInv /\ SubscribedIsListed
  <2>. SUFFICES ASSUME Init PROVE SessionInv /\ SubscribedIsListed
    OBVIOUS
  <2>1. OneOpen /\ NoneBehind  BY DEF Init, OneOpen, NoneBehind
  <2>2. SubscribedIsListed  BY DEF Init, SubscribedIsListed
  <2>. QED  BY <2>1, <2>2 DEF SessionInv
<1>2. /\ TypeOK /\ NoDeadSubscription /\ SessionInv /\ SubscribedIsListed
      /\ [Next]_vars
      => SessionInv' /\ SubscribedIsListed'
  <2>1. ASSUME SessionInv, SubscribedIsListed, UNCHANGED vars
        PROVE  SessionInv' /\ SubscribedIsListed'
    BY <2>1 DEF vars, SessionInv, OneOpen, NoneBehind, SubscribedIsListed, UserOf
  <2>2. ASSUME Restart PROVE SessionInv' /\ SubscribedIsListed'
    <3>1. OneOpen' /\ NoneBehind'  BY <2>2 DEF Restart, OneOpen, NoneBehind
    <3>2. SubscribedIsListed'  BY <2>2 DEF Restart, SubscribedIsListed
    <3>. QED  BY <3>1, <3>2 DEF SessionInv
  <2>. QED
    BY <2>1, <2>2, OneOpenStep, NoneBehindStep, ListedStep DEF Next, SessionInv
<1>. QED  BY <1>1, <1>2, TypeCorrect, NoDeadSubscriptionHolds, PTL DEF Spec
(***************************************************************************)
(* The steps of patient clients are steps of the abstract directory.  One  *)
(* handler of a user waits at a time, and while none does, a subscribed    *)
(* socket is in the one room that the key of its user names.               *)
(***************************************************************************)
\* One handler of a user at a time, and a join works for a socket that stays up.
OneHandler ==
    /\ \A t1, t2 \in Tasks :
          pc[t1] # "idle" /\ pc[t2] # "idle" /\ UserOf(t1) = UserOf(t2) => t1 = t2
    /\ \A t \in Tasks : pc[t] \in {"joinRead", "joinSet"} => conn[sock[t]] = "up"

\* The key of a user whose join has not gone on is absent, and a subscription is
\* in the key.
KeyNamesRoom ==
    /\ \A t \in Tasks :
          /\ pc[t] = "joinRead" => userRoom[UserOf(t)] = NoRoom
          /\ pc[t] = "joinSet" => target[t] \in sioRooms[sock[t]]
    /\ \A s \in Sockets : sioRooms[s] \subseteq {userRoom[Owner[s]]}

PatientInv ==
    /\ TypeOK /\ NoDeadSubscription /\ SessionInv /\ crowded = {}
    /\ OneHandler /\ KeyNamesRoom
LEMMA OneHandlerStep ==
  ASSUME TypeOK, SessionInv, crowded = {}, OneHandler, Step(TRUE), crowded' = {}, Patient
  PROVE  OneHandler'
<1> USE DEF TypeOK, Points, OneHandler, UserOf, task, index, history, Close, End
<1>1. ASSUME NEW s \in Sockets, SocketStep(s) PROVE OneHandler'
  <2>1. CASE Connect(s)  BY <2>1 DEF Connect
  <2>2. CASE Authenticate(s)  BY <2>2 DEF Authenticate
  <2>3. CASE Refuse(s)  BY <2>3 DEF Refuse
  <2>4. CASE DropUnattended(s)  BY <2>4 DEF DropUnattended
  <2>. QED  BY <1>1, <2>1, <2>2, <2>3, <2>4 DEF SocketStep
<1>2. ASSUME NEW s \in Sockets, DropUnlisted(s, TRUE) PROVE OneHandler'
  <2>1. ~Busy(Owner[s])
    BY <1>2 DEF DropUnlisted, Patient
  <2>. QED  BY <1>2, <2>1 DEF DropUnlisted, Busy
<1>3. ASSUME NEW t \in Tasks, JoinStep(t, TRUE) \/ LeaveStep(t, TRUE) PROVE OneHandler'
  <2>1. /\ conn' = conn /\ pc[t] # "idle"
        /\ \A g \in Tasks \ {t} : pc'[g] = pc[g] /\ sock'[g] = sock[g]
        /\ \/ pc'[t] = "idle"
           \/ sock'[t] = sock[t] /\ (pc'[t] = "joinSet" => pc[t] = "joinRead")
              /\ pc'[t] # "joinRead"
    BY <1>3 DEF JoinStep, JoinSkip, JoinAdmit, JoinAdd, LeaveStep, LeaveRemove, LeaveForget
  <2>. QED  BY <2>1
<1>4. ASSUME NEW t \in Tasks, NEW s \in Sockets, DropListed(t, s) PROVE OneHandler'
  <2>1. ~Busy(Owner[s])
    BY <1>4 DEF DropListed, Patient
  <2>2. \A g \in Tasks : pc[g] # "idle" => Owner[sock[g]] # Owner[s]
    BY <2>1 DEF Busy
  <2>3. /\ pc[t] = "idle" /\ pc'[t] = "leaving" /\ sock'[t] = s
        /\ conn' = [conn EXCEPT ![s] = "closed"]
        /\ \A g \in Tasks \ {t} : pc'[g] = pc[g] /\ sock'[g] = sock[g]
    BY <1>4 DEF DropListed
  <2>. QED  BY <2>2, <2>3
<1>5. ASSUME NEW t \in Tasks, NEW s \in Sockets, NEW r \in Rooms, JoinRead(t, s, r, TRUE)
      PROVE  OneHandler'
  <2>1. /\ pc[t] = "idle" /\ pc'[t] = "joinRead" /\ sock'[t] = s /\ conn[s] = "up"
        /\ conn' = conn
        /\ \A g \in Tasks \ {t} : pc'[g] = pc[g] /\ sock'[g] = sock[g]
    BY <1>5 DEF JoinRead
  <2>2. ~Busy(Owner[s])
    BY <2>1 DEF Patient
  <2>3. \A g \in Tasks : pc[g] # "idle" => Owner[sock[g]] # Owner[s]
    BY <2>2 DEF Busy
  <2>. QED  BY <2>1, <2>3
<1>. QED  BY <1>1, <1>2, <1>3, <1>4, <1>5 DEF Step

\* While a handler that leaves waits, no socket of its user is in a room.
LEMMA LeavingUnsubscribed ==
  ASSUME TypeOK, NoDeadSubscription, SessionInv, crowded = {},
         NEW t \in Tasks, pc[t] \in {"leaving", "leaveRemoved"}
  PROVE  \A s \in Sockets : Owner[s] = UserOf(t) => sioRooms[s] = {}
BY DEF TypeOK, NoDeadSubscription, SessionInv, NoneBehind

\* A socket whose slot is not up is in no room: closing it changes nothing.
LEMMA CloseDead ==
  ASSUME TypeOK, NoDeadSubscription, NEW s \in Sockets, conn[s] # "up", Close(s)
  PROVE  sioRooms' = sioRooms
BY DEF TypeOK, NoDeadSubscription, Close

LEMMA KeyStep ==
  ASSUME PatientInv, Step(TRUE), crowded' = {}, Patient
  PROVE  KeyNamesRoom'
<1> USE DEF PatientInv, TypeOK, Points, KeyNamesRoom, UserOf, task, index, history, End
<1>1. ASSUME NEW s \in Sockets, SocketStep(s) PROVE KeyNamesRoom'
  <2>1. sioRooms' = sioRooms
    BY <1>1, CloseDead DEF SocketStep, Connect, Authenticate, Refuse, DropUnattended
  <2>. QED
    BY <1>1, <2>1 DEF SocketStep, Connect, Authenticate, Refuse, DropUnattended
<1>2. ASSUME NEW s \in Sockets, ~Busy(Owner[s]), Close(s), UNCHANGED index,
             \A g \in Tasks : pc'[g] # pc[g] \/ sock'[g] # sock[g] \/ target'[g] # target[g]
                                => pc'[g] = "leaving"
      PROVE  KeyNamesRoom'
  <2>1. \A g \in Tasks : pc[g] = "joinSet" => sock[g] # s
    BY <1>2 DEF Busy
  <2>2. \A g \in Tasks : pc'[g] \in {"joinRead", "joinSet"}
                           => pc[g] = pc'[g] /\ sock'[g] = sock[g] /\ target'[g] = target[g]
    BY <1>2
  <2>3. \A g \in Tasks : pc[g] = "joinSet" => sock[g] \in Sockets /\ sioRooms'[sock[g]] = sioRooms[sock[g]]
    BY <1>2, <2>1 DEF Close
  <2>4. \A x \in Sockets : sioRooms'[x] \subseteq sioRooms[x]
    BY <1>2 DEF Close
  <2>. QED  BY <1>2, <2>2, <2>3, <2>4
<1>3. ASSUME NEW s \in Sockets, DropUnlisted(s, TRUE) PROVE KeyNamesRoom'
  <2>1. ~Busy(Owner[s])
    BY <1>3 DEF DropUnlisted, Patient, Close
  <2>. QED  BY <1>2, <1>3, <2>1 DEF DropUnlisted
<1>4. ASSUME NEW t \in Tasks, NEW s \in Sockets, DropListed(t, s) PROVE KeyNamesRoom'
  <2>1. ~Busy(Owner[s])
    BY <1>4 DEF DropListed, Patient, Close
  <2>. QED  BY <1>2, <1>4, <2>1 DEF DropListed
<1>5. ASSUME NEW t \in Tasks, NEW s \in Sockets, NEW r \in Rooms, JoinRead(t, s, r, TRUE)
      PROVE  KeyNamesRoom'
  <2>1. userRoom[Owner[s]] = NoRoom
    BY <1>5 DEF JoinRead, Patient
  <2>. QED  BY <1>5, <2>1 DEF JoinRead
<1>6. ASSUME NEW t \in Tasks, JoinStep(t, TRUE) PROVE KeyNamesRoom'
  <2>1. CASE JoinSkip(t)
    BY <2>1 DEF JoinSkip
  <2>2. CASE JoinAdmit(t, TRUE)
    <3>1. conn[sock[t]] = "up" /\ sock[t] \in Sockets /\ userRoom[UserOf(t)] = NoRoom
      BY <2>2 DEF JoinAdmit, OneHandler
    <3>2. /\ sioRooms' = [sioRooms EXCEPT ![sock[t]] = @ \cup {target[t]}]
          /\ userRoom' = [userRoom EXCEPT ![UserOf(t)] = target[t]]
          /\ pc' = [pc EXCEPT ![t] = "joinSet"] /\ sock' = sock /\ target' = target
      BY <2>2, <3>1 DEF JoinAdmit, Subscribe, Set
    <3>3. \A s \in Sockets : Owner[s] = UserOf(t) => sioRooms[s] = {}
      BY <3>1
    <3>4. \A s \in Sockets : sioRooms'[s] \subseteq {userRoom'[Owner[s]]}
      BY <3>1, <3>2, <3>3
    <3>5. \A g \in Tasks \ {t} : pc[g] = "joinRead" => UserOf(g) # UserOf(t)
      BY <2>2 DEF JoinAdmit, OneHandler
    <3>. QED  BY <3>1, <3>2, <3>4, <3>5
  <2>3. CASE JoinAdd(t, TRUE)
    BY <2>3 DEF JoinAdd, SAdd
  <2>. QED  BY <1>6, <2>1, <2>2, <2>3 DEF JoinStep
<1>7. ASSUME NEW t \in Tasks, LeaveStep(t, TRUE) PROVE KeyNamesRoom'
  <2>1. CASE LeaveRemove(t, TRUE)
    BY <2>1 DEF LeaveRemove, SRem
  <2>2. CASE LeaveForget(t, TRUE)
    <3>1. \A s \in Sockets : Owner[s] = UserOf(t) => sioRooms[s] = {}
      BY <2>2, LeavingUnsubscribed DEF LeaveForget
    <3>. QED  BY <2>2, <3>1 DEF LeaveForget, Del
  <2>. QED  BY <1>7, <2>1, <2>2 DEF LeaveStep
<1>. QED  BY <1>1, <1>3, <1>4, <1>5, <1>6, <1>7 DEF Step
LEMMA PatientNext == PatientInv /\ [OneSession /\ Patient]_vars => PatientInv'
<1> SUFFICES ASSUME PatientInv, [OneSession /\ Patient]_vars PROVE PatientInv'
  OBVIOUS
<1>1. CASE OneSession /\ Patient
  <2>1. Step(TRUE) /\ crowded' = {} /\ TypeOK /\ NoDeadSubscription /\ SessionInv
    BY <1>1 DEF OneSession, PatientInv
  <2>2. TypeOK' /\ NoDeadSubscription'
    BY <2>1, TypeStep, NoDeadStep
  <2>3. SessionInv'
    BY <2>1, OneOpenStep, NoneBehindStep DEF SessionInv
  <2>4. OneHandler' /\ KeyNamesRoom'
    BY <1>1, <2>1, OneHandlerStep, KeyStep DEF PatientInv
  <2>. QED  BY <2>1, <2>2, <2>3, <2>4 DEF PatientInv
<1>2. CASE UNCHANGED vars
  <2>1. TypeOK' /\ NoDeadSubscription' /\ crowded' = {}
    BY <1>2 DEF vars, PatientInv, TypeOK, NoDeadSubscription
  <2>2. SessionInv'
    BY <1>2 DEF vars, PatientInv, SessionInv, OneOpen, NoneBehind, UserOf
  <2>3. OneHandler' /\ KeyNamesRoom'
    BY <1>2 DEF vars, PatientInv, OneHandler, KeyNamesRoom, UserOf
  <2>. QED  BY <2>1, <2>2, <2>3 DEF PatientInv
<1>. QED  BY <1>1, <1>2

LEMMA PatientInit == Init => PatientInv
<1> SUFFICES ASSUME Init PROVE PatientInv
  OBVIOUS
<1>1. TypeOK /\ NoDeadSubscription /\ crowded = {}
  BY TypeInit DEF Init, NoDeadSubscription
<1>2. SessionInv
  BY DEF Init, SessionInv, OneOpen, NoneBehind
<1>3. OneHandler /\ KeyNamesRoom
  BY DEF Init, OneHandler, KeyNamesRoom
<1>. QED  BY <1>1, <1>2, <1>3 DEF PatientInv

\* How the concrete tables change, and the abstract sets with them.
LEMMA SetsKept ==
  ASSUME UNCHANGED <<sioRooms, roomUsers>>
  PROVE  UNCHANGED Directory!vars
BY DEF Directory!vars, liveMembers, listedMembers

LEMMA Subscribes ==
  ASSUME TypeOK, NEW s \in Sockets, NEW r \in Rooms, UNCHANGED roomUsers,
         sioRooms' = [sioRooms EXCEPT ![s] = @ \cup {r}]
  PROVE  [Directory!Next]_Directory!vars
<1> DEFINE m == <<Owner[s], r>>
<1>1. liveMembers' = liveMembers \cup {m} /\ UNCHANGED listedMembers
  BY DEF liveMembers, listedMembers, TypeOK
<1>2. m \in Users \X Rooms
  OBVIOUS
<1> HIDE DEF m
<1>3. CASE m \in liveMembers
  BY <1>1, <1>3 DEF Directory!vars
<1>4. CASE m \notin liveMembers
  BY <1>1, <1>2, <1>4 DEF Directory!Next, Directory!Subscribe
<1>. QED  BY <1>3, <1>4

LEMMA Closes ==
  ASSUME PatientInv, NEW s \in Sockets, conn[s] = "up", Close(s), UNCHANGED roomUsers
  PROVE  [Directory!Next]_Directory!vars
<1> DEFINE m == <<Owner[s], userRoom[Owner[s]]>>
<1>1. sioRooms' = [sioRooms EXCEPT ![s] = {}] /\ UNCHANGED listedMembers
  BY DEF Close, listedMembers
<1>2. CASE sioRooms[s] = {}
  BY <1>1, <1>2, SetsKept DEF PatientInv, TypeOK
<1>3. CASE sioRooms[s] # {}
  <2>1. sioRooms[s] = {userRoom[Owner[s]]} /\ userRoom[Owner[s]] \in Rooms
    BY <1>3 DEF PatientInv, TypeOK, KeyNamesRoom
  <2>2. \A x \in Sockets \ {s} : Owner[x] = Owner[s] => sioRooms[x] = {}
    BY DEF PatientInv, SessionInv, OneOpen, NoDeadSubscription, TypeOK
  <2>3. liveMembers' = liveMembers \ {m}
    BY <1>1, <2>1, <2>2 DEF liveMembers, PatientInv, TypeOK
  <2>4. m \in liveMembers /\ m \in Users \X Rooms
    BY <2>1 DEF liveMembers
  <2> HIDE DEF m
  <2>. QED  BY <1>1, <2>3, <2>4 DEF Directory!Next, Directory!Unsubscribe
<1>. QED  BY <1>2, <1>3

LEMMA Publishes ==
  ASSUME PatientInv, NEW t \in Tasks, JoinAdd(t, TRUE)
  PROVE  [Directory!Next]_Directory!vars
<1> DEFINE m == <<UserOf(t), target[t]>>
<1>1. sock[t] \in Sockets /\ target[t] \in Rooms /\ target[t] \in sioRooms[sock[t]]
  BY DEF JoinAdd, PatientInv, TypeOK, KeyNamesRoom
<1>2. m \in liveMembers /\ m \in Users \X Rooms
  BY <1>1 DEF liveMembers, UserOf
<1>3. listedMembers' = listedMembers \cup {m} /\ UNCHANGED liveMembers
  BY <1>1 DEF JoinAdd, SAdd, listedMembers, liveMembers, UserOf, PatientInv, TypeOK
<1> HIDE DEF m
<1>4. CASE m \in listedMembers
  BY <1>3, <1>4 DEF Directory!vars
<1>5. CASE m \notin listedMembers
  BY <1>2, <1>3, <1>5 DEF Directory!Next, Directory!Publish
<1>. QED  BY <1>4, <1>5

LEMMA Retracts ==
  ASSUME PatientInv, NEW t \in Tasks, LeaveRemove(t, TRUE)
  PROVE  [Directory!Next]_Directory!vars
<1> DEFINE m == <<UserOf(t), target[t]>>
<1>1. sock[t] \in Sockets /\ target[t] \in Rooms /\ UserOf(t) \in Users
  BY DEF LeaveRemove, PatientInv, TypeOK, UserOf
<1>2. m \notin liveMembers /\ m \in Users \X Rooms
  <2>1. \A s \in Sockets : Owner[s] = UserOf(t) => sioRooms[s] = {}
    BY LeavingUnsubscribed DEF LeaveRemove, PatientInv
  <2>. QED  BY <1>1, <2>1 DEF liveMembers
<1>3. listedMembers' = listedMembers \ {m} /\ UNCHANGED liveMembers
  BY <1>1 DEF LeaveRemove, SRem, listedMembers, liveMembers, PatientInv, TypeOK
<1> HIDE DEF m
<1>4. CASE m \notin listedMembers
  BY <1>3, <1>4 DEF Directory!vars
<1>5. CASE m \in listedMembers
  BY <1>2, <1>3, <1>5 DEF Directory!Next, Directory!Retract
<1>. QED  BY <1>4, <1>5

LEMMA DirectoryStep ==
  PatientInv /\ [OneSession /\ Patient]_vars => [Directory!Next]_Directory!vars
<1> SUFFICES ASSUME PatientInv, [OneSession /\ Patient]_vars
             PROVE  [Directory!Next]_Directory!vars
  OBVIOUS
<1>0. TypeOK /\ NoDeadSubscription
  BY DEF PatientInv
<1>1. ASSUME NEW s \in Sockets, SocketStep(s) PROVE UNCHANGED Directory!vars
  <2>1. sioRooms' = sioRooms
    BY <1>0, <1>1, CloseDead DEF SocketStep, Connect, Authenticate, Refuse, DropUnattended
  <2>. QED
    BY <1>1, <2>1, SetsKept
       DEF SocketStep, Connect, Authenticate, Refuse, DropUnattended, index
<1>2. ASSUME NEW s \in Sockets, DropUnlisted(s, TRUE) \/ \E t \in Tasks : DropListed(t, s)
      PROVE  [Directory!Next]_Directory!vars
  BY <1>2, Closes DEF DropUnlisted, DropListed, index
<1>3. ASSUME NEW t \in Tasks, JoinStep(t, TRUE) PROVE [Directory!Next]_Directory!vars
  <2>1. CASE JoinSkip(t)
    BY <2>1, SetsKept DEF JoinSkip, index
  <2>2. CASE JoinAdmit(t, TRUE)
    <3>1. /\ conn[sock[t]] = "up" /\ sock[t] \in Sockets /\ target[t] \in Rooms
          /\ UNCHANGED roomUsers
      BY <2>2 DEF JoinAdmit, PatientInv, OneHandler, TypeOK
    <3>. QED  BY <1>0, <2>2, <3>1, Subscribes DEF JoinAdmit, Subscribe
  <2>3. CASE JoinAdd(t, TRUE)
    BY <2>3, Publishes
  <2>. QED  BY <1>3, <2>1, <2>2, <2>3 DEF JoinStep
<1>4. ASSUME NEW t \in Tasks, LeaveStep(t, TRUE) PROVE [Directory!Next]_Directory!vars
  BY <1>4, Retracts, SetsKept DEF LeaveStep, LeaveForget
<1>5. ASSUME NEW t \in Tasks, NEW s \in Sockets, NEW r \in Rooms, JoinRead(t, s, r, TRUE)
      PROVE  UNCHANGED Directory!vars
  BY <1>5, SetsKept DEF JoinRead, index
<1>6. CASE UNCHANGED vars
  BY <1>6, SetsKept DEF vars
<1>. QED  BY <1>1, <1>2, <1>3, <1>4, <1>5, <1>6 DEF OneSession, Step

\* For patient clients, whatever the order of their connections, joins and drops,
\* the three asynchronous handlers implement the directory: a user is put on the
\* list of a room only while subscribed, and taken off only when subscribed no more.
THEOREM DirectoryImplementedHolds == PatientSpec => DirectoryImplemented
<1>1. Init => Directory!Init
  <2>. SUFFICES ASSUME Init PROVE Directory!Init
    OBVIOUS
  <2>. QED  BY DEF Init, Directory!Init, liveMembers, listedMembers
<1>. QED
  BY <1>1, PatientInit, PatientNext, DirectoryStep, PTL
     DEF PatientSpec, DirectoryImplemented, Directory!Spec
=============================================================================

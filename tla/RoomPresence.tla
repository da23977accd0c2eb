---------------------------- MODULE RoomPresence ----------------------------
(***************************************************************************)
(* Who is in which room.  Three places record it and three asynchronous    *)
(* handlers update them:                                                   *)
(*                                                                         *)
(*   - socket.io's room table, in the memory of the server (sioRooms);     *)
(*   - the Redis key "socket:user:<u>", one room per USER (userRoom);      *)
(*   - the Redis set "socket:room:<r>:users" (roomUsers).                  *)
(*                                                                         *)
(* The "connect" handler authenticates a socket, "event:join-room" runs    *)
(* joinRoom(), "disconnect" undoes it.  Node runs one handler at a time    *)
(* and switches at every await, so a step here is the code between two     *)
(* awaits.  Commands of the one Redis connection are executed in the order *)
(* they are issued, so a command takes effect in the step that issues it   *)
(* and its reply is used by a later step.                                  *)
(*                                                                         *)
(* Redis and Clerk may fail: a step that calls them has a parameter ok.    *)
(* KVService.get and set turn an error into null, sadd, srem and del throw.*)
(***************************************************************************)
EXTENDS Naturals, FiniteSets

CONSTANTS
    Users,      \* authenticated accounts
    Rooms,      \* room (shard) ids
    Sockets,    \* slots for socket objects; a closed one is used again
    Tasks,      \* slots for handler invocations that await something
    Owner,      \* Owner[s]: the user whose token socket s presents
    NoRoom,     \* the null that kvStore.get returns
    NoSocket    \* what an idle handler slot works for

ASSUME OwnerAssumption == Owner \in [Sockets -> Users]
ASSUME NoRoomAssumption == NoRoom \notin Rooms
ASSUME NoSocketAssumption == NoSocket \notin Sockets

VARIABLES
    conn,       \* conn[s]: "closed", "auth" (awaiting fetchUserFromToken),
                \* "up" (listeners attached) or "deaf" (refused, never closed)
    sioRooms,   \* sioRooms[s]: rooms socket.io delivers to s
    userRoom,   \* userRoom[u]: the key socket:user:<u>
    roomUsers,  \* roomUsers[r]: the set socket:room:<r>:users
    pc,         \* pc[t]: where handler t waits
    sock,       \* sock[t]: the socket t works for
    target,     \* target[t]: the room t joins or leaves
    seen,       \* seen[t]: joinRoom's roomIdFromSocket
    torn,       \* history: users for whom the second of the two commands
                \* SET, SADD or SREM, DEL was lost
    crowded     \* history: users who have had two sessions at a time

vars == <<conn, sioRooms, userRoom, roomUsers, pc, sock, target, seen, torn, crowded>>
history == <<torn, crowded>>
index == <<userRoom, roomUsers>>
task == <<pc, sock, target, seen>>

Points == {"idle", "joinRead", "joinSet", "leaving", "leaveRemoved"}

TypeOK ==
    /\ conn \in [Sockets -> {"closed", "auth", "up", "deaf"}]
    /\ sioRooms \in [Sockets -> SUBSET Rooms]
    /\ userRoom \in [Users -> Rooms \cup {NoRoom}]
    /\ roomUsers \in [Rooms -> SUBSET Users]
    /\ pc \in [Tasks -> Points]
    /\ sock \in [Tasks -> Sockets \cup {NoSocket}]
    /\ target \in [Tasks -> Rooms \cup {NoRoom}]
    /\ seen \in [Tasks -> Rooms \cup {NoRoom}]
    /\ torn \subseteq Users /\ crowded \subseteq Users
    /\ \A t \in Tasks : pc[t] # "idle" => sock[t] \in Sockets /\ target[t] \in Rooms

Init ==
    /\ conn = [s \in Sockets |-> "closed"]
    /\ sioRooms = [s \in Sockets |-> {}]
    /\ userRoom = [u \in Users |-> NoRoom]
    /\ roomUsers = [r \in Rooms |-> {}]
    /\ pc = [t \in Tasks |-> "idle"]
    /\ sock = [t \in Tasks |-> NoSocket]
    /\ target = [t \in Tasks |-> NoRoom]
    /\ seen = [t \in Tasks |-> NoRoom]
    /\ torn = {} /\ crowded = {}

UserOf(t) == Owner[sock[t]]
Held(s) == \E t \in Tasks : pc[t] # "idle" /\ sock[t] = s
Busy(u) == \E t \in Tasks : pc[t] # "idle" /\ UserOf(t) = u

\* No socket of u is open and no handler of an earlier one waits.
Alone(u) ==
    ~Busy(u) /\ \A s \in Sockets : Owner[s] = u => conn[s] = "closed"

(***************************************************************************)
(* The commands of KVService.  ok: Redis answers.  What throws is caught by*)
(* the handler that awaits it.                                             *)
(***************************************************************************)
Get(u, ok) == IF ok THEN userRoom[u] ELSE NoRoom

Set(u, r, ok) == userRoom' = IF ok THEN [userRoom EXCEPT ![u] = r] ELSE userRoom

Del(u, ok) == userRoom' = IF ok THEN [userRoom EXCEPT ![u] = NoRoom] ELSE userRoom

SAdd(r, u, ok) ==
    roomUsers' = IF ok THEN [roomUsers EXCEPT ![r] = @ \cup {u}] ELSE roomUsers

SRem(r, u, ok) ==
    roomUsers' = IF ok THEN [roomUsers EXCEPT ![r] = @ \ {u}] ELSE roomUsers

(***************************************************************************)
(* The "connect" handler.                                                  *)
(***************************************************************************)
\* A new socket object: it takes a slot that no handler refers to any more.
Connect(s) ==
    /\ conn[s] = "closed" /\ ~Held(s)
    /\ conn' = [conn EXCEPT ![s] = "auth"]
    /\ crowded' = IF Alone(Owner[s]) THEN crowded ELSE crowded \cup {Owner[s]}
    /\ UNCHANGED <<sioRooms, index, task, torn>>

Authenticate(s) ==
    /\ conn[s] = "auth"
    /\ conn' = [conn EXCEPT ![s] = "up"]
    /\ UNCHANGED <<sioRooms, index, task, history>>

\* No token, unknown user or a database error: no listener is attached, and
\* the socket stays connected.
Refuse(s) ==
    /\ conn[s] = "auth"
    /\ conn' = [conn EXCEPT ![s] = "deaf"]
    /\ UNCHANGED <<sioRooms, index, task, history>>

(***************************************************************************)
(* "event:join-room": joinRoom(roomId).                                    *)
(***************************************************************************)
JoinRead(t, s, r, ok) ==
    /\ conn[s] = "up" /\ pc[t] = "idle"
    /\ pc' = [pc EXCEPT ![t] = "joinRead"]
    /\ sock' = [sock EXCEPT ![t] = s]
    /\ target' = [target EXCEPT ![t] = r]
    /\ seen' = [seen EXCEPT ![t] = Get(Owner[s], ok)]
    /\ UNCHANGED <<conn, sioRooms, index, history>>

End(t) ==
    /\ pc' = [pc EXCEPT ![t] = "idle"]
    /\ sock' = [sock EXCEPT ![t] = NoSocket]
    /\ target' = [target EXCEPT ![t] = NoRoom]
    /\ seen' = [seen EXCEPT ![t] = NoRoom]

\* "user already in room": return before socket.join.
JoinSkip(t) ==
    /\ pc[t] = "joinRead" /\ seen[t] = target[t]
    /\ End(t)
    /\ UNCHANGED <<conn, sioRooms, index, history>>

\* socket.io replaces join() of a closed socket by a no-op.
Subscribe(s, r) ==
    sioRooms' = IF conn[s] = "up"
                THEN [sioRooms EXCEPT ![s] = @ \cup {r}] ELSE sioRooms

\* Mutant of JoinAdmit: the user is announced in the index and never subscribed.
JoinAdmitUnsubscribed(t, ok) ==
    /\ pc[t] = "joinRead" /\ seen[t] # target[t]
    /\ Set(UserOf(t), target[t], ok)
    /\ pc' = [pc EXCEPT ![t] = "joinSet"]
    /\ seen' = [seen EXCEPT ![t] = NoRoom]
    /\ UNCHANGED <<conn, sioRooms, roomUsers, sock, target, history>>

\* socket.join, then SET: an error of SET is swallowed and SADD follows.
JoinAdmit(t, ok) ==
    /\ pc[t] = "joinRead" /\ seen[t] # target[t]
    /\ Subscribe(sock[t], target[t])
    /\ Set(UserOf(t), target[t], ok)
    /\ pc' = [pc EXCEPT ![t] = "joinSet"]
    /\ seen' = [seen EXCEPT ![t] = NoRoom]
    /\ UNCHANGED <<conn, roomUsers, sock, target, history>>

Tear(t, ok) == torn' = IF ok THEN torn ELSE torn \cup {UserOf(t)}

\* Mutant of JoinAdd: the user is added only if no later join replaced the key.
JoinAddIfCurrent(t, ok) ==
    /\ pc[t] = "joinSet"
    /\ SAdd(target[t], UserOf(t), ok /\ userRoom[UserOf(t)] = target[t])
    /\ Tear(t, ok) /\ End(t)
    /\ UNCHANGED <<conn, sioRooms, userRoom, crowded>>

JoinAdd(t, ok) ==
    /\ pc[t] = "joinSet"
    /\ SAdd(target[t], UserOf(t), ok)
    /\ Tear(t, ok) /\ End(t)
    /\ UNCHANGED <<conn, sioRooms, userRoom, crowded>>

(***************************************************************************)
(* "disconnect".  socket.io takes the socket out of its rooms first.       *)
(***************************************************************************)
Close(s) ==
    /\ conn' = [conn EXCEPT ![s] = "closed"]
    /\ sioRooms' = [sioRooms EXCEPT ![s] = {}]

\* The listener is not attached: nobody cleans up.
DropUnattended(s) ==
    /\ conn[s] \in {"auth", "deaf"}
    /\ Close(s)
    /\ UNCHANGED <<index, task, history>>

\* "Room Id not found": the key is absent, or GET failed.
DropUnlisted(s, ok) ==
    /\ conn[s] = "up" /\ Get(Owner[s], ok) = NoRoom
    /\ Close(s)
    /\ UNCHANGED <<index, task, history>>

\* Mutant of DropListed: the room that GET returned is not tested for null.
DropUntested(t, s) ==
    /\ conn[s] = "up" /\ pc[t] = "idle"
    /\ Close(s)
    /\ pc' = [pc EXCEPT ![t] = "leaving"]
    /\ sock' = [sock EXCEPT ![t] = s]
    /\ target' = [target EXCEPT ![t] = Get(Owner[s], TRUE)]
    /\ UNCHANGED <<index, seen, history>>

DropListed(t, s) ==
    /\ conn[s] = "up" /\ pc[t] = "idle" /\ Get(Owner[s], TRUE) # NoRoom
    /\ Close(s)
    /\ pc' = [pc EXCEPT ![t] = "leaving"]
    /\ sock' = [sock EXCEPT ![t] = s]
    /\ target' = [target EXCEPT ![t] = Get(Owner[s], TRUE)]
    /\ UNCHANGED <<index, seen, history>>

\* Mutants of LeaveRemove: the key is not deleted, the member is not removed.
LeaveRemoveOnly(t, ok) ==
    /\ pc[t] = "leaving"
    /\ SRem(target[t], UserOf(t), ok)
    /\ End(t)
    /\ UNCHANGED <<conn, sioRooms, userRoom, history>>

LeaveForgetOnly(t, ok) ==
    /\ pc[t] = "leaving"
    /\ pc' = [pc EXCEPT ![t] = "leaveRemoved"]
    /\ UNCHANGED <<conn, sioRooms, index, sock, target, seen, history>>

\* getClerkUser and SREM; if one of them throws, the handler ends.
LeaveRemove(t, ok) ==
    /\ pc[t] = "leaving"
    /\ SRem(target[t], UserOf(t), ok)
    /\ IF ok
       THEN /\ pc' = [pc EXCEPT ![t] = "leaveRemoved"]
            /\ UNCHANGED <<sock, target, seen>>
       ELSE End(t)
    /\ UNCHANGED <<conn, sioRooms, userRoom, history>>

\* DEL, whatever room the key names by now.
LeaveForget(t, ok) ==
    /\ pc[t] = "leaveRemoved"
    /\ Del(UserOf(t), ok)
    /\ Tear(t, ok) /\ End(t)
    /\ UNCHANGED <<conn, sioRooms, roomUsers, crowded>>

(***************************************************************************)
(* The process ends (gracefulShutdown, or a crash) and another one starts. *)
(* Sockets and handlers are gone; what is in Redis stays.                  *)
(***************************************************************************)
\* The handlers that have issued the first of their two commands.
Between == {t \in Tasks : pc[t] \in {"joinSet", "leaveRemoved"}}

Restart ==
    /\ conn' = [s \in Sockets |-> "closed"]
    /\ sioRooms' = [s \in Sockets |-> {}]
    /\ pc' = [t \in Tasks |-> "idle"]
    /\ sock' = [t \in Tasks |-> NoSocket]
    /\ target' = [t \in Tasks |-> NoRoom]
    /\ seen' = [t \in Tasks |-> NoRoom]
    /\ torn' = torn \cup {UserOf(t) : t \in Between}
    /\ UNCHANGED <<index, crowded>>

(***************************************************************************)
(* Next-state relations.                                                   *)
(***************************************************************************)
SocketStep(s) ==
    Connect(s) \/ Authenticate(s) \/ Refuse(s) \/ DropUnattended(s)

JoinStep(t, ok) ==
    JoinSkip(t) \/ JoinAdmit(t, ok) \/ JoinAdd(t, ok)

LeaveStep(t, ok) ==
    LeaveRemove(t, ok) \/ LeaveForget(t, ok)

Step(ok) ==
    \/ \E s \in Sockets : SocketStep(s) \/ DropUnlisted(s, ok)
    \/ \E t \in Tasks :
          \/ JoinStep(t, ok)
          \/ LeaveStep(t, ok)
          \/ \E s \in Sockets :
                DropListed(t, s) \/ \E r \in Rooms : JoinRead(t, s, r, ok)

Next == Step(TRUE) \/ Step(FALSE) \/ Restart

Spec == Init /\ [][Next]_vars

\* Redis and Clerk answer, the process lives, and a user has one session at
\* a time: a socket connects when the handlers of the earlier one have ended.
OneSession == Step(TRUE) /\ crowded' = {}

OneSessionSpec == Init /\ [][OneSession]_vars

\* Moreover clients are patient: they join one room per connection, and
\* neither join nor disconnect while a handler of the user awaits something.
Patient ==
    /\ \A t \in Tasks :
          pc[t] = "idle" /\ pc'[t] = "joinRead" =>
             LET u == UserOf(t)' IN ~Busy(u) /\ userRoom[u] = NoRoom
    /\ \A s \in Sockets : conn'[s] = "closed" /\ conn[s] = "up" => ~Busy(Owner[s])

\* An awaited Redis command or Clerk call is answered, and Node then runs the
\* continuation: every handler that waits makes its next step.
HandlerFairness ==
    \A t \in Tasks : WF_vars(JoinStep(t, TRUE) \/ LeaveStep(t, TRUE))

PatientSpec ==
    Init /\ [][OneSession /\ Patient]_vars /\ HandlerFairness
=============================================================================

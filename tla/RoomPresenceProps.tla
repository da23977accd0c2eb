-------------------------- MODULE RoomPresenceProps -------------------------
(***************************************************************************)
(* The properties of RoomPresence.                                         *)
(***************************************************************************)
EXTENDS RoomPresence

(***************************************************************************)
(* Whatever the clients do and whatever fails: when the key of a user      *)
(* names a room, the set of that room has the user, except while a handler *)
(* is between the two commands that change them, or after the second of    *)
(* them was lost.  SET before SADD in joinRoom, and SREM before DEL in     *)
(* "disconnect", must interleave with every other handler of the user.     *)
(***************************************************************************)
IndexBacked ==
    \A u \in Users \ torn, r \in Rooms :
        userRoom[u] = r =>
            \/ u \in roomUsers[r]
            \/ \E t \in Between : UserOf(t) = u /\ target[t] = r

(***************************************************************************)
(* A user with one session at a time whose socket receives the messages of *)
(* a room is in the set of the room, or about to be added by the join that *)
(* subscribed it, unless a command was lost.  It holds across room         *)
(* switches, overlapping joins, restarts and a disconnect in the middle of *)
(* a join.                                                                 *)
(***************************************************************************)
SubscribedIsListed ==
    \A s \in Sockets : Owner[s] \notin torn \cup crowded =>
        \A r \in sioRooms[s] :
            \/ Owner[s] \in roomUsers[r]
            \/ \E t \in Tasks : pc[t] = "joinSet" /\ sock[t] = s /\ target[t] = r

(***************************************************************************)
(* The abstract directory, implemented for patient clients.                *)
(***************************************************************************)
liveMembers ==
    {m \in Users \X Rooms : \E s \in Sockets : Owner[s] = m[1] /\ m[2] \in sioRooms[s]}

listedMembers == {m \in Users \X Rooms : m[1] \in roomUsers[m[2]]}

Directory == INSTANCE PresenceDirectory WITH live <- liveMembers, listed <- listedMembers

\* Joins, drops and the two index writes map to steps of the directory or to
\* stuttering: nobody is listed who is not subscribed, nor taken off the list of
\* a room whose messages still reach them.
DirectoryImplemented == Directory!Spec

\* What is subscribed is eventually listed, what is not is taken off.
DirectoryFollows == Directory!Fairness

(***************************************************************************)
(* README.md:15: "When the user joins a collaborative project workspace,   *)
(* he/she is added to a room in the socket.io server."  When joinRoom has  *)
(* returned, the socket that asked is subscribed unless it is closed.      *)
(***************************************************************************)
JoinMeansSubscribed ==
    [][\A t \in Tasks :
         JoinStep(t, TRUE) /\ pc'[t] = "idle" /\ conn[sock[t]] = "up"
            => target[t] \in sioRooms[sock[t]]]_vars
=============================================================================

----------------------------- MODULE RoomMembers -----------------------------
(***************************************************************************)
(* The members of one room in the database and the requests that add them: *)
(* inviteToRoom looks for the room, looks for the user among the members,  *)
(* reads all the members, and inserts a row.  These are four commands and  *)
(* no transaction; the table has no constraint on room and user.  A step is*)
(* the effect of one command and the code up to the next one.              *)
(***************************************************************************)
EXTENDS Naturals, Sequences, FiniteSets

CONSTANTS
    Users,      \* the invited people, found by their e-mail address
    Accounts,   \* those of them who are in the table of users
    Handlers,   \* requests in progress
    Capacity,   \* the length at which a room is full (5 in the code)
    NoUser

ASSUME CapacityAssumption == Capacity \in Nat \ {0}
ASSUME AccountsAssumption == Accounts \subseteq Users /\ NoUser \notin Users
ASSUME HandlersAssumption == IsFiniteSet(Handlers)

Roles == {"owner", "editor", "viewer"}

VARIABLES
    exists,     \* the room is in the table of shards
    members,    \* the rows of the room in room_members, oldest first
    pc,         \* pc[h]: "idle", or the command that comes next: "member"
                \* (findFirst), "room" (findMany) or "insert"
    user, role, \* user[h], role[h]: the body of the request
    stale,      \* history: handlers that had begun their checks when another
                \* one inserted a row
    crossed     \* history: a stale handler has inserted a row

requests == <<pc, user, role>>
vars == <<exists, members, requests, stale, crossed>>

Row == [user : Users, role : Roles]

TypeOK ==
    /\ exists \in BOOLEAN
    /\ members \in Seq(Row)
    /\ pc \in [Handlers -> {"idle", "member", "room", "insert"}]
    /\ user \in [Handlers -> Users \cup {NoUser}]
    /\ role \in [Handlers -> Roles]
    /\ \A h \in Handlers : pc[h] # "idle" => user[h] \in Users
    /\ stale \subseteq Handlers
    /\ crossed \in BOOLEAN

Init ==
    /\ exists = TRUE
    /\ members = <<>>
    /\ pc = [h \in Handlers |-> "idle"]
    /\ user = [h \in Handlers |-> NoUser]
    /\ role = [h \in Handlers |-> "viewer"]
    /\ stale = {}
    /\ crossed = FALSE

Member(u) == \E i \in DOMAIN members : members[i].user = u
HasOwner == \E i \in DOMAIN members : members[i].role = "owner"

Goto(h, point) == pc' = [pc EXCEPT ![h] = point]

End(h) ==
    /\ Goto(h, "idle")
    /\ user' = [user EXCEPT ![h] = NoUser]
    /\ role' = [role EXCEPT ![h] = "viewer"]
    /\ stale' = stale \ {h}

\* "room not found", or the checks begin.
Invite(h, u, r) ==
    /\ pc[h] = "idle"
    /\ IF exists THEN /\ Goto(h, "member")
                      /\ user' = [user EXCEPT ![h] = u]
                      /\ role' = [role EXCEPT ![h] = r]
       ELSE UNCHANGED requests
    /\ UNCHANGED <<exists, members, stale, crossed>>

\* Mutant of CheckMember: the user is not looked for.
CheckNobody(h) ==
    /\ pc[h] = "member"
    /\ Goto(h, "room")
    /\ UNCHANGED <<exists, members, user, role, stale, crossed>>

\* "user already a member of the room"
CheckMember(h) ==
    /\ pc[h] = "member"
    /\ IF Member(user[h]) THEN End(h)
       ELSE Goto(h, "room") /\ UNCHANGED <<user, role, stale>>
    /\ UNCHANGED <<exists, members, crossed>>

\* Mutant of Full: the bound is exceeded by one.
FullBeyond == Len(members) > Capacity

Full == Len(members) >= Capacity

\* "room is full", "There can only be one owner in one room."
CheckRoom(h) ==
    /\ pc[h] = "room"
    /\ IF Full \/ (HasOwner /\ role[h] = "owner") THEN End(h)
       ELSE Goto(h, "insert") /\ UNCHANGED <<user, role, stale>>
    /\ UNCHANGED <<exists, members, crossed>>

\* Mutant of Insert: the role is written into the column of the user.
InsertSwapped(h) ==
    /\ pc[h] = "insert" /\ exists /\ user[h] \in Accounts
    /\ members' = Append(members, [user |-> role[h], role |-> user[h]])
    /\ crossed' = (crossed \/ h \in stale)
    /\ End(h)
    /\ UNCHANGED exists

\* The foreign keys need the room and the account.
Insert(h) ==
    /\ pc[h] = "insert" /\ exists /\ user[h] \in Accounts
    /\ members' = Append(members, [user |-> user[h], role |-> role[h]])
    /\ crossed' = (crossed \/ h \in stale)
    /\ Goto(h, "idle")
    /\ user' = [user EXCEPT ![h] = NoUser]
    /\ role' = [role EXCEPT ![h] = "viewer"]
    /\ stale' = {g \in Handlers \ {h} : pc[g] \in {"room", "insert"}}
    /\ UNCHANGED exists

\* A command fails: "Could not invite to room".
Fail(h) ==
    /\ pc[h] # "idle"
    /\ End(h)
    /\ UNCHANGED <<exists, members, crossed>>

\* deleteShardById: the rows of the room go with it.
Delete ==
    /\ exists
    /\ exists' = FALSE
    /\ members' = <<>>
    /\ UNCHANGED <<requests, stale, crossed>>

Next ==
    \/ \E h \in Handlers :
          \/ \E u \in Users, r \in Roles : Invite(h, u, r)
          \/ CheckMember(h) \/ CheckRoom(h) \/ Insert(h) \/ Fail(h)
    \/ Delete

Spec == Init /\ [][Next]_vars

(***************************************************************************)
(* What inviteToRoom checks is so, as long as no request has inserted a row*)
(* while another one that inserted later was between its first check and   *)
(* its INSERT: the room is not overfull, no user is in it twice, and it has*)
(* at most one owner.                                                      *)
(***************************************************************************)
WithinCapacity == Len(members) <= Capacity

NobodyTwice ==
    \A i, j \in DOMAIN members : members[i].user = members[j].user => i = j

OneOwner ==
    \A i, j \in DOMAIN members :
        members[i].role = "owner" /\ members[j].role = "owner" => i = j

RoomLimits == ~crossed => WithinCapacity /\ NobodyTwice /\ OneOwner

(***************************************************************************)
(* However the requests interleave, the room exceeds its capacity by less  *)
(* than the number of requests that can be in progress at a time.          *)
(***************************************************************************)
OverfullBound == Len(members) < Capacity + Cardinality(Handlers)
=============================================================================

------------------------------ MODULE Database ------------------------------
(***************************************************************************)
(* The tables of users, followers, shards, likes, assignments and          *)
(* submissions (db/tables.ts) with their foreign keys, and the requests    *)
(* that are between two of their database commands.  Accounts, Assignments *)
(* and ShardTable say what the requests do; Records composes them.         *)
(*                                                                         *)
(* followers, likes and submissions have no key but a serial number, so a  *)
(* pair may have several rows.  Ids is the stock of those numbers: a number*)
(* is free again when its row is gone, which no query can tell.            *)
(***************************************************************************)
EXTENDS Naturals, FiniteSets

CONSTANTS
    Users,          \* people, by the id that Clerk gave them
    Shards,         \* numbers of shards
    Assignments,    \* numbers of assignments
    Ids,            \* numbers of the other rows: a bound on all of them together
    Titles,         \* titles that people choose
    Default,        \* "Untitled" or "New Room"
    Handlers,       \* requests in progress
    None            \* no shard of that number; no object of a request

ASSUME HandlersAssumption == IsFiniteSet(Handlers)
ASSUME IdsAssumption == IsFiniteSet(Ids)
ASSUME NoneAssumption == None \notin Users \cup Assignments
ASSUME DefaultAssumption == Default \notin Titles

VARIABLES
    users,          \* ids in the table of users
    followers, likes, submissions,
    shards,         \* shards[s]: owner and title, or None
    used,           \* numbers of shards that have been given
    assignments,    \* assignments[a]: "absent", "open" or "closed" (the
                    \* deadline has passed)
    pc,             \* pc[h]: "idle", or the command that comes next
    actor,          \* actor[h]: req.auth.user.id, or the id that signs up
    object          \* object[h]: whom or what the request is about

tables == <<users, followers, likes, submissions, shards, used, assignments>>
requests == <<pc, actor, object>>

Follower == [id : Ids, follower : Users, following : Users]
Like == [id : Ids, shard : Shards, likedBy : Users]
Submission == [id : Ids, assignment : Assignments, user : Users, late : BOOLEAN]
NoShard == [owner |-> None, title |-> None]
Shard == [owner : Users, title : Titles \cup {Default}]

Points == {"idle", "signup", "follow", "unfollow", "existing", "submit"}

TablesTypeOK ==
    /\ users \subseteq Users
    /\ followers \subseteq Follower
    /\ likes \subseteq Like
    /\ submissions \subseteq Submission
    /\ shards \in [Shards -> Shard \cup {NoShard}]
    /\ used \subseteq Shards
    /\ assignments \in [Assignments -> {"absent", "open", "closed"}]

RequestsTypeOK ==
    /\ pc \in [Handlers -> Points]
    /\ actor \in [Handlers -> Users \cup {None}]
    /\ object \in [Handlers -> Users \cup Assignments \cup {None}]
    /\ \A h \in Handlers :
          /\ pc[h] # "idle" => actor[h] \in Users
          /\ pc[h] \in {"follow", "unfollow"} => object[h] \in Users
          /\ pc[h] \in {"existing", "submit"} => object[h] \in Assignments

InitDatabase ==
    /\ users = {} /\ followers = {} /\ likes = {} /\ submissions = {}
    /\ shards = [s \in Shards |-> NoShard]
    /\ used = {}
    /\ assignments = [a \in Assignments |-> "absent"]
    /\ pc = [h \in Handlers |-> "idle"]
    /\ actor = [h \in Handlers |-> None]
    /\ object = [h \in Handlers |-> None]

Free(i) == \A r \in followers \cup likes \cup submissions : r.id # i

Exists(s) == shards[s] # NoShard

\* authMiddleware: nobody removes a user, so one look before the handler's own
\* commands is as good as at any other time.
Authenticated(u) == u \in users

\* The request goes on to the command that point names, on behalf of u.
Goto(h, point, u, o) ==
    /\ pc' = [pc EXCEPT ![h] = point]
    /\ actor' = [actor EXCEPT ![h] = u]
    /\ object' = [object EXCEPT ![h] = o]

End(h) == Goto(h, "idle", None, None)

\* The database fails the command that comes next, or a foreign key or the
\* primary key of the users does; the request is answered with an error.
Fail(h) ==
    /\ pc[h] # "idle"
    /\ End(h)
    /\ UNCHANGED tables
=============================================================================

----------------------------- MODULE ShardTable -----------------------------
(***************************************************************************)
(* The shards themselves: create, createNewRoom, patch, delete, like,      *)
(* dislike.  Each request is one database command (createNewRoom one       *)
(* transaction; its files are in ShardFiles).  Of a shard's columns the    *)
(* owner and the title are kept: the type is patched like the title, and   *)
(* nothing in the server asks for it.                                      *)
(***************************************************************************)
EXTENDS Database

VARIABLE sent   \* history: sent[u]: the titles in the patches of u

SentTypeOK == sent \in [Users -> SUBSET Titles]

\* create and createNewRoom of the repository; the number is a new one.
InsertShard(u, s) ==
    /\ s \notin used
    /\ used' = used \cup {s}
    /\ shards' = [shards EXCEPT ![s] = [owner |-> u, title |-> Default]]

\* createShard and createNewRoom of the controllers.
Create(u, s) ==
    /\ Authenticated(u)
    /\ InsertShard(u, s)
    /\ UNCHANGED <<users, followers, likes, submissions, assignments, requests, sent>>

\* Mutant of Patch: the shard of the request is updated, whoever owns it.
PatchById(u, s, t) ==
    /\ Authenticated(u)
    /\ sent' = [sent EXCEPT ![u] = @ \cup {t}]
    /\ shards' = IF Exists(s) THEN [shards EXCEPT ![s].title = t] ELSE shards
    /\ UNCHANGED <<users, followers, likes, submissions, used, assignments, requests>>

\* patch of the repository updates every shard of the user.
UpdateOwned(u, t) ==
    shards' = [x \in Shards |-> IF shards[x].owner = u
                                 THEN [shards[x] EXCEPT !.title = t] ELSE shards[x]]

\* updateShard: OK although the shard s of the request may be somebody else's or
\* not there.
Patch(u, s, t) ==
    /\ Authenticated(u)
    /\ sent' = [sent EXCEPT ![u] = @ \cup {t}]
    /\ UpdateOwned(u, t)
    /\ UNCHANGED <<users, followers, likes, submissions, used, assignments, requests>>

\* deleteById: what refers to the shard goes with it.
DeleteRows(s) ==
    /\ shards' = [shards EXCEPT ![s] = NoShard]
    /\ likes' = {r \in likes : r.shard # s}

\* deleteShardById: anybody may.
Delete(u, s) ==
    /\ Authenticated(u)
    /\ DeleteRows(s)
    /\ UNCHANGED <<users, followers, submissions, used, assignments, requests, sent>>

\* Mutant of LikeShard: the columns are swapped.
LikeSwapped(u, s) ==
    /\ Authenticated(u) /\ Exists(s)
    /\ \E i \in Ids :
          Free(i) /\ likes' = likes \cup {[id |-> i, shard |-> u, likedBy |-> s]}
    /\ UNCHANGED <<users, followers, submissions, shards, used, assignments, requests, sent>>

\* like of the repository: one row more with every call.
InsertLike(u, s) ==
    \E i \in Ids :
        Free(i) /\ likes' = likes \cup {[id |-> i, shard |-> s, likedBy |-> u]}

LikeShard(u, s) ==
    /\ Authenticated(u) /\ Exists(s)
    /\ InsertLike(u, s)
    /\ UNCHANGED <<users, followers, submissions, shards, used, assignments, requests, sent>>

\* dislike of the repository: all the rows of the user for the shard.
DeleteLikes(u, s) == likes' = {r \in likes : ~(r.shard = s /\ r.likedBy = u)}

DislikeShard(u, s) ==
    /\ Authenticated(u)
    /\ DeleteLikes(u, s)
    /\ UNCHANGED <<users, followers, submissions, shards, used, assignments, requests, sent>>

\* Requests to one shard.
ShardIdStep(u, s) ==
    \/ Delete(u, s) \/ LikeShard(u, s) \/ DislikeShard(u, s)
    \/ \E t \in Titles : Patch(u, s, t)

ShardNext == \E u \in Users, s \in Shards : Create(u, s) \/ ShardIdStep(u, s)

(***************************************************************************)
(* The title of a shard is the default or one that its owner has sent:     *)
(* patches reach all the shards of the sender, but none of anybody else.   *)
(***************************************************************************)
TitleFromOwner ==
    \A s \in Shards :
        Exists(s) => shards[s].title \in {Default} \cup sent[shards[s].owner]
=============================================================================

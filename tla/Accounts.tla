------------------------------ MODULE Accounts ------------------------------
(***************************************************************************)
(* Users and who follows whom: POST /users, POST /users/:id/follow and     *)
(* DELETE /users/:id/unfollow.  Each looks first and writes in a second    *)
(* command, without a transaction.                                         *)
(***************************************************************************)
EXTENDS Database

\* onboard, sign in: the user is found, and that is the answer.
\* onboard, sign up: nobody is found.
Onboard(h, u) ==
    /\ pc[h] = "idle"
    /\ IF u \in users THEN UNCHANGED requests ELSE Goto(h, "signup", u, None)
    /\ UNCHANGED tables

\* The insert fails (see Fail) when another sign-up of u has been faster.
SignUp(h) ==
    /\ pc[h] = "signup"
    /\ actor[h] \notin users
    /\ users' = users \cup {actor[h]}
    /\ End(h)
    /\ UNCHANGED <<followers, likes, submissions, shards, used, assignments>>

RowsOf(u) == {r \in followers : r.follower = u}

\* Mutant of Follow: the check comes after the answer, that is, never.
FollowUnchecked(h, u, v) ==
    /\ pc[h] = "idle" /\ Authenticated(u)
    /\ Goto(h, "follow", u, v)
    /\ UNCHANGED tables

\* findFirst asks for any row of the follower, not for the pair: who follows
\* somebody is "already" following everybody.
Follow(h, u, v) ==
    /\ pc[h] = "idle" /\ Authenticated(u)
    /\ IF RowsOf(u) # {} THEN UNCHANGED requests ELSE Goto(h, "follow", u, v)
    /\ UNCHANGED tables

InsertFollower(h) ==
    /\ pc[h] = "follow"
    /\ object[h] \in users
    /\ \E i \in Ids :
          /\ Free(i)
          /\ followers' = followers \cup
                {[id |-> i, follower |-> actor[h], following |-> object[h]]}
    /\ End(h)
    /\ UNCHANGED <<users, likes, submissions, shards, used, assignments>>

Unfollow(h, u, v) ==
    /\ pc[h] = "idle" /\ Authenticated(u)
    /\ IF RowsOf(u) = {} THEN UNCHANGED requests ELSE Goto(h, "unfollow", u, v)
    /\ UNCHANGED tables

\* The rows of the pair, possibly none.
DeleteFollower(h) ==
    /\ pc[h] = "unfollow"
    /\ followers' = {r \in followers : ~(r.follower = actor[h] /\ r.following = object[h])}
    /\ End(h)
    /\ UNCHANGED <<users, likes, submissions, shards, used, assignments>>

AccountsNext ==
    \E h \in Handlers :
        \/ \E u \in Users : Onboard(h, u)
        \/ \E u, v \in Users : Follow(h, u, v) \/ Unfollow(h, u, v)
        \/ SignUp(h) \/ InsertFollower(h) \/ DeleteFollower(h)

(***************************************************************************)
(* However many requests of u to follow v race each other, the rows that   *)
(* they add for the two do not pile up: they are at most as many as there  *)
(* can be requests in progress at a time, one if nothing races.            *)
(***************************************************************************)
RowsOfPair(u, v) == {r \in RowsOf(u) : r.following = v}

PairBound == \A u, v \in Users : Cardinality(RowsOfPair(u, v)) <= Cardinality(Handlers)
=============================================================================

---------------------------- MODULE RecordsProofs ----------------------------
(***************************************************************************)
(* Proofs about Records for any people, shards, assignments and number of  *)
(* requests in progress.                                                   *)
(***************************************************************************)
EXTENDS Records, FiniteSetTheorems, TLAPS

-----------------------------------------------------------------------------
\* Types.

LEMMA GotoType ==
    ASSUME RequestsTypeOK, NEW h \in Handlers, NEW point \in Points,
           NEW u \in Users \cup {None}, NEW o \in Users \cup Assignments \cup {None},
           point # "idle" => u \in Users,
           point \in {"follow", "unfollow"} => o \in Users,
           point \in {"existing", "submit"} => o \in Assignments,
           Goto(h, point, u, o)
    PROVE  RequestsTypeOK'
<1>1. /\ pc' \in [Handlers -> Points]
      /\ actor' \in [Handlers -> Users \cup {None}]
      /\ object' \in [Handlers -> Users \cup Assignments \cup {None}]
  BY DEF Goto, RequestsTypeOK
<1>2. ASSUME NEW g \in Handlers
      PROVE  /\ pc'[g] # "idle" => actor'[g] \in Users
             /\ pc'[g] \in {"follow", "unfollow"} => object'[g] \in Users
             /\ pc'[g] \in {"existing", "submit"} => object'[g] \in Assignments
  <2>1. CASE g = h
    BY <2>1 DEF Goto, RequestsTypeOK
  <2>2. CASE g # h
    BY <2>2 DEF Goto, RequestsTypeOK
  <2> QED
    BY <2>1, <2>2
<1> QED
  BY <1>1, <1>2 DEF RequestsTypeOK

LEMMA EndType ==
    ASSUME RequestsTypeOK, NEW h \in Handlers, End(h)
    PROVE  RequestsTypeOK'
BY GotoType DEF End, Points

LEMMA SameRequests == RequestsTypeOK /\ UNCHANGED requests => RequestsTypeOK'
BY DEF requests, RequestsTypeOK

LEMMA SameTables == TablesTypeOK /\ UNCHANGED tables => TablesTypeOK'
BY DEF tables, TablesTypeOK

LEMMA AccountsType == TypeOK /\ AccountsNext => TablesTypeOK' /\ RequestsTypeOK'
<1> SUFFICES ASSUME TablesTypeOK, RequestsTypeOK, AccountsNext
             PROVE  TablesTypeOK' /\ RequestsTypeOK'
  BY DEF TypeOK
<1>1. ASSUME NEW h \in Handlers, NEW u \in Users, Onboard(h, u)
      PROVE  TablesTypeOK' /\ RequestsTypeOK'
  BY <1>1, GotoType, SameRequests, SameTables DEF Onboard, Points
<1>2. ASSUME NEW h \in Handlers, NEW u \in Users, NEW v \in Users, Follow(h, u, v)
      PROVE  TablesTypeOK' /\ RequestsTypeOK'
  BY <1>2, GotoType, SameRequests, SameTables DEF Follow, Points
<1>3. ASSUME NEW h \in Handlers, NEW u \in Users, NEW v \in Users, Unfollow(h, u, v)
      PROVE  TablesTypeOK' /\ RequestsTypeOK'
  BY <1>3, GotoType, SameRequests, SameTables DEF Unfollow, Points
<1>4. ASSUME NEW h \in Handlers, SignUp(h)
      PROVE  TablesTypeOK' /\ RequestsTypeOK'
  <2>1. actor[h] \in Users
    BY <1>4 DEF SignUp, RequestsTypeOK
  <2>2. TablesTypeOK'
    BY <1>4, <2>1 DEF SignUp, TablesTypeOK
  <2> QED
    BY <1>4, <2>2, EndType DEF SignUp
<1>5. ASSUME NEW h \in Handlers, InsertFollower(h)
      PROVE  TablesTypeOK' /\ RequestsTypeOK'
  <2>1. actor[h] \in Users /\ object[h] \in Users
    BY <1>5 DEF InsertFollower, RequestsTypeOK
  <2>2. followers' \subseteq Follower
    BY <1>5, <2>1 DEF InsertFollower, TablesTypeOK, Follower
  <2>3. TablesTypeOK'
    BY <1>5, <2>2 DEF InsertFollower, TablesTypeOK
  <2> QED
    BY <1>5, <2>3, EndType DEF InsertFollower
<1>6. ASSUME NEW h \in Handlers, DeleteFollower(h)
      PROVE  TablesTypeOK' /\ RequestsTypeOK'
  <2>1. TablesTypeOK'
    BY <1>6 DEF DeleteFollower, TablesTypeOK
  <2> QED
    BY <1>6, <2>1, EndType DEF DeleteFollower
<1> QED
  BY <1>1, <1>2, <1>3, <1>4, <1>5, <1>6 DEF AccountsNext

LEMMA AssignmentsType == TypeOK /\ AssignmentsNext => TablesTypeOK' /\ RequestsTypeOK'
<1> SUFFICES ASSUME TablesTypeOK, RequestsTypeOK, AssignmentsNext
             PROVE  TablesTypeOK' /\ RequestsTypeOK'
  BY DEF TypeOK
<1>1. ASSUME NEW u \in Users, NEW a \in Assignments, CreateAssignment(u, a)
      PROVE  TablesTypeOK' /\ RequestsTypeOK'
  BY <1>1, SameRequests DEF CreateAssignment, InsertAssignment, TablesTypeOK
<1>2. ASSUME NEW u \in Users, NEW a \in Assignments, DeleteAssignment(u, a)
      PROVE  TablesTypeOK' /\ RequestsTypeOK'
  BY <1>2, SameRequests, SameTables DEF DeleteAssignment
<1>3. ASSUME NEW a \in Assignments, DeadlinePasses(a)
      PROVE  TablesTypeOK' /\ RequestsTypeOK'
  BY <1>3, SameRequests DEF DeadlinePasses, TablesTypeOK
<1>4. ASSUME NEW h \in Handlers, NEW u \in Users, NEW a \in Assignments, Submit(h, u, a)
      PROVE  TablesTypeOK' /\ RequestsTypeOK'
  BY <1>4, GotoType, SameRequests, SameTables DEF Submit, Points
<1>5. ASSUME NEW h \in Handlers, FindExisting(h)
      PROVE  TablesTypeOK' /\ RequestsTypeOK'
  <2>1. actor[h] \in Users /\ object[h] \in Assignments
    BY <1>5 DEF FindExisting, RequestsTypeOK
  <2> QED
    <3>1. CASE SubmissionsOf(actor[h], object[h]) # {}
      BY <1>5, <3>1, EndType, SameTables DEF FindExisting
    <3>2. CASE SubmissionsOf(actor[h], object[h]) = {}
      <4>1. Goto(h, "submit", actor[h], object[h])
        BY <1>5, <3>2 DEF FindExisting
      <4>2. "submit" \in Points /\ actor[h] \in Users \cup {None}
        BY <2>1 DEF Points
      <4>3. object[h] \in Users \cup Assignments \cup {None}
        BY <2>1
      <4>4. RequestsTypeOK'
        BY <2>1, <4>1, <4>2, <4>3, GotoType
      <4> QED
        BY <1>5, <4>4, SameTables DEF FindExisting
    <3> QED
      BY <3>1, <3>2
<1>6. ASSUME NEW h \in Handlers, InsertSubmission(h)
      PROVE  TablesTypeOK' /\ RequestsTypeOK'
  <2>1. actor[h] \in Users /\ object[h] \in Assignments
    BY <1>6 DEF InsertSubmission, AddSubmission, RequestsTypeOK
  <2>2. submissions' \subseteq Submission
    <3>1. (assignments[object[h]] = "closed") \in BOOLEAN
      OBVIOUS
    <3>2. PICK i \in Ids, late \in BOOLEAN :
             submissions' = submissions \cup
                {[id |-> i, assignment |-> object[h], user |-> actor[h], late |-> late]}
      BY <1>6, <3>1, ZenonT(30) DEF InsertSubmission, AddSubmission
    <3> QED
      BY <2>1, <3>2 DEF TablesTypeOK, Submission
  <2>3. TablesTypeOK'
    BY <1>6, <2>2 DEF InsertSubmission, AddSubmission, TablesTypeOK
  <2> QED
    BY <1>6, <2>3, EndType DEF InsertSubmission, AddSubmission
<1> QED
  BY <1>1, <1>2, <1>3, <1>4, <1>5, <1>6 DEF AssignmentsNext

LEMMA ShardType == TypeOK /\ ShardNext => TypeOK'
<1> SUFFICES ASSUME TypeOK, ShardNext PROVE TypeOK'
  OBVIOUS
<1> USE DEF TypeOK
<1>1. ASSUME NEW u \in Users, NEW s \in Shards, Create(u, s)
      PROVE  TypeOK'
  <2>1. [owner |-> u, title |-> Default] \in Shard
    BY DEF Shard
  <2> QED
    BY <1>1, <2>1, SameRequests DEF Create, InsertShard, TablesTypeOK, SentTypeOK
<1>2. ASSUME NEW u \in Users, NEW s \in Shards, Delete(u, s)
      PROVE  TypeOK'
  BY <1>2, SameRequests DEF Delete, DeleteRows, TablesTypeOK, SentTypeOK
<1>3. ASSUME NEW u \in Users, NEW s \in Shards, LikeShard(u, s)
      PROVE  TypeOK'
  <2>1. likes' \subseteq Like
    BY <1>3 DEF LikeShard, InsertLike, TablesTypeOK, Like
  <2> QED
    BY <1>3, <2>1, SameRequests DEF LikeShard, InsertLike, TablesTypeOK, SentTypeOK
<1>4. ASSUME NEW u \in Users, NEW s \in Shards, DislikeShard(u, s)
      PROVE  TypeOK'
  BY <1>4, SameRequests DEF DislikeShard, DeleteLikes, TablesTypeOK, SentTypeOK
<1>5. ASSUME NEW u \in Users, NEW s \in Shards, NEW t \in Titles, Patch(u, s, t)
      PROVE  TypeOK'
  <2>1. ASSUME NEW x \in Shards, shards[x].owner = u
        PROVE  [shards[x] EXCEPT !.title = t] \in Shard
    BY <2>1, NoneAssumption DEF TablesTypeOK, Shard, NoShard
  <2>2. shards' \in [Shards -> Shard \cup {NoShard}]
    BY <1>5, <2>1 DEF Patch, UpdateOwned, TablesTypeOK
  <2>3. sent' \in [Users -> SUBSET Titles]
    BY <1>5 DEF Patch, UpdateOwned, SentTypeOK
  <2> QED
    BY <1>5, <2>2, <2>3, SameRequests DEF Patch, UpdateOwned, TablesTypeOK, SentTypeOK
<1> QED
  BY <1>1, <1>2, <1>3, <1>4, <1>5 DEF ShardNext, ShardIdStep

LEMMA TypeInit == Init => TypeOK
BY DEF Init, InitDatabase, TypeOK, TablesTypeOK, RequestsTypeOK, SentTypeOK, Points

LEMMA TypeStep == TypeOK /\ [Next]_vars => TypeOK'
<1> SUFFICES ASSUME TypeOK, [Next]_vars PROVE TypeOK'
  OBVIOUS
<1>1. ASSUME sent' = sent PROVE SentTypeOK'
  BY <1>1 DEF TypeOK, SentTypeOK
<1>2. ASSUME NEW h \in Handlers, Fail(h)
      PROVE  TablesTypeOK' /\ RequestsTypeOK'
  BY <1>2, EndType, SameTables DEF Fail, TypeOK
<1>3. CASE UNCHANGED vars
  BY <1>1, <1>3, SameRequests, SameTables DEF vars, TypeOK
<1> QED
  BY <1>1, <1>2, <1>3, AccountsType, AssignmentsType, ShardType DEF Next, TypeOK

(***************************************************************************)
(* Every table and every request keeps its type.                           *)
(***************************************************************************)
THEOREM TypeCorrect == Spec => []TypeOK
BY TypeInit, TypeStep, PTL DEF Spec

-----------------------------------------------------------------------------
\* Counting.  A request that has passed its check may still add a row; rows and
\* such requests together are at most as many as requests can be in progress.

Counted(R, W) ==
    /\ IsFiniteSet(R)
    /\ W \subseteq Handlers
    /\ Cardinality(R) + Cardinality(W) <= Cardinality(Handlers)

LEMMA CountedBound ==
    ASSUME NEW R, NEW W, Counted(R, W)
    PROVE  Cardinality(R) <= Cardinality(Handlers)
<1>1. IsFiniteSet(W)
  BY HandlersAssumption, FS_Subset DEF Counted
<1>2. /\ Cardinality(R) \in Nat /\ Cardinality(W) \in Nat
      /\ Cardinality(Handlers) \in Nat
  BY <1>1, HandlersAssumption, FS_CardinalityType DEF Counted
<1> QED
  BY <1>2 DEF Counted

LEMMA CountedShrink ==
    ASSUME NEW R, NEW W, Counted(R, W), NEW S \in SUBSET R, NEW V \in SUBSET W
    PROVE  Counted(S, V)
<1>1. IsFiniteSet(W) /\ IsFiniteSet(R)
  BY HandlersAssumption, FS_Subset DEF Counted
<1>2. /\ IsFiniteSet(S) /\ Cardinality(S) <= Cardinality(R)
      /\ IsFiniteSet(V) /\ Cardinality(V) <= Cardinality(W)
  BY <1>1, FS_Subset
<1>3. /\ Cardinality(R) \in Nat /\ Cardinality(W) \in Nat
      /\ Cardinality(S) \in Nat /\ Cardinality(V) \in Nat
      /\ Cardinality(Handlers) \in Nat
  BY <1>1, <1>2, HandlersAssumption, FS_CardinalityType
<1> QED
  BY <1>2, <1>3 DEF Counted

LEMMA CountedFresh ==
    ASSUME NEW V \in SUBSET Handlers
    PROVE  Counted({}, V)
<1>1. IsFiniteSet(V) /\ Cardinality(V) <= Cardinality(Handlers)
  BY HandlersAssumption, FS_Subset
<1>2. Cardinality(V) \in Nat /\ Cardinality(Handlers) \in Nat
  BY <1>1, HandlersAssumption, FS_CardinalityType
<1> QED
  BY <1>1, <1>2, FS_EmptySet DEF Counted

LEMMA CountedInsert ==
    ASSUME NEW R, NEW W, Counted(R, W), NEW h \in W, NEW x,
           NEW S \in SUBSET (R \cup {x}), NEW V \in SUBSET (W \ {h})
    PROVE  Counted(S, V)
<1>1. IsFiniteSet(W) /\ IsFiniteSet(R)
  BY HandlersAssumption, FS_Subset DEF Counted
<1>2. /\ Cardinality(R) \in Nat /\ Cardinality(W) \in Nat
      /\ Cardinality(Handlers) \in Nat
  BY <1>1, HandlersAssumption, FS_CardinalityType
<1>3. /\ IsFiniteSet(R \cup {x})
      /\ Cardinality(R \cup {x}) <= Cardinality(R) + 1
  <2>1. /\ IsFiniteSet(R \cup {x})
        /\ Cardinality(R \cup {x}) = IF x \in R THEN Cardinality(R) ELSE Cardinality(R) + 1
    BY <1>1, FS_AddElement, Zenon
  <2>2. CASE x \in R
    BY <1>2, <2>1, <2>2
  <2>3. CASE x \notin R
    BY <1>2, <2>1, <2>3
  <2> QED
    BY <2>2, <2>3
<1>4. /\ IsFiniteSet(W \ {h})
      /\ Cardinality(W \ {h}) = Cardinality(W) - 1
  BY <1>1, FS_RemoveElement
<1>5. /\ Cardinality(R \cup {x}) \in Nat
      /\ Cardinality(W \ {h}) \in Nat
  BY <1>3, <1>4, FS_CardinalityType
<1>6. Counted(R \cup {x}, W \ {h})
  <2>1. Cardinality(R \cup {x}) + Cardinality(W \ {h}) <= Cardinality(Handlers)
    BY <1>2, <1>3, <1>4, <1>5 DEF Counted
  <2> QED
    BY <1>3, <2>1 DEF Counted
<1> QED
  BY <1>6, CountedShrink

-----------------------------------------------------------------------------
\* The requests that may still add a row.

Following(u, v) == {h \in Handlers : pc[h] = "follow" /\ actor[h] = u /\ object[h] = v}
Submitting(u, a) == {h \in Handlers : pc[h] = "submit" /\ actor[h] = u /\ object[h] = a}
Answering(a) == {h \in Handlers : pc[h] \in {"existing", "submit"} /\ object[h] = a}

LEMMA GotoWaits ==
    ASSUME RequestsTypeOK, NEW h \in Handlers, NEW point, NEW w, NEW o, Goto(h, point, w, o)
    PROVE  /\ point # "follow" =>
                \A u, v \in Users : Following(u, v)' \subseteq Following(u, v) \ {h}
           /\ point # "submit" =>
                \A u \in Users, a \in Assignments :
                    Submitting(u, a)' \subseteq Submitting(u, a) \ {h}
           /\ point \notin {"existing", "submit"} =>
                \A a \in Assignments : Answering(a)' \subseteq Answering(a) \ {h}
<1>1. /\ pc'[h] = point
      /\ \A g \in Handlers \ {h} :
            pc'[g] = pc[g] /\ actor'[g] = actor[g] /\ object'[g] = object[g]
  BY DEF Goto, RequestsTypeOK
<1> QED
  BY <1>1 DEF Following, Submitting, Answering

LEMMA StayWaits ==
    ASSUME UNCHANGED requests
    PROVE  /\ \A u, v \in Users : Following(u, v)' = Following(u, v)
           /\ \A u \in Users, a \in Assignments : Submitting(u, a)' = Submitting(u, a)
           /\ \A a \in Assignments : Answering(a)' = Answering(a)
BY DEF requests, Following, Submitting, Answering

\* Every step but the few that the three arguments are about.
LEMMA OtherSteps ==
    ASSUME TypeOK, [Next]_vars
    PROVE  \/ \E h \in Handlers, u \in Users, v \in Users : Follow(h, u, v)
           \/ \E h \in Handlers : InsertFollower(h)
           \/ \E h \in Handlers, u \in Users, a \in Assignments : Submit(h, u, a)
           \/ \E h \in Handlers : FindExisting(h) \/ InsertSubmission(h)
           \/ \E u \in Users, a \in Assignments : CreateAssignment(u, a)
           \/ \E a \in Assignments : DeadlinePasses(a)
           \/ /\ followers' \subseteq followers
              /\ UNCHANGED <<submissions, assignments>>
              /\ \/ UNCHANGED requests
                 \/ \E h \in Handlers, point \in Points \ {"follow", "existing", "submit"} : \E w, o :
                        Goto(h, point, w, o)
<1> DEFINE Quiet == UNCHANGED requests \/
                    \E h \in Handlers, point \in Points \ {"follow", "existing", "submit"} : \E w, o :
                        Goto(h, point, w, o)
<1>1. "signup" \in Points /\ "unfollow" \in Points /\ "idle" \in Points
  BY DEF Points
<1>2. ASSUME NEW h \in Handlers, NEW u \in Users, Onboard(h, u)
      PROVE  UNCHANGED <<followers, submissions, assignments>> /\ Quiet
  BY <1>1, <1>2 DEF Onboard, tables
<1>3. ASSUME NEW h \in Handlers, NEW u \in Users, NEW v \in Users, Unfollow(h, u, v)
      PROVE  UNCHANGED <<followers, submissions, assignments>> /\ Quiet
  BY <1>1, <1>3 DEF Unfollow, tables
<1>4. ASSUME NEW h \in Handlers, SignUp(h) \/ DeleteFollower(h) \/ Fail(h)
      PROVE  followers' \subseteq followers /\ UNCHANGED <<submissions, assignments>> /\ Quiet
  BY <1>1, <1>4 DEF SignUp, DeleteFollower, Fail, End, tables
<1>5. ASSUME NEW u \in Users, NEW a \in Assignments, DeleteAssignment(u, a)
      PROVE  UNCHANGED <<followers, submissions, assignments>> /\ Quiet
  BY <1>5 DEF DeleteAssignment, tables
<1>6. ASSUME ShardNext
      PROVE  UNCHANGED <<followers, submissions, assignments>> /\ Quiet
  BY <1>6 DEF ShardNext, ShardIdStep, Create, InsertShard, Delete, DeleteRows, LikeShard, InsertLike, DislikeShard, DeleteLikes, Patch, UpdateOwned
<1>7. ASSUME UNCHANGED vars
      PROVE  UNCHANGED <<followers, submissions, assignments>> /\ Quiet
  BY <1>7 DEF vars, tables
<1> HIDE DEF Quiet
<1>8. ASSUME AccountsNext
      PROVE  \/ \E h \in Handlers, u \in Users, v \in Users : Follow(h, u, v)
             \/ \E h \in Handlers : InsertFollower(h)
             \/ followers' \subseteq followers /\ UNCHANGED <<submissions, assignments>> /\ Quiet
  BY <1>2, <1>3, <1>4, <1>8 DEF AccountsNext
<1>9. ASSUME AssignmentsNext
      PROVE  \/ \E h \in Handlers, u \in Users, a \in Assignments : Submit(h, u, a)
             \/ \E h \in Handlers : FindExisting(h) \/ InsertSubmission(h)
             \/ \E u \in Users, a \in Assignments : CreateAssignment(u, a)
             \/ \E a \in Assignments : DeadlinePasses(a)
             \/ followers' \subseteq followers /\ UNCHANGED <<submissions, assignments>> /\ Quiet
  BY <1>5, <1>9 DEF AssignmentsNext
<1>10. CASE followers' \subseteq followers /\ UNCHANGED <<submissions, assignments>> /\ Quiet
  BY <1>10 DEF Quiet
<1> QED
  BY <1>4, <1>6, <1>7, <1>8, <1>9, <1>10 DEF Next

-----------------------------------------------------------------------------
\* Followers.

PairInv == \A u, v \in Users : Counted(RowsOfPair(u, v), Following(u, v))

LEMMA PairStep == TypeOK /\ PairInv /\ [Next]_vars => PairInv'
<1> SUFFICES ASSUME TypeOK, RequestsTypeOK, PairInv, [Next]_vars, NEW u \in Users, NEW v \in Users
             PROVE  Counted(RowsOfPair(u, v)', Following(u, v)')
  BY DEF PairInv, TypeOK, Counted
<1>1. Counted(RowsOfPair(u, v), Following(u, v))
  BY DEF PairInv
<1>2. ASSUME RowsOfPair(u, v)' \subseteq RowsOfPair(u, v), Following(u, v)' \subseteq Following(u, v)
      PROVE  Counted(RowsOfPair(u, v)', Following(u, v)')
  BY <1>1, <1>2, CountedShrink
<1>3. ASSUME followers' \subseteq followers
      PROVE  RowsOfPair(u, v)' \subseteq RowsOfPair(u, v)
  BY <1>3 DEF RowsOfPair, RowsOf
<1>4. ASSUME NEW h \in Handlers, NEW w \in Users, NEW x \in Users, Follow(h, w, x)
      PROVE  Counted(RowsOfPair(u, v)', Following(u, v)')
  <2>1. followers' = followers
    BY <1>4 DEF Follow, tables
  <2>2. CASE RowsOf(w) # {}
    BY <1>2, <1>3, <1>4, <2>1, <2>2, StayWaits DEF Follow
  <2>3. CASE RowsOf(w) = {} /\ w = u /\ x = v
    <3>1. RowsOfPair(u, v)' = {} /\ Following(u, v)' \subseteq Handlers
      BY <2>1, <2>3 DEF RowsOfPair, RowsOf, Following
    <3> QED
      BY <3>1, CountedFresh
  <2>4. CASE RowsOf(w) = {} /\ ~(w = u /\ x = v)
    <3>1. Goto(h, "follow", w, x)
      BY <1>4, <2>4 DEF Follow
    <3>2. Following(u, v)' \subseteq Following(u, v)
      BY <3>1, <2>4 DEF Goto, RequestsTypeOK, Following
    <3> QED
      BY <1>2, <1>3, <2>1, <3>2
  <2> QED
    BY <2>2, <2>3, <2>4
<1>5. ASSUME NEW h \in Handlers, InsertFollower(h)
      PROVE  Counted(RowsOfPair(u, v)', Following(u, v)')
  <2>1. PICK i \in Ids :
            followers' = followers \cup
                {[id |-> i, follower |-> actor[h], following |-> object[h]]}
    BY <1>5 DEF InsertFollower
  <2> DEFINE x == [id |-> i, follower |-> actor[h], following |-> object[h]]
  <2>2. Following(u, v)' \subseteq Following(u, v) \ {h}
    BY <1>5, GotoWaits DEF InsertFollower, End
  <2>3. CASE actor[h] = u /\ object[h] = v
    <3>1. h \in Following(u, v)
      BY <1>5, <2>3 DEF InsertFollower, Following
    <3>2. RowsOfPair(u, v)' \in SUBSET (RowsOfPair(u, v) \cup {x})
      BY <2>1 DEF RowsOfPair, RowsOf
    <3>3. Following(u, v)' \in SUBSET (Following(u, v) \ {h})
      BY <2>2
    <3> HIDE DEF x
    <3> QED
      BY <1>1, <3>1, <3>2, <3>3, CountedInsert
  <2>4. CASE ~(actor[h] = u /\ object[h] = v)
    <3>1. RowsOfPair(u, v)' \subseteq RowsOfPair(u, v)
      BY <2>1, <2>4 DEF RowsOfPair, RowsOf
    <3> QED
      BY <1>2, <2>2, <3>1
  <2> QED
    BY <2>3, <2>4
<1>6. ASSUME followers' = followers,
             \/ UNCHANGED requests
             \/ \E h \in Handlers : \E point, w, o : point # "follow" /\ Goto(h, point, w, o)
      PROVE  Counted(RowsOfPair(u, v)', Following(u, v)')
  <2>1. Following(u, v)' \subseteq Following(u, v)
    BY <1>6, GotoWaits, StayWaits
  <2> QED
    BY <1>2, <1>3, <1>6, <2>1
<1>7. ASSUME NEW h \in Handlers, NEW w \in Users, NEW a \in Assignments, Submit(h, w, a)
      PROVE  Counted(RowsOfPair(u, v)', Following(u, v)')
  BY <1>6, <1>7 DEF Submit, tables
<1>8. ASSUME NEW h \in Handlers, FindExisting(h) \/ InsertSubmission(h)
      PROVE  Counted(RowsOfPair(u, v)', Following(u, v)')
  BY <1>6, <1>8 DEF FindExisting, InsertSubmission, AddSubmission, End, tables
<1>9. ASSUME NEW a \in Assignments,
             DeadlinePasses(a) \/ \E w \in Users : CreateAssignment(w, a)
      PROVE  Counted(RowsOfPair(u, v)', Following(u, v)')
  BY <1>6, <1>9 DEF DeadlinePasses, CreateAssignment, InsertAssignment
<1>10. ASSUME followers' \subseteq followers,
              \/ UNCHANGED requests
              \/ \E h \in Handlers, point \in Points \ {"follow", "existing", "submit"} : \E w, o :
                    Goto(h, point, w, o)
       PROVE  Counted(RowsOfPair(u, v)', Following(u, v)')
  <2>1. Following(u, v)' \subseteq Following(u, v)
    BY <1>10, GotoWaits, StayWaits
  <2> QED
    BY <1>2, <1>3, <1>10, <2>1
<1> QED
  BY <1>4, <1>5, <1>7, <1>8, <1>9, <1>10, OtherSteps

(***************************************************************************)
(* However many requests to follow race each other, the rows for one pair  *)
(* are at most as many as requests can be in progress: once there is a row *)
(* no further request for the pair gets past the check, and a row uses up  *)
(* the request that adds it.                                               *)
(***************************************************************************)
THEOREM PairBoundHolds == Spec => []PairBound
<1>1. Init => PairInv
  <2> SUFFICES ASSUME Init, NEW u \in Users, NEW v \in Users
               PROVE  Counted(RowsOfPair(u, v), Following(u, v))
    BY DEF PairInv
  <2>1. RowsOfPair(u, v) = {} /\ Following(u, v) \subseteq Handlers
    BY DEF Init, InitDatabase, RowsOfPair, RowsOf, Following
  <2> QED
    BY <2>1, CountedFresh
<1>2. PairInv => PairBound
  BY CountedBound DEF PairInv, PairBound
<1> QED
  BY <1>1, <1>2, TypeInit, TypeStep, PairStep, PTL DEF Spec

-----------------------------------------------------------------------------
\* Submissions.

SubmitInv ==
    \A u \in Users, a \in Assignments : Counted(SubmissionsOf(u, a), Submitting(u, a))

LateInv ==
    \A a \in Assignments :
        /\ assignments[a] # "closed" => LateFor(a) = {}
        /\ Counted(LateFor(a), Answering(a))

LEMMA SubmitStep == TypeOK /\ SubmitInv /\ [Next]_vars => SubmitInv'
<1> SUFFICES ASSUME TypeOK, RequestsTypeOK, SubmitInv, [Next]_vars,
                    NEW u \in Users, NEW a \in Assignments
             PROVE  Counted(SubmissionsOf(u, a)', Submitting(u, a)')
  BY DEF SubmitInv, TypeOK, Counted
<1>1. Counted(SubmissionsOf(u, a), Submitting(u, a))
  BY DEF SubmitInv
<1>2. ASSUME SubmissionsOf(u, a)' \subseteq SubmissionsOf(u, a),
             Submitting(u, a)' \subseteq Submitting(u, a)
      PROVE  Counted(SubmissionsOf(u, a)', Submitting(u, a)')
  BY <1>1, <1>2, CountedShrink
<1>3. ASSUME submissions' = submissions
      PROVE  SubmissionsOf(u, a)' = SubmissionsOf(u, a)
  BY <1>3 DEF SubmissionsOf
<1>4. ASSUME submissions' = submissions,
             \/ UNCHANGED requests
             \/ \E h \in Handlers : \E point, w, o : point # "submit" /\ Goto(h, point, w, o)
      PROVE  Counted(SubmissionsOf(u, a)', Submitting(u, a)')
  <2>1. Submitting(u, a)' \subseteq Submitting(u, a)
    BY <1>4, GotoWaits, StayWaits
  <2> QED
    BY <1>2, <1>3, <1>4, <2>1
<1>5. ASSUME NEW h \in Handlers, FindExisting(h)
      PROVE  Counted(SubmissionsOf(u, a)', Submitting(u, a)')
  <2>1. submissions' = submissions
    BY <1>5 DEF FindExisting, tables
  <2>2. CASE SubmissionsOf(actor[h], object[h]) # {}
    BY <1>4, <1>5, <2>1, <2>2 DEF FindExisting, End
  <2>3. CASE SubmissionsOf(actor[h], object[h]) = {} /\ actor[h] = u /\ object[h] = a
    <3>1. SubmissionsOf(u, a)' = {} /\ Submitting(u, a)' \subseteq Handlers
      BY <1>3, <2>1, <2>3 DEF Submitting
    <3> QED
      BY <3>1, CountedFresh
  <2>4. CASE SubmissionsOf(actor[h], object[h]) = {} /\ ~(actor[h] = u /\ object[h] = a)
    <3>1. Goto(h, "submit", actor[h], object[h])
      BY <1>5, <2>4 DEF FindExisting
    <3>2. Submitting(u, a)' \subseteq Submitting(u, a)
      BY <3>1, <2>4 DEF Goto, RequestsTypeOK, Submitting
    <3> QED
      BY <1>2, <1>3, <2>1, <3>2
  <2> QED
    BY <2>2, <2>3, <2>4
<1>6. ASSUME NEW h \in Handlers, InsertSubmission(h)
      PROVE  Counted(SubmissionsOf(u, a)', Submitting(u, a)')
  <2>1. \E x : /\ submissions' = submissions \cup {x}
                /\ x.user = actor[h] /\ x.assignment = object[h]
    <3>1. PICK i \in Ids :
             submissions' = submissions \cup
                {[id |-> i, assignment |-> object[h], user |-> actor[h],
                  late |-> assignments[object[h]] = "closed"]}
      BY <1>6 DEF InsertSubmission, AddSubmission
    <3> WITNESS [id |-> i, assignment |-> object[h], user |-> actor[h],
                 late |-> assignments[object[h]] = "closed"]
    <3> QED
      BY <3>1, Zenon
  <2> PICK x : /\ submissions' = submissions \cup {x}
               /\ x.user = actor[h] /\ x.assignment = object[h]
    BY <2>1
  <2>2. Submitting(u, a)' \subseteq Submitting(u, a) \ {h}
    BY <1>6, GotoWaits DEF InsertSubmission, AddSubmission, End
  <2>3. CASE actor[h] = u /\ object[h] = a
    <3>1. h \in Submitting(u, a)
      BY <1>6, <2>3 DEF InsertSubmission, AddSubmission, Submitting
    <3>2. SubmissionsOf(u, a)' \in SUBSET (SubmissionsOf(u, a) \cup {x})
      BY DEF SubmissionsOf
    <3>3. Submitting(u, a)' \in SUBSET (Submitting(u, a) \ {h})
      BY <2>2
    <3> QED
      BY <1>1, <3>1, <3>2, <3>3, CountedInsert
  <2>4. CASE ~(actor[h] = u /\ object[h] = a)
    <3>1. SubmissionsOf(u, a)' \subseteq SubmissionsOf(u, a)
      BY <2>4 DEF SubmissionsOf
    <3> QED
      BY <1>2, <2>2, <3>1
  <2> QED
    BY <2>3, <2>4
<1>7. ASSUME NEW h \in Handlers, NEW w \in Users, NEW v \in Users, Follow(h, w, v)
      PROVE  Counted(SubmissionsOf(u, a)', Submitting(u, a)')
  BY <1>4, <1>7 DEF Follow, tables
<1>8. ASSUME NEW h \in Handlers, InsertFollower(h)
      PROVE  Counted(SubmissionsOf(u, a)', Submitting(u, a)')
  BY <1>4, <1>8 DEF InsertFollower, End
<1>9. ASSUME NEW h \in Handlers, NEW w \in Users, NEW b \in Assignments, Submit(h, w, b)
      PROVE  Counted(SubmissionsOf(u, a)', Submitting(u, a)')
  BY <1>4, <1>9 DEF Submit, tables
<1>10. ASSUME NEW b \in Assignments,
              DeadlinePasses(b) \/ \E w \in Users : CreateAssignment(w, b)
       PROVE  Counted(SubmissionsOf(u, a)', Submitting(u, a)')
  BY <1>4, <1>10 DEF DeadlinePasses, CreateAssignment, InsertAssignment
<1>11. ASSUME submissions' = submissions,
              \/ UNCHANGED requests
              \/ \E h \in Handlers, point \in Points \ {"follow", "existing", "submit"} : \E w, o :
                    Goto(h, point, w, o)
       PROVE  Counted(SubmissionsOf(u, a)', Submitting(u, a)')
  <2>1. Submitting(u, a)' \subseteq Submitting(u, a)
    BY <1>11, GotoWaits, StayWaits
  <2> QED
    BY <1>2, <1>3, <1>11, <2>1
<1> QED
  BY <1>5, <1>6, <1>7, <1>8, <1>9, <1>10, <1>11, OtherSteps

(***************************************************************************)
(* A user has at most as many submissions for an assignment as requests can*)
(* be in progress, whatever the order of looks and inserts.                *)
(***************************************************************************)
THEOREM SubmissionBoundHolds == Spec => []SubmissionBound
<1>1. Init => SubmitInv
  <2> SUFFICES ASSUME Init, NEW u \in Users, NEW a \in Assignments
               PROVE  Counted(SubmissionsOf(u, a), Submitting(u, a))
    BY DEF SubmitInv
  <2>1. SubmissionsOf(u, a) = {} /\ Submitting(u, a) \subseteq Handlers
    BY DEF Init, InitDatabase, SubmissionsOf, Submitting
  <2> QED
    BY <2>1, CountedFresh
<1>2. SubmitInv => SubmissionBound
  BY CountedBound DEF SubmitInv, SubmissionBound
<1> QED
  BY <1>1, <1>2, TypeInit, TypeStep, SubmitStep, PTL DEF Spec

LEMMA LateStep == TypeOK /\ LateInv /\ [Next]_vars => LateInv'
<1> SUFFICES ASSUME TypeOK, TablesTypeOK, RequestsTypeOK, LateInv, [Next]_vars, NEW a \in Assignments
             PROVE  /\ assignments'[a] # "closed" => LateFor(a)' = {}
                    /\ Counted(LateFor(a)', Answering(a)')
  BY DEF LateInv, TypeOK, Counted
<1>1. Counted(LateFor(a), Answering(a)) /\ (assignments[a] # "closed" => LateFor(a) = {})
  BY DEF LateInv
<1>2. ASSUME LateFor(a)' \subseteq LateFor(a), Answering(a)' \subseteq Answering(a)
      PROVE  Counted(LateFor(a)', Answering(a)')
  BY <1>1, <1>2, CountedShrink
<1>3. ASSUME submissions' = submissions
      PROVE  LateFor(a)' = LateFor(a)
  BY <1>3 DEF LateFor
<1>4. ASSUME UNCHANGED <<submissions, assignments>>,
             \/ UNCHANGED requests
             \/ \E h \in Handlers : \E point, w, o :
                    point \notin {"existing", "submit"} /\ Goto(h, point, w, o)
      PROVE  /\ assignments'[a] # "closed" => LateFor(a)' = {}
             /\ Counted(LateFor(a)', Answering(a)')
  <2>1. Answering(a)' \subseteq Answering(a)
    BY <1>4, GotoWaits, StayWaits
  <2> QED
    BY <1>1, <1>2, <1>3, <1>4, <2>1
<1>5. ASSUME NEW h \in Handlers, NEW w \in Users, NEW b \in Assignments, Submit(h, w, b)
      PROVE  /\ assignments'[a] # "closed" => LateFor(a)' = {}
             /\ Counted(LateFor(a)', Answering(a)')
  <2>1. UNCHANGED <<submissions, assignments>>
    BY <1>5 DEF Submit, tables
  <2>2. CASE assignments[b] # "open"
    BY <1>4, <1>5, <2>1, <2>2 DEF Submit
  <2>3. CASE assignments[b] = "open" /\ a = b
    <3>1. LateFor(a)' = {}
      BY <1>1, <1>3, <2>1, <2>3
    <3>2. Answering(a)' \subseteq Handlers
      BY DEF Answering
    <3> QED
      BY <3>1, <3>2, CountedFresh
  <2>4. CASE assignments[b] = "open" /\ a # b
    <3>1. Goto(h, "existing", w, b)
      BY <1>5, <2>4 DEF Submit
    <3>2. Answering(a)' \subseteq Answering(a)
      BY <3>1, <2>4 DEF Goto, RequestsTypeOK, Answering
    <3> QED
      BY <1>1, <1>2, <1>3, <2>1, <3>2
  <2> QED
    BY <2>2, <2>3, <2>4
<1>6. ASSUME NEW h \in Handlers, FindExisting(h)
      PROVE  /\ assignments'[a] # "closed" => LateFor(a)' = {}
             /\ Counted(LateFor(a)', Answering(a)')
  <2>1. UNCHANGED <<submissions, assignments>>
    BY <1>6 DEF FindExisting, tables
  <2>2. CASE End(h)
    BY <1>4, <2>1, <2>2 DEF End
  <2>3. CASE Goto(h, "submit", actor[h], object[h])
    <3>1. Answering(a)' \subseteq Answering(a)
      BY <1>6, <2>3 DEF FindExisting, Goto, RequestsTypeOK, Answering
    <3> QED
      BY <1>1, <1>2, <1>3, <2>1, <3>1
  <2> QED
    BY <1>6, <2>2, <2>3 DEF FindExisting
<1>7. ASSUME NEW h \in Handlers, InsertSubmission(h)
      PROVE  /\ assignments'[a] # "closed" => LateFor(a)' = {}
             /\ Counted(LateFor(a)', Answering(a)')
  <2>1. PICK i \in Ids :
            submissions' = submissions \cup
                {[id |-> i, assignment |-> object[h], user |-> actor[h],
                  late |-> assignments[object[h]] = "closed"]}
    BY <1>7 DEF InsertSubmission, AddSubmission
  <2> DEFINE x == [id |-> i, assignment |-> object[h], user |-> actor[h],
                   late |-> assignments[object[h]] = "closed"]
  <2>2. Answering(a)' \subseteq Answering(a) \ {h} /\ assignments' = assignments
    BY <1>7, GotoWaits DEF InsertSubmission, AddSubmission, End
  <2>3. x.assignment = object[h] /\ (x.late <=> assignments[object[h]] = "closed")
    BY Zenon
  <2>4. submissions' = submissions \cup {x}
    BY <2>1
  <2> HIDE DEF x
  <2>5. CASE object[h] = a /\ assignments[a] = "closed"
    <3>1. h \in Answering(a)
      BY <1>7, <2>5 DEF InsertSubmission, AddSubmission, Answering
    <3>2. LateFor(a)' \in SUBSET (LateFor(a) \cup {x})
      BY <2>4 DEF LateFor
    <3>3. Answering(a)' \in SUBSET (Answering(a) \ {h})
      BY <2>2
    <3>4. Counted(LateFor(a)', Answering(a)')
      BY <1>1, <3>1, <3>2, <3>3, CountedInsert
    <3> QED
      BY <2>2, <2>5, <3>4
  <2>6. CASE ~(object[h] = a /\ assignments[a] = "closed")
    <3>1. ~(x.assignment = a /\ x.late)
      BY <2>3, <2>6
    <3>2. LateFor(a)' = LateFor(a)
      BY <2>4, <3>1 DEF LateFor
    <3> QED
      BY <1>1, <1>2, <2>2, <3>2
  <2> QED
    BY <2>5, <2>6
<1>8. ASSUME NEW b \in Assignments,
             DeadlinePasses(b) \/ \E w \in Users : CreateAssignment(w, b)
      PROVE  /\ assignments'[a] # "closed" => LateFor(a)' = {}
             /\ Counted(LateFor(a)', Answering(a)')
  <2>1. UNCHANGED <<submissions, requests>>
    BY <1>8 DEF DeadlinePasses, CreateAssignment, InsertAssignment
  <2>2. assignments'[a] # "closed" => assignments[a] # "closed"
    BY <1>8 DEF DeadlinePasses, CreateAssignment, InsertAssignment, TablesTypeOK
  <2>3. Answering(a)' \subseteq Answering(a)
    BY <2>1, StayWaits
  <2> QED
    BY <1>1, <1>2, <1>3, <2>1, <2>2, <2>3
<1>9. ASSUME NEW h \in Handlers, NEW w \in Users, NEW v \in Users, Follow(h, w, v)
      PROVE  /\ assignments'[a] # "closed" => LateFor(a)' = {}
             /\ Counted(LateFor(a)', Answering(a)')
  BY <1>4, <1>9 DEF Follow, tables
<1>10. ASSUME NEW h \in Handlers, InsertFollower(h)
       PROVE  /\ assignments'[a] # "closed" => LateFor(a)' = {}
              /\ Counted(LateFor(a)', Answering(a)')
  BY <1>4, <1>10 DEF InsertFollower, End
<1>11. ASSUME UNCHANGED <<submissions, assignments>>,
              \/ UNCHANGED requests
              \/ \E h \in Handlers, point \in Points \ {"follow", "existing", "submit"} : \E w, o :
                    Goto(h, point, w, o)
       PROVE  /\ assignments'[a] # "closed" => LateFor(a)' = {}
              /\ Counted(LateFor(a)', Answering(a)')
  <2>1. Answering(a)' \subseteq Answering(a)
    BY <1>11, GotoWaits, StayWaits
  <2> QED
    BY <1>1, <1>2, <1>3, <1>11, <2>1
<1> QED
  BY <1>5, <1>6, <1>7, <1>8, <1>9, <1>10, <1>11, OtherSteps

(***************************************************************************)
(* Late submissions come only from requests that were under way when the   *)
(* deadline passed: afterwards no request gets past the look at it.        *)
(***************************************************************************)
THEOREM LateBoundHolds == Spec => []LateBound
<1>1. Init => LateInv
  <2> SUFFICES ASSUME Init, NEW a \in Assignments
               PROVE  LateFor(a) = {} /\ Counted(LateFor(a), Answering(a))
    BY DEF LateInv
  <2>1. LateFor(a) = {} /\ Answering(a) \subseteq Handlers
    BY DEF Init, InitDatabase, LateFor, Answering
  <2> QED
    BY <2>1, CountedFresh
<1>2. LateInv => LateBound
  BY CountedBound DEF LateInv, LateBound
<1> QED
  BY <1>1, <1>2, TypeInit, TypeStep, LateStep, PTL DEF Spec

-----------------------------------------------------------------------------
\* Titles.

LEMMA TitleStep == TypeOK /\ TitleFromOwner /\ [Next]_vars => TitleFromOwner'
<1> SUFFICES ASSUME TablesTypeOK, SentTypeOK, TitleFromOwner, [Next]_vars
             PROVE  TitleFromOwner'
  BY DEF TypeOK
<1>1. ASSUME shards' = shards, sent' = sent
      PROVE  TitleFromOwner'
  BY <1>1 DEF TitleFromOwner, Exists
<1>2. ASSUME NEW u \in Users, NEW s \in Shards, Create(u, s)
      PROVE  TitleFromOwner'
  BY <1>2 DEF Create, InsertShard, TablesTypeOK, TitleFromOwner, Exists
<1>3. ASSUME NEW u \in Users, NEW s \in Shards, Delete(u, s)
      PROVE  TitleFromOwner'
  BY <1>3 DEF Delete, DeleteRows, TablesTypeOK, TitleFromOwner, Exists
<1>4. ASSUME NEW u \in Users, NEW s \in Shards, LikeShard(u, s) \/ DislikeShard(u, s)
      PROVE  TitleFromOwner'
  BY <1>1, <1>4 DEF LikeShard, InsertLike, DislikeShard, DeleteLikes
<1>5. ASSUME NEW u \in Users, NEW s \in Shards, NEW t \in Titles, Patch(u, s, t)
      PROVE  TitleFromOwner'
  <2> SUFFICES ASSUME NEW x \in Shards, Exists(x)'
               PROVE  shards'[x].title \in {Default} \cup sent'[shards'[x].owner]
    BY DEF TitleFromOwner
  <2>1. t \in sent'[u] /\ \A v \in Users : sent[v] \subseteq sent'[v]
    BY <1>5 DEF Patch, UpdateOwned, SentTypeOK
  <2>2. shards[x] \in Shard \cup {NoShard}
    BY DEF TablesTypeOK
  <2>3. CASE shards[x].owner = u
    <3>1. shards[x] \in Shard
      BY <2>2, <2>3, NoneAssumption DEF NoShard
    <3>2. shards'[x].owner = u /\ shards'[x].title = t
      BY <1>5, <2>3, <3>1 DEF Patch, UpdateOwned, Shard
    <3> QED
      BY <2>1, <3>2
  <2>4. CASE shards[x].owner # u
    <3>1. shards'[x] = shards[x]
      BY <1>5, <2>4 DEF Patch, UpdateOwned
    <3>2. Exists(x) /\ shards[x].owner \in Users
      BY <2>2, <3>1 DEF Exists, Shard
    <3> QED
      BY <2>1, <3>1, <3>2 DEF TitleFromOwner
  <2> QED
    BY <2>3, <2>4
<1>6. ASSUME UNCHANGED vars \/ \E h \in Handlers : Fail(h) /\ sent' = sent
      PROVE  TitleFromOwner'
  BY <1>1, <1>6 DEF vars, tables, Fail
<1>7. ASSUME AccountsNext, sent' = sent
      PROVE  TitleFromOwner'
  BY <1>1, <1>7 DEF AccountsNext, Onboard, SignUp, Follow, InsertFollower, Unfollow,
                    DeleteFollower, tables
<1>8. ASSUME AssignmentsNext, sent' = sent
      PROVE  TitleFromOwner'
  BY <1>1, <1>8 DEF AssignmentsNext, CreateAssignment, InsertAssignment, DeadlinePasses, DeleteAssignment, Submit,
                    FindExisting, InsertSubmission, AddSubmission, tables
<1> QED
  BY <1>2, <1>3, <1>4, <1>5, <1>6, <1>7, <1>8 DEF Next, ShardNext, ShardIdStep

(***************************************************************************)
(* A patch may change other shards than the one it names, but only the     *)
(* sender's: the title of a shard is the default or its owner's.           *)
(***************************************************************************)
THEOREM TitleFromOwnerHolds == Spec => []TitleFromOwner
<1>1. Init => TitleFromOwner
  BY DEF Init, InitDatabase, TitleFromOwner, Exists
<1> QED
  BY <1>1, TypeInit, TypeStep, TitleStep, PTL DEF Spec

=============================================================================

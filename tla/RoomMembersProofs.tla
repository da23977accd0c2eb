-------------------------- MODULE RoomMembersProofs --------------------------
(***************************************************************************)
(* Proofs about RoomMembers for any capacity and any number of requests,   *)
(* and about MemberDirectory for any people and addresses.                 *)
(***************************************************************************)
EXTENDS MemberDirectory, FiniteSetTheorems, TLAPS

(***************************************************************************)
(* Type correctness.                                                       *)
(***************************************************************************)
LEMMA NoRows == <<>> \in Seq(Row) /\ Len(<<>>) = 0
OBVIOUS

LEMMA TypeInit == Init => TypeOK
BY NoRows DEF Init, TypeOK, Roles

LEMMA TypeNext == TypeOK /\ [Next]_vars => TypeOK'
<1> SUFFICES ASSUME TypeOK, [Next]_vars PROVE TypeOK'
  OBVIOUS
<1> USE AccountsAssumption DEF TypeOK, Roles, requests, Goto, End
<1>1. ASSUME NEW h \in Handlers, NEW u \in Users, NEW r \in Roles, Invite(h, u, r)
      PROVE  TypeOK'
  BY <1>1 DEF Invite
<1>2. ASSUME NEW h \in Handlers, CheckMember(h) \/ CheckRoom(h) \/ Fail(h)
      PROVE  TypeOK'
  BY <1>2 DEF CheckMember, CheckRoom, Fail
<1>3. ASSUME NEW h \in Handlers, Insert(h) PROVE TypeOK'
  BY <1>3 DEF Insert, Row
<1>4. CASE Delete  BY <1>4, NoRows DEF Delete
<1>5. CASE UNCHANGED vars  BY <1>5 DEF vars
<1>. QED  BY <1>1, <1>2, <1>3, <1>4, <1>5 DEF Next

\* Rows have a user and a role, and a request that goes on has a user.
THEOREM TypeCorrect == Spec => []TypeOK
BY TypeInit, TypeNext, PTL DEF Spec

(***************************************************************************)
(* The limits.  The invariant says what a request that is not stale knows: *)
(* its user is not a member, and before its INSERT, that the room has space*)
(* and, if it brings an owner, none yet.                                   *)
(***************************************************************************)
Informed(h) ==
    /\ pc[h] \in {"room", "insert"} => ~Member(user[h])
    /\ pc[h] = "insert" => ~Full /\ ~(HasOwner /\ role[h] = "owner")

LimitsInv ==
    /\ RoomLimits
    /\ \A h \in Handlers : h \notin stale => Informed(h)

LEMMA LimitsInsert ==
  ASSUME TypeOK, LimitsInv, NEW h \in Handlers, Insert(h)
  PROVE  LimitsInv'
<1> DEFINE row == [user |-> user[h], role |-> role[h]]
<1> USE CapacityAssumption DEF TypeOK
<1>1. /\ row \in Row /\ members' = Append(members, row)
      /\ Len(members') = Len(members) + 1
      /\ \A i \in 1..Len(members) : members'[i] = members[i]
      /\ members'[Len(members) + 1] = row
      /\ DOMAIN members = 1..Len(members) /\ DOMAIN members' = 1..(Len(members) + 1)
  BY DEF Insert, Row
<1>2. RoomLimits'
  <2>. SUFFICES ASSUME ~crossed'
                PROVE  WithinCapacity' /\ NobodyTwice' /\ OneOwner'
    BY DEF RoomLimits
  <2>1. ~crossed /\ h \notin stale /\ pc[h] = "insert"
    BY DEF Insert
  <2>2. WithinCapacity /\ NobodyTwice /\ OneOwner
    BY <2>1 DEF LimitsInv, RoomLimits
  <2>3. ~Member(user[h]) /\ ~Full /\ ~(HasOwner /\ role[h] = "owner")
    BY <2>1 DEF LimitsInv, Informed
  <2>4. WithinCapacity'
    BY <1>1, <2>3 DEF WithinCapacity, Full
  <2>5. NobodyTwice'
    BY <1>1, <2>2, <2>3 DEF NobodyTwice, Member
  <2>6. OneOwner'
    BY <1>1, <2>2, <2>3 DEF OneOwner, HasOwner
  <2>. QED  BY <2>4, <2>5, <2>6
<1>3. ASSUME NEW g \in Handlers, g \notin stale' PROVE Informed(g)'
  BY <1>3 DEF Insert, Goto, Informed
<1>. QED  BY <1>2, <1>3 DEF LimitsInv

LEMMA LimitsNext == TypeOK /\ LimitsInv /\ [Next]_vars => LimitsInv'
<1> SUFFICES ASSUME TypeOK, LimitsInv, [Next]_vars PROVE LimitsInv'
  OBVIOUS
<1> DEFINE Kept == UNCHANGED <<members, crossed>>
<1>1. ASSUME Kept PROVE RoomLimits'
  BY <1>1 DEF LimitsInv, RoomLimits, WithinCapacity, NobodyTwice, OneOwner
<1>2. ASSUME Kept, NEW g \in Handlers, pc'[g] = pc[g], user'[g] = user[g],
             role'[g] = role[g], g \notin stale
      PROVE  Informed(g)'
  BY <1>2 DEF LimitsInv, Informed, Member, Full, HasOwner
<1>3. ASSUME NEW h \in Handlers, NEW u \in Users, NEW r \in Roles, Invite(h, u, r)
      PROVE  LimitsInv'
  <2>1. Kept /\ stale' = stale
    BY <1>3 DEF Invite
  <2>2. ASSUME NEW g \in Handlers, g # h
        PROVE  pc'[g] = pc[g] /\ user'[g] = user[g] /\ role'[g] = role[g]
    BY <1>3, <2>2 DEF Invite, Goto, requests, TypeOK
  <2>3. CASE exists
    <3>1. pc'[h] = "member"
      BY <1>3, <2>3 DEF Invite, Goto, TypeOK
    <3>2. Informed(h)'
      BY <3>1 DEF Informed
    <3>. QED  BY <1>1, <1>2, <2>1, <2>2, <3>2 DEF LimitsInv
  <2>4. CASE ~exists
    <3>1. UNCHANGED requests
      BY <1>3, <2>4 DEF Invite
    <3>. QED  BY <1>1, <1>2, <2>1, <3>1 DEF LimitsInv, requests
  <2>. QED  BY <2>3, <2>4
<1>4. ASSUME NEW h \in Handlers, End(h), Kept PROVE LimitsInv'
  <2>1. ASSUME NEW g \in Handlers, g # h
        PROVE  /\ pc'[g] = pc[g] /\ user'[g] = user[g] /\ role'[g] = role[g]
               /\ g \in stale' <=> g \in stale
    BY <1>4, <2>1 DEF End, Goto, TypeOK
  <2>2. pc'[h] = "idle"
    BY <1>4 DEF End, Goto, TypeOK
  <2>3. Informed(h)'
    BY <2>2 DEF Informed
  <2>. QED  BY <1>1, <1>2, <1>4, <2>1, <2>3 DEF LimitsInv
<1>5. ASSUME NEW h \in Handlers, CheckMember(h) PROVE LimitsInv'
  <2>1. CASE Member(user[h])  BY <1>4, <1>5, <2>1 DEF CheckMember
  <2>2. CASE ~Member(user[h])
    <3>1. Kept /\ UNCHANGED <<user, role, stale>> /\ pc'[h] = "room"
          /\ \A g \in Handlers : g # h => pc'[g] = pc[g]
      BY <1>5, <2>2 DEF CheckMember, Goto, TypeOK
    <3>2. Informed(h)'
      BY <2>2, <3>1 DEF Informed, Member
    <3>. QED  BY <1>1, <1>2, <3>1, <3>2 DEF LimitsInv
  <2>. QED  BY <2>1, <2>2
<1>6. ASSUME NEW h \in Handlers, CheckRoom(h) PROVE LimitsInv'
  <2>1. CASE Full \/ (HasOwner /\ role[h] = "owner")
    BY <1>4, <1>6, <2>1 DEF CheckRoom
  <2>2. CASE ~(Full \/ (HasOwner /\ role[h] = "owner"))
    <3>1. Kept /\ UNCHANGED <<user, role, stale>> /\ pc[h] = "room"
          /\ pc'[h] = "insert"
          /\ \A g \in Handlers : g # h => pc'[g] = pc[g]
      BY <1>6, <2>2 DEF CheckRoom, Goto, TypeOK
    <3>2. h \notin stale => Informed(h)'
      BY <2>2, <3>1 DEF LimitsInv, Informed, Member, Full, HasOwner
    <3>. QED  BY <1>1, <1>2, <3>1, <3>2 DEF LimitsInv
  <2>. QED  BY <2>1, <2>2
<1>7. ASSUME NEW h \in Handlers, Fail(h) PROVE LimitsInv'
  BY <1>4, <1>7 DEF Fail
<1>8. CASE Delete
  <2>1. members' = <<>> /\ UNCHANGED <<requests, stale, crossed>>
    BY <1>8 DEF Delete
  <2>2. RoomLimits'
    BY <2>1, CapacityAssumption DEF RoomLimits, WithinCapacity, NobodyTwice, OneOwner
  <2>3. ASSUME NEW g \in Handlers, g \notin stale' PROVE Informed(g)'
    BY <2>1, CapacityAssumption DEF Informed, Member, Full, HasOwner
  <2>. QED  BY <2>2, <2>3 DEF LimitsInv
<1>9. CASE UNCHANGED vars
  BY <1>1, <1>2, <1>9 DEF LimitsInv, vars, requests
<1>. QED  BY <1>3, <1>5, <1>6, <1>7, <1>8, <1>9, LimitsInsert DEF Next

\* The room keeps its limits unless an INSERT overtook the checks of another.
THEOREM RoomLimitsHold == Spec => []RoomLimits
<1>1. Init => LimitsInv
  BY CapacityAssumption DEF Init, LimitsInv, RoomLimits, WithinCapacity, NobodyTwice,
                            OneOwner, Informed
<1>2. LimitsInv => RoomLimits
  BY DEF LimitsInv
<1>. QED  BY <1>1, <1>2, LimitsNext, TypeCorrect, PTL DEF Spec

(***************************************************************************)
(* The bound.  Rows and requests that are about to insert one are counted  *)
(* together: a request joins the latter only when the room is not full.    *)
(***************************************************************************)
Inserting == {h \in Handlers : pc[h] = "insert"}

BoundInv == Len(members) + Cardinality(Inserting) < Capacity + Cardinality(Handlers)

LEMMA CountInserting ==
  ASSUME NEW h \in Handlers, TypeOK
  PROVE  /\ IsFiniteSet(Inserting) /\ Cardinality(Inserting) \in Nat
         /\ IsFiniteSet(Inserting') /\ Cardinality(Inserting') \in Nat
         /\ Inserting' \subseteq Inserting
              => Cardinality(Inserting') <= Cardinality(Inserting)
         /\ Inserting' = Inserting \ {h} /\ h \in Inserting
              => Cardinality(Inserting') = Cardinality(Inserting) - 1
         /\ Cardinality(Inserting') <= Cardinality(Handlers)
         /\ Cardinality(Handlers) \in Nat /\ Cardinality(Handlers) # 0
<1>1. Inserting \subseteq Handlers /\ Inserting' \subseteq Handlers
  BY DEF Inserting
<1>2. IsFiniteSet(Inserting) /\ IsFiniteSet(Inserting')
  BY <1>1, HandlersAssumption, FS_Subset
<1>3. Cardinality(Inserting') <= Cardinality(Handlers)
  BY <1>1, HandlersAssumption, FS_Subset
<1>4. Inserting' \subseteq Inserting => Cardinality(Inserting') <= Cardinality(Inserting)
  BY <1>2, FS_Subset
<1>5. Inserting' = Inserting \ {h} /\ h \in Inserting
        => Cardinality(Inserting') = Cardinality(Inserting) - 1
  BY <1>2, FS_RemoveElement
<1>6. Cardinality(Inserting) \in Nat /\ Cardinality(Inserting') \in Nat
      /\ Cardinality(Handlers) \in Nat
  BY <1>2, HandlersAssumption, FS_CardinalityType
<1>7. Cardinality(Handlers) # 0
  BY HandlersAssumption, FS_EmptySet
<1>. QED  BY <1>2, <1>3, <1>4, <1>5, <1>6, <1>7

LEMMA BoundNext == TypeOK /\ BoundInv /\ [Next]_vars => BoundInv'
<1> SUFFICES ASSUME TypeOK, BoundInv, [Next]_vars PROVE BoundInv'
  OBVIOUS
<1> USE CapacityAssumption
<1>0. Len(members) \in Nat
  BY DEF TypeOK
<1>1. ASSUME NEW h \in Handlers, members' = members, Inserting' \subseteq Inserting
      PROVE  BoundInv'
  BY <1>0, <1>1, CountInserting DEF BoundInv
<1>2. ASSUME NEW h \in Handlers, NEW u \in Users, NEW r \in Roles, Invite(h, u, r)
      PROVE  BoundInv'
  <2>1. members' = members /\ Inserting' \subseteq Inserting
    BY <1>2 DEF Invite, Goto, requests, Inserting, TypeOK
  <2>. QED  BY <1>1, <2>1
<1>3. ASSUME NEW h \in Handlers, CheckMember(h) \/ Fail(h) PROVE BoundInv'
  <2>1. members' = members /\ Inserting' \subseteq Inserting
    BY <1>3 DEF CheckMember, Fail, End, Goto, Inserting, TypeOK
  <2>. QED  BY <1>1, <2>1
<1>4. ASSUME NEW h \in Handlers, CheckRoom(h) PROVE BoundInv'
  <2>1. CASE Full \/ (HasOwner /\ role[h] = "owner")
    <3>1. members' = members /\ Inserting' \subseteq Inserting
      BY <1>4, <2>1 DEF CheckRoom, End, Goto, Inserting, TypeOK
    <3>. QED  BY <1>1, <3>1
  <2>2. CASE ~(Full \/ (HasOwner /\ role[h] = "owner"))
    <3>1. members' = members /\ Len(members) < Capacity
      BY <1>0, <1>4, <2>2 DEF CheckRoom, Full
    <3>. QED  BY <1>0, <3>1, CountInserting DEF BoundInv
  <2>. QED  BY <2>1, <2>2
<1>5. ASSUME NEW h \in Handlers, Insert(h) PROVE BoundInv'
  <2>1. Inserting' = Inserting \ {h} /\ h \in Inserting
    BY <1>5 DEF Insert, Goto, Inserting, TypeOK
  <2>2. Len(members') = Len(members) + 1
    BY <1>5 DEF Insert, TypeOK
  <2>3. /\ Cardinality(Inserting') = Cardinality(Inserting) - 1
        /\ Cardinality(Inserting) \in Nat /\ Cardinality(Handlers) \in Nat
    BY <2>1, CountInserting
  <2>. QED  BY <1>0, <2>2, <2>3 DEF BoundInv
<1>6. CASE Delete
  <2>1. Len(members') = 0 /\ Inserting' = Inserting
    BY <1>6, NoRows DEF Delete, requests, Inserting
  <2>2. CASE Handlers = {}
    <3>1. Cardinality(Inserting) = 0 /\ Cardinality(Handlers) = 0
      BY <2>2, FS_EmptySet DEF Inserting
    <3>. QED  BY <2>1, <3>1 DEF BoundInv
  <2>3. CASE Handlers # {}
    BY <1>0, <2>1, <2>3, CountInserting DEF BoundInv
  <2>. QED  BY <2>2, <2>3
<1>7. CASE UNCHANGED vars
  BY <1>7 DEF vars, requests, BoundInv, Inserting
<1>. QED  BY <1>2, <1>3, <1>4, <1>5, <1>6, <1>7 DEF Next

\* A room has fewer rows than its capacity and the number of requests that can
\* be in progress add up to, whatever the interleaving: 5 and one row less than
\* the requests at most.
THEOREM OverfullBoundHolds == Spec => []OverfullBound
<1>1. Init => BoundInv
  <2>. SUFFICES ASSUME Init PROVE BoundInv
    OBVIOUS
  <2>1. Len(members) = 0 /\ Inserting = {}
    BY DEF Init, Inserting
  <2>2. Cardinality(Inserting) = 0 /\ Cardinality(Handlers) \in Nat
    BY <2>1, FS_EmptySet, HandlersAssumption, FS_CardinalityType
  <2>. QED  BY <2>1, <2>2, CapacityAssumption DEF BoundInv
<1>2. TypeOK /\ BoundInv => OverfullBound
  <2>1. Inserting \subseteq Handlers
    BY DEF Inserting
  <2>2. Cardinality(Inserting) \in Nat /\ Cardinality(Handlers) \in Nat
    BY <2>1, HandlersAssumption, FS_Subset, FS_CardinalityType
  <2>. QED  BY <2>2, CapacityAssumption DEF BoundInv, OverfullBound, TypeOK
<1>. QED  BY <1>1, <1>2, BoundNext, TypeCorrect, PTL DEF Spec

(***************************************************************************)
(* MemberDirectory.  A step of it is a step of RoomMembers or leaves the   *)
(* room alone, so what is proved above holds of it.                        *)
(***************************************************************************)
LEMMA DirectoryStep ==
  DirectoryTypeOK /\ [DirectoryNext]_directoryVars => [Next]_vars
<1> SUFFICES ASSUME DirectoryTypeOK, [DirectoryNext]_directoryVars PROVE [Next]_vars
  OBVIOUS
<1>1. ASSUME NEW h \in Handlers, NEW a \in Addresses, NEW r \in Invited, Ask(h, a, r)
      PROVE  [Next]_vars
  <2>1. CASE byEmail[a] # NoUser
    <3>1. byEmail[a] \in Users /\ r \in Roles
      BY <2>1, InvitedAssumption DEF DirectoryTypeOK
    <3>2. Invite(h, byEmail[a], r)
      BY <1>1, <2>1 DEF Ask, Proceed
    <3>. QED  BY <3>1, <3>2 DEF Next
  <2>2. CASE byEmail[a] = NoUser
    BY <1>1, <2>2 DEF Ask
  <2>. QED  BY <2>1, <2>2
<1>2. ASSUME NEW h \in Handlers, NEW u \in Users, NEW r \in Invited, Found(h, u, r)
      PROVE  [Next]_vars
  BY <1>2, InvitedAssumption DEF Found, Proceed, Next
<1>3. ASSUME NEW h \in Handlers, NotFound(h) \/ InviteStep(h) PROVE [Next]_vars
  BY <1>3 DEF NotFound, InviteStep, Next
<1>4. CASE DeleteRoom  BY <1>4 DEF DeleteRoom, Next
<1>5. ASSUME NEW u \in Users, NEW a \in Answers, ChangeAddress(u, a) PROVE [Next]_vars
  BY <1>5 DEF ChangeAddress
<1>6. ASSUME NEW g \in Readers, FetchMembers(g) \/ Respond(g) PROVE [Next]_vars
  BY <1>6 DEF FetchMembers, Respond
<1>7. ASSUME NEW g \in Readers, NEW i \in DOMAIN shown[g], Answer(g, i) PROVE [Next]_vars
  BY <1>7 DEF Answer
<1>8. ASSUME NEW u \in Users, Depart(u) PROVE [Next]_vars
  BY <1>8 DEF Depart
<1>9. CASE UNCHANGED directoryVars  BY <1>9 DEF directoryVars
<1>. QED  BY <1>1, <1>2, <1>3, <1>4, <1>5, <1>6, <1>7, <1>8, <1>9 DEF DirectoryNext

LEMMA DirectoryTypeInit == DirectoryInit => TypeOK /\ DirectoryTypeOK
<1> SUFFICES ASSUME DirectoryInit PROVE DirectoryTypeOK
  BY TypeInit DEF DirectoryInit
<1>1. <<>> \in Seq(Entry)
  OBVIOUS
<1>. QED  BY <1>1 DEF DirectoryInit, DirectoryTypeOK, Answers

LEMMA FetchType ==
  ASSUME TypeOK, DirectoryTypeOK, NEW g \in Readers, FetchMembers(g)
  PROVE  DirectoryTypeOK'
<1>1. DOMAIN members = 1..Len(members) /\ Len(members) \in Nat
  BY DEF TypeOK
<1>2. ASSUME NEW i \in 1..Len(members)
      PROVE  [user |-> members[i].user, address |-> byId[members[i].user]] \in Entry
  <2>1. members[i] \in Row
    BY <1>1, <1>2 DEF TypeOK
  <2>2. members[i].user \in Users
    BY <2>1 DEF Row
  <2>. QED  BY <2>2 DEF Entry, DirectoryTypeOK
<1>3. EntriesOf(members) \in Seq(Entry)
  BY <1>1, <1>2 DEF EntriesOf
<1>4. shown' = [shown EXCEPT ![g] = EntriesOf(members)]
      /\ UNCHANGED <<address, had, byEmail, byId, asked>>
  BY DEF FetchMembers, people, cache
<1>. QED  BY <1>3, <1>4 DEF DirectoryTypeOK

LEMMA AnswerType ==
  ASSUME DirectoryTypeOK, NEW g \in Readers, NEW i \in DOMAIN shown[g], Answer(g, i)
  PROVE  DirectoryTypeOK'
<1> DEFINE u == shown[g][i].user
<1>1. shown[g] \in Seq(Entry) /\ shown[g][i] \in Entry
  BY DEF DirectoryTypeOK
<1>2. u \in Users /\ address[u] \in Answers
  BY <1>1 DEF Entry, DirectoryTypeOK
<1>3. PICK a \in Answers \cup {Failed} :
         /\ shown' = [shown EXCEPT ![g][i].address = a]
         /\ byId' \in {byId, [byId EXCEPT ![u] = address[u]]}
  BY <1>2 DEF Answer
<1>4. [shown[g][i] EXCEPT !.address = a] \in Entry
  BY <1>1, <1>3 DEF Entry
<1>5. [shown[g] EXCEPT ![i] = [shown[g][i] EXCEPT !.address = a]] \in Seq(Entry)
  BY <1>1, <1>4
<1>6. shown' \in [Readers -> Seq(Entry)]
  BY <1>3, <1>5 DEF DirectoryTypeOK
<1>7. byId' \in [Users -> Answers \cup {Pending}]
  BY <1>2, <1>3 DEF DirectoryTypeOK
<1>. QED  BY <1>6, <1>7 DEF Answer, people, DirectoryTypeOK

LEMMA DirectoryTypeNext ==
  TypeOK /\ DirectoryTypeOK /\ [DirectoryNext]_directoryVars => (TypeOK /\ DirectoryTypeOK)'
<1> SUFFICES ASSUME TypeOK, DirectoryTypeOK, [DirectoryNext]_directoryVars
             PROVE  DirectoryTypeOK'
  BY DirectoryStep, TypeNext
<1> USE DEF DirectoryTypeOK, Answers, people, cache
<1>1. ASSUME NEW h \in Handlers, NEW a \in Addresses, NEW r \in Invited, Ask(h, a, r)
      PROVE  DirectoryTypeOK'
  BY <1>1 DEF Ask, Proceed
<1>2. ASSUME NEW h \in Handlers, NEW u \in Users, NEW r \in Invited, Found(h, u, r)
      PROVE  DirectoryTypeOK'
  BY <1>2 DEF Found, Proceed
<1>3. ASSUME NEW h \in Handlers, NotFound(h) \/ InviteStep(h) PROVE DirectoryTypeOK'
  BY <1>3 DEF NotFound, InviteStep
<1>4. CASE DeleteRoom  BY <1>4 DEF DeleteRoom
<1>5. ASSUME NEW u \in Users, NEW a \in Answers, ChangeAddress(u, a) PROVE DirectoryTypeOK'
  BY <1>5 DEF ChangeAddress
<1>6. ASSUME NEW g \in Readers, Respond(g) PROVE DirectoryTypeOK'
  <2>1. <<>> \in Seq(Entry)
    OBVIOUS
  <2>. QED  BY <1>6, <2>1 DEF Respond
<1>7. ASSUME NEW u \in Users, Depart(u) PROVE DirectoryTypeOK'
  BY <1>7 DEF Depart
<1>8. CASE UNCHANGED directoryVars  BY <1>8 DEF directoryVars
<1>. QED  BY <1>1, <1>2, <1>3, <1>4, <1>5, <1>6, <1>7, <1>8, FetchType, AnswerType
          DEF DirectoryNext

\* The maps and the responses of the directory have their types.
THEOREM DirectoryTypeCorrect == DirectorySpec => []DirectoryTypeOK
BY DirectoryTypeInit, DirectoryTypeNext, PTL DEF DirectorySpec

\* The room in MemberDirectory is that of RoomMembers: its limits hold here too.
THEOREM DirectoryUsesMembers == DirectorySpec => Spec
<1>1. DirectoryInit => Init
  BY DEF DirectoryInit
<1>. QED  BY <1>1, DirectoryStep, DirectoryTypeCorrect, PTL DEF DirectorySpec, Spec

(***************************************************************************)
(* Old answers.  The invariant adds that what is remembered was true once, *)
(* which is all that is needed of the map.                                 *)
(***************************************************************************)
Remembered ==
    /\ \A u \in Users : address[u] \in had[u] /\ byId[u] \in had[u] \cup {Pending}
    /\ \A a \in Addresses : byEmail[a] # NoUser => a \in had[byEmail[a]]

OnceInv == OnceTrue /\ Remembered

\* In a step that keeps the addresses and the responses, a request that goes on
\* does so for a user who has had the address.
LEMMA OnceRequests ==
  ASSUME OnceInv, UNCHANGED <<address, had, byId, shown>>,
         \A a \in Addresses : byEmail'[a] # NoUser => a \in had[byEmail'[a]],
         \A h \in Handlers : pc'[h] # "idle" => asked'[h] \in had[user'[h]]
  PROVE  OnceInv'
BY DEF OnceInv, OnceTrue, Remembered

LEMMA ProceedOnce ==
  ASSUME TypeOK, DirectoryTypeOK, OnceInv, NEW h \in Handlers, NEW a \in Addresses,
         NEW u \in Users, NEW r \in Invited, Proceed(h, a, u, r), a \in had[u],
         pc[h] = "idle"
  PROVE  \A g \in Handlers : pc'[g] # "idle" => asked'[g] \in had[user'[g]]
<1> TAKE g \in Handlers
<1> USE DEF TypeOK, DirectoryTypeOK, Proceed, Invite, Goto, requests, OnceInv, OnceTrue
<1>1. CASE g = h  BY <1>1
<1>2. CASE g # h  BY <1>2
<1>. QED  BY <1>1, <1>2

LEMMA OnceNext ==
  TypeOK /\ DirectoryTypeOK /\ OnceInv /\ [DirectoryNext]_directoryVars => OnceInv'
<1> SUFFICES ASSUME TypeOK, DirectoryTypeOK, OnceInv, [DirectoryNext]_directoryVars
             PROVE  OnceInv'
  OBVIOUS
<1>1. ASSUME NEW h \in Handlers, NEW a \in Addresses, NEW r \in Invited, Ask(h, a, r)
      PROVE  OnceInv'
  <2>1. UNCHANGED <<address, had, byEmail, byId, shown>> /\ pc[h] = "idle"
    BY <1>1 DEF Ask, people, cache
  <2>2. CASE byEmail[a] # NoUser
    <3>1. byEmail[a] \in Users /\ a \in had[byEmail[a]]
      BY <2>2 DEF DirectoryTypeOK, OnceInv, Remembered
    <3>2. Proceed(h, a, byEmail[a], r)
      BY <1>1, <2>2 DEF Ask
    <3>. QED  BY <2>1, <3>1, <3>2, ProceedOnce, OnceRequests DEF OnceInv, Remembered
  <2>3. CASE byEmail[a] = NoUser
    <3>1. UNCHANGED <<pc, user>> /\ asked' = [asked EXCEPT ![h] = a]
      BY <1>1, <2>3 DEF Ask, vars, requests
    <3>2. \A g \in Handlers : pc'[g] # "idle" => asked'[g] \in had[user'[g]]
      BY <2>1, <3>1 DEF DirectoryTypeOK, OnceInv, OnceTrue
    <3>. QED  BY <2>1, <3>2, OnceRequests DEF OnceInv, Remembered
  <2>. QED  BY <2>2, <2>3
<1>2. ASSUME NEW h \in Handlers, NEW u \in Users, NEW r \in Invited, Found(h, u, r)
      PROVE  OnceInv'
  <2>1. UNCHANGED <<address, had, byId, shown>> /\ pc[h] = "idle"
        /\ asked[h] \in Addresses /\ address[u] = asked[h]
        /\ byEmail' = [byEmail EXCEPT ![asked[h]] = u]
        /\ Proceed(h, asked[h], u, r)
    BY <1>2 DEF Found, people, DirectoryTypeOK, Answers
  <2>2. asked[h] \in had[u]
    BY <2>1 DEF OnceInv, Remembered
  <2>3. \A a \in Addresses : byEmail'[a] # NoUser => a \in had[byEmail'[a]]
    BY <2>1, <2>2 DEF DirectoryTypeOK, OnceInv, Remembered
  <2>. QED  BY <2>1, <2>2, <2>3, ProceedOnce, OnceRequests
<1>3. ASSUME NEW h \in Handlers, NotFound(h) PROVE OnceInv'
  <2>1. UNCHANGED <<address, had, byEmail, byId, shown, pc, user>> /\ pc[h] = "idle"
        /\ asked' = [asked EXCEPT ![h] = NoAddress]
    BY <1>3 DEF NotFound, vars, requests, people, cache
  <2>2. \A g \in Handlers : pc'[g] # "idle" => asked'[g] \in had[user'[g]]
    BY <2>1 DEF DirectoryTypeOK, OnceInv, OnceTrue
  <2>. QED  BY <2>1, <2>2, OnceRequests DEF OnceInv, Remembered
<1>4. ASSUME NEW h \in Handlers, InviteStep(h) PROVE OnceInv'
  <2>1. UNCHANGED <<address, had, byEmail, byId, shown>>
        /\ asked' = [asked EXCEPT ![h] = IF pc'[h] = "idle" THEN NoAddress ELSE @]
    BY <1>4 DEF InviteStep, people, cache
  <2>2. pc[h] # "idle"
    BY <1>4 DEF InviteStep, CheckMember, CheckRoom, Insert, Fail
  <2>3. \A g \in Handlers : g # h => pc'[g] = pc[g] /\ user'[g] = user[g]
    BY <1>4 DEF InviteStep, CheckMember, CheckRoom, Insert, Fail, Goto, End, TypeOK
  <2>4. pc'[h] = "idle" \/ user'[h] = user[h]
    BY <1>4 DEF InviteStep, CheckMember, CheckRoom, Insert, Fail, Goto, End, TypeOK
  <2>5. ASSUME NEW g \in Handlers, pc'[g] # "idle" PROVE asked'[g] \in had[user'[g]]
    <3>1. CASE g = h
      BY <2>1, <2>2, <2>4, <2>5, <3>1 DEF DirectoryTypeOK, OnceInv, OnceTrue
    <3>2. CASE g # h
      BY <2>1, <2>3, <2>5, <3>2 DEF DirectoryTypeOK, OnceInv, OnceTrue
    <3>. QED  BY <3>1, <3>2
  <2>. QED  BY <2>1, <2>5, OnceRequests DEF OnceInv, Remembered
<1>5. CASE DeleteRoom
  <2>1. UNCHANGED <<address, had, byEmail, byId, shown, asked, pc, user>>
    BY <1>5 DEF DeleteRoom, Delete, requests, people, cache
  <2>. QED  BY <2>1 DEF OnceInv, OnceTrue, Remembered
<1>6. ASSUME NEW u \in Users, NEW a \in Answers, ChangeAddress(u, a) PROVE OnceInv'
  <2>1. UNCHANGED <<byEmail, byId, shown, asked, pc, user>>
        /\ address' = [address EXCEPT ![u] = a] /\ had' = [had EXCEPT ![u] = @ \cup {a}]
    BY <1>6 DEF ChangeAddress, vars, requests, cache
  <2>2. \A v \in Users : had[v] \subseteq had'[v]
    BY <2>1 DEF DirectoryTypeOK
  <2>3. Remembered'
    BY <2>1, <2>2 DEF OnceInv, Remembered, DirectoryTypeOK
  <2>4. ASSUME NEW h \in Handlers, pc'[h] # "idle" PROVE asked'[h] \in had'[user'[h]]
    BY <2>1, <2>2, <2>4 DEF OnceInv, OnceTrue, TypeOK
  <2>5. ASSUME NEW g \in Readers, NEW i \in DOMAIN shown[g]
        PROVE  shown[g][i].address \in had'[shown[g][i].user] \cup {Pending, Failed}
    <3>1. shown[g] \in Seq(Entry) /\ shown[g][i] \in Entry
      BY DEF DirectoryTypeOK
    <3>2. shown[g][i].user \in Users
      BY <3>1 DEF Entry
    <3>. QED  BY <2>2, <3>2 DEF OnceInv, OnceTrue
  <2>. QED  BY <2>1, <2>3, <2>4, <2>5 DEF OnceInv, OnceTrue
<1>7. ASSUME NEW g \in Readers, FetchMembers(g) PROVE OnceInv'
  <2>1. UNCHANGED <<address, had, byEmail, byId, asked, pc, user>>
    BY <1>7 DEF FetchMembers, vars, requests, people, cache
  <2>2. ASSUME NEW f \in Readers, NEW i \in DOMAIN shown'[f]
        PROVE  shown'[f][i].address \in had[shown'[f][i].user] \cup {Pending, Failed}
    <3>1. CASE f = g
      <4>1. i \in DOMAIN members /\ shown'[f][i].user = members[i].user
            /\ shown'[f][i].address = byId[members[i].user]
        BY <1>7, <2>2, <3>1 DEF FetchMembers, EntriesOf, DirectoryTypeOK
      <4>2. members[i] \in Row
        BY <4>1 DEF TypeOK
      <4>3. members[i].user \in Users
        BY <4>2 DEF Row
      <4>. QED  BY <4>1, <4>3 DEF OnceInv, Remembered
    <3>2. CASE f # g
      <4>1. shown'[f] = shown[f]
        BY <1>7, <3>2 DEF FetchMembers, DirectoryTypeOK
      <4>. QED  BY <2>2, <4>1 DEF OnceInv, OnceTrue
    <3>. QED  BY <3>1, <3>2
  <2>. QED  BY <2>1, <2>2 DEF OnceInv, OnceTrue, Remembered
<1>8. ASSUME NEW g \in Readers, NEW i \in DOMAIN shown[g], Answer(g, i) PROVE OnceInv'
  <2> DEFINE u == shown[g][i].user
  <2>1. UNCHANGED <<address, had, byEmail, asked, pc, user>>
    BY <1>8 DEF Answer, vars, requests, people
  <2>2. shown[g] \in Seq(Entry) /\ shown[g][i] \in Entry
    BY DEF DirectoryTypeOK
  <2>3. u \in Users /\ address[u] \in had[u]
    BY <2>2 DEF Entry, OnceInv, Remembered
  <2>4. PICK a \in had[u] \cup {Failed} :
           /\ shown' = [shown EXCEPT ![g][i].address = a]
           /\ byId' \in {byId, [byId EXCEPT ![u] = address[u]]}
    BY <1>8, <2>3 DEF Answer
  <2>5. ASSUME NEW f \in Readers, NEW j \in DOMAIN shown'[f]
        PROVE  shown'[f][j].address \in had[shown'[f][j].user] \cup {Pending, Failed}
    <3>1. CASE f = g /\ j = i
      <4>1. shown'[f][j].user = u /\ shown'[f][j].address = a
        BY <2>2, <2>4, <3>1 DEF DirectoryTypeOK, Entry
      <4>. QED  BY <4>1
    <3>2. CASE ~(f = g /\ j = i)
      <4>1. j \in DOMAIN shown[f] /\ shown'[f][j] = shown[f][j]
        BY <2>4, <2>5, <3>2 DEF DirectoryTypeOK
      <4>. QED  BY <4>1 DEF OnceInv, OnceTrue
    <3>. QED  BY <3>1, <3>2
  <2>6. Remembered'
    BY <2>1, <2>3, <2>4 DEF OnceInv, Remembered, DirectoryTypeOK
  <2>7. OnceTrue'
    BY <2>1, <2>5 DEF OnceInv, OnceTrue
  <2>. QED  BY <2>6, <2>7 DEF OnceInv
<1>9. ASSUME NEW g \in Readers, Respond(g) PROVE OnceInv'
  <2>1. UNCHANGED <<address, had, byEmail, byId, asked, pc, user>>
        /\ shown' = [shown EXCEPT ![g] = <<>>]
    BY <1>9 DEF Respond, vars, requests, people, cache
  <2>2. ASSUME NEW f \in Readers, NEW j \in DOMAIN shown'[f]
        PROVE  j \in DOMAIN shown[f] /\ shown'[f][j] = shown[f][j]
    <3>1. f # g
      BY <2>1, <2>2 DEF DirectoryTypeOK
    <3>. QED  BY <2>1, <2>2, <3>1 DEF DirectoryTypeOK
  <2>. QED  BY <2>1, <2>2 DEF OnceInv, OnceTrue, Remembered
<1>10. ASSUME NEW u \in Users, Depart(u) PROVE OnceInv'
  <2>1. UNCHANGED <<address, had, byEmail, shown, asked, pc, user>>
        /\ byId' = [byId EXCEPT ![u] = address[u]]
    BY <1>10 DEF Depart, vars, requests, people
  <2>2. Remembered'
    BY <2>1 DEF OnceInv, Remembered, DirectoryTypeOK
  <2>. QED  BY <2>1, <2>2 DEF OnceInv, OnceTrue
<1>11. CASE UNCHANGED directoryVars
  BY <1>11 DEF directoryVars, vars, requests, people, cache, OnceInv, OnceTrue, Remembered
<1>. QED  BY <1>1, <1>2, <1>3, <1>4, <1>5, <1>6, <1>7, <1>8, <1>9, <1>10, <1>11
          DEF DirectoryNext

\* Nobody is invited by, or shown with, an address that was never theirs.
THEOREM OnceTrueHolds == DirectorySpec => []OnceTrue
<1>1. DirectoryInit => OnceInv
  BY DEF DirectoryInit, Init, OnceInv, OnceTrue, Remembered
<1>2. OnceInv => OnceTrue
  BY DEF OnceInv
<1>. QED  BY <1>1, <1>2, DirectoryTypeInit, DirectoryTypeNext, OnceNext, PTL DEF DirectorySpec
=============================================================================

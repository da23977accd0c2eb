--------------------------- MODULE MemberDirectory ---------------------------
(***************************************************************************)
(* The room requests of the controller (controllers/http/room.ts) with the *)
(* service that knows people's e-mail addresses.  POST /:id/invite asks it *)
(* for the owner of an address and goes on in RoomMembers; GET /:id/members*)
(* asks it for the address of each member, and so does the listener of     *)
(* "disconnect" for who leaves.  clerk.ts keeps every answer in a map until*)
(* the server ends, and nothing invalidates it, while people change their  *)
(* addresses and give them up to others.                                   *)
(*                                                                         *)
(* An answer is used in the step in which Clerk gives it: one that is      *)
(* overtaken by a change on its way is as old as a remembered one.         *)
(***************************************************************************)
EXTENDS RoomMembers

CONSTANTS
    Addresses,  \* e-mail addresses, each of one person at a time
    Invited,    \* roles in the invitations
    Readers,    \* requests for the members in progress
    MaxAddresses,   \* bound on the addresses that a person ever has
    NoAddress,  \* the person has no address; no address is asked for
    Pending,    \* an entry of the response that waits for Clerk
    Failed      \* an entry whose lookup failed: null in the response

ASSUME AddressesAssumption == {NoAddress, Pending, Failed} \cap Addresses = {}
ASSUME InvitedAssumption == Invited \subseteq Roles
ASSUME EntriesAssumption == Cardinality({NoAddress, Pending, Failed}) = 3

VARIABLES
    address,    \* address[u]: the address of u at Clerk
    byEmail,    \* _clerkUserCache under addresses: the user, or NoUser
    byId,       \* _clerkUserCache under ids: the address, or Pending
    asked,      \* asked[h]: the address in the invitation
    shown,      \* shown[g]: the entries of the response to g
    had         \* history: had[u]: the addresses of u since the server started

people == <<address, had>>
cache == <<byEmail, byId>>
directoryVars == <<vars, people, cache, asked, shown>>

Answers == Addresses \cup {NoAddress}
Entry == [user : Users, address : Answers \cup {Pending, Failed}]

DirectoryTypeOK ==
    /\ address \in [Users -> Answers]
    /\ byEmail \in [Addresses -> Users \cup {NoUser}]
    /\ byId \in [Users -> Answers \cup {Pending}]
    /\ asked \in [Handlers -> Answers]
    /\ shown \in [Readers -> Seq(Entry)]
    /\ had \in [Users -> SUBSET Answers]

DirectoryInit ==
    /\ Init
    /\ address \in [Users -> Answers]
    /\ \A u, v \in Users : address[u] = address[v] /\ u # v => address[u] = NoAddress
    /\ byEmail = [a \in Addresses |-> NoUser]
    /\ byId = [u \in Users |-> Pending]
    /\ asked = [h \in Handlers |-> NoAddress]
    /\ shown = [g \in Readers |-> <<>>]
    /\ had = [u \in Users |-> {address[u]}]

\* At Clerk: u gives up the address, or takes one that is nobody's.
ChangeAddress(u, a) ==
    /\ a = NoAddress \/ \A v \in Users : address[v] # a
    /\ Cardinality(had[u] \cup {a}) <= MaxAddresses
    /\ address' = [address EXCEPT ![u] = a]
    /\ had' = [had EXCEPT ![u] = @ \cup {a}]
    /\ UNCHANGED <<vars, cache, asked, shown>>

(***************************************************************************)
(* inviteToRoom.                                                           *)
(***************************************************************************)
\* db.shard.inviteToRoom begins for u, or ends at once with "room not found".
Proceed(h, a, u, r) ==
    /\ Invite(h, u, r)
    /\ asked' = [asked EXCEPT ![h] = IF exists THEN a ELSE NoAddress]

Ask(h, a, r) ==
    /\ pc[h] = "idle" /\ asked[h] = NoAddress
    /\ IF byEmail[a] # NoUser THEN Proceed(h, a, byEmail[a], r)
       ELSE asked' = [asked EXCEPT ![h] = a] /\ UNCHANGED vars
    /\ UNCHANGED <<people, cache, shown>>

\* Clerk has nobody of that address, or does not answer: neither is remembered.
NotFound(h) ==
    /\ pc[h] = "idle" /\ asked[h] # NoAddress
    /\ asked' = [asked EXCEPT ![h] = NoAddress]
    /\ UNCHANGED <<vars, people, cache, shown>>

\* Mutant of Found: the answer is remembered for every address.
FoundForAll(h, u, r) ==
    /\ pc[h] = "idle" /\ asked[h] # NoAddress /\ address[u] = asked[h]
    /\ byEmail' = [a \in Addresses |-> u]
    /\ Proceed(h, asked[h], u, r)
    /\ UNCHANGED <<people, byId, shown>>

\* The role r is that of the body, which the handler has kept.
Found(h, u, r) ==
    /\ pc[h] = "idle" /\ asked[h] # NoAddress /\ address[u] = asked[h]
    /\ byEmail' = [byEmail EXCEPT ![asked[h]] = u]
    /\ Proceed(h, asked[h], u, r)
    /\ UNCHANGED <<people, byId, shown>>

\* The commands of db.shard.inviteToRoom; the request ends with them.
InviteStep(h) ==
    /\ CheckMember(h) \/ CheckRoom(h) \/ Insert(h) \/ Fail(h)
    /\ asked' = [asked EXCEPT ![h] = IF pc'[h] = "idle" THEN NoAddress ELSE @]
    /\ UNCHANGED <<people, cache, shown>>

DeleteRoom == Delete /\ UNCHANGED <<people, cache, asked, shown>>

(***************************************************************************)
(* fetchRoomMembers.                                                       *)
(***************************************************************************)
\* formatRoomMembersResponse takes what is remembered at once and asks for the rest;
\* the roles, which it copies, are left out.
EntriesOf(rows) ==
    [i \in DOMAIN rows |-> [user |-> rows[i].user, address |-> byId[rows[i].user]]]

FetchMembers(g) ==
    /\ shown[g] = <<>>
    /\ shown' = [shown EXCEPT ![g] = EntriesOf(members)]
    /\ UNCHANGED <<vars, people, cache, asked>>

\* Mutant of Answer: what the failed lookup left is remembered as well.
AnswerRemembered(g, i) ==
    /\ i \in DOMAIN shown[g] /\ shown[g][i].address = Pending
    /\ LET u == shown[g][i].user IN
       \E a \in {address[u], Failed} :
          /\ shown' = [shown EXCEPT ![g][i].address = a]
          /\ byId' = [byId EXCEPT ![u] = a]
    /\ UNCHANGED <<vars, people, byEmail, asked>>

\* getClerkUser answers for entry i, or fails; filter(Boolean) is applied to
\* promises and drops nothing.
Answer(g, i) ==
    /\ i \in DOMAIN shown[g] /\ shown[g][i].address = Pending
    /\ LET u == shown[g][i].user IN
       \/ /\ shown' = [shown EXCEPT ![g][i].address = address[u]]
          /\ byId' = [byId EXCEPT ![u] = address[u]]
       \/ /\ shown' = [shown EXCEPT ![g][i].address = Failed]
          /\ UNCHANGED byId
    /\ UNCHANGED <<vars, people, byEmail, asked>>

\* The listener of "disconnect" asks the same service, for the name that it
\* announces: a third way into the map.
Depart(u) ==
    /\ byId[u] = Pending
    /\ byId' = [byId EXCEPT ![u] = address[u]]
    /\ UNCHANGED <<vars, people, byEmail, asked, shown>>

Respond(g) ==
    /\ shown[g] # <<>> /\ \A i \in DOMAIN shown[g] : shown[g][i].address # Pending
    /\ shown' = [shown EXCEPT ![g] = <<>>]
    /\ UNCHANGED <<vars, people, cache, asked>>

DirectoryNext ==
    \/ \E u \in Users, a \in Answers : ChangeAddress(u, a)
    \/ \E h \in Handlers :
          \/ \E a \in Addresses, r \in Invited : Ask(h, a, r)
          \/ \E u \in Users, r \in Invited : Found(h, u, r)
          \/ NotFound(h) \/ InviteStep(h)
    \/ DeleteRoom
    \/ \E u \in Users : Depart(u)
    \/ \E g \in Readers : FetchMembers(g) \/ Respond(g) \/ \E i \in DOMAIN shown[g] : Answer(g, i)

DirectorySpec == DirectoryInit /\ [][DirectoryNext]_directoryVars

(***************************************************************************)
(* However old the remembered answers are, none was ever wrong: whoever is *)
(* invited by an address has had it since the server started, and so has   *)
(* whoever is shown with one.                                              *)
(***************************************************************************)
OnceTrue ==
    /\ \A h \in Handlers : pc[h] # "idle" => asked[h] \in had[user[h]]
    /\ \A g \in Readers : \A i \in DOMAIN shown[g] :
          shown[g][i].address \in had[shown[g][i].user] \cup {Pending, Failed}
=============================================================================

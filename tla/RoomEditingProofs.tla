-------------------------- MODULE RoomEditingProofs --------------------------
(***************************************************************************)
(* Proofs about RoomEditing for any clients, contents and writers.         *)
(***************************************************************************)
EXTENDS RoomEditing, TLAPS

\* The last event of a kind on its way to a member is the last one relayed.
EndsWith(queue, k, d) ==
    \A i \in DOMAIN queue :
        queue[i].kind = k /\ (\A j \in DOMAIN queue : j > i => queue[j].kind # k)
            => queue[i].data = d

InboxEnds == \A c \in joined : \A k \in Kinds : EndsWith(inbox[c], k, latest[k])

\* A write that is trusted updates and runs alone; when it has committed, none
\* runs.
AloneInv ==
    /\ trusted # NoWriter =>
          /\ write[trusted] = latest["code"] /\ trusted \notin inserting
          /\ \A w \in Writers \ {trusted} : write[w] = NoData
    /\ settled => \A w \in Writers : write[w] = NoData
    /\ \A w \in inserting : write[w] # NoData
    /\ settled => rows \subseteq {latest["code"]}

IInv == TypeOK /\ InboxEnds /\ Agreement /\ AloneInv

-----------------------------------------------------------------------------
\* Queues of events.

LEMMA AppendEnds ==
    ASSUME NEW q \in Seq(Relayed), NEW m \in Relayed, NEW k, NEW d, EndsWith(q, k, d)
    PROVE  EndsWith(Append(q, m), k, IF m.kind = k THEN m.data ELSE d)
<1>1. Append(q, m) \in Seq(Relayed) /\ Len(Append(q, m)) = Len(q) + 1
  OBVIOUS
<1>2. /\ DOMAIN q = 1..Len(q) /\ DOMAIN Append(q, m) = 1..(Len(q) + 1)
      /\ \A i \in 1..Len(q) : Append(q, m)[i] = q[i]
      /\ Append(q, m)[Len(q) + 1] = m /\ Len(q) \in Nat
  BY <1>1
<1>3. SUFFICES ASSUME NEW i \in 1..(Len(q) + 1), Append(q, m)[i].kind = k,
                      \A j \in 1..(Len(q) + 1) : j > i => Append(q, m)[j].kind # k
               PROVE  Append(q, m)[i].data = IF m.kind = k THEN m.data ELSE d
  BY <1>2 DEF EndsWith
<1>4. CASE i = Len(q) + 1
  BY <1>2, <1>3, <1>4
<1>5. CASE i \in 1..Len(q)
  <2>1. m.kind # k
    BY <1>2, <1>3, <1>5
  <2>2. \A j \in 1..Len(q) : j > i => q[j].kind # k
    BY <1>2, <1>3
  <2>3. q[i].data = d
    BY <1>2, <1>3, <1>5, <2>2 DEF EndsWith
  <2> QED
    BY <1>2, <1>5, <2>1, <2>3
<1> QED
  BY <1>2, <1>4, <1>5

LEMMA TailEnds ==
    ASSUME NEW q \in Seq(Relayed), q # <<>>, NEW k, NEW d, EndsWith(q, k, d)
    PROVE  /\ EndsWith(Tail(q), k, d)
           /\ Head(q).kind = k /\ NoneOf(Tail(q), k) => Head(q).data = d
<1>1. /\ Tail(q) \in Seq(Relayed) /\ Len(Tail(q)) = Len(q) - 1
      /\ Len(q) \in Nat /\ Len(q) > 0 /\ Head(q) = q[1]
  OBVIOUS
<1>2. /\ DOMAIN q = 1..Len(q) /\ DOMAIN Tail(q) = 1..(Len(q) - 1)
      /\ \A i \in 1..(Len(q) - 1) : Tail(q)[i] = q[i + 1]
  BY <1>1
<1>3. EndsWith(Tail(q), k, d)
  <2>1. SUFFICES ASSUME NEW i \in 1..(Len(q) - 1), q[i + 1].kind = k,
                        \A j \in 1..(Len(q) - 1) : j > i => q[j + 1].kind # k
                 PROVE  q[i + 1].data = d
    BY <1>2 DEF EndsWith
  <2>2. \A j \in 1..Len(q) : j > i + 1 => q[j].kind # k
    <3>1. SUFFICES ASSUME NEW j \in 1..Len(q), j > i + 1
                   PROVE  q[j].kind # k
      OBVIOUS
    <3>2. j - 1 \in 1..(Len(q) - 1) /\ j - 1 > i /\ (j - 1) + 1 = j
      BY <1>1, <3>1
    <3> QED
      BY <2>1, <3>2
  <2>3. i + 1 \in 1..Len(q)
    BY <1>1
  <2> QED
    BY <1>2, <2>1, <2>2, <2>3 DEF EndsWith
<1>4. ASSUME Head(q).kind = k, NoneOf(Tail(q), k)
      PROVE  Head(q).data = d
  <2>1. \A j \in 1..Len(q) : j > 1 => q[j].kind # k
    <3>1. SUFFICES ASSUME NEW j \in 1..Len(q), j > 1
                   PROVE  q[j].kind # k
      OBVIOUS
    <3>2. j - 1 \in 1..(Len(q) - 1) /\ (j - 1) + 1 = j
      BY <1>1, <3>1
    <3> QED
      BY <1>2, <1>4, <3>2 DEF NoneOf
  <2>2. 1 \in DOMAIN q
    BY <1>1, <1>2
  <2> QED
    BY <1>1, <1>2, <1>4, <2>1, <2>2 DEF EndsWith
<1> QED
  BY <1>3, <1>4

LEMMA NoneOfAppend ==
    ASSUME NEW S, NEW q \in Seq(S), NEW m \in S, NEW k, NoneOf(Append(q, m), k)
    PROVE  NoneOf(q, k) /\ m.kind # k
<1>1. /\ DOMAIN q = 1..Len(q) /\ DOMAIN Append(q, m) = 1..(Len(q) + 1)
      /\ \A i \in 1..Len(q) : Append(q, m)[i] = q[i]
      /\ Append(q, m)[Len(q) + 1] = m /\ Len(q) \in Nat
  OBVIOUS
<1> QED
  BY <1>1 DEF NoneOf

LEMMA NoneOfTail ==
    ASSUME NEW S, NEW q \in Seq(S), q # <<>>, NEW k, NoneOf(Tail(q), k), Head(q).kind # k
    PROVE  NoneOf(q, k)
<1>1. /\ Len(q) \in Nat /\ Len(q) > 0 /\ Head(q) = q[1]
      /\ DOMAIN q = 1..Len(q) /\ DOMAIN Tail(q) = 1..(Len(q) - 1)
      /\ \A i \in 1..(Len(q) - 1) : Tail(q)[i] = q[i + 1]
  OBVIOUS
<1>2. SUFFICES ASSUME NEW i \in 1..Len(q)
               PROVE  q[i].kind # k
  BY <1>1 DEF NoneOf
<1>3. CASE i = 1
  BY <1>1, <1>3
<1>4. CASE i # 1
  <2>1. i - 1 \in 1..(Len(q) - 1) /\ (i - 1) + 1 = i
    BY <1>1, <1>4
  <2> QED
    BY <1>1, <2>1 DEF NoneOf
<1> QED
  BY <1>3, <1>4
-----------------------------------------------------------------------------
\* Types.

LEMMA TypeInit == Init => TypeOK
<1> SUFFICES ASSUME Init PROVE TypeOK
  OBVIOUS
<1>1. <<>> \in Seq(Events) /\ <<>> \in Seq(Relayed)
  OBVIOUS
<1>2. outbox \in [Clients -> Seq(Events)] /\ inbox \in [Clients -> Seq(Relayed)]
  BY <1>1 DEF Init
<1>3. /\ view \in [Clients -> [Kinds -> Data \cup {NoData}]]
      /\ latest \in [Kinds -> Data \cup {NoData}]
      /\ heard \in [Clients -> SUBSET Kinds]
  BY DEF Init
<1>4. rows \subseteq Data /\ sends \in 0..MaxSends
  BY TemplateAssumption, MaxSendsAssumption DEF Init, Data
<1> QED
  BY <1>2, <1>3, <1>4 DEF Init, TypeOK

LEMMA DeliverType ==
    ASSUME TypeOK, NEW c \in Clients, NEW m \in Relayed, Deliver(c, m)
    PROVE  /\ inbox' \in [Clients -> Seq(Relayed)]
           /\ latest' \in [Kinds -> Data \cup {NoData}]
<1>1. \A d \in Clients : Append(inbox[d], m) \in Seq(Relayed)
  BY DEF TypeOK
<1>2. inbox' \in [Clients -> Seq(Relayed)]
  BY <1>1 DEF TypeOK, Deliver
<1>3. latest' \in [Kinds -> Data \cup {NoData}]
  BY DEF TypeOK, Deliver, Relayed
<1> QED
  BY <1>2, <1>3

LEMMA TakeType ==
    ASSUME TypeOK, NEW c \in Clients, Take(c)
    PROVE  /\ Head(outbox[c]) \in Events
           /\ Tail(outbox[c]) \in Seq(Events)
           /\ outbox' \in [Clients -> Seq(Events)]
BY DEF TypeOK, Take

LEMMA EmitType ==
    ASSUME TypeOK, NEW c \in Clients, NEW k \in Kinds \cup {"save"}, NEW d \in Data,
           Emit(c, k, d)
    PROVE  outbox' \in [Clients -> Seq(Events)] /\ sends' \in 0..MaxSends
<1>1. [kind |-> k, data |-> d] \in Events
  BY DEF Events
<1>2. Append(outbox[c], [kind |-> k, data |-> d]) \in Seq(Events)
  BY <1>1 DEF TypeOK
<1> QED
  BY <1>2, MaxSendsAssumption DEF TypeOK, Emit

LEMMA TypeStep == TypeOK /\ [Next]_vars => TypeOK'
<1> SUFFICES ASSUME TypeOK, [Next]_vars PROVE TypeOK'
  OBVIOUS
<1>1. ASSUME NEW c \in Clients, NEW k \in Kinds, NEW d \in Contents(k), Send(c, k, d)
      PROVE  TypeOK'
  <2>1. d \in Data
    BY DEF Contents, Data
  <2>2. outbox' \in [Clients -> Seq(Events)] /\ sends' \in 0..MaxSends
    BY <1>1, <2>1, EmitType DEF Send
  <2>3. view' \in [Clients -> [Kinds -> Data \cup {NoData}]]
    BY <1>1, <2>1 DEF Send, TypeOK
  <2> QED
    BY <1>1, <2>2, <2>3 DEF Send, TypeOK, database
<1>2. ASSUME NEW c \in Clients, Save(c)
      PROVE  TypeOK'
  <2>1. view[c]["code"] \in Data
    BY <1>2 DEF Save, TypeOK, Kinds
  <2>2. outbox' \in [Clients -> Seq(Events)] /\ sends' \in 0..MaxSends
    BY <1>2, <2>1, EmitType DEF Save
  <2> QED
    BY <1>2, <2>2 DEF Save, TypeOK, database
<1>3. ASSUME NEW c \in Clients, Receive(c)
      PROVE  TypeOK'
  <2>1. /\ Head(inbox[c]) \in Relayed
        /\ Tail(inbox[c]) \in Seq(Relayed)
    BY <1>3 DEF Receive, TypeOK
  <2>2. /\ view' \in [Clients -> [Kinds -> Data \cup {NoData}]]
        /\ heard' \in [Clients -> SUBSET Kinds]
        /\ inbox' \in [Clients -> Seq(Relayed)]
    BY <1>3, <2>1 DEF Receive, TypeOK, Relayed
  <2> QED
    BY <1>3, <2>2 DEF Receive, TypeOK, database
<1>4. ASSUME NEW c \in Clients, Load(c)
      PROVE  TypeOK'
  BY <1>4 DEF Load, TypeOK, database, Kinds
<1>5. ASSUME NEW c \in Clients, Join(c) \/ Disconnect(c) \/ LeaveQuietly(c)
      PROVE  TypeOK'
  <2>1. <<>> \in Seq(Events) /\ <<>> \in Seq(Relayed)
    OBVIOUS
  <2>2. CASE Join(c)
    <3>1. inbox' \in [Clients -> Seq(Relayed)]
      BY <2>1, <2>2 DEF Join, TypeOK
    <3> QED
      BY <2>2, <3>1 DEF Join, TypeOK, database
  <2>3. CASE Disconnect(c)
    <3>1. inbox' \in [Clients -> Seq(Relayed)] /\ outbox' \in [Clients -> Seq(Events)]
      BY <2>1, <2>3 DEF Disconnect, TypeOK
    <3> QED
      BY <2>3, <3>1 DEF Disconnect, TypeOK, database
  <2>4. CASE LeaveQuietly(c)
    BY <2>4 DEF LeaveQuietly, TypeOK, database, clients
  <2> QED
    BY <1>5, <2>2, <2>3, <2>4
<1>6. ASSUME NEW c \in Clients, NEW d \in Lines, AnnounceLeft(c, d)
      PROVE  TypeOK'
  <2>1. [kind |-> "chat", data |-> d] \in Relayed
    BY DEF Relayed, Kinds, Data
  <2>2. /\ inbox' \in [Clients -> Seq(Relayed)]
        /\ latest' \in [Kinds -> Data \cup {NoData}]
    BY <1>6, <2>1, DeliverType DEF AnnounceLeft
  <2> QED
    BY <1>6, <2>2, MaxSendsAssumption DEF AnnounceLeft, TypeOK, database
<1>7. ASSUME NEW c \in Clients, Relay(c)
      PROVE  TypeOK'
  <2>1. /\ Head(outbox[c]) \in Relayed
        /\ outbox' \in [Clients -> Seq(Events)]
    BY <1>7, TakeType DEF Relay, Events, Relayed
  <2>2. /\ inbox' \in [Clients -> Seq(Relayed)]
        /\ latest' \in [Kinds -> Data \cup {NoData}]
    BY <1>7, <2>1, DeliverType DEF Relay
  <2> QED
    BY <1>7, <2>1, <2>2 DEF Relay, TypeOK
<1>8. ASSUME NEW c \in Clients, NEW w \in Writers, BeginWrite(c, w)
      PROVE  TypeOK'
  <2>1. /\ Head(outbox[c]).data \in Data
        /\ outbox' \in [Clients -> Seq(Events)]
    BY <1>8, TakeType DEF BeginWrite, Events
  <2> QED
    BY <1>8, <2>1 DEF BeginWrite, Update, Idle, TypeOK
<1>9. ASSUME NEW w \in Writers, NEW code \in Codes, SaveOver(w, code) \/ SaveAgain(w, code)
      PROVE  TypeOK'
  <2>1. code \in Data /\ sends' \in 0..MaxSends
    BY <1>9, MaxSendsAssumption DEF Data, SaveOver, SaveAgain, SaveShard, TypeOK
  <2> QED
    BY <1>9, <2>1 DEF SaveOver, SaveAgain, SaveShard, Update, Idle, TypeOK, clients
<1>10. ASSUME NEW w \in Writers, Settle(w)
       PROVE  TypeOK'
  <2>1. /\ write' \in [Writers -> Data \cup {NoData}]
        /\ inserting' \subseteq Writers /\ trusted' \in Writers \cup {NoWriter}
    BY <1>10 DEF Settle, CommitWrite, CommitInsert, FailWrite, EndWrite, TypeOK
  <2>2. rows' \subseteq Data /\ settled' \in BOOLEAN
    BY <1>10 DEF Settle, CommitWrite, CommitInsert, FailWrite, EndWrite, TypeOK
  <2> QED
    BY <1>10, <2>1, <2>2
       DEF Settle, CommitWrite, CommitInsert, FailWrite, EndWrite, TypeOK, clients
<1>11. CASE Delete
  BY <1>11, MaxSendsAssumption DEF Delete, TypeOK, clients
<1>12. CASE UNCHANGED vars
  BY <1>12 DEF vars, clients, database, TypeOK
<1> QED
  BY <1>1, <1>2, <1>3, <1>4, <1>5, <1>6, <1>7, <1>8, <1>9, <1>10, <1>11, <1>12
     DEF Next, Browser, Membership, Serve, Put

(***************************************************************************)
(* Every variable keeps its type: what is on its way are events the server *)
(* can take up, and no save writes an empty screen.                        *)
(***************************************************************************)
THEOREM TypeCorrect == Spec => []TypeOK
BY TypeInit, TypeStep, PTL DEF Spec

-----------------------------------------------------------------------------
\* What is on its way to a member ends with what was relayed last.

LEMMA DeliverEnds ==
    ASSUME TypeOK, InboxEnds, NEW c \in Clients, NEW m \in Relayed, Deliver(c, m),
           joined' = joined
    PROVE  InboxEnds'
<1> SUFFICES ASSUME NEW d \in joined, NEW k \in Kinds
             PROVE  EndsWith(inbox'[d], k, latest'[k])
  BY DEF InboxEnds, EndsWith
<1>1. d \in Clients /\ inbox[d] \in Seq(Relayed) /\ EndsWith(inbox[d], k, latest[k])
  BY DEF TypeOK, InboxEnds
<1>2. inbox'[d] = Append(inbox[d], m)
  BY <1>1 DEF Deliver
<1>3. latest'[k] = IF m.kind = k THEN m.data ELSE latest[k]
  BY DEF Deliver, TypeOK
<1> QED
  BY <1>1, <1>2, <1>3, AppendEnds

LEMMA InboxStep == IInv /\ [Next]_vars => InboxEnds'
<1> SUFFICES ASSUME IInv, [Next]_vars PROVE InboxEnds'
  OBVIOUS
<1> USE DEF IInv
<1>1. ASSUME joined' \subseteq joined, inbox' = inbox, latest' = latest
      PROVE  InboxEnds'
  BY <1>1 DEF InboxEnds, EndsWith
<1>2. ASSUME NEW c \in Clients, Receive(c)
      PROVE  InboxEnds'
  <2> SUFFICES ASSUME NEW d \in joined, NEW k \in Kinds
               PROVE  EndsWith(inbox'[d], k, latest'[k])
    BY <1>2 DEF InboxEnds, EndsWith, Receive
  <2>1. d \in Clients /\ inbox[d] \in Seq(Relayed) /\ EndsWith(inbox[d], k, latest[k])
    BY DEF TypeOK, InboxEnds
  <2>2. inbox[c] # <<>> /\ latest' = latest
        /\ inbox'[d] = IF d = c THEN Tail(inbox[d]) ELSE inbox[d]
    BY <1>2, <2>1 DEF Receive, TypeOK
  <2> QED
    BY <2>1, <2>2, TailEnds
<1>3. ASSUME NEW c \in Clients, Join(c) \/ Disconnect(c)
      PROVE  InboxEnds'
  <2> SUFFICES ASSUME NEW d \in joined', NEW k \in Kinds
               PROVE  EndsWith(inbox'[d], k, latest[k])
    BY <1>3 DEF InboxEnds, EndsWith, Join, Disconnect
  <2>1. CASE d = c
    <3>1. inbox'[d] = <<>>
      BY <1>3, <2>1 DEF Join, Disconnect, TypeOK
    <3> QED
      BY <3>1 DEF EndsWith
  <2>2. CASE d # c
    <3>1. d \in joined /\ inbox'[d] = inbox[d]
      BY <1>3, <2>2 DEF Join, Disconnect, TypeOK
    <3> QED
      BY <3>1 DEF InboxEnds
  <2> QED
    BY <2>1, <2>2
<1>4. ASSUME NEW c \in Clients, NEW d \in Lines, AnnounceLeft(c, d)
      PROVE  InboxEnds'
  <2>1. [kind |-> "chat", data |-> d] \in Relayed
    BY DEF Relayed, Kinds, Data
  <2> QED
    BY <1>4, <2>1, DeliverEnds DEF AnnounceLeft
<1>5. ASSUME NEW c \in Clients, Relay(c)
      PROVE  InboxEnds'
  <2>1. Head(outbox[c]) \in Relayed
    BY <1>5, TakeType DEF Relay, Events, Relayed
  <2> QED
    BY <1>5, <2>1, DeliverEnds DEF Relay
<1> QED
  BY <1>1, <1>2, <1>3, <1>4, <1>5
     DEF Next, Browser, Membership, Serve, Put, Settle, Send, Save, Load, LeaveQuietly,
         BeginWrite, SaveShard, SaveOver, SaveAgain, EndWrite, CommitWrite, CommitInsert,
         FailWrite, Delete, vars, clients, database

-----------------------------------------------------------------------------
\* Agreement.

LEMMA DeliverAgrees ==
    ASSUME TypeOK, NEW c \in Clients, NEW m \in Relayed, Deliver(c, m), joined' = joined,
           NEW d \in joined, NEW k \in Kinds, NoneOf(inbox'[d], k)
    PROVE  NoneOf(inbox[d], k) /\ latest'[k] = latest[k]
<1>1. inbox[d] \in Seq(Relayed) /\ inbox'[d] = Append(inbox[d], m)
  BY DEF TypeOK, Deliver
<1>2. NoneOf(inbox[d], k) /\ m.kind # k
  BY <1>1, NoneOfAppend
<1> QED
  BY <1>2 DEF Deliver, TypeOK

LEMMA EmitAgrees ==
    ASSUME TypeOK, NEW c \in Clients, NEW e \in Kinds \cup {"save"}, NEW x \in Data,
           Emit(c, e, x), NEW d \in Clients, NEW k \in Kinds, NoneOf(outbox'[d], k)
    PROVE  NoneOf(outbox[d], k) /\ (d = c => e # k)
<1>1. CASE d = c
  <2>1. /\ outbox[d] \in Seq(Events) /\ [kind |-> e, data |-> x] \in Events
        /\ outbox'[d] = Append(outbox[d], [kind |-> e, data |-> x])
    BY <1>1 DEF Emit, TypeOK, Events
  <2> QED
    BY <2>1, NoneOfAppend
<1>2. CASE d # c
  BY <1>2 DEF Emit, TypeOK
<1> QED
  BY <1>1, <1>2

LEMMA AgreementStep == IInv /\ [Next]_vars => Agreement'
<1> SUFFICES ASSUME IInv, [Next]_vars, NEW d \in joined', NEW k \in heard'[d],
                    NoneOf(inbox'[d], k), NoneOf(outbox'[d], k)
             PROVE  view'[d][k] = latest'[k]
  BY DEF Agreement, NoneOf
<1> USE DEF IInv
<1>0. TypeOK' /\ d \in Clients /\ k \in Kinds
  BY TypeStep DEF TypeOK
<1>1. ASSUME NEW c \in Clients, NEW e \in Kinds, NEW x \in Contents(e), Send(c, e, x)
      PROVE  view'[d][k] = latest'[k]
  <2>1. x \in Data
    BY DEF Contents, Data
  <2>2. NoneOf(outbox[d], k) /\ (d = c => e # k)
    BY <1>0, <1>1, <2>1, EmitAgrees DEF Send
  <2>3. view'[d][k] = view[d][k]
    BY <1>0, <1>1, <2>2 DEF Send, TypeOK
  <2> QED
    BY <1>1, <2>2, <2>3 DEF Send, Agreement
<1>2. ASSUME NEW c \in Clients, Save(c)
      PROVE  view'[d][k] = latest'[k]
  <2>1. view[c]["code"] \in Data
    BY <1>2 DEF Save, TypeOK, Kinds
  <2>2. NoneOf(outbox[d], k)
    BY <1>0, <1>2, <2>1, EmitAgrees DEF Save
  <2> QED
    BY <1>2, <2>2 DEF Save, Agreement
<1>3. ASSUME NEW c \in Clients, Receive(c)
      PROVE  view'[d][k] = latest'[k]
  <2>1. CASE d # c
    BY <1>0, <1>3, <2>1 DEF Receive, TypeOK, Agreement
  <2>2. CASE d = c
    <3>1. /\ inbox[d] \in Seq(Relayed) /\ inbox[d] # <<>>
          /\ inbox'[d] = Tail(inbox[d]) /\ d \in joined /\ latest' = latest
          /\ outbox' = outbox
          /\ heard'[d] = heard[d] \cup {Head(inbox[d]).kind}
          /\ view'[d] = [view[d] EXCEPT ![Head(inbox[d]).kind] = Head(inbox[d]).data]
      BY <1>0, <1>3, <2>2 DEF Receive, TypeOK
    <3>2. CASE Head(inbox[d]).kind = k
      <4>1. EndsWith(inbox[d], k, latest[k])
        BY <1>0, <3>1 DEF InboxEnds
      <4>2. Head(inbox[d]).data = latest[k]
        BY <3>1, <3>2, <4>1, TailEnds
      <4>3. view[d] \in [Kinds -> Data \cup {NoData}]
        BY <1>0 DEF TypeOK
      <4> QED
        BY <1>0, <3>1, <3>2, <4>2, <4>3
    <3>3. CASE Head(inbox[d]).kind # k
      <4>1. NoneOf(inbox[d], k)
        BY <3>1, <3>3, NoneOfTail
      <4>2. view'[d][k] = view[d][k]
        BY <1>0, <3>1, <3>3 DEF TypeOK
      <4> QED
        BY <3>1, <3>3, <4>1, <4>2 DEF Agreement
    <3> QED
      BY <3>2, <3>3
  <2> QED
    BY <2>1, <2>2
<1>4. ASSUME NEW c \in Clients, Load(c)
      PROVE  view'[d][k] = latest'[k]
  <2>1. k \in heard[d] /\ (d = c => k # "code")
    BY <1>0, <1>4 DEF Load, TypeOK
  <2>2. view'[d][k] = view[d][k]
    BY <1>0, <1>4, <2>1 DEF Load, TypeOK
  <2> QED
    BY <1>4, <2>1, <2>2 DEF Load, Agreement
<1>5. ASSUME NEW c \in Clients, Join(c) \/ Disconnect(c)
      PROVE  view'[d][k] = latest'[k]
  <2>1. d # c
    BY <1>0, <1>5 DEF Join, Disconnect, TypeOK
  <2> QED
    BY <1>0, <1>5, <2>1 DEF Join, Disconnect, TypeOK, Agreement
<1>6. ASSUME NEW c \in Clients, NEW x \in Lines, AnnounceLeft(c, x)
      PROVE  view'[d][k] = latest'[k]
  <2>1. [kind |-> "chat", data |-> x] \in Relayed
    BY DEF Relayed, Kinds, Data
  <2>2. NoneOf(inbox[d], k) /\ latest'[k] = latest[k]
    BY <1>0, <1>6, <2>1, DeliverAgrees DEF AnnounceLeft
  <2> QED
    BY <1>6, <2>2 DEF AnnounceLeft, Agreement
<1>7. ASSUME NEW c \in Clients, Relay(c)
      PROVE  view'[d][k] = latest'[k]
  <2>1. Head(outbox[c]) \in Relayed
    BY <1>7, TakeType DEF Relay, Events, Relayed
  <2>2. NoneOf(inbox[d], k) /\ latest'[k] = latest[k]
    BY <1>0, <1>7, <2>1, DeliverAgrees DEF Relay
  <2>3. Head(outbox[c]).kind # k
    <3>1. inbox[d] \in Seq(Relayed) /\ inbox'[d] = Append(inbox[d], Head(outbox[c]))
      BY <1>0, <1>7 DEF Relay, Deliver, TypeOK
    <3> QED
      BY <2>1, <3>1, NoneOfAppend
  <2>4. NoneOf(outbox[d], k)
    <3>1. CASE d = c
      <4>1. /\ outbox[d] \in Seq(Events) /\ outbox[d] # <<>>
            /\ outbox'[d] = Tail(outbox[d])
        BY <1>0, <1>7, <3>1 DEF Relay, Take, TypeOK
      <4> QED
        BY <2>3, <3>1, <4>1, NoneOfTail
    <3>2. CASE d # c
      BY <1>0, <1>7, <3>2 DEF Relay, Take, TypeOK
    <3> QED
      BY <3>1, <3>2
  <2> QED
    BY <1>7, <2>2, <2>4 DEF Relay, Agreement
<1>8. ASSUME NEW c \in Clients, NEW w \in Writers, BeginWrite(c, w)
      PROVE  view'[d][k] = latest'[k]
  <2>1. NoneOf(outbox[d], k)
    <3>1. CASE d = c
      <4>1. /\ outbox[d] \in Seq(Events) /\ outbox[d] # <<>>
            /\ outbox'[d] = Tail(outbox[d]) /\ Head(outbox[d]).kind # k
        BY <1>0, <1>8, <3>1 DEF BeginWrite, Take, TypeOK, Kinds
      <4> QED
        BY <3>1, <4>1, NoneOfTail
    <3>2. CASE d # c
      BY <1>0, <1>8, <3>2 DEF BeginWrite, Take, TypeOK
    <3> QED
      BY <3>1, <3>2
  <2> QED
    BY <1>8, <2>1 DEF BeginWrite, Agreement
<1>9. ASSUME UNCHANGED <<joined, clients, latest>>
      PROVE  view'[d][k] = latest'[k]
  BY <1>9 DEF clients, Agreement
<1> QED
  BY <1>1, <1>2, <1>3, <1>4, <1>5, <1>6, <1>7, <1>8, <1>9
     DEF Next, Browser, Membership, Serve, Put, Settle, LeaveQuietly,
         SaveShard, SaveOver, SaveAgain, EndWrite, CommitWrite, CommitInsert, FailWrite,
         Delete, vars, clients, database

-----------------------------------------------------------------------------
\* The rows.

LEMMA UpdateAlone ==
    ASSUME TypeOK, AloneInv, NEW w \in Writers, NEW code \in Data, Update(w, code),
           inserting' = inserting, latest' = latest
    PROVE  AloneInv'
BY NoDataAssumption, NoWriterAssumption DEF Update, Idle, AloneInv, TypeOK

LEMMA AloneStep == IInv /\ [Next]_vars => AloneInv'
<1> SUFFICES ASSUME IInv, [Next]_vars PROVE AloneInv'
  OBVIOUS
<1> USE NoDataAssumption, NoWriterAssumption DEF IInv
<1>1. ASSUME NEW c \in Clients, Relay(c)
      PROVE  AloneInv'
  <2>1. Head(outbox[c]) \in Events
    BY <1>1, TakeType DEF Relay
  <2>2. CASE Head(outbox[c]).kind = "code"
    BY <1>1, <2>2 DEF Relay, AloneInv
  <2>3. CASE Head(outbox[c]).kind # "code"
    <3>1. latest'["code"] = latest["code"]
      BY <1>1, <2>1, <2>3 DEF Relay, Deliver, TypeOK, Kinds
    <3> QED
      BY <1>1, <2>3, <3>1 DEF Relay, AloneInv
  <2> QED
    BY <2>2, <2>3
<1>2. ASSUME NEW c \in Clients, NEW w \in Writers, BeginWrite(c, w)
      PROVE  AloneInv'
  <2>1. Head(outbox[c]).data \in Data
    BY <1>2, TakeType DEF BeginWrite, Events
  <2> QED
    BY <1>2, <2>1, UpdateAlone DEF BeginWrite
<1>3. ASSUME NEW w \in Writers, NEW code \in Codes, SaveOver(w, code) \/ SaveAgain(w, code)
      PROVE  AloneInv'
  <2>1. code \in Data
    BY DEF Data
  <2>2. CASE SaveOver(w, code)
    BY <2>1, <2>2, UpdateAlone DEF SaveOver, SaveShard
  <2>3. CASE SaveAgain(w, code)
    BY <2>1, <2>3 DEF SaveAgain, SaveShard, AloneInv, TypeOK
  <2> QED
    BY <1>3, <2>2, <2>3
<1>4. ASSUME NEW w \in Writers, Settle(w)
      PROVE  AloneInv'
  <2>1. EndWrite(w) /\ ~settled /\ latest' = latest
    BY <1>4 DEF Settle, CommitWrite, CommitInsert, FailWrite, EndWrite, AloneInv
  <2>2. /\ trusted' # NoWriter =>
              /\ trusted' = trusted /\ trusted # w
              /\ write'[trusted] = write[trusted]
        /\ \A v \in Writers : write'[v] = IF v = w THEN NoData ELSE write[v]
        /\ inserting' = inserting \ {w}
    BY <2>1 DEF EndWrite, TypeOK
  <2>3. CASE settled'
    <3>1. w = trusted /\ CommitWrite(w)
      BY <1>4, <2>1, <2>3 DEF Settle, CommitWrite, CommitInsert, FailWrite
    <3>2. rows' \subseteq {latest["code"]}
      BY <3>1 DEF CommitWrite, AloneInv, TypeOK
    <3> QED
      BY <2>1, <2>2, <3>1, <3>2 DEF AloneInv, TypeOK
  <2>4. CASE ~settled'
    BY <2>1, <2>2, <2>4 DEF AloneInv, TypeOK
  <2> QED
    BY <2>3, <2>4
<1>5. CASE Delete
  BY <1>5 DEF Delete, AloneInv
<1>6. ASSUME NEW c \in Clients, NEW d \in Lines, AnnounceLeft(c, d)
      PROVE  AloneInv'
  <2>1. latest'["code"] = latest["code"]
    BY <1>6 DEF AnnounceLeft, Deliver, TypeOK, Kinds
  <2> QED
    BY <1>6, <2>1 DEF AnnounceLeft, database, AloneInv
<1>7. ASSUME UNCHANGED database, latest' = latest
      PROVE  AloneInv'
  BY <1>7 DEF database, AloneInv
<1> QED
  BY <1>1, <1>2, <1>3, <1>4, <1>5, <1>6, <1>7
     DEF Next, Browser, Membership, Serve, Put, Send, Save, Receive, Load, Join,
         Disconnect, LeaveQuietly, vars

-----------------------------------------------------------------------------
LEMMA InvInit == Init => IInv
BY TypeInit DEF Init, IInv, InboxEnds, Agreement, AloneInv

LEMMA InvStep == IInv /\ [Next]_vars => IInv'
BY TypeStep, InboxStep, AgreementStep, AloneStep DEF IInv

LEMMA Invariant == Spec => []IInv
BY InvInit, InvStep, PTL DEF Spec

(***************************************************************************)
(* Members to whom nothing is on its way show what was relayed last,       *)
(* however many clients edit at once, join and leave.  The argument: what  *)
(* is on its way to a member ends, kind by kind, with the last event that  *)
(* was relayed, and the member's own edits come back to it.                *)
(***************************************************************************)
THEOREM AgreementHolds == Spec => []Agreement
<1>1. IInv => Agreement
  BY DEF IInv
<1> QED
  BY <1>1, Invariant, PTL

(***************************************************************************)
(* The rows are what the members see when the last relayed code was saved  *)
(* by an update that ran alone, whoever else saves the shard otherwise: no *)
(* write is left that could overtake it, and the next one ends the claim.  *)
(***************************************************************************)
THEOREM RowAgreesHolds == Spec => []RowAgrees
<1>1. IInv => RowAgrees
  BY DEF IInv, AloneInv, Agreement, RowAgrees
<1> QED
  BY <1>1, Invariant, PTL
=============================================================================

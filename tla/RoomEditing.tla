----------------------------- MODULE RoomEditing -----------------------------
(***************************************************************************)
(* What the people in one room see: code changes, visible files and chat   *)
(* lines that the server relays to the room (controllers/ws/room.ts,       *)
(* services/socket.ts), and the rows of the edited file in the database    *)
(* that "event:propagate-room-state" and saveShard write and that          *)
(* fetchLatestRoomFilesState reads.  The file is one of the template: it   *)
(* has no row once the room is deleted, and several after a saveShard that *)
(* did not find the first (ShardFiles).                                    *)
(*                                                                         *)
(* A connection keeps the order of its events in both directions.  The     *)
(* server relays an event in the step that takes it up; a write takes as   *)
(* long as the database needs, and nothing orders two of them, even of one *)
(* connection.  The editor in the browser is not in the repository: it is  *)
(* assumed to show its user's edits at once and to apply what the server   *)
(* sends as it comes.                                                      *)
(***************************************************************************)
EXTENDS Naturals, Sequences

CONSTANTS
    Clients,    \* connections
    Writers,    \* database connections for updateFiles and insertFiles
    Codes,      \* contents of the file
    Lines,      \* lists of visible files and chat lines
    Template,   \* the code that createNewRoom inserted
    NoData,     \* nothing shown, no write under way
    NoWriter,
    MaxSends    \* bound on the events, saves and deletions that clients send and the
                \* "left" notices

Data == Codes \cup Lines

ASSUME NoDataAssumption == NoData \notin Data
ASSUME TemplateAssumption == Template \in Codes
ASSUME NoWriterAssumption == NoWriter \notin Writers
ASSUME MaxSendsAssumption == MaxSends \in Nat

Kinds == {"code", "visible", "chat"}
Contents(k) == IF k = "code" THEN Codes ELSE Lines
Relayed == [kind : Kinds, data : Data]
Events == [kind : Kinds \cup {"save"}, data : Data]

VARIABLES
    joined,     \* connections subscribed to the room
    leaving,    \* connections whose "disconnect" handler has not finished
    outbox,     \* outbox[c]: events on their way from c to the server
    inbox,      \* inbox[c]: events on their way from the server to c
    view,       \* view[c][k]: what c shows
    heard,      \* heard[c]: kinds that c has received in this room
    latest,     \* latest[k]: history: what was relayed last
    rows,       \* the codes of the file's rows in the database
    write,      \* write[w]: the code that w is about to commit
    inserting,  \* writers that insert a row (the others update those there are)
    trusted,    \* history: the writer that runs alone and carries latest["code"]
    settled,    \* history: it has committed, and nothing was relayed or written since
    sends

clients == <<outbox, inbox, view, heard>>
database == <<rows, write, inserting, trusted, settled>>
vars == <<joined, leaving, clients, latest, database, sends>>

TypeOK ==
    /\ joined \subseteq Clients /\ leaving \subseteq Clients
    /\ outbox \in [Clients -> Seq(Events)]
    /\ inbox \in [Clients -> Seq(Relayed)]
    /\ view \in [Clients -> [Kinds -> Data \cup {NoData}]]
    /\ heard \in [Clients -> SUBSET Kinds]
    /\ latest \in [Kinds -> Data \cup {NoData}]
    /\ rows \subseteq Data
    /\ write \in [Writers -> Data \cup {NoData}]
    /\ inserting \subseteq Writers
    /\ trusted \in Writers \cup {NoWriter}
    /\ settled \in BOOLEAN
    /\ sends \in 0..MaxSends

Init ==
    /\ joined = {} /\ leaving = {}
    /\ outbox = [c \in Clients |-> <<>>]
    /\ inbox = [c \in Clients |-> <<>>]
    /\ view = [c \in Clients |-> [k \in Kinds |-> NoData]]
    /\ heard = [c \in Clients |-> {}]
    /\ latest = [k \in Kinds |-> NoData]
    /\ rows = {Template}
    /\ write = [w \in Writers |-> NoData]
    /\ inserting = {}
    /\ trusted = NoWriter
    /\ settled = FALSE
    /\ sends = 0

(***************************************************************************)
(* The browser.                                                            *)
(***************************************************************************)
Emit(c, k, d) ==
    /\ sends < MaxSends
    /\ sends' = sends + 1
    /\ outbox' = [outbox EXCEPT ![c] = Append(@, [kind |-> k, data |-> d])]

\* An edit or a switch of files shows at once, a chat line when it comes back.
Send(c, k, d) ==
    /\ Emit(c, k, d)
    /\ view' = IF k = "chat" THEN view ELSE [view EXCEPT ![c][k] = d]
    /\ UNCHANGED <<joined, leaving, inbox, heard, latest, database>>

\* Mutant of Save: the screen is saved before anything is on it.
SaveAnything(c) ==
    /\ Emit(c, "save", view[c]["code"])
    /\ UNCHANGED <<joined, leaving, inbox, view, heard, latest, database>>

\* After a pause of typing, or when the editor loses the focus, with the code
\* as it then is.
Save(c) ==
    /\ view[c]["code"] # NoData
    /\ Emit(c, "save", view[c]["code"])
    /\ UNCHANGED <<joined, leaving, inbox, view, heard, latest, database>>

Receive(c) ==
    /\ inbox[c] # <<>>
    /\ LET m == Head(inbox[c]) IN
          /\ view' = [view EXCEPT ![c][m.kind] = m.data]
          /\ heard' = [heard EXCEPT ![c] = @ \cup {m.kind}]
    /\ inbox' = [inbox EXCEPT ![c] = Tail(@)]
    /\ UNCHANGED <<joined, leaving, outbox, latest, database, sends>>

\* fetchLatestRoomFilesState: the code of a row, whatever was relayed since;
\* "Could not find resource by room ID" when there is none.
Load(c) ==
    /\ \E code \in rows : view' = [view EXCEPT ![c]["code"] = code]
    /\ heard' = [heard EXCEPT ![c] = @ \ {"code"}]
    /\ UNCHANGED <<joined, leaving, outbox, inbox, latest, database, sends>>

(***************************************************************************)
(* The server: joining and leaving (the index is in RoomPresence).         *)
(***************************************************************************)
Join(c) ==
    /\ c \notin joined
    /\ joined' = joined \cup {c}
    /\ heard' = [heard EXCEPT ![c] = {}]
    /\ inbox' = [inbox EXCEPT ![c] = <<>>]
    /\ UNCHANGED <<leaving, outbox, view, latest, database, sends>>

\* The connection is lost with all that is on its way; the handler of
\* "disconnect" begins.
Disconnect(c) ==
    /\ c \in joined
    /\ joined' = joined \ {c}
    /\ leaving' = leaving \cup {c}
    /\ outbox' = [outbox EXCEPT ![c] = <<>>]
    /\ inbox' = [inbox EXCEPT ![c] = <<>>]
    /\ heard' = [heard EXCEPT ![c] = {}]
    /\ UNCHANGED <<view, latest, database, sends>>

\* Mutant of Deliver: socket.to(roomId), which leaves out the sender.
DeliverToOthers(c, m) ==
    /\ inbox' = [d \in Clients |->
                    IF d \in joined \ {c} THEN Append(inbox[d], m) ELSE inbox[d]]
    /\ latest' = [latest EXCEPT ![m.kind] = m.data]

\* io.to(roomId).emit: to all who are in the room, the sender c included if it
\* is one of them; it need not be.
Deliver(c, m) ==
    /\ inbox' = [d \in Clients |->
                    IF d \in joined THEN Append(inbox[d], m) ELSE inbox[d]]
    /\ latest' = [latest EXCEPT ![m.kind] = m.data]

\* "<name> left the room" (any line will do).
AnnounceLeft(c, d) ==
    /\ c \in leaving
    /\ sends < MaxSends
    /\ leaving' = leaving \ {c}
    /\ Deliver(c, [kind |-> "chat", data |-> d])
    /\ sends' = sends + 1
    /\ UNCHANGED <<joined, outbox, view, heard, database>>

\* "Room Id not found", or an error on the way.
LeaveQuietly(c) ==
    /\ c \in leaving
    /\ leaving' = leaving \ {c}
    /\ UNCHANGED <<joined, clients, latest, database, sends>>

(***************************************************************************)
(* The server: events.                                                     *)
(***************************************************************************)
Take(c) ==
    /\ outbox[c] # <<>>
    /\ outbox' = [outbox EXCEPT ![c] = Tail(@)]

\* propagateRealtimeCodeUpdates, propagateVisibleFiles, chatMessageHandler.
Relay(c) ==
    /\ Take(c)
    /\ LET m == Head(outbox[c]) IN
          /\ m.kind \in Kinds
          /\ Deliver(c, m)
          /\ IF m.kind = "code" THEN trusted' = NoWriter /\ settled' = FALSE
             ELSE UNCHANGED <<trusted, settled>>
    /\ UNCHANGED <<joined, leaving, view, heard, rows, write, inserting, sends>>

Idle == {w \in Writers : write[w] = NoData}

\* updateFiles: the transaction begins.
Update(w, code) ==
    /\ w \in Idle
    /\ write' = [write EXCEPT ![w] = code]
    /\ trusted' = IF Idle = Writers /\ code = latest["code"] THEN w ELSE NoWriter
    /\ settled' = FALSE

\* propagateRoomStateHandler.
BeginWrite(c, w) ==
    /\ Take(c)
    /\ Head(outbox[c]).kind = "save"
    /\ Update(w, Head(outbox[c]).data)
    /\ UNCHANGED <<joined, leaving, inbox, view, heard, latest, rows, inserting, sends>>

(***************************************************************************)
(* saveShard, which serves rooms too: whoever saves, with whatever code.   *)
(***************************************************************************)
SaveShard ==
    /\ sends < MaxSends
    /\ sends' = sends + 1
    /\ rows # {}
    /\ UNCHANGED <<joined, leaving, clients, latest, rows>>

\* existingFiles.find found another code.
SaveOver(w, code) ==
    /\ SaveShard
    /\ \E found \in rows : found # code
    /\ Update(w, code)
    /\ UNCHANGED inserting

\* getFiles failed and returned [], or had run before the room had its files.
SaveAgain(w, code) ==
    /\ SaveShard
    /\ w \in Idle
    /\ write' = [write EXCEPT ![w] = code]
    /\ inserting' = inserting \cup {w}
    /\ trusted' = NoWriter
    /\ settled' = FALSE

\* The write of w ends.
EndWrite(w) ==
    /\ write[w] # NoData
    /\ write' = [write EXCEPT ![w] = NoData]
    /\ inserting' = inserting \ {w}
    /\ trusted' = IF w = trusted THEN NoWriter ELSE trusted
    /\ UNCHANGED <<joined, leaving, clients, latest, sends>>

\* Mutant of CommitWrite: updateFiles inserts, as insertFiles does.
CommitBeside(w) ==
    /\ EndWrite(w) /\ w \notin inserting
    /\ rows' = IF rows = {} THEN {} ELSE rows \cup {write[w]}
    /\ settled' = (settled \/ w = trusted)

\* updateFiles changes every row there is, and answers OK if there is none, too.
CommitWrite(w) ==
    /\ EndWrite(w) /\ w \notin inserting
    /\ rows' = IF rows = {} THEN {} ELSE {write[w]}
    /\ settled' = (settled \/ w = trusted)

\* insertFiles: another row, if the room still exists.
CommitInsert(w) ==
    /\ EndWrite(w) /\ w \in inserting
    /\ rows # {}
    /\ rows' = rows \cup {write[w]}
    /\ UNCHANGED settled

\* "error updating files": of those who edit, nobody is told.
FailWrite(w) ==
    /\ EndWrite(w)
    /\ UNCHANGED <<rows, settled>>

\* deleteShardById: the files go with the room; its connections stay.
Delete ==
    /\ sends < MaxSends
    /\ sends' = sends + 1
    /\ rows # {}
    /\ rows' = {}
    /\ UNCHANGED <<joined, leaving, clients, latest, write, inserting, trusted, settled>>

(***************************************************************************)
(* Next-state relation.                                                    *)
(***************************************************************************)
Browser(c) ==
    \/ \E k \in Kinds : \E d \in Contents(k) : Send(c, k, d)
    \/ Save(c) \/ Receive(c) \/ Load(c)

Membership(c) ==
    \/ Join(c) \/ Disconnect(c) \/ LeaveQuietly(c)
    \/ \E d \in Lines : AnnounceLeft(c, d)

Serve(c) == Relay(c) \/ \E w \in Writers : BeginWrite(c, w)

Put(w) == \E code \in Codes : SaveOver(w, code) \/ SaveAgain(w, code)

Settle(w) == CommitWrite(w) \/ CommitInsert(w) \/ FailWrite(w)

Next ==
    \/ \E c \in Clients : Browser(c) \/ Membership(c) \/ Serve(c)
    \/ \E w \in Writers : Put(w) \/ Settle(w)
    \/ Delete

Spec == Init /\ [][Next]_vars

\* Connections deliver, the event loop takes up what arrives, and the database
\* answers.
Delivery ==
    /\ \A c \in Clients : WF_vars(Receive(c)) /\ WF_vars(Serve(c))
    /\ \A w \in Writers : WF_vars(Settle(w))

FairSpec == Spec /\ Delivery

(***************************************************************************)
(* A member of the room to whom nothing of a kind is on its way, in either *)
(* direction, shows what the server relayed last, once it has received     *)
(* anything of that kind: concurrent edits end the same on every screen,   *)
(* for the sender gets its own edits back in the order of all.             *)
(***************************************************************************)
NoneOf(queue, k) == \A i \in DOMAIN queue : queue[i].kind # k

Agreement ==
    \A c \in joined : \A k \in heard[c] :
        NoneOf(inbox[c], k) /\ NoneOf(outbox[c], k) => view[c][k] = latest[k]

(***************************************************************************)
(* Every row of the file holds what the members see if the code that was   *)
(* relayed last has been saved since, over the socket or by saveShard, by  *)
(* an update that ran alone and committed, and nobody has begun to save    *)
(* after it.  Otherwise rows may differ from the screens: after a save of  *)
(* an older screen or of other code, two saves at a time, a failed save,   *)
(* one that inserts a row, or an edit without a save.                      *)
(***************************************************************************)
RowAgrees ==
    settled =>
        \A c \in joined :
            "code" \in heard[c] /\ NoneOf(inbox[c], "code") /\ NoneOf(outbox[c], "code")
                => rows \subseteq {view[c]["code"]}

(***************************************************************************)
(* Edits come to an end (MaxSends): a client that stays in the room shows  *)
(* in the end, and from then on, the last of every kind that it has heard. *)
(***************************************************************************)
Settles ==
    \A c \in Clients :
        <>[](c \in joined) => <>[](\A k \in heard[c] : view[c][k] = latest[k])
=============================================================================

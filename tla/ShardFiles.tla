------------------------------ MODULE ShardFiles ------------------------------
(***************************************************************************)
(* The files of one shard in the database and the requests that write them:*)
(* saveShard (getFiles, then a transaction of UPDATEs for the files that   *)
(* differ, then one INSERT for the files it did not find), the socket event*)
(* "event:propagate-room-state" (a transaction of one UPDATE) and the      *)
(* deletion of the shard.  Nothing makes the name of a file unique, in the *)
(* table or in the body of a request.                                      *)
(*                                                                         *)
(* A step is the effect of one database command and the code up to the next*)
(* one.  The database is Postgres at its default level: an UPDATE waits for*)
(* the rows that another open transaction has written, a transaction that  *)
(* is in a cycle of waits is aborted, and what a transaction wrote is seen *)
(* by others when it has committed.                                        *)
(***************************************************************************)
EXTENDS Naturals, Sequences, FiniteSets

CONSTANTS
    Names,      \* file names
    Codes,      \* contents
    Handlers,   \* requests and events in progress
    Template,   \* what createNewRoom inserts; a shard has no files at first
    NoCode,     \* existingFiles.find finds no file of the name
    NoEntry,    \* no UPDATE under way
    Sent,       \* the bodies that clients send to saveShard
    MaxRows     \* bound on the rows of one name

ASSUME NoCodeAssumption == NoCode \notin Codes
ASSUME NoEntryAssumption == NoEntry \notin Names \X Nat

\* A body gives each name the contents of its files of that name, in their order;
\* saves that name their files in another order are covered by Transaction.
Bodies == [Names -> Seq(Codes)]
NamesIn(b) == {n \in Names : b[n] # <<>>}
Entries(b) == UNION {{n} \X DOMAIN b[n] : n \in Names}
Repeated(b) == {n \in Names : Len(b[n]) > 1}

ASSUME BodyAssumption == Sent \subseteq Bodies
ASSUME TemplateAssumption == Template \in Bodies /\ Repeated(Template) = {}
ASSUME FiniteAssumption == \A b \in Sent : IsFiniteSet(Entries(b))
ASSUME MaxRowsAssumption == MaxRows \in Nat \ {0}

VARIABLES
    exists,     \* the shard is in the table of shards
    files,      \* files[n]: the contents of the rows named n, oldest first
    pc,         \* pc[h]: "idle", "update" or "insert" (the phase of saveShard),
                \* "done" (about to answer OK) or "propagate"
    body,       \* body[h]: the files of the request
    todo,       \* todo[h]: the entries of filesToUpdate not yet updated
    at,         \* at[h]: the entry whose UPDATE is under way
    written,    \* written[h][n]: what h's open transaction has made of the first
                \* rows of n
    fresh,      \* fresh[h]: the names in filesToInsert
    stale,      \* history: handlers whose getFiles failed or is out of date
    doubled     \* history: a stale handler, or one whose body repeats a name, has
                \* inserted files

requests == <<pc, body, todo, at, written, fresh>>
vars == <<exists, files, requests, stale, doubled>>

TypeOK ==
    /\ exists \in BOOLEAN
    /\ files \in Bodies
    /\ pc \in [Handlers -> {"idle", "update", "insert", "done", "propagate"}]
    /\ body \in [Handlers -> Bodies]
    /\ todo \in [Handlers -> SUBSET (Names \X Nat)]
    /\ at \in [Handlers -> (Names \X Nat) \cup {NoEntry}]
    /\ written \in [Handlers -> Bodies]
    /\ fresh \in [Handlers -> SUBSET Names]
    /\ stale \subseteq Handlers
    /\ doubled \in BOOLEAN

NoRows == [n \in Names |-> <<>>]

Init ==
    /\ exists = TRUE
    /\ files \in {NoRows, Template}
    /\ pc = [h \in Handlers |-> "idle"]
    /\ body = [h \in Handlers |-> NoRows]
    /\ todo = [h \in Handlers |-> {}]
    /\ at = [h \in Handlers |-> NoEntry]
    /\ written = [h \in Handlers |-> NoRows]
    /\ fresh = [h \in Handlers |-> {}]
    /\ stale = {}
    /\ doubled = FALSE

\* The request is answered, or the event handled: nothing of it is left.
End(h) ==
    /\ pc' = [pc EXCEPT ![h] = "idle"]
    /\ body' = [body EXCEPT ![h] = NoRows]
    /\ todo' = [todo EXCEPT ![h] = {}]
    /\ at' = [at EXCEPT ![h] = NoEntry]
    /\ written' = [written EXCEPT ![h] = NoRows]
    /\ fresh' = [fresh EXCEPT ![h] = {}]

\* Whoever else is at work has read what is no longer so.
Outdate(h) == stale' = stale \cup {g \in Handlers : g # h /\ pc[g] # "idle"}

\* The next UPDATE of a transaction: entries of one name in their order, names in
\* whatever order the client has sent them.
Transaction(h, entries) ==
    /\ todo' = [todo EXCEPT ![h] = entries]
    /\ \E e \in entries :
          /\ \A f \in entries : f[1] = e[1] => e[2] <= f[2]
          /\ at' = [at EXCEPT ![h] = e]

(***************************************************************************)
(* saveShard: getFiles and the comparison with the body.                   *)
(***************************************************************************)
\* What existingFiles.find finds for each name: of several rows, one.
Views == [Names -> Codes \cup {NoCode}]

Found(view, ok) ==
    \A n \in Names :
        IF ok /\ files[n] # <<>> THEN \E i \in DOMAIN files[n] : view[n] = files[n][i]
        ELSE view[n] = NoCode

\* filesToUpdate: an entry is compared with what was found, not with other entries.
Changed(b, view) == {e \in Entries(b) : view[e[1]] \notin {NoCode, b[e[1]][e[2]]}}

\* Mutants of New: what differs is inserted again; a shard that has files gets
\* no new ones.
NewOrChanged(b, view) == {n \in NamesIn(b) : b[n] # <<view[n]>>}
NewAtFirst(b, view) == IF \A n \in Names : view[n] = NoCode THEN NamesIn(b) ELSE {}

\* filesToInsert, or every file when none was found.
New(b, view) == {n \in NamesIn(b) : view[n] = NoCode}

\* No file is found (or getFiles failed, which returns []): insert the body.
\* Else update what differs, then insert what was not found.
Save(h, b, ok) ==
    /\ pc[h] = "idle"
    /\ stale' = IF ok THEN stale \ {h} ELSE stale \cup {h}
    /\ \E view \in Views :
          /\ Found(view, ok)
          /\ body' = [body EXCEPT ![h] = b]
          /\ fresh' = [fresh EXCEPT ![h] = New(b, view)]
          /\ IF Changed(b, view) # {}
             THEN /\ pc' = [pc EXCEPT ![h] = "update"]
                  /\ Transaction(h, Changed(b, view))
             ELSE /\ pc' = [pc EXCEPT ![h] =
                        IF fresh'[h] # {} \/ \A n \in Names : view[n] = NoCode
                        THEN "insert" ELSE "done"]
                  /\ UNCHANGED <<todo, at>>
    /\ UNCHANGED <<exists, files, written, doubled>>

(***************************************************************************)
(* updateFiles.                                                            *)
(***************************************************************************)
InTransaction(h) == pc[h] \in {"update", "propagate"}

\* h waits for rows that the open transaction of g has written.
WaitsFor(h, g) ==
    g # h /\ InTransaction(h) /\ at[h] # NoEntry /\ written[g][at[h][1]] # <<>>

Blocked(h) == \E g \in Handlers : WaitsFor(h, g)

\* One UPDATE: every committed row of that name, possibly none.
UpdateRows(h) ==
    /\ InTransaction(h) /\ at[h] # NoEntry /\ ~Blocked(h)
    /\ LET n == at[h][1]
           c == body[h][n][at[h][2]]
       IN  written' = [written EXCEPT ![h][n] = [i \in 1..Len(files[n]) |-> c]]
    /\ LET rest == todo[h] \ {at[h]} IN
       IF rest = {} THEN /\ todo' = [todo EXCEPT ![h] = {}]
                         /\ at' = [at EXCEPT ![h] = NoEntry]
       ELSE Transaction(h, rest)
    /\ UNCHANGED <<exists, files, pc, body, fresh, stale, doubled>>

\* Mutant of Rollback: the transaction is left open.
LeaveOpen(h) ==
    /\ InTransaction(h)
    /\ pc' = [pc EXCEPT ![h] = "idle"]
    /\ UNCHANGED <<exists, files, body, todo, at, written, fresh, stale, doubled>>

\* A statement or the COMMIT fails: the transaction is rolled back, and saveShard
\* answers "could not update files".
Rollback(h) ==
    /\ InTransaction(h)
    /\ End(h)
    /\ UNCHANGED <<exists, files, stale, doubled>>

\* Whomever one of S waits for is in S.
Closed(S) == \A g \in S, f \in Handlers : WaitsFor(g, f) => f \in S

\* h waits for somebody who waits for h, directly or not.
InCycle(h) ==
    \E f \in Handlers :
        /\ WaitsFor(h, f)
        /\ \A S \in SUBSET Handlers : f \in S /\ Closed(S) => h \in S

\* The database aborts a transaction that is in a cycle of waits.
AbortDeadlocked(h) == InCycle(h) /\ Rollback(h)

\* The rows of n when the transaction of h has committed.
Updated(h, n) ==
    [i \in 1..Len(files[n]) |->
        IF i <= Len(written[h][n]) THEN written[h][n][i] ELSE files[n][i]]

\* Mutant of Commit: every file is updated, to nothing if the body does not have it.
CommitAll(h) ==
    /\ InTransaction(h) /\ at[h] = NoEntry
    /\ files' = [n \in Names |-> [i \in 1..Len(files[n]) |->
                    IF n \in NamesIn(body[h]) THEN body[h][n][1] ELSE NoCode]]
    /\ Outdate(h)
    /\ End(h)
    /\ UNCHANGED <<exists, doubled>>

Commit(h) ==
    /\ InTransaction(h) /\ at[h] = NoEntry
    /\ files' = [n \in Names |-> Updated(h, n)]
    /\ Outdate(h)
    /\ IF pc[h] = "propagate" THEN End(h)
       ELSE /\ pc' = [pc EXCEPT ![h] = IF fresh[h] # {} THEN "insert" ELSE "done"]
            /\ written' = [written EXCEPT ![h] = NoRows]
            /\ UNCHANGED <<body, todo, at, fresh>>
    /\ UNCHANGED <<exists, doubled>>

(***************************************************************************)
(* insertFiles: one INSERT.                                                *)
(***************************************************************************)
Insert(h) ==
    /\ pc[h] = "insert" /\ exists /\ fresh[h] # {}
    /\ \A n \in fresh[h] : Len(files[n]) + Len(body[h][n]) <= MaxRows
    /\ files' = [n \in Names |-> IF n \in fresh[h] THEN files[n] \o body[h][n]
                                 ELSE files[n]]
    /\ doubled' = (doubled \/ h \in stale \/ fresh[h] \cap Repeated(body[h]) # {})
    /\ Outdate(h)
    /\ pc' = [pc EXCEPT ![h] = "done"]
    /\ UNCHANGED <<exists, body, todo, at, written, fresh>>

\* The database fails, the shard is gone, or there is nothing to insert (an
\* INSERT without rows is an error): "could not insert files", though the
\* updates of the request stay.
InsertFails(h) ==
    /\ pc[h] = "insert"
    /\ End(h)
    /\ UNCHANGED <<exists, files, stale, doubled>>

Answer(h) ==
    /\ pc[h] = "done"
    /\ End(h)
    /\ UNCHANGED <<exists, files, stale, doubled>>

(***************************************************************************)
(* "event:propagate-room-state" and the deletion of the shard.             *)
(***************************************************************************)
Propagate(h, n, c) ==
    /\ pc[h] = "idle"
    /\ pc' = [pc EXCEPT ![h] = "propagate"]
    /\ body' = [body EXCEPT ![h] = [NoRows EXCEPT ![n] = <<c>>]]
    /\ Transaction(h, {<<n, 1>>})
    /\ UNCHANGED <<exists, files, written, fresh, stale, doubled>>

\* deleteShardById: DELETE waits for written rows and takes the files with it.
Delete ==
    /\ exists /\ \A h \in Handlers : written[h] = NoRows
    /\ exists' = FALSE
    /\ files' = NoRows
    /\ stale' = {h \in Handlers : pc[h] # "idle"} \cup stale
    /\ UNCHANGED <<requests, doubled>>

(***************************************************************************)
(* Next-state relation.                                                    *)
(***************************************************************************)
Request(h) ==
    \/ \E b \in Sent, ok \in BOOLEAN : Save(h, b, ok)
    \/ \E n \in Names, c \in Codes : Propagate(h, n, c)

Proceed(h) == Commit(h) \/ Insert(h) \/ InsertFails(h) \/ Answer(h)

Next ==
    \/ \E h \in Handlers : Request(h) \/ UpdateRows(h) \/ Rollback(h) \/ Proceed(h)
    \/ Delete

Spec == Init /\ [][Next]_vars

\* The database answers, grants row locks in turn and detects deadlocks.
DatabaseFairness ==
    \A h \in Handlers :
        WF_vars(Proceed(h)) /\ WF_vars(AbortDeadlocked(h)) /\ SF_vars(UpdateRows(h))

FairSpec == Spec /\ DatabaseFairness

(***************************************************************************)
(* A name has one row, as long as no request has inserted files whose body *)
(* names one of them twice, or on the strength of a getFiles that failed   *)
(* or that another request's commit, insert or deletion has overtaken.     *)
(***************************************************************************)
UniqueNames == ~doubled => \A n \in Names : Len(files[n]) <= 1

(***************************************************************************)
(* When saveShard answers OK and nobody else has written since it read the *)
(* files, the shard has every file of the body with the content that the   *)
(* body gives it, whichever of them were new, changed or the same.  (If it *)
(* names a file of the shard twice, with one of the contents, and not      *)
(* always the last.)                                                       *)
(***************************************************************************)
SavedIsStored ==
    \A h \in Handlers :
        pc[h] = "done" /\ h \notin stale /\ ~doubled
            => \A n \in NamesIn(body[h]) :
                  \E i \in DOMAIN body[h][n] : files[n] = <<body[h][n][i]>>

(***************************************************************************)
(* An update that waits for rows of another save waits, directly or not,   *)
(* for a transaction that can go on, or for ones that only wait for each   *)
(* other, which the database breaks: no failure or deletion leaves rows    *)
(* locked by a request that has been answered.                             *)
(***************************************************************************)
Deadlocked(S) == \A g \in S : \E f \in S : WaitsFor(g, f)

NobodyStuck ==
    \A h \in Handlers, S \in SUBSET Handlers :
        Blocked(h) /\ h \in S /\ Closed(S)
            => \/ \E g \in S : InTransaction(g) /\ ~Blocked(g)
               \/ \E T \in SUBSET S : h \in T /\ Deadlocked(T)

(***************************************************************************)
(* Every request is answered in the end, though saves that name their files*)
(* in different orders wait for each other.                                *)
(***************************************************************************)
RequestsEnd == \A h \in Handlers : pc[h] # "idle" ~> pc[h] = "idle"
=============================================================================

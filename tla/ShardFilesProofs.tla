-------------------------- MODULE ShardFilesProofs ---------------------------
(***************************************************************************)
(* Proofs about ShardFiles for any files, contents and number of requests. *)
(***************************************************************************)
EXTENDS ShardFiles, SequenceTheorems, FiniteSetTheorems, TLAPS

USE NoCodeAssumption, NoEntryAssumption

(***************************************************************************)
(* Type correctness.  That contents stay contents needs to be known of the *)
(* requests: what they update or insert is in their body.                  *)
(***************************************************************************)
Orderly(h) ==
    /\ todo[h] \subseteq Entries(body[h]) /\ fresh[h] \subseteq NamesIn(body[h])
    /\ IF at[h] = NoEntry THEN todo[h] = {} ELSE at[h] \in todo[h]
    /\ ~InTransaction(h) => written[h] = NoRows /\ todo[h] = {}
    /\ pc[h] = "idle" => fresh[h] = {}

TypeInv == TypeOK /\ \A h \in Handlers : Orderly(h)

LEMMA NoRowsType ==
  /\ NoRows \in Bodies /\ NamesIn(NoRows) = {} /\ Entries(NoRows) = {}
  /\ \A n \in Names : NoRows[n] = <<>>
<1>1. \A n \in Names : NoRows[n] = <<>>
  BY DEF NoRows
<1>2. NoRows \in Bodies
  BY DEF NoRows, Bodies
<1>3. \A n \in Names : DOMAIN NoRows[n] = {}
  BY <1>1
<1>. QED  BY <1>1, <1>2, <1>3 DEF NamesIn, Entries

LEMMA EntryType ==
  ASSUME NEW b \in Bodies, NEW e \in Entries(b)
  PROVE  /\ e \in Names \X Nat /\ e[1] \in NamesIn(b) /\ e[1] \in Names
         /\ e[2] \in DOMAIN b[e[1]] /\ b[e[1]][e[2]] \in Codes
<1>1. PICK n \in Names : e \in {n} \X DOMAIN b[n]
  BY DEF Entries
<1>2. b[n] \in Seq(Codes)
  BY DEF Bodies
<1>3. e[1] = n /\ e[2] \in DOMAIN b[n] /\ e[2] \in Nat /\ e = <<e[1], e[2]>>
  BY <1>1, <1>2
<1>4. b[n] # <<>> /\ b[n][e[2]] \in Codes
  BY <1>2, <1>3
<1>. QED  BY <1>3, <1>4 DEF NamesIn

LEMMA TypeInit == Init => TypeInv
<1> SUFFICES ASSUME Init PROVE TypeInv
  OBVIOUS
<1>1. files \in Bodies
  BY NoRowsType, TemplateAssumption DEF Init
<1>2. TypeOK
  BY <1>1, NoRowsType DEF Init, TypeOK
<1>3. ASSUME NEW h \in Handlers PROVE Orderly(h)
  BY DEF Init, Orderly, InTransaction
<1>. QED  BY <1>2, <1>3 DEF TypeInv

LEMMA UpdatedType ==
  ASSUME TypeInv, NEW h \in Handlers, NEW n \in Names
  PROVE  /\ Updated(h, n) \in Seq(Codes) /\ Len(Updated(h, n)) = Len(files[n])
         /\ \A i \in 1..Len(files[n]) :
               Updated(h, n)[i] = IF i <= Len(written[h][n]) THEN written[h][n][i]
                                  ELSE files[n][i]
<1>1. /\ files[n] \in Seq(Codes) /\ Len(files[n]) \in Nat
      /\ written[h][n] \in Seq(Codes) /\ Len(written[h][n]) \in Nat
  BY DEF TypeInv, TypeOK, Bodies
<1>2. ASSUME NEW i \in 1..Len(files[n])
      PROVE  (IF i <= Len(written[h][n]) THEN written[h][n][i] ELSE files[n][i]) \in Codes
  BY <1>1
<1>3. Updated(h, n) \in [1..Len(files[n]) -> Codes]
  BY <1>2 DEF Updated
<1>4. Updated(h, n) \in Seq(Codes)
  BY <1>1, <1>3, SeqDef
<1>. QED  BY <1>1, <1>3, <1>4 DEF Updated

LEMMA EndType ==
  ASSUME TypeInv, NEW h \in Handlers, End(h), files' \in Bodies,
         exists' \in BOOLEAN, doubled' \in BOOLEAN, stale' \subseteq Handlers
  PROVE  TypeInv'
<1>1. TypeOK'
  BY NoRowsType DEF TypeInv, TypeOK, End
<1>2. Orderly(h)'
  BY NoRowsType DEF TypeInv, TypeOK, End, Orderly, InTransaction
<1>3. ASSUME NEW g \in Handlers, g # h PROVE Orderly(g)'
  BY <1>3 DEF TypeInv, TypeOK, End, Orderly, InTransaction
<1>. QED  BY <1>1, <1>2, <1>3 DEF TypeInv

LEMMA SaveType ==
  ASSUME TypeInv, NEW h \in Handlers, NEW b \in Sent, NEW ok \in BOOLEAN, Save(h, b, ok)
  PROVE  TypeInv'
<1>1. PICK view \in Views :
        /\ body' = [body EXCEPT ![h] = b]
        /\ fresh' = [fresh EXCEPT ![h] = New(b, view)]
        /\ IF Changed(b, view) # {}
           THEN /\ pc' = [pc EXCEPT ![h] = "update"]
                /\ Transaction(h, Changed(b, view))
           ELSE /\ pc' = [pc EXCEPT ![h] =
                      IF fresh'[h] # {} \/ \A n \in Names : view[n] = NoCode
                      THEN "insert" ELSE "done"]
                /\ UNCHANGED <<todo, at>>
  BY DEF Save
<1>2. b \in Bodies
  BY BodyAssumption
<1>3. /\ Changed(b, view) \subseteq Entries(b) /\ New(b, view) \subseteq NamesIn(b)
      /\ Entries(b) \subseteq Names \X Nat
  BY <1>2, EntryType DEF Changed, New
<1>4. NamesIn(b) \subseteq Names
  BY DEF NamesIn
<1>5. stale' \subseteq Handlers /\ UNCHANGED <<exists, files, written, doubled>>
  BY DEF Save, TypeInv, TypeOK
<1>6. TypeOK'
  <2>1. CASE Changed(b, view) # {}
    <3>1. PICK n \in Changed(b, view) : at' = [at EXCEPT ![h] = n]
      BY <1>1, <2>1 DEF Transaction
    <3>2. todo' = [todo EXCEPT ![h] = Changed(b, view)]
      BY <1>1, <2>1 DEF Transaction
    <3>3. at' \in [Handlers -> (Names \X Nat) \cup {NoEntry}]
      BY <1>3, <3>1 DEF TypeInv, TypeOK
    <3>4. todo' \in [Handlers -> SUBSET (Names \X Nat)]
      BY <1>3, <3>2 DEF TypeInv, TypeOK
    <3>. QED
      BY <1>1, <1>2, <1>3, <1>4, <1>5, <2>1, <3>3, <3>4 DEF TypeInv, TypeOK
  <2>2. CASE Changed(b, view) = {}
    BY <1>1, <1>2, <1>3, <1>4, <1>5, <2>2 DEF TypeInv, TypeOK
  <2>. QED  BY <2>1, <2>2
<1>7. pc[h] = "idle" /\ written[h] = NoRows /\ at[h] = NoEntry /\ todo[h] = {}
  BY DEF Save, TypeInv, Orderly, InTransaction
<1>8. Orderly(h)'
  <2>1. /\ body'[h] = b /\ fresh'[h] = New(b, view) /\ written'[h] = NoRows
        /\ pc'[h] # "idle"
    BY <1>1, <1>5, <1>7 DEF TypeInv, TypeOK
  <2>2. CASE Changed(b, view) # {}
    <3>1. /\ todo'[h] = Changed(b, view)
          /\ at'[h] \in Changed(b, view)
      BY <1>1, <2>2 DEF TypeInv, TypeOK, Transaction
    <3>2. pc'[h] = "update"
      BY <1>1, <2>2 DEF TypeInv, TypeOK
    <3>. QED
      BY <1>3, <1>4, <2>1, <3>1, <3>2, NoEntryAssumption
      DEF Orderly, InTransaction
  <2>3. CASE Changed(b, view) = {}
    BY <1>1, <1>3, <1>4, <1>7, <2>1, <2>3 DEF Orderly, TypeInv, TypeOK, InTransaction
  <2>. QED  BY <2>2, <2>3
<1>9. ASSUME NEW g \in Handlers, g # h PROVE Orderly(g)'
  <2>1. /\ body'[g] = body[g] /\ fresh'[g] = fresh[g] /\ written'[g] = written[g]
        /\ pc'[g] = pc[g] /\ todo'[g] = todo[g] /\ at'[g] = at[g]
    BY <1>1, <1>5, <1>9 DEF TypeInv, TypeOK, Transaction
  <2>. QED  BY <2>1 DEF TypeInv, Orderly, InTransaction
<1>. QED  BY <1>6, <1>8, <1>9 DEF TypeInv

LEMMA UpdateRowsType ==
  ASSUME TypeInv, NEW h \in Handlers, UpdateRows(h)
  PROVE  TypeInv'
<1>1. /\ at[h] \in todo[h] /\ todo[h] \subseteq Entries(body[h]) /\ body[h] \in Bodies
      /\ at[h][1] \in Names /\ body[h][at[h][1]][at[h][2]] \in Codes
      /\ todo[h] \subseteq Names \X Nat
  <2>1. at[h] \in todo[h] /\ todo[h] \subseteq Entries(body[h]) /\ body[h] \in Bodies
    BY DEF UpdateRows, TypeInv, TypeOK, Orderly
  <2>. QED  BY <2>1, EntryType
<1>2. written' = [written EXCEPT ![h][at[h][1]] =
                    [i \in 1..Len(files[at[h][1]]) |-> body[h][at[h][1]][at[h][2]]]]
  BY DEF UpdateRows
<1>3. UNCHANGED <<exists, files, pc, body, fresh, stale, doubled>> /\ InTransaction(h)
  BY DEF UpdateRows
<1>4. \/ todo'[h] = {} /\ at'[h] = NoEntry
      \/ todo'[h] = todo[h] \ {at[h]} /\ at'[h] \in todo'[h]
  BY DEF UpdateRows, Transaction, TypeInv, TypeOK
<1>5. /\ todo' = [todo EXCEPT ![h] = todo'[h]]
      /\ at' = [at EXCEPT ![h] = at'[h]]
  BY DEF UpdateRows, Transaction, TypeInv, TypeOK
<1>6. written' \in [Handlers -> Bodies]
  <2> DEFINE rows == [i \in 1..Len(files[at[h][1]]) |-> body[h][at[h][1]][at[h][2]]]
  <2>1. Len(files[at[h][1]]) \in Nat
    BY <1>1 DEF TypeInv, TypeOK, Bodies
  <2>2. rows \in Seq(Codes)
    BY <1>1, <2>1, SeqDef
  <2> HIDE DEF rows
  <2>3. [written[h] EXCEPT ![at[h][1]] = rows] \in Bodies
    BY <1>1, <2>2 DEF TypeInv, TypeOK, Bodies
  <2>. QED  BY <1>2, <2>3 DEF TypeInv, TypeOK, rows
<1>7. TypeOK'
  <2>1. todo'[h] \subseteq Names \X Nat /\ at'[h] \in (Names \X Nat) \cup {NoEntry}
    BY <1>1, <1>4
  <2>2. /\ todo' \in [Handlers -> SUBSET (Names \X Nat)]
        /\ at' \in [Handlers -> (Names \X Nat) \cup {NoEntry}]
    BY <1>5, <2>1 DEF TypeInv, TypeOK
  <2>. QED  BY <1>3, <1>6, <2>2 DEF TypeInv, TypeOK
<1>8. Orderly(h)'
  <2>1. todo'[h] \subseteq Entries(body'[h]) /\ fresh'[h] \subseteq NamesIn(body'[h])
    BY <1>1, <1>3, <1>4 DEF TypeInv, Orderly
  <2>2. IF at'[h] = NoEntry THEN todo'[h] = {} ELSE at'[h] \in todo'[h]
    BY <1>1, <1>4, NoEntryAssumption
  <2>. QED  BY <1>3, <2>1, <2>2 DEF Orderly, TypeInv, InTransaction
<1>9. ASSUME NEW g \in Handlers, g # h PROVE Orderly(g)'
  <2>1. at'[g] = at[g] /\ todo'[g] = todo[g] /\ written'[g] = written[g]
    BY <1>2, <1>5, <1>9 DEF TypeInv, TypeOK
  <2>. QED  BY <1>3, <2>1 DEF TypeInv, Orderly, InTransaction
<1>. QED  BY <1>7, <1>8, <1>9 DEF TypeInv

LEMMA CommitType ==
  ASSUME TypeInv, NEW h \in Handlers, Commit(h)
  PROVE  TypeInv'
<1>1. files' \in Bodies
  BY UpdatedType DEF Commit, Bodies
<1>2. exists' \in BOOLEAN /\ doubled' \in BOOLEAN /\ stale' \subseteq Handlers
  BY DEF Commit, Outdate, TypeInv, TypeOK
<1>3. CASE pc[h] = "propagate"
  BY <1>1, <1>2, <1>3, EndType DEF Commit
<1>4. CASE pc[h] # "propagate"
  <2>1. /\ pc' = [pc EXCEPT ![h] = IF fresh[h] # {} THEN "insert" ELSE "done"]
        /\ written' = [written EXCEPT ![h] = NoRows]
        /\ UNCHANGED <<body, todo, at, fresh>>
    BY <1>4 DEF Commit
  <2>2. TypeOK'
    BY <1>1, <1>2, <2>1, NoRowsType DEF TypeInv, TypeOK
  <2>3. todo[h] = {} /\ at[h] = NoEntry
    BY DEF Commit, TypeInv, Orderly
  <2>4. Orderly(h)'
    BY <2>1, <2>3, NoRowsType DEF TypeInv, TypeOK, Orderly, InTransaction
  <2>5. ASSUME NEW g \in Handlers, g # h PROVE Orderly(g)'
    BY <2>1, <2>5 DEF TypeInv, TypeOK, Orderly, InTransaction
  <2>. QED  BY <2>2, <2>4, <2>5 DEF TypeInv
<1>. QED  BY <1>3, <1>4

LEMMA InsertType ==
  ASSUME TypeInv, NEW h \in Handlers, Insert(h)
  PROVE  TypeInv'
<1>1. files' \in Bodies
  <2>1. body[h] \in Bodies /\ files \in Bodies
    BY DEF TypeInv, TypeOK
  <2>2. ASSUME NEW n \in Names PROVE files[n] \o body[h][n] \in Seq(Codes)
    BY <2>1 DEF Bodies
  <2>. QED  BY <2>1, <2>2 DEF Insert, Bodies
<1>2. TypeOK'
  BY <1>1 DEF Insert, Outdate, TypeInv, TypeOK
<1>3. pc' = [pc EXCEPT ![h] = "done"] /\ UNCHANGED <<body, todo, at, written, fresh>>
  BY DEF Insert
<1>4. Orderly(h)'
  BY <1>3 DEF Insert, TypeInv, TypeOK, Orderly, InTransaction
<1>5. ASSUME NEW g \in Handlers, g # h PROVE Orderly(g)'
  BY <1>3, <1>5 DEF TypeInv, TypeOK, Orderly, InTransaction
<1>. QED  BY <1>2, <1>4, <1>5 DEF TypeInv

LEMMA PropagateType ==
  ASSUME TypeInv, NEW h \in Handlers, NEW n \in Names, NEW c \in Codes, Propagate(h, n, c)
  PROVE  TypeInv'
<1> DEFINE b == [NoRows EXCEPT ![n] = <<c>>]
<1>1. b \in Bodies /\ <<n, 1>> \in Entries(b)
  <2>1. b \in Bodies
    BY NoRowsType DEF Bodies
  <2>2. b[n] = <<c>> /\ 1 \in DOMAIN <<c>>
    BY NoRowsType DEF Bodies
  <2> HIDE DEF b
  <2>3. <<n, 1>> \in {n} \X DOMAIN b[n]
    BY <2>2
  <2>. QED  BY <2>1, <2>3 DEF Entries
<1>2. /\ pc' = [pc EXCEPT ![h] = "propagate"]
      /\ body' = [body EXCEPT ![h] = b]
      /\ todo' = [todo EXCEPT ![h] = {<<n, 1>>}]
      /\ at' = [at EXCEPT ![h] = <<n, 1>>]
      /\ UNCHANGED <<exists, files, written, fresh, stale, doubled>>
  BY DEF Propagate, Transaction
<1> HIDE DEF b
<1>3. TypeOK'
  BY <1>1, <1>2 DEF TypeInv, TypeOK
<1>4. Orderly(h)'
  <2>1. pc[h] = "idle" /\ written[h] = NoRows /\ fresh[h] = {}
    BY DEF Propagate, TypeInv, Orderly, InTransaction
  <2>2. /\ body'[h] = b /\ todo'[h] = {<<n, 1>>} /\ at'[h] = <<n, 1>>
        /\ pc'[h] = "propagate" /\ written'[h] = NoRows /\ fresh'[h] = {}
    BY <1>2, <2>1 DEF TypeInv, TypeOK
  <2>. QED
    BY <1>1, <2>2, NoEntryAssumption DEF Orderly, InTransaction
<1>5. ASSUME NEW g \in Handlers, g # h PROVE Orderly(g)'
  BY <1>2, <1>5 DEF TypeInv, TypeOK, Orderly, InTransaction
<1>. QED  BY <1>3, <1>4, <1>5 DEF TypeInv

LEMMA DeleteType == TypeInv /\ Delete => TypeInv'
<1> SUFFICES ASSUME TypeInv, Delete PROVE TypeInv'
  OBVIOUS
<1>1. TypeOK'
  <2>1. files' \in Bodies
    BY NoRowsType DEF Delete
  <2>2. exists' \in BOOLEAN /\ stale' \subseteq Handlers
    BY DEF Delete, TypeInv, TypeOK
  <2>3. UNCHANGED <<pc, body, todo, at, written, fresh, doubled>>
    BY DEF Delete, requests
  <2>. QED  BY <2>1, <2>2, <2>3 DEF TypeInv, TypeOK
<1>2. UNCHANGED requests
  BY DEF Delete
<1>3. ASSUME NEW h \in Handlers PROVE Orderly(h)'
  BY <1>2 DEF requests, TypeInv, Orderly, InTransaction
<1>. QED  BY <1>1, <1>3 DEF TypeInv

LEMMA TypeNext == TypeInv /\ [Next]_vars => TypeInv'
<1> SUFFICES ASSUME TypeInv, [Next]_vars PROVE TypeInv'
  OBVIOUS
<1>1. ASSUME NEW h \in Handlers, NEW b \in Sent, NEW ok \in BOOLEAN, Save(h, b, ok)
      PROVE  TypeInv'
  BY <1>1, SaveType
<1>2. ASSUME NEW h \in Handlers, NEW n \in Names, NEW c \in Codes, Propagate(h, n, c)
      PROVE  TypeInv'
  BY <1>2, PropagateType
<1>3. ASSUME NEW h \in Handlers, UpdateRows(h) PROVE TypeInv'
  BY <1>3, UpdateRowsType
<1>4. ASSUME NEW h \in Handlers, Commit(h) PROVE TypeInv'
  BY <1>4, CommitType
<1>5. ASSUME NEW h \in Handlers, Insert(h) PROVE TypeInv'
  BY <1>5, InsertType
<1>6. ASSUME NEW h \in Handlers, Rollback(h) \/ InsertFails(h) \/ Answer(h)
      PROVE  TypeInv'
  <2>1. End(h) /\ UNCHANGED <<exists, files, stale, doubled>>
    BY <1>6 DEF Rollback, InsertFails, Answer
  <2>2. /\ files' \in Bodies /\ exists' \in BOOLEAN
        /\ doubled' \in BOOLEAN /\ stale' \subseteq Handlers
    BY <2>1 DEF TypeInv, TypeOK
  <2>. QED  BY <2>1, <2>2, EndType
<1>7. CASE Delete
  BY <1>7, DeleteType
<1>8. CASE UNCHANGED vars
  BY <1>8 DEF vars, requests, TypeInv, TypeOK, Orderly, InTransaction
<1>. QED
  BY <1>1, <1>2, <1>3, <1>4, <1>5, <1>6, <1>7, <1>8 DEF Next, Request, Proceed

(***************************************************************************)
(* Every reachable state is well typed.                                    *)
(***************************************************************************)
THEOREM TypeCorrect == Spec => []TypeOK
<1>1. TypeInv => TypeOK
  BY DEF TypeInv
<1>. QED  BY TypeInit, TypeNext, <1>1, PTL DEF Spec

(***************************************************************************)
(* What a request that is not stale knows of the files it is to save:      *)
(* those to insert are not there; of the others there is one row, which    *)
(* the request has still to update, has written in its open transaction,   *)
(* or which holds a content of the body already.                           *)
(***************************************************************************)
Given(h, n) == {<<body[h][n][i]>> : i \in DOMAIN body[h][n]}

Saw(h) ==
    \A n \in NamesIn(body[h]) :
        IF n \in fresh[h] /\ pc[h] # "done" THEN files[n] = <<>>
        ELSE /\ Len(files[n]) = 1
             /\ \/ \E i \in DOMAIN body[h][n] : <<n, i>> \in todo[h]
                \/ written[h][n] \in Given(h, n)
                \/ written[h][n] = <<>> /\ files[n] \in Given(h, n)

Saving(h) == pc[h] \in {"update", "insert", "done"}
Single == \A n \in Names : Len(files[n]) <= 1
Informed == Single /\ \A h \in Handlers \ stale : Saving(h) => Saw(h)
SaveInv == ~doubled => Informed

LEMMA OneRow ==
  ASSUME TypeInv, Single, NEW n \in Names
  PROVE  files[n] = <<>> \/ (Len(files[n]) = 1 /\ files[n] = <<files[n][1]>>)
<1>1. files[n] \in Seq(Codes) /\ Len(files[n]) \in Nat /\ Len(files[n]) <= 1
  BY DEF TypeInv, TypeOK, Bodies, Single
<1>2. CASE Len(files[n]) = 0
  BY <1>1, <1>2
<1>3. CASE Len(files[n]) = 1
  BY <1>1, <1>3
<1>4. \A k \in Nat : k <= 1 => k = 0 \/ k = 1
  OBVIOUS
<1>5. Len(files[n]) = 0 \/ Len(files[n]) = 1
  BY <1>1, <1>4
<1>. QED  BY <1>2, <1>3, <1>5, Zenon

LEMMA SaveInit == Init => SaveInv
<1> SUFFICES ASSUME Init PROVE Informed
  BY DEF SaveInv
<1>1. ASSUME NEW n \in Names PROVE Len(files[n]) <= 1
  <2>1. files[n] = <<>> \/ files[n] = Template[n]
    BY NoRowsType DEF Init
  <2>2. Len(<<>>) = 0 /\ Len(Template[n]) \in Nat /\ ~(Len(Template[n]) > 1)
    BY TemplateAssumption DEF Bodies, Repeated
  <2>. QED  BY <2>1, <2>2
<1>. QED  BY <1>1 DEF Informed, Single, Init, Saving

\* Whoever changes the rows makes all other requests in progress stale: only
\* its own knowledge has to be shown anew.
LEMMA Overtaken ==
  ASSUME TypeInv, NEW h \in Handlers, Outdate(h), Single',
         \A g \in Handlers : g # h => pc'[g] = pc[g],
         h \notin stale' => (Saving(h)' => Saw(h)')
  PROVE  Informed'
BY DEF Informed, Outdate, Saving

\* Whoever leaves the rows alone does not disturb the others.
LEMMA Undisturbed ==
  ASSUME Informed, NEW h \in Handlers, UNCHANGED files, stale \ {h} \subseteq stale',
         \A g \in Handlers : g # h =>
            /\ pc'[g] = pc[g] /\ body'[g] = body[g] /\ todo'[g] = todo[g]
            /\ written'[g] = written[g] /\ fresh'[g] = fresh[g],
         h \notin stale' => (Saving(h)' => Saw(h)')
  PROVE  Informed'
<1>1. ASSUME NEW g \in Handlers \ stale', g # h, Saving(g)' PROVE Saw(g)'
  BY <1>1 DEF Informed, Saving, Saw, Given
<1>. QED  BY <1>1 DEF Informed, Single

LEMMA SaveSaves ==
  ASSUME TypeInv, Informed, NEW h \in Handlers, NEW b \in Sent, NEW ok \in BOOLEAN,
         Save(h, b, ok)
  PROVE  Informed'
<1>1. PICK view \in Views :
        /\ Found(view, ok)
        /\ body' = [body EXCEPT ![h] = b]
        /\ fresh' = [fresh EXCEPT ![h] = New(b, view)]
        /\ IF Changed(b, view) # {}
           THEN /\ pc' = [pc EXCEPT ![h] = "update"]
                /\ Transaction(h, Changed(b, view))
           ELSE /\ pc' = [pc EXCEPT ![h] =
                      IF fresh'[h] # {} \/ \A n \in Names : view[n] = NoCode
                      THEN "insert" ELSE "done"]
                /\ UNCHANGED <<todo, at>>
  BY DEF Save
<1>2. /\ UNCHANGED <<files, written>>
      /\ stale' = IF ok THEN stale \ {h} ELSE stale \cup {h}
  BY DEF Save
<1>h. /\ body'[h] = b /\ fresh'[h] = New(b, view)
      /\ Changed(b, view) # {} => todo'[h] = Changed(b, view) /\ pc'[h] = "update"
      /\ Changed(b, view) = {} /\ New(b, view) # {} => pc'[h] = "insert"
  <2>1. /\ body'[h] = b /\ fresh'[h] = New(b, view)
    BY <1>1 DEF TypeInv, TypeOK
  <2>2. Changed(b, view) # {} => todo'[h] = Changed(b, view) /\ pc'[h] = "update"
    BY <1>1 DEF Transaction, TypeInv, TypeOK
  <2>3. Changed(b, view) = {} /\ New(b, view) # {} => pc'[h] = "insert"
    BY <1>1, <2>1 DEF TypeInv, TypeOK
  <2>. QED  BY <2>1, <2>2, <2>3
<1>3. ASSUME h \notin stale' PROVE Saw(h)'
  <2> SUFFICES ASSUME NEW n \in NamesIn(b)
               PROVE  IF n \in fresh'[h] /\ pc'[h] # "done" THEN files[n] = <<>>
                      ELSE /\ Len(files[n]) = 1
                           /\ \/ \E i \in DOMAIN b[n] : <<n, i>> \in todo'[h]
                              \/ \E i \in DOMAIN b[n] : files[n] = <<b[n][i]>>
    BY <1>2, <1>h, NoRowsType DEF Saw, Given, Save, TypeInv, Orderly, InTransaction, NamesIn
  <2>0. ok = TRUE
    BY <1>2, <1>3
  <2>2. n \in Names /\ b[n] \in Seq(Codes) /\ b[n] # <<>>
    BY BodyAssumption DEF NamesIn, Bodies
  <2>3. CASE files[n] = <<>>
    <3>1. n \in New(b, view)
      BY <1>1, <2>0, <2>2, <2>3 DEF Found, New
    <3>2. pc'[h] # "done"
      BY <1>h, <3>1
    <3>. QED  BY <1>h, <2>3, <3>1, <3>2
  <2>4. CASE files[n] # <<>>
    <3>1. PICK k \in DOMAIN files[n] : view[n] = files[n][k]
      BY <1>1, <2>0, <2>2, <2>4 DEF Found
    <3>2. Len(files[n]) = 1 /\ files[n] = <<files[n][1]>> /\ files[n][1] \in Codes
      BY <2>2, <2>4, OneRow DEF Informed, TypeInv, TypeOK, Bodies
    <3>3. view[n] = files[n][1] /\ view[n] # NoCode
      BY <3>1, <3>2
    <3>4. n \notin fresh'[h]
      BY <1>h, <3>3 DEF New
    <3>5. 1 \in DOMAIN b[n]
      BY <2>2
    <3>6. CASE b[n][1] = view[n]
      BY <3>2, <3>3, <3>4, <3>5, <3>6
    <3>7. CASE b[n][1] # view[n]
      <4>1. <<n, 1>> \in {n} \X DOMAIN b[n]
        BY <3>5
      <4>2. <<n, 1>> \in Entries(b)
        BY <2>2, <4>1 DEF Entries
      <4>3. <<n, 1>> \in Changed(b, view)
        BY <3>3, <3>7, <4>2 DEF Changed
      <4>. QED  BY <1>h, <3>2, <3>4, <3>5, <4>3
    <3>. QED  BY <3>6, <3>7
  <2>. QED  BY <2>3, <2>4
<1>4. ASSUME NEW g \in Handlers, g # h
      PROVE  /\ pc'[g] = pc[g] /\ body'[g] = body[g] /\ todo'[g] = todo[g]
             /\ written'[g] = written[g] /\ fresh'[g] = fresh[g]
  BY <1>1, <1>2, <1>4 DEF Transaction, TypeInv, TypeOK
<1>. QED  BY <1>2, <1>3, <1>4, Undisturbed

LEMMA UpdateRowsSaves ==
  ASSUME TypeInv, Informed, NEW h \in Handlers, UpdateRows(h)
  PROVE  Informed'
<1> DEFINE m == at[h][1]
           c == body[h][m][at[h][2]]
<1>0. /\ at[h] \in Entries(body[h]) /\ at[h] \in todo[h] /\ body[h] \in Bodies
      /\ todo[h] \subseteq Entries(body[h])
  BY DEF UpdateRows, TypeInv, TypeOK, Orderly
<1>1. /\ UNCHANGED <<files, pc, body, fresh, stale>> /\ m \in Names
      /\ at[h][2] \in DOMAIN body[h][m] /\ at[h] = <<m, at[h][2]>>
      /\ written' = [written EXCEPT ![h][m] = [i \in 1..Len(files[m]) |-> c]]
  BY <1>0, EntryType DEF UpdateRows
<1>2. todo'[h] = todo[h] \ {at[h]}
  BY DEF UpdateRows, Transaction, TypeInv, TypeOK
<1>3. h \notin stale' => (Saving(h)' => Saw(h)')
  <2> SUFFICES ASSUME h \notin stale, Saving(h) PROVE Saw(h)'
    BY <1>1 DEF Saving
  <2> SUFFICES ASSUME NEW n \in NamesIn(body[h])
               PROVE  IF n \in fresh[h] /\ pc[h] # "done" THEN files[n] = <<>>
                      ELSE /\ Len(files[n]) = 1
                           /\ \/ \E i \in DOMAIN body[h][n] : <<n, i>> \in todo'[h]
                              \/ written'[h][n] \in Given(h, n)
                              \/ written'[h][n] = <<>> /\ files[n] \in Given(h, n)
    BY <1>1 DEF Saw, Given
  <2>1. IF n \in fresh[h] /\ pc[h] # "done" THEN files[n] = <<>>
        ELSE /\ Len(files[n]) = 1
             /\ \/ \E i \in DOMAIN body[h][n] : <<n, i>> \in todo[h]
                \/ written[h][n] \in Given(h, n)
                \/ written[h][n] = <<>> /\ files[n] \in Given(h, n)
    BY DEF Informed, Saw
  <2>2. n \in Names
    BY DEF NamesIn
  <2>3. CASE n = m
    <3>1. written'[h][n] = [i \in 1..Len(files[n]) |-> c]
      BY <1>1, <2>2, <2>3 DEF TypeInv, TypeOK, Bodies
    <3>2. <<c>> \in Given(h, n)
      BY <1>1, <2>3 DEF Given
    <3>3. ASSUME Len(files[n]) = 1 PROVE written'[h][n] = <<c>>
      BY <3>1, <3>3
    <3>. QED  BY <2>1, <3>2, <3>3
  <2>4. CASE n # m
    <3>1. written'[h][n] = written[h][n]
      BY <1>1, <2>2, <2>4 DEF TypeInv, TypeOK, Bodies
    <3>2. \A i \in DOMAIN body[h][n] : <<n, i>> \in todo[h] => <<n, i>> \in todo'[h]
      BY <1>1, <1>2, <2>4
    <3>. QED  BY <2>1, <3>1, <3>2
  <2>. QED  BY <2>3, <2>4
<1>4. ASSUME NEW g \in Handlers, g # h
      PROVE  todo'[g] = todo[g] /\ written'[g] = written[g]
  BY <1>1, <1>4 DEF UpdateRows, Transaction, TypeInv, TypeOK
<1>. QED  BY <1>1, <1>3, <1>4, Undisturbed

LEMMA CommitSaves ==
  ASSUME TypeInv, Informed, NEW h \in Handlers, Commit(h)
  PROVE  Informed'
<1>1. /\ files' = [n \in Names |-> Updated(h, n)] /\ Outdate(h)
      /\ InTransaction(h) /\ todo[h] = {}
  BY DEF Commit, TypeInv, Orderly
<1>2. ASSUME NEW n \in Names PROVE files'[n] = Updated(h, n) /\ Len(files'[n]) = Len(files[n])
  BY <1>1, UpdatedType
<1>3. Single'
  BY <1>2 DEF Single, Informed
<1>4. \A g \in Handlers : g # h => pc'[g] = pc[g]
  BY DEF Commit, End, TypeInv, TypeOK
<1>5. ASSUME h \notin stale', Saving(h)' PROVE Saw(h)'
  <2>1. pc[h] = "update" /\ UNCHANGED <<body, todo, fresh>>
    BY <1>1, <1>5 DEF Commit, End, Saving, InTransaction, TypeInv, TypeOK
  <2>2. h \notin stale /\ Saw(h) /\ (fresh[h] # {} <=> pc'[h] # "done")
    BY <1>1, <1>5, <2>1 DEF Commit, Outdate, Informed, Saving, TypeInv, TypeOK
  <2> SUFFICES ASSUME NEW n \in NamesIn(body[h])
               PROVE  IF n \in fresh[h] THEN files'[n] = <<>>
                      ELSE Len(files'[n]) = 1 /\ files'[n] \in Given(h, n)
    BY <1>1, <2>1, <2>2, NoRowsType DEF Saw, Given, Commit, NamesIn, TypeInv, TypeOK
  <2>3. n \in Names
    BY DEF NamesIn
  <2>4. /\ Updated(h, n) \in Seq(Codes) /\ Len(Updated(h, n)) = Len(files[n])
        /\ \A i \in 1..Len(files[n]) :
              Updated(h, n)[i] = IF i <= Len(written[h][n]) THEN written[h][n][i]
                                 ELSE files[n][i]
    BY <2>3, UpdatedType
  <2>5. CASE n \in fresh[h]
    <3>1. files[n] = <<>>
      BY <2>1, <2>2, <2>5 DEF Saw
    <3>. QED  BY <1>2, <2>3, <2>4, <2>5, <3>1
  <2>6. CASE n \notin fresh[h]
    <3>1. /\ Len(files[n]) = 1
          /\ \/ written[h][n] \in Given(h, n)
             \/ written[h][n] = <<>> /\ files[n] \in Given(h, n)
      BY <1>1, <2>2, <2>6 DEF Saw
    <3>2. \A s \in Given(h, n) : Len(s) = 1 /\ s = <<s[1]>>
      BY DEF Given
    <3>3. Updated(h, n) = <<Updated(h, n)[1]>>
      BY <2>4, <3>1
    <3>4. CASE written[h][n] \in Given(h, n)
      <4>1. Updated(h, n)[1] = written[h][n][1]
        BY <2>4, <3>1, <3>2, <3>4
      <4>. QED  BY <1>2, <2>3, <2>6, <3>1, <3>2, <3>3, <3>4, <4>1
    <3>5. CASE written[h][n] = <<>> /\ files[n] \in Given(h, n)
      <4>1. Updated(h, n)[1] = files[n][1]
        BY <2>4, <3>1, <3>5
      <4>. QED  BY <1>2, <2>3, <2>6, <3>1, <3>2, <3>3, <3>5, <4>1
    <3>. QED  BY <3>1, <3>4, <3>5
  <2>. QED  BY <2>5, <2>6
<1>. QED  BY <1>1, <1>3, <1>4, <1>5, Overtaken

LEMMA InsertSaves ==
  ASSUME TypeInv, Informed, NEW h \in Handlers, Insert(h), ~doubled'
  PROVE  Informed'
<1>1. /\ files' = [n \in Names |-> IF n \in fresh[h] THEN files[n] \o body[h][n]
                                    ELSE files[n]]
      /\ pc' = [pc EXCEPT ![h] = "done"] /\ pc[h] = "insert" /\ Outdate(h)
      /\ h \notin stale /\ fresh[h] \cap Repeated(body[h]) = {}
      /\ UNCHANGED <<body, todo, written, fresh>>
  BY DEF Insert
<1>2. Saw(h) /\ todo[h] = {} /\ written[h] = NoRows
  BY <1>1 DEF Informed, Saving, TypeInv, Orderly, InTransaction
<1>3. ASSUME NEW n \in fresh[h]
      PROVE  Len(files'[n]) = 1 /\ files'[n] \in Given(h, n)
  <2>1. n \in NamesIn(body[h]) /\ n \in Names /\ body[h][n] \in Seq(Codes)
    BY DEF TypeInv, TypeOK, Orderly, NamesIn, Bodies
  <2>2. files[n] = <<>>
    BY <1>1, <1>2, <2>1 DEF Saw
  <2>3. body[h][n] # <<>> /\ ~(Len(body[h][n]) > 1)
    BY <1>1, <2>1 DEF NamesIn, Repeated
  <2> DEFINE b == body[h][n]
  <2> HIDE DEF b
  <2>4. Len(b) = 1 /\ b = <<b[1]>> /\ 1 \in DOMAIN b /\ <<>> \o b = b
    <3>1. b \in Seq(Codes) /\ b # <<>> /\ Len(b) \in Nat /\ ~(Len(b) > 1)
      BY <2>1, <2>3 DEF b
    <3>2. Len(b) # 0
      BY <3>1
    <3>3. \A k \in Nat : k # 0 /\ ~(k > 1) => k = 1
      OBVIOUS
    <3>4. Len(b) = 1
      BY <3>1, <3>2, <3>3
    <3>. QED  BY <3>1, <3>4
  <2>5. files'[n] = body[h][n]
    BY <1>1, <2>1, <2>2, <2>4 DEF b
  <2>6. body[h][n] \in Given(h, n)
    BY <2>4 DEF Given, b
  <2>. QED  BY <2>4, <2>5, <2>6 DEF b
<1>4. Single'
  <2> SUFFICES ASSUME NEW n \in Names PROVE Len(files'[n]) <= 1
    BY DEF Single
  <2>1. CASE n \in fresh[h]
    <3>1. 1 <= 1
      OBVIOUS
    <3>. QED  BY <1>3, <2>1, <3>1, Zenon
  <2>2. CASE n \notin fresh[h]
    BY <1>1, <2>2 DEF Informed, Single
  <2>. QED  BY <2>1, <2>2
<1>5. Saw(h)'
  <2> SUFFICES ASSUME NEW n \in NamesIn(body[h])
               PROVE  Len(files'[n]) = 1 /\ files'[n] \in Given(h, n)
    BY <1>1, <1>2, NoRowsType DEF Saw, Given, NamesIn, TypeInv, TypeOK
  <2>1. CASE n \in fresh[h]
    BY <1>3, <2>1
  <2>2. CASE n \notin fresh[h]
    <3>1. n \in Names
      BY DEF NamesIn
    <3>2. \A s \in Given(h, n) : s # <<>>
      BY DEF Given
    <3>. QED  BY <1>1, <1>2, <2>2, <3>1, <3>2, NoRowsType DEF Saw
  <2>. QED  BY <2>1, <2>2
<1>6. \A g \in Handlers : g # h => pc'[g] = pc[g]
  BY <1>1 DEF TypeInv, TypeOK
<1>. QED  BY <1>1, <1>4, <1>5, <1>6, Overtaken

LEMMA DeleteSaves == Informed /\ Delete => Informed'
<1> SUFFICES ASSUME Informed, Delete PROVE Informed'
  OBVIOUS
<1>1. \A n \in Names : files'[n] = <<>> /\ Len(files'[n]) <= 1
  BY NoRowsType DEF Delete
<1>2. pc' = pc /\ stale' = {h \in Handlers : pc[h] # "idle"} \cup stale
  BY DEF Delete, requests
<1>3. Single'
  BY <1>1 DEF Single
<1>. QED  BY <1>2, <1>3 DEF Informed, Saving

\* A request that ends, and an event that begins, saves nothing.
LEMMA OthersSave ==
  ASSUME TypeInv, Informed, NEW h \in Handlers,
         \/ Rollback(h) \/ InsertFails(h) \/ Answer(h)
         \/ \E n \in Names, c \in Codes : Propagate(h, n, c)
  PROVE  Informed'
<1>1. CASE Rollback(h) \/ InsertFails(h) \/ Answer(h)
  <2>1. End(h) /\ UNCHANGED <<files, stale>>
    BY <1>1 DEF Rollback, InsertFails, Answer
  <2>2. /\ ~Saving(h)'
        /\ \A g \in Handlers : g # h =>
              /\ pc'[g] = pc[g] /\ body'[g] = body[g] /\ todo'[g] = todo[g]
              /\ written'[g] = written[g] /\ fresh'[g] = fresh[g]
    BY <2>1 DEF End, Saving, TypeInv, TypeOK
  <2>. QED  BY <2>1, <2>2, Undisturbed
<1>2. ASSUME NEW n \in Names, NEW c \in Codes, Propagate(h, n, c)
      PROVE  Informed'
  <2>1. /\ UNCHANGED <<files, stale, written, fresh>>
        /\ pc' = [pc EXCEPT ![h] = "propagate"]
        /\ body' = [body EXCEPT ![h] = [NoRows EXCEPT ![n] = <<c>>]]
        /\ todo' = [todo EXCEPT ![h] = {<<n, 1>>}]
    BY <1>2 DEF Propagate, Transaction
  <2>2. /\ ~Saving(h)'
        /\ \A g \in Handlers : g # h =>
              /\ pc'[g] = pc[g] /\ body'[g] = body[g] /\ todo'[g] = todo[g]
              /\ written'[g] = written[g] /\ fresh'[g] = fresh[g]
    BY <2>1 DEF Saving, TypeInv, TypeOK
  <2>. QED  BY <2>1, <2>2, Undisturbed
<1>. QED  BY <1>1, <1>2

LEMMA SaveNext == TypeInv /\ SaveInv /\ [Next]_vars => SaveInv'
<1> SUFFICES ASSUME TypeInv, SaveInv, [Next]_vars, ~doubled' PROVE Informed'
  BY DEF SaveInv
<1>1. ASSUME NEW h \in Handlers, NEW b \in Sent, NEW ok \in BOOLEAN, Save(h, b, ok)
      PROVE  Informed'
  BY <1>1, SaveSaves DEF Save, SaveInv
<1>2. ASSUME NEW h \in Handlers, NEW n \in Names, NEW c \in Codes, Propagate(h, n, c)
      PROVE  Informed'
  BY <1>2, OthersSave DEF Propagate, SaveInv
<1>3. ASSUME NEW h \in Handlers, UpdateRows(h) PROVE Informed'
  BY <1>3, UpdateRowsSaves DEF UpdateRows, SaveInv
<1>4. ASSUME NEW h \in Handlers, Commit(h) PROVE Informed'
  BY <1>4, CommitSaves DEF Commit, SaveInv
<1>5. ASSUME NEW h \in Handlers, Insert(h) PROVE Informed'
  BY <1>5, InsertSaves DEF Insert, SaveInv
<1>6. ASSUME NEW h \in Handlers, Rollback(h) \/ InsertFails(h) \/ Answer(h)
      PROVE  Informed'
  BY <1>6, OthersSave DEF Rollback, InsertFails, Answer, SaveInv
<1>7. CASE Delete
  BY <1>7, DeleteSaves DEF Delete, SaveInv
<1>8. CASE UNCHANGED vars
  BY <1>8 DEF vars, requests, SaveInv, Informed, Single, Saving, Saw, Given
<1>. QED
  BY <1>1, <1>2, <1>3, <1>4, <1>5, <1>6, <1>7, <1>8 DEF Next, Request, Proceed

(***************************************************************************)
(* A name has one row unless a request that was stale, or whose body gives *)
(* a name twice, has inserted files.                                       *)
(***************************************************************************)
THEOREM UniqueNamesHold == Spec => []UniqueNames
<1>1. SaveInv => UniqueNames
  BY DEF SaveInv, Informed, Single, UniqueNames
<1>. QED  BY TypeInit, TypeNext, SaveInit, SaveNext, <1>1, PTL DEF Spec

(***************************************************************************)
(* A save that nobody overtook is stored in full when it answers OK.       *)
(***************************************************************************)
THEOREM SavedIsStoredHolds == Spec => []SavedIsStored
<1>1. TypeInv /\ SaveInv => SavedIsStored
  <2> SUFFICES ASSUME TypeInv, SaveInv, ~doubled,
                      NEW h \in Handlers \ stale, pc[h] = "done",
                      NEW n \in NamesIn(body[h])
               PROVE  \E i \in DOMAIN body[h][n] : files[n] = <<body[h][n][i]>>
    BY DEF SavedIsStored
  <2>1. Saw(h) /\ todo[h] = {} /\ written[h][n] = <<>>
    BY NoRowsType DEF SaveInv, Informed, Saving, TypeInv, Orderly, InTransaction, NamesIn
  <2>2. \A s \in Given(h, n) : s # <<>>
    BY DEF Given
  <2>. QED  BY <2>1, <2>2 DEF Saw, Given
<1>. QED  BY TypeInit, TypeNext, SaveInit, SaveNext, <1>1, PTL DEF Spec

(***************************************************************************)
(* Nobody waits for a request that has been answered: rows are locked by   *)
(* open transactions only, so if each of them that h waits for, directly   *)
(* or not, waits itself, then they wait for each other.                    *)
(***************************************************************************)
THEOREM NobodyStuckHolds == Spec => []NobodyStuck
<1>1. TypeInv => NobodyStuck
  <2> SUFFICES ASSUME TypeInv, NEW h \in Handlers, NEW S \in SUBSET Handlers,
                      Blocked(h), h \in S, Closed(S),
                      \A g \in S : InTransaction(g) => Blocked(g)
               PROVE  \E T \in SUBSET S : h \in T /\ Deadlocked(T)
    BY DEF NobodyStuck
  <2> DEFINE T == {g \in S : InTransaction(g)}
  <2>1. h \in T
    BY DEF Blocked, WaitsFor
  <2>2. ASSUME NEW g \in T PROVE \E f \in T : WaitsFor(g, f)
    <3>1. PICK f \in Handlers : WaitsFor(g, f)
      BY DEF Blocked
    <3>2. at[g] \in Names \X Nat /\ written[f][at[g][1]] # <<>>
      BY <3>1 DEF WaitsFor, TypeInv, TypeOK
    <3>3. InTransaction(f)
      BY <3>2, NoRowsType DEF TypeInv, Orderly
    <3>4. f \in S
      BY <3>1 DEF Closed
    <3>. QED  BY <3>1, <3>3, <3>4
  <2>3. T \in SUBSET S /\ Deadlocked(T)
    BY <2>2 DEF Deadlocked
  <2>. QED  BY <2>1, <2>3
<1>. QED  BY TypeInit, TypeNext, <1>1, PTL DEF Spec

(***************************************************************************)
(* A request ends after as many commands as its body has files, and three  *)
(* more at most: COMMIT, INSERT and the answer.                            *)
(***************************************************************************)
Phase == [idle |-> 0, done |-> 1, insert |-> 2, update |-> 3, propagate |-> 1]

StepsLeft(h) == Phase[pc[h]] + Cardinality(todo[h])

\* A command of h, or its answer.
StepOf(h) == UpdateRows(h) \/ Rollback(h) \/ Proceed(h)

StepsBounded ==
    \A h \in Handlers :
        /\ IsFiniteSet(Entries(body[h]))
        /\ StepsLeft(h) \in 0..(Cardinality(Entries(body[h])) + 3)
        /\ StepsLeft(h) = 0 <=> pc[h] = "idle"

StepsCount ==
    [][\A h \in Handlers :
         /\ StepOf(h) => StepsLeft(h)' < StepsLeft(h)
         /\ pc[h] # "idle" /\ ~StepOf(h) => pc'[h] = pc[h] /\ StepsLeft(h)' = StepsLeft(h)]_vars

FiniteBodies == \A h \in Handlers : IsFiniteSet(Entries(body[h]))

LEMMA FiniteNext == TypeInv /\ FiniteBodies /\ [Next]_vars => FiniteBodies'
<1> SUFFICES ASSUME TypeInv, FiniteBodies, [Next]_vars, NEW h \in Handlers
             PROVE  IsFiniteSet(Entries(body'[h]))
  BY DEF FiniteBodies
<1>1. CASE body'[h] = body[h]
  BY <1>1 DEF FiniteBodies
<1>2. CASE body'[h] \in Sent
  BY <1>2, FiniteAssumption
<1>3. CASE body'[h] = NoRows
  BY <1>3, NoRowsType, FS_EmptySet
<1>4. ASSUME NEW n \in Names, NEW c \in Codes, body'[h] = [NoRows EXCEPT ![n] = <<c>>]
      PROVE  IsFiniteSet(Entries(body'[h]))
  <2>1. /\ body'[h] \in Bodies /\ body'[h][n] = <<c>>
        /\ \A m \in Names \ {n} : body'[h][m] = <<>>
    BY <1>4, NoRowsType DEF Bodies
  <2> DEFINE b == body'[h]
  <2> HIDE DEF b
  <2>2. ASSUME NEW e \in Entries(b) PROVE e = <<n, 1>>
    <3>1. e \in Names \X Nat /\ e[1] \in Names /\ e[2] \in DOMAIN b[e[1]]
      BY <2>1, EntryType DEF b
    <3>2. e[1] = n
      BY <2>1, <3>1 DEF b
    <3>3. e[2] = 1
      BY <2>1, <3>1, <3>2 DEF b
    <3>. QED  BY <3>1, <3>2, <3>3
  <2>3. Entries(b) \in SUBSET {<<n, 1>>}
    BY <2>2
  <2>. QED  BY <2>3, FS_Singleton, FS_Subset DEF b
<1>5. body \in [Handlers -> Bodies]
  BY DEF TypeInv, TypeOK
<1>6. \A g \in Handlers : End(g) => body'[h] = body[h] \/ body'[h] = NoRows
  BY <1>5 DEF End
<1>7. ASSUME NEW g \in Handlers, Request(g)
      PROVE  \/ body'[h] = body[h] \/ body'[h] \in Sent
             \/ \E n \in Names, c \in Codes : body'[h] = [NoRows EXCEPT ![n] = <<c>>]
  BY <1>5, <1>7 DEF Request, Save, Propagate
<1>8. ASSUME NEW g \in Handlers, StepOf(g)
      PROVE  body'[h] = body[h] \/ body'[h] = NoRows
  BY <1>6, <1>8 DEF StepOf, UpdateRows, Rollback, Proceed, Commit, Insert, InsertFails, Answer
<1>9. CASE Delete \/ UNCHANGED vars
  BY <1>1, <1>9 DEF Delete, vars, requests
<1>. QED
  BY <1>1, <1>2, <1>3, <1>4, <1>7, <1>8, <1>9 DEF Next, StepOf

LEMMA StepsLeftBounded == TypeInv /\ FiniteBodies => StepsBounded
<1> SUFFICES ASSUME TypeInv, FiniteBodies, NEW h \in Handlers
             PROVE  /\ StepsLeft(h) \in 0..(Cardinality(Entries(body[h])) + 3)
                    /\ StepsLeft(h) = 0 <=> pc[h] = "idle"
  BY DEF StepsBounded, FiniteBodies
<1>1. /\ Cardinality(todo[h]) \in Nat /\ Cardinality(Entries(body[h])) \in Nat
      /\ Cardinality(todo[h]) <= Cardinality(Entries(body[h]))
  <2>1. todo[h] \in SUBSET Entries(body[h]) /\ IsFiniteSet(Entries(body[h]))
    BY DEF TypeInv, Orderly, FiniteBodies
  <2>. QED  BY <2>1, FS_Subset, FS_CardinalityType
<1>2. Phase[pc[h]] \in 0..3 /\ (Phase[pc[h]] = 0 <=> pc[h] = "idle")
  BY DEF TypeInv, TypeOK, Phase
<1>3. pc[h] = "idle" => Cardinality(todo[h]) = 0
  BY FS_EmptySet DEF TypeInv, Orderly, InTransaction
<1>. QED  BY <1>1, <1>2, <1>3 DEF StepsLeft

LEMMA OwnStep ==
  ASSUME TypeInv, FiniteBodies, NEW h \in Handlers, StepOf(h)
  PROVE  StepsLeft(h)' < StepsLeft(h)
<1>1. Cardinality(todo[h]) \in Nat /\ IsFiniteSet(todo[h])
  <2>1. todo[h] \in SUBSET Entries(body[h]) /\ IsFiniteSet(Entries(body[h]))
    BY DEF TypeInv, Orderly, FiniteBodies
  <2>. QED  BY <2>1, FS_Subset, FS_CardinalityType
<1>2. /\ pc \in [Handlers -> {"idle", "update", "insert", "done", "propagate"}]
      /\ todo \in [Handlers -> SUBSET (Names \X Nat)]
  BY DEF TypeInv, TypeOK
<1>3. ASSUME End(h), pc[h] # "idle" PROVE StepsLeft(h)' < StepsLeft(h)
  <2>1. pc'[h] = "idle" /\ todo'[h] = {} /\ Cardinality({}) = 0
    BY <1>2, <1>3, FS_EmptySet DEF End
  <2>2. Phase[pc[h]] \in 1..3
    BY <1>2, <1>3 DEF Phase
  <2>. QED  BY <1>1, <2>1, <2>2 DEF StepsLeft, Phase
<1>4. CASE UpdateRows(h)
  <2> DEFINE left == todo[h]
  <2>1. at[h] \in left /\ pc' = pc /\ todo'[h] = left \ {at[h]}
    BY <1>2, <1>4 DEF UpdateRows, Transaction, TypeInv, Orderly
  <2> HIDE DEF left
  <2>2. Cardinality(left \ {at[h]}) = Cardinality(left) - 1
    BY <1>1, <2>1, FS_RemoveElement DEF left
  <2>3. Phase[pc[h]] \in 0..3
    BY <1>2 DEF Phase
  <2>. QED  BY <1>1, <2>1, <2>2, <2>3 DEF StepsLeft, left
<1>5. CASE Commit(h)
  <2>1. CASE pc[h] = "propagate"
    BY <1>3, <1>5, <2>1 DEF Commit
  <2>2. CASE pc[h] # "propagate"
    <3>1. pc[h] = "update" /\ pc'[h] \in {"insert", "done"} /\ todo' = todo
      BY <1>2, <1>5, <2>2 DEF Commit, InTransaction
    <3>. QED  BY <1>1, <3>1 DEF StepsLeft, Phase
  <2>. QED  BY <2>1, <2>2
<1>6. CASE Insert(h)
  <2>1. pc[h] = "insert" /\ pc'[h] = "done" /\ todo' = todo
    BY <1>2, <1>6 DEF Insert
  <2>. QED  BY <1>1, <2>1 DEF StepsLeft, Phase
<1>7. CASE Rollback(h) \/ InsertFails(h) \/ Answer(h)
  BY <1>3, <1>7 DEF Rollback, InTransaction, InsertFails, Answer
<1>. QED  BY <1>4, <1>5, <1>6, <1>7 DEF StepOf, Proceed

LEMMA OthersStep ==
  ASSUME TypeInv, [Next]_vars, NEW h \in Handlers, pc[h] # "idle", ~StepOf(h)
  PROVE  pc'[h] = pc[h] /\ StepsLeft(h)' = StepsLeft(h)
<1> SUFFICES pc'[h] = pc[h] /\ todo'[h] = todo[h]
  BY DEF StepsLeft
<1> USE DEF TypeInv, TypeOK
<1>1. ASSUME NEW g \in Handlers, Request(g) PROVE pc'[h] = pc[h] /\ todo'[h] = todo[h]
  <2>1. g # h
    BY <1>1 DEF Request, Save, Propagate
  <2>. QED  BY <1>1, <2>1 DEF Request, Save, Propagate, Transaction
<1>2. ASSUME NEW g \in Handlers, StepOf(g) PROVE pc'[h] = pc[h] /\ todo'[h] = todo[h]
  <2>1. g # h
    BY <1>2
  <2>2. End(g) => pc'[h] = pc[h] /\ todo'[h] = todo[h]
    BY <2>1 DEF End
  <2>3. UpdateRows(g) => pc'[h] = pc[h] /\ todo'[h] = todo[h]
    BY <2>1 DEF UpdateRows, Transaction
  <2>4. Commit(g) => End(g) \/ (pc' = [pc EXCEPT ![g] = pc'[g]] /\ todo' = todo)
    BY DEF Commit
  <2>5. Insert(g) => pc'[h] = pc[h] /\ todo'[h] = todo[h]
    BY <2>1 DEF Insert
  <2>. QED
    BY <1>2, <2>1, <2>2, <2>3, <2>4, <2>5
       DEF StepOf, Rollback, Proceed, InsertFails, Answer
<1>3. CASE Delete \/ UNCHANGED vars
  BY <1>3 DEF Delete, vars, requests
<1>. QED  BY <1>1, <1>2, <1>3 DEF Next, StepOf

\* Every command of a request takes it nearer to its answer, and nothing that
\* others do takes it back: with the locks granted in turn and the deadlocks
\* broken (NobodyStuck) this is why requests end, for any names and bodies.
THEOREM RequestsAreBounded == Spec => []StepsBounded /\ StepsCount
<1>1. Init => FiniteBodies
  BY NoRowsType, FS_EmptySet DEF Init, FiniteBodies
<1>2. ASSUME TypeInv, FiniteBodies, [Next]_vars
      PROVE  [\A h \in Handlers :
                /\ StepOf(h) => StepsLeft(h)' < StepsLeft(h)
                /\ pc[h] # "idle" /\ ~StepOf(h)
                   => pc'[h] = pc[h] /\ StepsLeft(h)' = StepsLeft(h)]_vars
  BY <1>2, OwnStep, OthersStep
<1>. QED
  BY <1>1, <1>2, TypeInit, TypeNext, FiniteNext, StepsLeftBounded, PTL DEF Spec, StepsCount
=============================================================================

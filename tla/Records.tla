------------------------------ MODULE Records -------------------------------
(***************************************************************************)
(* The requests on accounts, assignments and shards on one database, in any*)
(* interleaving of their commands.                                         *)
(***************************************************************************)
EXTENDS Accounts, Assignments, ShardTable

vars == <<tables, requests, sent>>

TypeOK == TablesTypeOK /\ RequestsTypeOK /\ SentTypeOK

Init == InitDatabase /\ sent = [u \in Users |-> {}]

Next ==
    \/ (AccountsNext \/ AssignmentsNext \/ \E h \in Handlers : Fail(h)) /\ UNCHANGED sent
    \/ ShardNext

Spec == Init /\ [][Next]_vars
=============================================================================

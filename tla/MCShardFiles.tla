---------------------------- MODULE MCShardFiles ----------------------------
(***************************************************************************)
(* An instance of ShardFiles for TLC: two files; the template has one of   *)
(* them; clients send nothing, one of the files, both, or one file twice.  *)
(***************************************************************************)
EXTENDS ShardFiles

CONSTANTS a, b, c1, c2

TwoFiles == {a, b}
TwoCodes == {c1, c2}

Only(n, s) == [NoRows EXCEPT ![n] = s]
Both(c) == [n \in Names |-> <<c>>]

RoomTemplate == Only(a, <<c1>>)
ClientBodies == {NoRows, Only(b, <<c2>>), Only(a, <<c1, c2>>), Both(c1), Both(c2)}
=============================================================================

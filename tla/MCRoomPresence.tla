--------------------------- MODULE MCRoomPresence ---------------------------
(***************************************************************************)
(* Instances of RoomPresence for TLC: u1 has the sockets s1 and s2 (two    *)
(* tabs, or the sockets before and after a reconnection), u2 has s3.       *)
(***************************************************************************)
EXTENDS RoomPresenceProps, TLC

CONSTANTS u1, u2, s1, s2, s3

OneUser == {u1}
TwoUsers == {u1, u2}
OneUserSockets == {s1, s2}
TwoUserSockets == {s1, s2, s3}
OneUserOwner == [s \in OneUserSockets |-> u1]
TwoUserOwner == [s \in TwoUserSockets |-> IF s = s3 THEN u2 ELSE u1]

SlotSymmetry == Permutations(Tasks)
Symmetry == Permutations(Tasks) \cup Permutations(Rooms)
=============================================================================

------------------------- MODULE PresenceDirectory --------------------------
(***************************************************************************)
(* What the room index promises: listed, the membership other services can *)
(* read, follows live, the membership by which messages are delivered.     *)
(* RoomPresence implements it for patient clients.                         *)
(***************************************************************************)
CONSTANTS Users, Rooms

VARIABLES
    live,       \* pairs <<u, r>>: a socket of u receives the messages of r
    listed      \* pairs <<u, r>>: u is in the set of room r

vars == <<live, listed>>

TypeOK == live \subseteq Users \X Rooms /\ listed \subseteq Users \X Rooms

Init == live = {} /\ listed = {}

Subscribe(m) == m \notin live /\ live' = live \cup {m} /\ UNCHANGED listed

Unsubscribe(m) == m \in live /\ live' = live \ {m} /\ UNCHANGED listed

\* A member is listed while it is live, and taken off the list afterwards.
Publish(m) == m \in live \ listed /\ listed' = listed \cup {m} /\ UNCHANGED live

Retract(m) == m \in listed \ live /\ listed' = listed \ {m} /\ UNCHANGED live

Next ==
    \E m \in Users \X Rooms :
        Subscribe(m) \/ Unsubscribe(m) \/ Publish(m) \/ Retract(m)

Spec == Init /\ [][Next]_vars

\* A membership that is live is listed in the end, one that is not is taken off.
Fairness == \A m \in Users \X Rooms : WF_vars(Publish(m)) /\ WF_vars(Retract(m))
=============================================================================

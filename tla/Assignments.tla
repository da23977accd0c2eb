---------------------------- MODULE Assignments -----------------------------
(***************************************************************************)
(* Assignments and submissions (routes/v1/assignments.ts).  A submission   *)
(* takes three commands: the assignment with its deadline, an earlier      *)
(* submission of the user, the insert.  They are in no transaction, and no *)
(* constraint keeps a user from submitting twice.  What is submitted is an *)
(* unchecked text and left out; the creator of an assignment matters only  *)
(* to who may read the submissions, and is left out with it.               *)
(***************************************************************************)
EXTENDS Database

\* createAssignment of the repository: the deadline may be in the past.
InsertAssignment(a) ==
    /\ assignments[a] = "absent"
    /\ \E state \in {"open", "closed"} :
          assignments' = [assignments EXCEPT ![a] = state]

\* POST /assignments
CreateAssignment(u, a) ==
    /\ Authenticated(u)
    /\ InsertAssignment(a)
    /\ UNCHANGED <<users, followers, likes, submissions, shards, used, requests>>

DeadlinePasses(a) ==
    /\ assignments[a] = "open"
    /\ assignments' = [assignments EXCEPT ![a] = "closed"]
    /\ UNCHANGED <<users, followers, likes, submissions, shards, used, requests>>

\* DELETE /assignments/:id: no middleware of this route sets req.user, so the
\* handler throws at its first line and deletes nothing.
DeleteAssignment(u, a) ==
    /\ Authenticated(u)
    /\ UNCHANGED <<tables, requests>>

\* Mutant of Submit: the deadline is not looked at.
SubmitAnytime(h, u, a) ==
    /\ pc[h] = "idle" /\ Authenticated(u)
    /\ IF assignments[a] # "absent" THEN Goto(h, "existing", u, a)
       ELSE UNCHANGED requests
    /\ UNCHANGED tables

\* "Assignment not found", "Assignment deadline has passed", or on.
Submit(h, u, a) ==
    /\ pc[h] = "idle" /\ Authenticated(u)
    /\ IF assignments[a] = "open" THEN Goto(h, "existing", u, a)
       ELSE UNCHANGED requests
    /\ UNCHANGED tables

SubmissionsOf(u, a) == {r \in submissions : r.user = u /\ r.assignment = a}

\* Mutant of FindExisting: somebody's submission for the assignment is looked for
\* only once the user has two.
FindSecond(h) ==
    /\ pc[h] = "existing"
    /\ IF Cardinality(SubmissionsOf(actor[h], object[h])) > 1 THEN End(h)
       ELSE Goto(h, "submit", actor[h], object[h])
    /\ UNCHANGED tables

\* "You have already submitted for this assignment", or on.
FindExisting(h) ==
    /\ pc[h] = "existing"
    /\ IF SubmissionsOf(actor[h], object[h]) # {} THEN End(h)
       ELSE Goto(h, "submit", actor[h], object[h])
    /\ UNCHANGED tables

\* createSubmission: the row is late if the deadline has passed by now.
AddSubmission(u, a) ==
    \E i \in Ids :
        /\ Free(i)
        /\ submissions' = submissions \cup
              {[id |-> i, assignment |-> a, user |-> u, late |-> assignments[a] = "closed"]}

InsertSubmission(h) ==
    /\ pc[h] = "submit"
    /\ AddSubmission(actor[h], object[h])
    /\ End(h)
    /\ UNCHANGED <<users, followers, likes, shards, used, assignments>>

AssignmentsNext ==
    \/ \E u \in Users, a \in Assignments : CreateAssignment(u, a) \/ DeleteAssignment(u, a)
    \/ \E a \in Assignments : DeadlinePasses(a)
    \/ \E h \in Handlers :
          \/ \E u \in Users, a \in Assignments : Submit(h, u, a)
          \/ FindExisting(h) \/ InsertSubmission(h)

(***************************************************************************)
(* A user has no more submissions for an assignment than there can be      *)
(* requests in progress at a time: one, if nothing races.                  *)
(***************************************************************************)
SubmissionBound ==
    \A u \in Users, a \in Assignments :
        Cardinality(SubmissionsOf(u, a)) <= Cardinality(Handlers)

(***************************************************************************)
(* Only requests that were under way when the deadline passed can submit   *)
(* late: all users together have no more late submissions for an           *)
(* assignment than there can be requests in progress at a time.            *)
(***************************************************************************)
LateFor(a) == {r \in submissions : r.assignment = a /\ r.late}

LateBound == \A a \in Assignments : Cardinality(LateFor(a)) <= Cardinality(Handlers)
=============================================================================

-------------------------- MODULE MCMemberDirectory --------------------------
(***************************************************************************)
(* MemberDirectory for TLC: people with an account are interchangeable, and*)
(* so are addresses and invitations.                                       *)
(***************************************************************************)
EXTENDS MemberDirectory, TLC

Symmetry == Permutations(Accounts) \cup Permutations(Addresses) \cup Permutations(Handlers)
=============================================================================

----------------------------- MODULE MCRecords ------------------------------
(***************************************************************************)
(* An instance of Records for TLC.  What is alike may be exchanged: none of*)
(* the properties is temporal.                                             *)
(***************************************************************************)
EXTENDS Records, TLC

Symmetry ==
    Permutations(Users) \cup Permutations(Shards) \cup Permutations(Ids)
        \cup Permutations(Handlers)
=============================================================================

----------------------------- MODULE MCNodePages ----------------------------
(***************************************************************************)
(* NodePages on a small instance: directory 2 with all the names, the      *)
(* other with few of them. Names are interchangeable where both or neither *)
(* of the directories uses them: the code only compares them.              *)
(***************************************************************************)
EXTENDS NodePages, TLC

CONSTANT Few

MCNamesOf == [n \in Nodes |-> IF n = 2 THEN Names ELSE Few]

Interchangeable == Permutations(Names \ Few)

=============================================================================

------------------------------ MODULE MCStream ------------------------------
(***************************************************************************)
(* Stream on small instances. Files are interchangeable: nothing tells     *)
(* one name from another.                                                  *)
(***************************************************************************)
EXTENDS Stream, TLC

Interchangeable == Permutations(Names)

=============================================================================

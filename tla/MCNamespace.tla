----------------------------- MODULE MCNamespace ----------------------------
(* Namespace with interchangeable names: the code only compares them.       *)
EXTENDS Namespace

Interchangeable == Permutations(Names)

=============================================================================

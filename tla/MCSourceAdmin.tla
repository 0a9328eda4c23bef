---------------------------- MODULE MCSourceAdmin ----------------------------
(***************************************************************************)
(* SourceAdmin for TLC: neither the admins nor the names of operations are *)
(* told apart.                                                             *)
(***************************************************************************)
EXTENDS SourceAdmin, TLC

Interchangeable == Permutations(Admins) \union Permutations(Names)

=============================================================================

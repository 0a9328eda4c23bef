-------------------------- MODULE MCWorkContextFlow --------------------------
(***************************************************************************)
(* Instances of WorkContextFlow for TLC.                                   *)
(***************************************************************************)
EXTENDS WorkContextFlow, TLC

MCClients == {<<"grpc", "task">>}

MCDrifts == {-1, 1}

\* The requests are interchangeable.
Interchangeable == Permutations(Checks)

=============================================================================

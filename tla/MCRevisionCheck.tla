--------------------------- MODULE MCRevisionCheck ---------------------------
(***************************************************************************)
(* Instances of RevisionCheck for TLC.                                     *)
(***************************************************************************)
EXTENDS RevisionCheck

\* Both transports, and both kinds of wait_for.
MCClients == {"connect", "grpc"} \X {"task", "inline"}

=============================================================================

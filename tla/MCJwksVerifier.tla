--------------------------- MODULE MCJwksVerifier ---------------------------
(* Instances of JwksVerifier for TLC. *)
EXTENDS JwksVerifier, TLC

CONSTANTS k1, k2

\* One key replaced by another.
Replace == <<{k1}, {k2}>>

ThreadSymmetry == Permutations(Threads)

=============================================================================

----------------------------- MODULE MCMintClient -----------------------------
(***************************************************************************)
(* Instances of MintClient for TLC: lifetimes on both sides of every       *)
(* boundary of the conversion, and clock readings on both sides of the     *)
(* expiries they lead to.                                                  *)
(***************************************************************************)
EXTENDS MintClient

\* Less than half a second, the default, one and a half seconds (to even: two), and both
\* sides of the last half second that rounds down to the cap.
MCTtls == {499999, 0, 1500000, 900500000, 900500001}

\* The issue and the two expiries.
MCInstants == {0, 300, 900}
MCDrifts == {-60, 60}

=============================================================================

------------------------------ MODULE OneEffect ------------------------------
(***************************************************************************)
(* What a caller of the datasource SDK may rely on for one intended        *)
(* effect, whatever becomes of requests, replies, hosts and the caller     *)
(* itself: the effect happens at most once, it is reported committed only  *)
(* after it happened, and refused only if it has not happened and will not *)
(* before the caller starts over.                                          *)
(***************************************************************************)
EXTENDS Naturals

VARIABLES
    happened,   \* how often the provider performed the effect
    told        \* what the caller concluded: "pending", "committed" or "refused"

evars == <<happened, told>>

EInit == happened = 0 /\ told = "pending"

Happen ==
    /\ happened = 0 /\ told # "refused"
    /\ happened' = 1
    /\ UNCHANGED told

TellCommitted ==
    /\ happened = 1 /\ told = "pending"
    /\ told' = "committed"
    /\ UNCHANGED happened

TellRefused ==
    /\ happened = 0 /\ told = "pending"
    /\ told' = "refused"
    /\ UNCHANGED happened

StartOver ==
    /\ told = "refused"
    /\ told' = "pending"
    /\ UNCHANGED happened

ENext == Happen \/ TellCommitted \/ TellRefused \/ StartOver

ESpec == EInit /\ [][ENext]_evars

=============================================================================

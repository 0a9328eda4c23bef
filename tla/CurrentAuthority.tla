--------------------------- MODULE CurrentAuthority ---------------------------
(***************************************************************************)
(* What a caller of authorization_revision's check may rely on: it returns *)
(* only if the revision its claims carry was the authority's current one   *)
(* at some moment of this check, and it raises RevisionDenied only if that *)
(* revision was, at some moment of this check, not the current one. Any    *)
(* check may end without a decision.                                       *)
(***************************************************************************)
EXTENDS Naturals

CONSTANTS Checks

VARIABLES
    revision,   \* the authority's current revision; it only grows
    claims,     \* the revision in the claims each check is about
    since,      \* the revision that was current when the check began; 0: not begun
    verdict     \* how each check ended

avars == <<revision, claims, since, verdict>>

\* The revisions that were current at some moment of the check.
Seen(c) == since[c] .. revision

AInit ==
    /\ revision = 1
    /\ claims = [c \in Checks |-> 0] /\ since = [c \in Checks |-> 0]
    /\ verdict = [c \in Checks |-> "none"]

Revise ==
    /\ revision' = revision + 1
    /\ UNCHANGED <<claims, since, verdict>>

Begin(c) ==
    /\ claims' \in {[claims EXCEPT ![c] = r] : r \in 0 .. revision}
    /\ since' = [since EXCEPT ![c] = revision]
    /\ verdict' = [verdict EXCEPT ![c] = "none"]
    /\ UNCHANGED revision

End(c, outcome) ==
    /\ verdict[c] = "none" /\ since[c] # 0
    /\ verdict' = [verdict EXCEPT ![c] = outcome]
    /\ UNCHANGED <<revision, claims, since>>

Grant(c) == claims[c] \in Seen(c) /\ End(c, "granted")

Deny(c) == (\E r \in Seen(c) : r # claims[c]) /\ End(c, "denied")

\* RevisionUnavailable, a cancellation, or an exception that is not the SDK's.
Undecided(c) == \E outcome \in {"unavailable", "cancelled", "raw"} : End(c, outcome)

ANext ==
    \/ Revise
    \/ \E c \in Checks : Begin(c) \/ Grant(c) \/ Deny(c) \/ Undecided(c)

ASpec == AInit /\ [][ANext]_avars

=============================================================================

----------------------------- MODULE ClaimsWindow -----------------------------
(***************************************************************************)
(* The time claims of a Work Context, as _validate_work_context and        *)
(* _validate_time judge them. Times are seconds.                           *)
(***************************************************************************)
EXTENDS Integers

CONSTANTS
    MaxTtl,      \* _MAX_TTL
    Skew         \* clock_skew

Window == [notBefore: Int, issuedAt: Int, expiresAt: Int]

\* The time claims agree with each other and the lifetime is within its cap.
WindowValid_Bug(w) ==
    /\ w.notBefore <= w.expiresAt
    /\ w.expiresAt - w.issuedAt > 0
WindowValid(w) ==
    /\ w.notBefore <= w.expiresAt
    /\ w.expiresAt - w.issuedAt > 0
    /\ w.expiresAt - w.issuedAt <= MaxTtl

\* _validate_time.
Active(w, now) ==
    /\ now >= w.notBefore - Skew
    /\ w.issuedAt <= now + Skew
    /\ now <= w.expiresAt + Skew

=============================================================================

------------------------------ MODULE MintClient ------------------------------
(***************************************************************************)
(* The delegated caller's half of work_context.py: start_task,             *)
(* exchange_audience and renew ask the accounts authority for a context    *)
(* with a lifetime the caller gives as a timedelta, attach stamps one on   *)
(* an outgoing call, and a callee whose clock is off by at most its skew   *)
(* verifies it. The caller's half and the callee's have each their own     *)
(* constant for the cap on lifetimes and their own check of a token's      *)
(* shape; the authority and the gateway are not under src/.                *)
(*                                                                         *)
(* Durations are microseconds, the resolution of timedelta; clocks and     *)
(* what goes on the wire are seconds. Scopes, tenants and the other fields *)
(* a call copies into its request are left out.                            *)
(*                                                                         *)
(* Operators named ..._Bug are faulty variants of the definition that      *)
(* follows them, used by no specification.                                 *)
(***************************************************************************)
EXTENDS ClaimsWindow, FiniteSets

CONSTANTS
    DefaultTtl,  \* DEFAULT_TTL, in seconds
    MintTtl,     \* MAX_TTL, in seconds: the mint side's cap
    Ttls,        \* the durations callers ask for
    Instants,    \* the readings of the authority's clock
    Drifts,      \* how far a callee's clock may be off
    Audiences,
    MaxHeld      \* bound: contexts the caller holds

ASSUME LifetimesAssumption ==
    /\ MintTtl \in Nat /\ MaxTtl = MintTtl
    /\ DefaultTtl \in 1 .. MintTtl
    /\ Ttls \subseteq Int
ASSUME ClocksAssumption ==
    /\ Skew \in Nat /\ Drifts \subseteq -Skew .. Skew
    /\ Instants \subseteq Nat /\ Instants # {}
ASSUME AudiencesAssumption == "" \notin Audiences /\ "kept" \notin Audiences

Second == 1000 * 1000

VARIABLES
    now,        \* the authority's clock
    request,    \* the request of the call in progress, or NoRequest
    held,       \* the contexts the caller was given
    outcome,    \* how its last call of the SDK ended
    header,     \* the context whose token outgoing calls carry, or NoContext
    verdict     \* what the callee made of the last one presented

vars == <<now, request, held, outcome, header, verdict>>

-----------------------------------------------------------------------------
(***************************************************************************)
(* Conversion of the lifetime.                                             *)
(***************************************************************************)

\* None and zero mean the default; None is 0 here.
Resolved(ttl) == IF ttl = 0 THEN DefaultTtl * Second ELSE ttl

\* Python's round: to the nearest, half to even.
Rounded_Bug(us) == us \div Second
Rounded(us) ==
    LET whole == us \div Second
        rest == us % Second
    IN  IF 2 * rest < Second \/ (2 * rest = Second /\ whole % 2 = 0)
        THEN whole ELSE whole + 1

TtlSeconds(ttl) == Rounded(Resolved(ttl))

TtlAccepted_Bug(ttl) == TtlSeconds(ttl) > 0
TtlAccepted(ttl) == TtlSeconds(ttl) > 0 /\ TtlSeconds(ttl) <= MintTtl

(***************************************************************************)
(* Tokens, by what the two sides tell apart in their shape: empty, longer  *)
(* than 32 KiB, or not two segments.                                       *)
(***************************************************************************)
Shapes == {"two_segments", "empty", "long", "other_segments"}

\* _validated_token of attach.
Attachable_Bug(shape) == shape # "empty"
Attachable(shape) == shape = "two_segments"

\* _validate_token_shape of verify.
ShapeValid(shape) == shape \notin {"empty", "long", "other_segments"}

(***************************************************************************)
(* Contexts. meant and asked are what the caller had in mind: which callee *)
(* the context is for and which lifetime it asked for; no action reads     *)
(* them.                                                                   *)
(***************************************************************************)
Context == [audience: Audiences, window: Window, shape: Shapes,
            meant: Audiences, asked: Ttls]

NoContext == [audience |-> "", shape |-> "empty"]
NoRequest == [method |-> "none"]
NoVerdict == [result |-> "none", at |-> 0, for |-> "", context |-> NoContext]

\* renew stamps the audience only if there is one to stamp: "kept" is an absent field.
RenewAudience_Bug(audience) == audience
RenewAudience(audience) == IF audience = "" THEN "kept" ELSE audience

\* What the authority requires of a request's form.
WellFormed(q) ==
    /\ q.seconds \in 1 .. MintTtl
    /\ q.audience \in Audiences \union (IF q.method = "RenewWorkContext" THEN {"kept"} ELSE {})

-----------------------------------------------------------------------------
Init ==
    /\ now \in Instants
    /\ request = NoRequest /\ held = {} /\ outcome = "none"
    /\ header = NoContext /\ verdict = NoVerdict

\* The lifetime is converted while the request is built: a ValueError sends nothing.
Mint(method, audience, parent, meant, ttl) ==
    /\ request = NoRequest
    /\ IF TtlAccepted(ttl)
       THEN /\ request' = [method |-> method, audience |-> audience, parent |-> parent,
                           seconds |-> TtlSeconds(ttl), meant |-> meant, asked |-> ttl]
            /\ UNCHANGED outcome
       ELSE outcome' = "ValueError" /\ UNCHANGED request
    /\ UNCHANGED <<now, held, header, verdict>>

StartTask(audience, ttl) == Mint("StartTask", audience, NoContext, audience, ttl)

ExchangeAudience(parent, audience, ttl) ==
    /\ parent \in held
    /\ Mint("ExchangeAudience", audience, parent, audience, ttl)

\* audience may be "", which keeps the parent's.
Renew(context, audience, ttl) ==
    /\ context \in held
    /\ Mint("RenewWorkContext", RenewAudience(audience), context,
            IF audience = "" THEN context.meant ELSE audience, ttl)

\* The authority issues a context, from its own clock on; its token may have any shape.
Issues ==
    /\ request # NoRequest /\ WellFormed(request)
    /\ request.method # "StartTask" => ShapeValid(request.parent.shape)
    /\ Cardinality(held) < MaxHeld
    /\ \E shape \in Shapes :
         held' = held \union
            {[audience |-> IF request.audience = "kept" THEN request.parent.audience
                           ELSE request.audience,
              window |-> [notBefore |-> now, issuedAt |-> now,
                          expiresAt |-> now + request.seconds],
              shape |-> shape, meant |-> request.meant, asked |-> request.asked]}
    /\ outcome' = "issued" /\ request' = NoRequest
    /\ UNCHANGED <<now, header, verdict>>

\* _mint: every Exception of the gateway becomes a WorkContextMintError, except a
\* TypeError, a gateway without the bearer keyword, and one that is one already.
GatewayRaises ==
    /\ request # NoRequest
    /\ \E raised \in {"WorkContextMintError", "TypeError", "Exception", "BaseException"} :
         outcome' = IF raised = "Exception" THEN "WorkContextMintError" ELSE raised
    /\ request' = NoRequest
    /\ UNCHANGED <<now, held, header, verdict>>

\* A token that cannot be attached raises and leaves the headers as they were.
Attach(context) ==
    /\ context \in held
    /\ IF Attachable(context.shape)
       THEN header' = context /\ UNCHANGED outcome
       ELSE outcome' = "ValueError" /\ UNCHANGED header
    /\ UNCHANGED <<now, request, held, verdict>>

\* A callee of that audience extracts the token and verifies it by its own clock; key
\* and signature are good.
Present(callee, drift) ==
    /\ header # NoContext
    /\ verdict' =
         [result |-> IF /\ ShapeValid(header.shape)
                        /\ WindowValid(header.window) /\ Active(header.window, now + drift)
                        /\ header.audience = callee
                     THEN "accepted" ELSE "refused",
          at |-> now, for |-> callee, context |-> header]
    /\ UNCHANGED <<now, request, held, outcome, header>>

Tick ==
    /\ now' \in {t \in Instants : t > now}
    /\ UNCHANGED <<request, held, outcome, header, verdict>>

Next ==
    \/ \E ttl \in Ttls :
         \/ \E audience \in Audiences :
              StartTask(audience, ttl) \/ \E c \in held : ExchangeAudience(c, audience, ttl)
         \/ \E c \in held, audience \in Audiences \union {""} : Renew(c, audience, ttl)
    \/ Issues \/ GatewayRaises \/ Tick
    \/ \E c \in held : Attach(c)
    \/ \E callee \in Audiences, drift \in Drifts : Present(callee, drift)

Spec == Init /\ [][Next]_vars

-----------------------------------------------------------------------------
Request == [method: {"StartTask", "ExchangeAudience", "RenewWorkContext"},
            audience: Audiences \union {"kept"}, parent: Context \union {NoContext},
            seconds: Int, meant: Audiences, asked: Ttls]

\* Every variable has its type; a request's parent is absent only in start_task.
TypeOK ==
    /\ now \in Instants
    /\ request = NoRequest \/
         /\ request \in Request
         /\ request.method # "StartTask" => request.parent \in Context
    /\ held \subseteq Context
    /\ outcome \in {"none", "issued", "ValueError", "TypeError", "WorkContextMintError",
                    "BaseException"}
    /\ header = NoContext \/ header \in Context
    /\ verdict = NoVerdict \/
         /\ verdict \in [result: {"accepted", "refused"}, at: Instants, for: Audiences,
                         context: Context]

\* Whatever lifetime the mint side let through, and however often the context was
\* exchanged or renewed on the way, a callee it was meant for refuses it for nothing
\* but its expiry: the two sides' caps, roundings and ideas of a token agree.
UsableUntilItExpires ==
    verdict.result = "refused" =>
        \/ verdict.for # verdict.context.meant
        \/ verdict.at > verdict.context.window.expiresAt

\* The authority never gets a request it must refuse for its form: no lifetime of zero
\* or beyond the cap, no audience that is there and empty.
RequestsAreWellFormed == request # NoRequest => WellFormed(request)

\* A context lives as long as it was asked to, to the nearest second, and the default
\* if it was not said how long.
LifetimeAsAsked ==
    \A c \in held :
       LET lifetime == (c.window.expiresAt - c.window.issuedAt) * Second IN
       /\ 2 * (lifetime - Resolved(c.asked)) <= Second
       /\ 2 * (Resolved(c.asked) - lifetime) <= Second

=============================================================================

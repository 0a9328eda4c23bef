---------------------------- MODULE MintClientProofs ----------------------------
(***************************************************************************)
(* What MintClient's run shows for a handful of lifetimes, proved for      *)
(* every duration a caller may ask for, every clock and every drift within *)
(* the skew, every set of callees and any number of contexts.              *)
(*                                                                         *)
(* The argument. Rounding moves a duration by at most half a second, and   *)
(* the cap is compared after it, so what is sent is inside the cap the     *)
(* callee enforces (Sendable). A context keeps the window and the callee   *)
(* its request named (Issued), and only tokens of the right shape are ever *)
(* attached; so all that is left for a callee to refuse is the expiry.     *)
(***************************************************************************)
EXTENDS MintClient, TLAPS

\* A request is in flight with the lifetime and the callee its caller meant.
Sendable(q) ==
    /\ q.seconds = TtlSeconds(q.asked) /\ q.seconds \in 1 .. MintTtl
    /\ q.audience = "kept" =>
         /\ q.method = "RenewWorkContext" /\ q.parent \in held
         /\ q.meant = q.parent.meant
    /\ q.audience # "kept" => q.meant = q.audience
    /\ q.method # "StartTask" => q.parent \in held

\* A context is what was asked for, from the moment it was issued on.
Issued(c) ==
    /\ c.audience = c.meant
    /\ c.window.notBefore = c.window.issuedAt
    /\ c.window.expiresAt = c.window.issuedAt + TtlSeconds(c.asked)
    /\ TtlSeconds(c.asked) \in 1 .. MintTtl

\* Nothing was presented before it was issued.
Presented ==
    /\ header # NoContext => header \in held /\ Attachable(header.shape)
    /\ verdict.result = "refused" =>
        \/ verdict.for # verdict.context.meant
        \/ verdict.at > verdict.context.window.expiresAt

\* The inductive invariant.
IInv ==
    /\ TypeOK
    /\ request # NoRequest => Sendable(request)
    /\ \A c \in held : Issued(c) /\ c.window.issuedAt <= now
    /\ Presented

-----------------------------------------------------------------------------
LEMMA Division ==
    ASSUME NEW n \in Int, NEW d \in Nat \ {0}
    PROVE  /\ n \div d \in Int /\ (n % d) \in 0 .. d - 1
           /\ n = (n \div d) * d + (n % d)
  <1>1. n \div d \in Int
    OBVIOUS
  <1>2. (n % d) \in 0 .. d - 1
    OBVIOUS
  <1>3. n = (n \div d) * d + (n % d)
    OBVIOUS
  <1>4. QED BY <1>1, <1>2, <1>3

\* Python's round moves a number of microseconds by at most half a second.
LEMMA RoundingIsClose ==
    ASSUME NEW us \in Int
    PROVE  /\ Rounded(us) \in Int
           /\ 2 * (Rounded(us) * Second - us) <= Second
           /\ 2 * (us - Rounded(us) * Second) <= Second
  <1> DEFINE whole == us \div Second
             rest == us % Second
  <1>1. Second \in Nat \ {0}
    BY DEF Second
  <1>2. /\ whole \in Int /\ rest \in 0 .. Second - 1
        /\ us = whole * Second + rest
    BY <1>1, Division
  <1>3. \/ Rounded(us) = whole /\ 2 * rest <= Second
        \/ Rounded(us) = whole + 1 /\ 2 * rest >= Second
    BY <1>1, <1>2 DEF Rounded
  <1> HIDE DEF whole, rest
  <1>4. (whole + 1) * Second = whole * Second + Second
    BY <1>1, <1>2
  <1>5. whole * Second \in Int
    BY <1>1, <1>2
  <1>6. QED BY <1>1, <1>2, <1>3, <1>4, <1>5

\* What is sent for a lifetime is an integer.
LEMMA SecondsAreIntegers ==
    ASSUME NEW ttl \in Ttls
    PROVE  Resolved(ttl) \in Int /\ TtlSeconds(ttl) \in Int
  <1>1. Resolved(ttl) \in Int
    BY LifetimesAssumption DEF Resolved, Second
  <1>2. QED BY <1>1, RoundingIsClose DEF TtlSeconds

-----------------------------------------------------------------------------
LEMMA InvariantInit == Init => IInv
  <1>1. Init => TypeOK
    BY DEF Init, TypeOK
  <1>2. Init => Presented
    <2>1. NoVerdict.result = "none"
      BY DEF NoVerdict
    <2>2. QED BY <2>1 DEF Init, Presented
  <1>3. QED BY <1>1, <1>2 DEF Init, IInv

\* _mint's three callers: what they put into a request.
LEMMA MintKeeps ==
    ASSUME IInv, NEW ttl \in Ttls, NEW meant \in Audiences, NEW audience, NEW parent,
           NEW method \in {"StartTask", "ExchangeAudience", "RenewWorkContext"},
           method # "StartTask" => parent \in held,
           method = "StartTask" => parent = NoContext,
           \/ audience = meant
           \/ audience = "kept" /\ method = "RenewWorkContext" /\ meant = parent.meant,
           Mint(method, audience, parent, meant, ttl)
    PROVE  IInv'
  <1>1. CASE ~ TtlAccepted(ttl)
    BY <1>1 DEF Mint, IInv, TypeOK, Sendable, Presented
  <1>2. CASE TtlAccepted(ttl)
    <2>1. TtlSeconds(ttl) \in 1 .. MintTtl
      BY <1>2, SecondsAreIntegers, LifetimesAssumption DEF TtlAccepted
    <2>2. request' = [method |-> method, audience |-> audience, parent |-> parent,
                      seconds |-> TtlSeconds(ttl), meant |-> meant, asked |-> ttl]
      BY <1>2 DEF Mint
    <2>3. UNCHANGED <<now, held, outcome, header, verdict>>
      BY <1>2 DEF Mint
    <2>4. parent \in Context \union {NoContext}
      BY DEF IInv, TypeOK
    <2>5. request' \in Request
      BY <2>1, <2>2, <2>4, SecondsAreIntegers DEF Request
    <2>6. TypeOK'
      BY <2>2, <2>3, <2>5 DEF IInv, TypeOK
    <2>7. Sendable(request)'
      BY <2>1, <2>2, <2>3, AudiencesAssumption DEF Sendable
    <2>8. Presented' /\ (\A c \in held : Issued(c) /\ c.window.issuedAt <= now)'
      BY <2>3 DEF IInv, Presented, Issued
    <2>9. QED BY <2>6, <2>7, <2>8 DEF IInv
  <1>3. QED BY <1>1, <1>2

\* Every step keeps the invariant.
LEMMA StepsKeep ==
    ASSUME IInv, [Next]_vars
    PROVE  IInv'
  <1>1. ASSUME NEW ttl \in Ttls, NEW audience \in Audiences, StartTask(audience, ttl)
        PROVE  IInv'
    BY <1>1, MintKeeps DEF StartTask
  <1>2. ASSUME NEW ttl \in Ttls, NEW audience \in Audiences, NEW c \in held,
               ExchangeAudience(c, audience, ttl)
        PROVE  IInv'
    BY <1>2, MintKeeps DEF ExchangeAudience
  <1>3. ASSUME NEW ttl \in Ttls, NEW audience \in Audiences \union {""}, NEW c \in held,
               Renew(c, audience, ttl)
        PROVE  IInv'
    <2>1. c.meant \in Audiences
      BY DEF IInv, TypeOK, Context
    <2>2. CASE audience = ""
      BY <1>3, <2>1, <2>2, MintKeeps DEF Renew, RenewAudience
    <2>3. CASE audience # ""
      BY <1>3, <2>3, MintKeeps DEF Renew, RenewAudience
    <2>4. QED BY <2>2, <2>3
  <1>4. ASSUME Issues
        PROVE  IInv'
    <2>1. PICK shape \in Shapes :
            held' = held \union
              {[audience |-> IF request.audience = "kept" THEN request.parent.audience
                             ELSE request.audience,
                window |-> [notBefore |-> now, issuedAt |-> now,
                            expiresAt |-> now + request.seconds],
                shape |-> shape, meant |-> request.meant, asked |-> request.asked]}
      BY <1>4 DEF Issues
    <2> DEFINE audience == IF request.audience = "kept" THEN request.parent.audience
                           ELSE request.audience
               window == [notBefore |-> now, issuedAt |-> now,
                          expiresAt |-> now + request.seconds]
               new == [audience |-> audience, window |-> window, shape |-> shape,
                       meant |-> request.meant, asked |-> request.asked]
    <2>2. /\ request \in Request /\ Sendable(request)
          /\ UNCHANGED <<now, header, verdict>> /\ request' = NoRequest /\ outcome' = "issued"
      BY <1>4 DEF Issues, IInv, TypeOK
    <2>3. now \in Int /\ request.seconds \in Int
      BY <2>2, ClocksAssumption DEF IInv, TypeOK, Request
    <2>4. audience = request.meant /\ audience \in Audiences
      BY <2>2 DEF Sendable, Request, IInv, Issued
    <2>5. new \in Context
      BY <2>1, <2>2, <2>3, <2>4 DEF Context, Window, Request
    <2>6. Issued(new) /\ new.window.issuedAt <= now
      BY <2>2, <2>3, <2>4 DEF Issued, Sendable
    <2>7. held' = held \union {new}
      BY <2>1
    <2>8. TypeOK'
      BY <2>2, <2>5, <2>7 DEF IInv, TypeOK
    <2>9. (\A c \in held : Issued(c) /\ c.window.issuedAt <= now)'
      BY <2>2, <2>6, <2>7 DEF IInv, Issued
    <2>10. Presented'
      BY <2>2, <2>7 DEF IInv, Presented
    <2>11. QED BY <2>2, <2>8, <2>9, <2>10 DEF IInv
  <1>5. ASSUME GatewayRaises
        PROVE  IInv'
    BY <1>5 DEF GatewayRaises, IInv, TypeOK, Presented, Issued
  <1>6. ASSUME NEW c \in held, Attach(c)
        PROVE  IInv'
    BY <1>6 DEF Attach, IInv, TypeOK, Presented, Issued, Sendable
  <1>7. ASSUME NEW callee \in Audiences, NEW drift \in Drifts, Present(callee, drift)
        PROVE  IInv'
    <2> DEFINE c == header
    <2>1. /\ c \in held /\ c \in Context /\ Issued(c) /\ c.window.issuedAt <= now
          /\ ShapeValid(c.shape)
      BY <1>7 DEF Present, IInv, TypeOK, Presented, Attachable, ShapeValid
    <2>2. /\ c.window.notBefore \in Int /\ c.window.issuedAt \in Int
          /\ c.window.expiresAt \in Int /\ now \in Int /\ drift \in -Skew .. Skew
      BY <2>1, ClocksAssumption DEF Context, Window, IInv, TypeOK
    <2>3. WindowValid(c.window)
      BY <2>1, <2>2, LifetimesAssumption DEF Issued, WindowValid
    <2>4. now <= c.window.expiresAt => Active(c.window, now + drift)
      BY <2>1, <2>2, ClocksAssumption DEF Issued, Active
    <2>5. Presented'
      BY <1>7, <2>1, <2>2, <2>3, <2>4 DEF Present, IInv, Presented, Issued
    <2>6. TypeOK'
      BY <1>7, <2>1 DEF Present, IInv, TypeOK
    <2>7. QED BY <1>7, <2>5, <2>6 DEF Present, IInv, Sendable, Issued
  <1>8. ASSUME Tick
        PROVE  IInv'
    <2>1. /\ now \in Int /\ now' \in Instants /\ now' > now /\ now' \in Int
          /\ UNCHANGED <<request, held, outcome, header, verdict>>
      BY <1>8, ClocksAssumption DEF Tick, IInv, TypeOK
    <2>2. ASSUME NEW c \in held
          PROVE  Issued(c) /\ c.window.issuedAt <= now'
      BY <2>1, <2>2 DEF IInv, TypeOK, Context, Window
    <2>3. QED BY <2>1, <2>2 DEF IInv, TypeOK, Presented, Sendable, Issued
  <1>9. ASSUME UNCHANGED vars
        PROVE  IInv'
    BY <1>9 DEF vars, IInv, TypeOK, Presented, Sendable, Issued
  <1>10. QED
    BY <1>1, <1>2, <1>3, <1>4, <1>5, <1>6, <1>7, <1>8, <1>9 DEF Next

THEOREM Invariance == Spec => []IInv
  BY InvariantInit, StepsKeep, PTL DEF Spec

\* Type correctness, for every set of durations, clocks and callees.
THEOREM TypeCorrect == Spec => []TypeOK
  BY Invariance, PTL DEF IInv

\* For every duration a caller asks for and every clock within the skew, the callee a
\* context was meant for refuses it for nothing but its expiry.
THEOREM UsableThroughout == Spec => []UsableUntilItExpires
  <1>1. IInv => UsableUntilItExpires
    BY DEF IInv, Presented, UsableUntilItExpires
  <1>2. QED BY <1>1, Invariance, PTL

\* The conversion of a timedelta never makes a request the authority must refuse for its
\* form.
THEOREM RequestsValid == Spec => []RequestsAreWellFormed
  <1>1. IInv => RequestsAreWellFormed
    BY DEF IInv, TypeOK, Request, Sendable, RequestsAreWellFormed, WellFormed
  <1>2. QED BY <1>1, Invariance, PTL

\* A context lives as long as it was asked to, to the nearest second.
THEOREM LifetimesAsAsked == Spec => []LifetimeAsAsked
  <1>1. ASSUME IInv, NEW c \in held
        PROVE  LET lifetime == (c.window.expiresAt - c.window.issuedAt) * Second IN
               /\ 2 * (lifetime - Resolved(c.asked)) <= Second
               /\ 2 * (Resolved(c.asked) - lifetime) <= Second
    <2>1. /\ c.window.issuedAt \in Int /\ c.asked \in Ttls
          /\ c.window.expiresAt = c.window.issuedAt + TtlSeconds(c.asked)
      BY <1>1 DEF IInv, TypeOK, Context, Window, Issued
    <2>2. Resolved(c.asked) \in Int /\ TtlSeconds(c.asked) \in Int
      BY <2>1, SecondsAreIntegers
    <2>3. c.window.expiresAt - c.window.issuedAt = TtlSeconds(c.asked)
      BY <2>1, <2>2
    <2>4. QED BY <2>2, <2>3, RoundingIsClose DEF TtlSeconds
  <1>2. IInv => LifetimeAsAsked
    BY <1>1 DEF LifetimeAsAsked
  <1>3. QED BY <1>2, Invariance, PTL

=============================================================================

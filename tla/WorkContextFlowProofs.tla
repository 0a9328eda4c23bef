-------------------------- MODULE WorkContextFlowProofs --------------------------
(***************************************************************************)
(* What WorkContextFlow's run shows for two requests, proved for any       *)
(* number of requests, contexts, revisions, lifetimes and skews.           *)
(*                                                                         *)
(* The argument. A request's context verified when its check began         *)
(* (Carried), and the revision it carries was then current if the check    *)
(* returned (RevisionCheckProofs); a check that returned did so within its *)
(* budget, and the handler acts before the clock moves on (Fresh). So what *)
(* ends a context's validity, its supersession or its expiry, can precede  *)
(* an action by no more than one budget.                                   *)
(***************************************************************************)
EXTENDS WorkContextFlow, RevisionCheckProofs

USE DEF Awaits, Running, Set, Outcomes

\* The context of a request that was begun.
Carried(c) ==
    pc[c] # "idle" =>
      /\ token[c] \in Token /\ token[c].revision = claims[c]
      /\ begunAt[c] <= now
      /\ begunAt[c] <= supersededAt[since[c]]
      /\ begunAt[c] <= token[c].window.issuedAt + MaxTtl + 2 * Skew

\* A request whose check returned has not waited.
Fresh(c) ==
    c \in ready => pc[c] # "idle" /\ verdict[c] = "granted" /\ now <= begunAt[c] + Timeout

\* Only past revisions are superseded, and what was done lies in the past.
Timeline ==
    /\ \A r \in revision .. MaxRevision : supersededAt[r] = MaxTime
    /\ lastAct # NoAct => lastAct.at <= now

\* The inductive invariant, beside RevisionCheck's.
FlowInv ==
    /\ FlowTypeOK /\ Timeline
    /\ \A c \in Checks : Carried(c) /\ Fresh(c)
    /\ RevokedWithinBudget /\ ActsWithinLifetime

-----------------------------------------------------------------------------
\* A step of a check changes neither clocks nor claims, nor another check.
LEMMA ServeFrame ==
    ASSUME TypeOK, NEW c \in Checks, Serve(c)
    PROVE  /\ pc[c] # "idle" /\ UNCHANGED <<loopVars, callVars>>
           /\ \A d \in Checks : pc[d] # "idle" <=> pc'[d] # "idle"
           /\ \A d \in Checks \ {c} : verdict'[d] = verdict[d]
  <1> USE DEF TypeOK, loopVars, callVars
  <1>1. CASE NotSent(c) \/ SentOnClosed(c) \/ RpcReturns(c) \/ ClosedUnder(c)
    BY <1>1 DEF NotSent, SentOnClosed, RpcReturns, ClosedUnder, Conclude
  <1>2. CASE CredentialArrives(c) \/ Return(c) \/ Judge(c) \/ Connects(c)
    BY <1>2 DEF CredentialArrives, Return, Judge, Connects
  <1>3. CASE TransportFails(c) \/ Release(c) \/ ReleaseFails(c)
    BY <1>3 DEF TransportFails, Release, ReleaseFails, Conclude, Forgotten, Finally
  <1>4. CASE HeadersArrive(c) \/ PartArrives(c) \/ BodyEnds(c)
    BY <1>4 DEF HeadersArrive, PartArrives, BodyEnds, Finally
  <1>5. CASE Expire(c) \/ Cancel(c)
    BY <1>5 DEF Expire, Cancel, Interrupt, Finally
  <1>6. QED BY <1>1, <1>2, <1>3, <1>4, <1>5, OthersAlone DEF Serve, Connect

\* A step of a check whose outcome is known already leaves it as it is.
LEMMA OutcomeStays ==
    ASSUME IInv, NEW c \in Checks, Serve(c), ~ Running(c)
    PROVE  verdict'[c] = verdict[c]
  BY DEF Serve, Connect, NotSent, SentOnClosed, CredentialArrives, TransportFails, Connects,
     HeadersArrive, PartArrives, BodyEnds, Release, ReleaseFails, Forgotten, RpcReturns,
     ClosedUnder, Return, Expire, Cancel, Judge

\* The flow adds nothing to what the revision client does.
LEMMA FlowStepsAreSteps ==
    ASSUME [FlowNext]_allVars
    PROVE  [Next]_vars
  BY DEF FlowNext, Supersede, FlowTick, FlowClose, CheckStep, Act, Issue, Handle, Next, vars,
     allVars

LEMMA FlowBegins == FlowInit => FlowInv
  <1> SUFFICES ASSUME FlowInit PROVE FlowInv
    OBVIOUS
  <1>1. FlowTypeOK
    BY TimesAssumption DEF FlowInit, FlowTypeOK
  <1>2. Timeline
    BY BoundsAssumption DEF FlowInit, Init, Timeline
  <1>3. \A c \in Checks : Carried(c) /\ Fresh(c)
    BY DEF FlowInit, Init, Carried, Fresh
  <1>4. RevokedWithinBudget /\ ActsWithinLifetime
    BY DEF FlowInit, RevokedWithinBudget, ActsWithinLifetime
  <1>5. QED BY <1>1, <1>2, <1>3, <1>4 DEF FlowInv

\* What verify lets through began within the cap and both skews of its issue.
LEMMA VerifiedInTime ==
    ASSUME NEW t \in Token, NEW drift \in Drifts, now \in Int, Verifies(t, drift)
    PROVE  now <= t.window.issuedAt + MaxTtl + 2 * Skew
  BY DriftsAssumption DEF Verifies, WindowValid, Active, Token, Window

\* Every step keeps the invariant.
LEMMA FlowStepsKeep ==
    ASSUME IInv, FlowInv, [FlowNext]_allVars
    PROVE  FlowInv'
  <1> USE DEF loopVars, callVars, flowVars
  <1>1. TypeOK /\ TypeOK' /\ now \in Int /\ revision \in 1 .. MaxRevision
    BY FlowStepsAreSteps, StepsKeep DEF IInv, TypeOK
  <1>2. ASSUME Supersede
        PROVE  FlowInv'
    BY <1>1, <1>2, TimesAssumption
       DEF Supersede, Revise, TypeOK, FlowInv, FlowTypeOK, Timeline, Carried, Fresh,
           RevokedWithinBudget, ActsWithinLifetime
  <1>3. ASSUME FlowTick
        PROVE  FlowInv'
    BY <1>1, <1>3, TimesAssumption
       DEF FlowTick, Tick, TypeOK, FlowInv, FlowTypeOK, Timeline, Carried, Fresh,
           RevokedWithinBudget, ActsWithinLifetime
  <1>4. ASSUME FlowClose
        PROVE  FlowInv'
    BY <1>4
       DEF FlowClose, Close, FlowInv, FlowTypeOK, Timeline, Carried, Fresh,
           RevokedWithinBudget, ActsWithinLifetime
  <1>5. ASSUME NEW ttl \in 1 .. MaxTtl + 1, Issue(ttl)
        PROVE  FlowInv'
    <2>1. [revision |-> revision, window |-> [notBefore |-> now, issuedAt |-> now,
                                             expiresAt |-> now + ttl]] \in Token
      BY <1>1 DEF Token, Window
    <2>2. QED
      BY <1>5, <2>1
         DEF Issue, vars, FlowInv, FlowTypeOK, Timeline, Carried, Fresh,
             RevokedWithinBudget, ActsWithinLifetime
  <1>6. ASSUME NEW c \in Checks, CheckStep(c)
        PROVE  FlowInv'
    <2>1. /\ UNCHANGED <<loopVars, callVars, tokens, token, supersededAt, lastAct>>
          /\ pc[c] # "idle"
          /\ \A d \in Checks : pc[d] # "idle" <=> pc'[d] # "idle"
          /\ \A d \in Checks \ {c} : verdict'[d] = verdict[d]
      BY <1>1, <1>6, ServeFrame DEF CheckStep
    <2>2. verdict[c] = "none" \/ verdict'[c] = verdict[c]
      BY <1>6, OutcomeStays DEF CheckStep, IInv, Sound, Ended
    <2>3. c \in ready' /\ c \notin ready
            => verdict'[c] = "granted" /\ now <= begunAt[c] + Timeout
      BY <1>6, FlowStepsAreSteps, DecisionStep DEF CheckStep
    <2>4. c \in ready => verdict'[c] = verdict[c]
      BY <2>2 DEF FlowInv, Fresh
    <2>5. \A d \in Checks : Fresh(d)'
      BY <1>6, <2>1, <2>3, <2>4 DEF CheckStep, FlowInv, Fresh
    <2>6. \A d \in Checks : Carried(d)'
      BY <2>1 DEF FlowInv, Carried
    <2>7. FlowTypeOK'
      BY <1>6, <2>1 DEF CheckStep, FlowInv, FlowTypeOK
    <2>8. QED
      BY <2>1, <2>5, <2>6, <2>7
         DEF FlowInv, Timeline, RevokedWithinBudget, ActsWithinLifetime
  <1>7. ASSUME NEW c \in Checks, NEW t \in tokens, NEW drift \in Drifts, Handle(c, t, drift)
        PROVE  FlowInv'
    <2>1. t \in Token /\ now <= t.window.issuedAt + MaxTtl + 2 * Skew
      BY <1>1, <1>7, VerifiedInTime DEF Handle, FlowInv, FlowTypeOK
    <2>2. supersededAt[revision] = MaxTime /\ now <= MaxTime
      BY <1>1 DEF FlowInv, Timeline, TypeOK
    <2>3. \A d \in Checks : Carried(d)'
      BY <1>1, <1>7, <2>1, <2>2 DEF Handle, Check, TypeOK, FlowInv, FlowTypeOK, Carried
    <2>4. \A d \in Checks : Fresh(d)'
      BY <1>1, <1>7 DEF Handle, Check, TypeOK, FlowInv, Fresh
    <2>5. QED
      BY <1>7, <2>1, <2>3, <2>4
         DEF Handle, Check, FlowInv, FlowTypeOK, Timeline, RevokedWithinBudget,
             ActsWithinLifetime
  <1>8. ASSUME NEW c \in Checks, Act(c)
        PROVE  FlowInv'
    <2> DEFINE t == token[c]
    <2>1. /\ pc[c] # "idle" /\ verdict[c] = "granted" /\ now <= begunAt[c] + Timeout
          /\ t \in Token /\ t.revision = claims[c]
          /\ begunAt[c] <= supersededAt[since[c]]
          /\ begunAt[c] <= t.window.issuedAt + MaxTtl + 2 * Skew
      BY <1>8 DEF Act, FlowInv, Fresh, Carried
    <2>2. claims[c] = since[c]
      BY <2>1 DEF IInv, Sound, Backed, WordFor, Judged
    <2>3. /\ begunAt[c] \in Int /\ supersededAt[t.revision] \in Int
          /\ t.window.issuedAt \in Int
      BY <1>1, <2>1, TimesAssumption DEF TypeOK, Token, Window, FlowInv, FlowTypeOK
    <2>4. lastAct' = [token |-> t, at |-> now] /\ UNCHANGED <<vars, tokens, token, supersededAt>>
      BY <1>8 DEF Act
    <2>5. RevokedWithinBudget'
      BY <1>1, <2>1, <2>2, <2>3, <2>4, TimesAssumption DEF RevokedWithinBudget, vars
    <2>6. ActsWithinLifetime'
      BY <1>1, <2>1, <2>3, <2>4, TimesAssumption, DriftsAssumption DEF ActsWithinLifetime, vars
    <2>7. FlowTypeOK' /\ Timeline'
      BY <1>1, <1>8, <2>1, <2>4 DEF Act, TypeOK, FlowInv, FlowTypeOK, Timeline, vars
    <2>8. \A d \in Checks : Carried(d)' /\ Fresh(d)'
      BY <1>8, <2>4 DEF Act, FlowInv, Carried, Fresh, vars
    <2>9. QED BY <2>5, <2>6, <2>7, <2>8 DEF FlowInv
  <1>9. ASSUME UNCHANGED allVars
        PROVE  FlowInv'
    BY <1>9
       DEF allVars, vars, FlowInv, FlowTypeOK, Timeline, Carried, Fresh,
           RevokedWithinBudget, ActsWithinLifetime
  <1>10. QED
    BY <1>2, <1>3, <1>4, <1>5, <1>6, <1>7, <1>8, <1>9 DEF FlowNext

\* A request's check behaves as it does alone, whatever the rest of the flow does.
THEOREM FlowImplementsChecks == FlowSpec => Spec
  <1>1. FlowInit => Init
    BY DEF FlowInit
  <1>2. QED BY <1>1, FlowStepsAreSteps, PTL DEF FlowSpec, Spec

\* So the contract of a single check holds of every check a request makes, while contexts
\* are issued, superseded and acted upon around it: its decision is the authority's own,
\* about the claims that were verified, and made while it ran.
THEOREM FlowChecksAreCurrent == FlowSpec => ImplementsCurrentAuthority
  BY FlowImplementsChecks, Refinement, PTL

THEOREM FlowInvariance == FlowSpec => []FlowInv
  BY FlowBegins, FlowStepsKeep, FlowImplementsChecks, Invariance, PTL DEF FlowSpec

\* Type correctness of the flow, for every number of requests, contexts and revisions.
THEOREM FlowTypeCorrect == FlowSpec => []FlowTypeOK
  BY FlowInvariance, PTL DEF FlowInv

\* Verify and check together: nothing is done under a context later than one budget
\* after its revision was superseded.
THEOREM RevocationBounded == FlowSpec => []RevokedWithinBudget
  BY FlowInvariance, PTL DEF FlowInv

\* Verify and check together: nothing is done under a context later than the lifetime
\* cap, both skews and one budget after its issue.
THEOREM LifetimeBounded == FlowSpec => []ActsWithinLifetime
  BY FlowInvariance, PTL DEF FlowInv

=============================================================================

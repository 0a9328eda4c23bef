--------------------------- MODULE WorkContextFlow ---------------------------
(***************************************************************************)
(* A callee that acts on Work Contexts: for each request it verifies the   *)
(* token, has the revision client check that the claims are current, and   *)
(* acts if the check returns - the order in which README.md puts them.     *)
(* Verifier (time claims, ClaimsWindow) and the revision client            *)
(* (RevisionCheck) are the SDK's; the authority, which issues contexts     *)
(* and supersedes revisions meanwhile, and the callee's handler are not    *)
(* under src/.                                                             *)
(*                                                                         *)
(* A token may be presented any number of times, by any request, early or  *)
(* late. The authority's clock is the time; the callee's wall clock may be *)
(* off by its skew either way, from one request to the next. One tick of   *)
(* the loop's clock is one unit of the time claims.                        *)
(***************************************************************************)
EXTENDS RevisionCheck, ClaimsWindow

CONSTANTS
    Drifts,     \* how far the callee's wall clock may be off
    MaxTokens   \* bound: contexts the authority issues

ASSUME DriftsAssumption == Skew \in Nat /\ MaxTtl \in Nat /\ Drifts \subseteq -Skew .. Skew

VARIABLES
    tokens,        \* the contexts issued so far
    token,         \* the context each request carried
    ready,         \* the requests whose check returned and that have not yet acted
    \* What the properties remember; no action reads it.
    supersededAt,  \* when each revision was superseded
    lastAct        \* what was done last, under which context and when, or NoAct

flowVars == <<tokens, token, ready, supersededAt, lastAct>>
allVars == <<vars, flowVars>>

Token == [revision: 1 .. MaxRevision, window: Window]
NoToken == [revision |-> 0]
NoAct == [token |-> NoToken]

\* verify, as far as the time claims go.
Verifies(t, drift) == WindowValid(t.window) /\ Active(t.window, now + drift)

-----------------------------------------------------------------------------
FlowInit ==
    /\ Init
    /\ tokens = {} /\ token = [c \in Checks |-> NoToken] /\ ready = {}
    /\ supersededAt = [r \in 1 .. MaxRevision |-> MaxTime] /\ lastAct = NoAct

\* The authority issues a context under the current revision; verify enforces the cap
\* on its lifetime, so a longer one may be issued too.
Issue(ttl) ==
    /\ Cardinality(tokens) < MaxTokens
    /\ tokens' = tokens \union
         {[revision |-> revision,
           window |-> [notBefore |-> now, issuedAt |-> now, expiresAt |-> now + ttl]]}
    /\ UNCHANGED <<vars, token, ready, supersededAt, lastAct>>

Supersede ==
    /\ Revise
    /\ supersededAt' = [supersededAt EXCEPT ![revision] = now]
    /\ UNCHANGED <<tokens, token, ready, lastAct>>

\* A request: verify, and with the claims it returned, check.
Handle(c, t, drift) ==
    /\ t \in tokens /\ Verifies(t, drift) /\ c \notin ready
    /\ Check(c) /\ claims'[c] = t.revision
    /\ token' = [token EXCEPT ![c] = t]
    /\ UNCHANGED <<tokens, ready, supersededAt, lastAct>>

\* A step of the check; if it returns, the handler goes on.
CheckStep(c) ==
    /\ Serve(c)
    /\ ready' = IF verdict[c] = "none" /\ verdict'[c] = "granted" THEN ready \union {c} ELSE ready
    /\ UNCHANGED <<tokens, token, supersededAt, lastAct>>

Act(c) ==
    /\ c \in ready
    /\ ready' = ready \ {c}
    /\ lastAct' = [token |-> token[c], at |-> now]
    /\ UNCHANGED <<vars, tokens, token, supersededAt>>

\* The loop is not blocked between the return of check and what the handler does then.
FlowTick == Tick /\ ready = {} /\ UNCHANGED flowVars

FlowClose == Close /\ UNCHANGED flowVars

FlowNext ==
    \/ Supersede \/ FlowTick \/ FlowClose
    \/ \E ttl \in 1 .. MaxTtl + 1 : Issue(ttl)
    \/ \E c \in Checks :
         \/ CheckStep(c) \/ Act(c)
         \/ \E t \in tokens, drift \in Drifts : Handle(c, t, drift)

FlowSpec == FlowInit /\ [][FlowNext]_allVars

-----------------------------------------------------------------------------
\* Every variable has its type.
FlowTypeOK ==
    /\ tokens \subseteq Token /\ token \in [Checks -> Token \union {NoToken}]
    /\ ready \subseteq Checks
    /\ supersededAt \in [1 .. MaxRevision -> 0 .. MaxTime]
    /\ lastAct \in [token: Token, at: 0 .. MaxTime] \union {NoAct}

\* Revocation takes effect within one budget: nothing is done under a context later
\* than TIMEOUT after the authority superseded its revision, although the token verifies
\* until it expires and the authority answered before it was superseded.
RevokedWithinBudget ==
    lastAct # NoAct => lastAct.at <= supersededAt[lastAct.token.revision] + Timeout

\* A context is good for the cap, whatever lifetime it was issued with, the skew of both
\* clocks and one budget - and for nothing done after that.
ActsWithinLifetime ==
    lastAct # NoAct => lastAct.at <= lastAct.token.window.issuedAt + MaxTtl + 2 * Skew + Timeout

=============================================================================

# Verification of saas-sdk-python

TLA+ models of the SDK in `src/src/saas_sdk`, checked with TLC on small
instances and, for the modules named below, proved with TLAPS for every value of
their constants. Paths below are relative to the repository; `work_context.py`,
`datasource.py`, `_datasource_errors.py`, `_datasource_types.py` and
`authorization_revision.py` are in `src/saas_sdk`.

## The system

The SDK is a library. It opens no connection of its own except to the JWKS
endpoint and to the revision service; everything else goes through a *gateway*
the solution runtime injects. Its parts:

| Part | State it keeps | Operations | Modelled by |
|---|---|---|---|
| `JWKSVerifier` (work_context.py:333) | cached keys, their expiry and generation, the generation whose unknown-key refresh is spent, a held failure; one lock | `verify`, `refresh` | `JwksVerifier` |
| `Verifier` (work_context.py:246) | none after construction | `verify` | `ClaimsWindow` (time), `WorkContextClaims` (structure), `JwksVerifier` (verdict) |
| Claims: validation, attenuation, `require_scope` (work_context.py:308, 650-759) | none; claims are values | `_validate_work_context`, `require_scope` | `WorkContextClaims` |
| Mint client (work_context.py:859) | none | `start_task`, `exchange_audience`, `renew`, `attach` | `MintClient` |
| Source operations (datasource.py:205-298, 348-488) | none: the caller and the host keep all of it | `invoke`, `lookup`, `declare_operations`, `list_operations` | `DatasourceClient`, `DatasourceEffects`, `SourceAdmin` |
| Connections (datasource.py:144-203) | none | `add_github_source`, `list_sources`, `sync` | no |
| Connect error mapper (\_datasource\_errors.py) | none | `map_error` | `DatasourceClient` |
| Revision clients (authorization\_revision.py) | a channel or an HTTP client | `check`, `aclose` | `RevisionCheck` |
| A callee that verifies, checks and acts (README.md:294-346) | none of its own | a request | `WorkContextFlow` |

How they meet: request threads of a callee share one `JWKSVerifier`; it hands
each a `Verifier` over the cached keys, whose claims the callee gives to
`require_scope` and, if it wants current authority, to a revision client. The
contexts it verifies were minted, exchanged or renewed by a delegated caller
through the mint client. A
caller of source operations drives `invoke` and `lookup` with one effect id;
every answer of its gateway passes the error mapper or `_operation_result`.

What is hard, and what would make each part correct:

* **Key cache.** Threads look at the cache, leave the lock, and come back; a
  fetch is made with the lock held; keys rotate meanwhile. Correct: no key older
  than the ones known when the call began, none expired when it began, one
  fetch per window for unknown key ids and one per back-off during an outage,
  a rotated key is still found, no outage is reported that is over, and
  everybody gets an answer.
* **Effects.** Requests and replies are lost, late or answered by a proxy; the
  caller crashes; the declaration goes away. Correct: a caller that follows the
  README's recovery protocol gets its effect at most once and is never told
  what is not so.
* **Claims.** The chain is checked link by link, an empty list of resources means
  all of them, the lifetime cap and the window are separate checks. Correct:
  delegation never amplifies, one that only narrows is never refused, and no token
  outlives its cap.
* **Revision check.** One budget over the credential, a pool, a connection and a
  body that arrives in parts; cancellation by a timer, by the caller and by
  `aclose` at any of these awaits. Correct: only the authority's own answer,
  about these claims and in time, lets a call through; a cancelled caller hears
  that it is; no connection is kept; every check ends.
* **Mint and verify.** Two sides with a cap, a rounding and an idea of a token
  each. Correct: what one side lets through the other does not refuse.
* **Declarations.** Two conversions in opposite directions, a whole set at a time,
  over a network that loses replies. Correct: listing and declaring are inverse,
  nothing is declared in part, and a return means that it was admitted.
* **All of a request.** Verification, check and action at three different times.
  Correct: a revocation takes effect within a known time.

`PROJECT.json` lists the hazards at their lines, with the properties that
would notice each going wrong.

## Modules

**`JwksVerifier`** - `JWKSVerifier` shared by `Threads`. The variables `verifier`,
`generation`, `unknownRefreshGeneration`, `expiresAt`, `retryAfter`, `lastError`
and `lock` are the attributes of those names; a key set is the number (epoch) of
the set in the authority's `Schedule` that it was published in. A section
under the lock without I/O is one action; a fetch is three: it is begun with
the lock taken (`CurrentStartsFetch`, `UnknownStartsFetch`,
`RefreshStartsFetch`), answered by the endpoint with what it publishes at that
moment (`Answer`), and finished (`...Installs`), or it ends without a key set at
any point (`FetchFails`: `WorkContextError`; `FetchBreaks`: any other exception
of `response.read`). The verdict is given from the thread's snapshot, outside
the lock (`Judge`); signature, claims and time window are a free choice there.
`unknownFetches`, `failedAt`, `brokenAt` and `hurried` only remember what
happened, for the properties. The resets of `_unknown_refresh_generation`
to 0 (lines 394 and 417) are modelled, although the verifier would
behave the same without them: a new generation never equals an old reservation.

**`KeyAuthority`** - the abstract specification of that component: what is known
only moves forward and was published, and a token is admitted only under a key
set at least as new as the one known when its call began. `ImplementsAuthority`
is the refinement.

**`DatasourceClient`** - the error mapper, `_rpc`, `_operation_result`, `invoke` and
`lookup` as operators from the way a gateway call ended to the outcome its
caller sees: the exception or value, and the receipt evidence it carries. The SDK
keeps no state, so there is none here. Base64 details and diagnostic fields are
left out; no outcome depends on them. The runs of `DatasourceEffects` and `SourceAdmin` meet
the answers their hosts and proxies give; `DatasourceClientProofs` holds the README's rules on
evidence against every answer there is.

**`DatasourceEffects`** - one intended effect: a caller with the protocol that
`invoke`'s docstring and the README's section on recovery ask for, the network, and
the host with its attempt markers. The actions `Invoke`, `Lookup`,
`InvokeNotDispatched`, `InvokeReturns` and `LookupReturns` are the SDK's; the
rest is outside this repository and modelled from what the README says of it.
The caller concludes *committed* from a COMMITTED receipt (returned or carried
by an exception), and *refused* from a refusal of its first request only ("a
refusal of this request does not establish the outcome of an earlier attempt");
in every other case it looks the same id up, and invokes again only after
`EffectNotFound`. After a refusal it may start over with a new id.

Two assumptions about what is outside: a host that answers a refusal has not
started and will not start that request; and whoever answers 403 in JSON without a
Connect code did not forward the request. The second matters because the SDK takes
that answer for `NotPermitted`, as Connect-Go does; every other answer of a proxy
leaves the effect unknown in the code, and may be given here at any time.

**`OneEffect`** - what that adds up to: the effect happens at most once, is
reported committed only afterwards, and refused only if it did not and will not
happen. `ImplementsOneEffect` is the refinement.

**`SourceAdmin`** - `declare_operations` and `list_operations` between admins and
the host. `Fields` and `Listed` are the two conversions, `Converted` the
comprehension in `declare_operations`, which yields all of the operations or
none; `Declare` and `List` begin a call, `DeclareReturns`, `ListReturns` and
`ListFails` end it with the outcome `DatasourceClient` gives it. A declaration its
admin has given up on may still arrive. An operation is its name, its effect and
whether its schemas are objects. `listedAt` and `basis` remember from which set of
the host's an admin works.

**`ClaimsWindow`** - the time claims and the two checks of them, shared by the
modules that follow.

**`WorkContextClaims`** - `Verifier.verify` after the signature, and
`require_scope`. `CheckStructure` is `_validate_work_context` up to its loop,
`CheckActor` one iteration, with the code's locals `index` and `previous`;
`Accept` is the time check, `Judge` the search of the effective scopes.
`require_scope` may also be called on claims that were never verified.
Resource kinds are numbers, so that they have an order; lists of actions and ids
are sets, and `canonical` says whether the code would find them sorted, unique
and within their limits.

**`MintClient`** - a delegated caller, the authority, and a callee that verifies
what it is presented with. `Mint` is the order of things in `start_task`,
`exchange_audience` and `renew`: the lifetime is converted while the request is
built, so a `ValueError` sends nothing. `Rounded` is Python's `round` (half to
even) on microseconds, `GatewayRaises` the wrapping in `_mint`, `Attachable` and
`ShapeValid` are the two checks of a token's shape. `meant` and `asked` remember
what the caller wanted; the authority issues what was requested, from its own
clock on, and rejects what is not well-formed.

**`RevisionCheck`** - tasks of one event loop that share a client. One action is the
code between two awaits, and `pc` names the await: the credential, httpx's
`pool`, `waiting` for the headers (or the RPC), the `body`, and `release`, the
`aclose` in the `finally` clause. `cancelledBy` says whether wait_for's timer or the
caller threw `CancelledError` into it. Where `waitFor` is `"task"`, the coroutine has a task
of its own, as wait_for gave it before Python 3.12, and `finished` is the turn
of the loop between its end and the caller's resumption; a caller that cancels while
wait_for waits for a task it has cancelled itself is let go at once, and that task is
`left` to close its response alone. From 3.12 on the coroutine runs `"inline"`. `transport` chooses `ConnectClient` or `_GRPCRevision`, which has one await
for the whole RPC and looks at the remaining budget before it. The constant `Clients`
says which of these pairs there are. Responses are what `_check` tells apart in
them. `Revise`, `Judge`, `Connects` and `ClosedUnder` are the authority's, httpx's and
grpc.aio's.

**`CurrentAuthority`** - the abstract specification of a check: it is granted only if the
claims' revision was current at some moment of the check, and denied only if at
some moment of it another one was. `ImplementsCurrentAuthority` is the refinement.

**`WorkContextFlow`** - composes `RevisionCheck` and `ClaimsWindow`: a request verifies a
token (`Verifies`, by a wall clock that may be off by the skew), has its revision
checked, and acts when the check returns (`Act`), while the authority issues
(`Issue`) and supersedes (`Supersede`).

What is assumed of the outside of these three: the authority confirms a revision
if and only if it is current when it decides; nobody else answers with a confirmation or with
one of the two denials; httpx drops the connection of a request that is
interrupted before its response is there; the credential callback and an injected transport
cooperate with cancellation, as README.md asks; and the loop is not blocked, so
that no time passes while a timer is due.

**`...Proofs`** - the theorems about the module of that name. **`MC...`** -
constants, inputs and symmetry for TLC.

Operators named `..._Bug` (and `RemovedEvidence_Presumed`, `RemovedEvidence_Raw`,
`PayloadVerdict_ByStatus`, `RpcVerdict_AnyBody`,
`Interrupt_Swallowed`, `Listed_Swapped`, `Attenuates_Closed`) stand before
the definition they falsify, are used by no specification, and record a mistake
that a property of the runs notices.

## Runs

| Run | Instance | Shows |
|---|---|---|
| `jwks` | 2 threads, 2 key sets of which the second replaces the only key of the first, TTL 1, back-off 2, time to 3, 3 calls, `FairSpec` | type correctness; `OneUnknownFetchPerWindow`, `RevokedStaysRevoked`, `FreshWhenCalled`, `OneHurriedFetch`, `NoFalseOutage`, `RotationRetried`, `ImplementsAuthority`, `CallsReturn` |
| `jwks_never_stale` | 3 threads | finding: `NeverStaleKeys` is violated |
| `jwks_failure_held` | 2 threads | finding: `EveryFailureIsHeld` is violated |
| `effects_safety` | 4 calls, 2 effect ids, every kind of output | type correctness; `AtMostOnce`, `ToldIsTrue`, `EvidenceIsTrue`, `IdentityKept`, `ImplementsOneEffect` |
| `effects_lost_reply` | 2 calls, 1 id | finding: `LostReplyIsAValue` is violated |
| `effects_identity` | 1 call, 1 id | finding: `FailureKeepsIdentity` is violated |
| `source_admin` | 1 admin, 2 operation names, 3 calls | type correctness; `WholeOrNothing`, `ListedIsDeclarable`, `RedeclareChangesNothing`, `ReturnedIsAdmitted` |
| `revision` | 2 checks; Connect with 1 connection and gRPC, each with both kinds of wait_for; budget 1, time to 2, 2 revisions, `FairSpec` | type correctness; `NoStaleGrant`, `ConnectionsReturned`, `CancellationHeard`, `InBudget`, `ImplementsCurrentAuthority`, `ChecksEnd` |
| `revision_cancelled` | 1 check, the same clients | finding: `EveryCancellationHeard` is violated |
| `flow` | 2 requests (symmetric), gRPC, before Python 3.12, 1 token, budget, cap and skew of 1, time to 5, 2 revisions | `RevokedWithinBudget`, `ActsWithinLifetime` |
| `mint` | 5 lifetimes, 2 audiences, 3 clock readings, drifts of -60 and 60, 2 contexts held | type correctness; `UsableUntilItExpires`, `RequestsAreWellFormed`, `LifetimeAsAsked` |
| `claims_scopes` | chains of 0 to 3 actors with a depth limit of 2, 11 scope lists, 3 time windows, 4 clock readings | type correctness; `NoAmplification`, `RefusedForCause`, `AcceptedWithinLifetime` |

Bounds, and why they are enough.

* *jwks.* Two threads are what every race here needs: one that looked and one that
  changed. The third thread of `jwks_never_stale` is the one whose failed fetch
  opens the back-off while a second has already looked. TTL 1 and
  back-off 2 in a time of 3 let a cache expire inside a back-off, a back-off end,
  and a cache be refilled and expire again. Three calls are one to fill the cache and two
  to race; there is no symmetry, which is unsound for `CallsReturn`. The proofs have none of
  these bounds.
* *effects.* Four calls are an invocation, a lookup, a second invocation under
  the same id, and one more under a new id; the fresh start is the only way to
  execute twice, and needs no third id. Late requests stay in `sent` for ever.
* *sources.* Three calls are two declarations, the first of which is late, between
  them a listing; or a listing, and two declarations of what was listed. A late
  declaration is to the host what another admin's is, so one admin is enough. The second
  name is the operation that cannot be converted beside one that can.
* *revision.* The second check is the one that waits for the only connection. A budget
  of 1 has one moment before its deadline, and its deadline; time to 2 lets a check begin one
  later than the other.
  The only part of a body is one that exceeds the bound: a part that does not leaves the
  check where it is, and is left to the proofs. Two
  revisions are one change. `revision_cancelled` needs one check only.
* *mint.* The lifetimes are 0.499999 s, none (the default), 1.5 s (half to even), 900.5 s
  and 900.500001 s: both sides of every boundary of the conversion. Two contexts are a
  parent and what it was exchanged or renewed for.
* *flow.* Time to 5 is more than the cap, two skews and a budget after time 0, so an act
  that is too late is within reach; one token presented by two requests. Its
  client is the gRPC one.
* *claims.* Two actors are the first chain with a middle link; the lists contain
  each way to narrow, to widen and to be malformed. The windows are a lifetime at the cap
  that counts before it is issued, one above the cap and one that contradicts itself; the clock
  reads the first and the last second that the skew admits, and one beyond either end.

**Fairness.** `FairSpec` has weak fairness on each thread's `Step`, nothing on
the clock, the authority, the endpoint or the start of calls. It says that a
scheduled thread runs and that a fetch ends: every socket operation has
`request_timeout`, so it is answered, fails or breaks. `Step` includes waiting for
the lock; weak fairness does not promise the lock to a thread that
others keep overtaking, and in this model they cannot do that for ever, because calls
are finite: starvation by an endless stream of callers is not excluded.

`RevisionCheck`'s `FairSpec` has weak fairness on the clock, on a timer that is due
(`Expire`), on the closing of a response (`Release`) and on joining a finished task
(`Return`): the event loop runs. Nothing is assumed of the provider, the network, the
authority or the caller, so `ChecksEnd` is about the budget alone. That closing a response
ends is an assumption about httpx: its read and write timeouts do not cover it.

Several cfgs have `CHECK_DEADLOCK FALSE`: in these instances the bound on calls or the
clock's last tick stops the system.

## Findings

* `_refresh_unknown` (work\_context.py:422) returns the cache without looking at
  its expiry or at the held failure. A thread that found the cache fresh but
  without its key, and was overtaken by expiry and another thread's failed
  fetch, is judged with expired keys inside the back-off window, where the comment
  at line 135 says "callers inside the window get the cached failure, never stale
  keys". `FreshWhenCalled` is what does hold: the keys had not expired when the
  call began.
* `response.read` (work\_context.py:468) is outside `_fetch`'s `try`. A connection
  that breaks or stalls in the body raises something that is no
  `WorkContextError`: it opens no back-off (line 131: "hold the failure for this
  long instead of re-fetching on the very next request") and reaches the caller
  raw, where README.md:315 promises `WorkContextUnavailable`.
* `map_error` reads the error's body (\_datasource\_errors.py:81) under a clause
  that does not catch `http.client.IncompleteRead`, and the clause of `_rpc` that
  does is a sibling of the one running. `lookup` then raises it, where
  README.md:154 says that a lost reply is returned as `OutcomeUnknown`. `invoke`
  raises it too, but with the effect id and an UNKNOWN receipt (`IdentityKept`). The
  same holds of an error body that is nested too deep for `json.loads`.
* `_operation_result` (datasource.py:474) does not catch `RecursionError`, and runs after
  `_rpc`, whose last clause would add the effect id. A committed effect whose output
  is nested too deep reaches the caller without id or receipt, where README.md:159
  says that every dispatched failure keeps both and README.md:155 promises
  `DatasourceError` with them (run `effects_identity`). `IdentityKept` says that this is the
  only such answer.
* `check` (authorization\_revision.py:176) does not always pass its caller's cancellation on,
  where README.md:356 says "caller cancellation propagates" (run `revision_cancelled`).
  Before Python 3.12 (pyproject.toml asks for 3.10) a cancellation that arrives when the
  inner task has ended and the caller has not yet resumed is swallowed: wait_for
  hands out the result, a grant or a denial included. On every version, with wait_for
  `"inline"`, an exception of `response.aclose()` in the `finally` clause (line 238) replaces
  the `CancelledError` it runs under; the run finds that one when `Clients` is the inline
  kind alone. `CancellationHeard` says that there is no third way, at any await and
  for all four kinds of client.

Observed while modelling, without a run of their own:

* `_check` (authorization\_revision.py:234) does not catch `RecursionError`, which the JSON
  decoder of CPython 3.10 and 3.11 raises for 1000 open brackets; a body of 8192 bytes
  holds them. README.md:363 promises `RevisionUnavailable`. It is the verdict
  `"raw"` of `PayloadVerdict`, which grants and denies nothing.
* `_GRPCRevision.aclose` (authorization\_revision.py:326) cancels the RPCs under way, and
  `CancelledError` passes every clause: a check ends as if its caller had cancelled it
  (`ClosedUnder`).
* `_ttl_seconds` (work\_context.py:1017) rounds before it compares: a lifetime of 900.5
  seconds is sent as 900, where the comment says "Negative and over-cap durations stay hard
  errors". `LifetimeAsAsked` is stated to the half second for it; the authority is never
  asked for more than the cap (`RequestsAreWellFormed`).

## Proofs

All theorems are for every value of the constants under the named assumptions of
the modules: a free thread name, a nonempty schedule of nonempty key sets, a
positive TTL and back-off (`JwksVerifier`); lists of scopes, windows of integers and
natural limits (`WorkContextClaims`); any set of checks and any positive budget and pool
(`RevisionCheck`); equal caps on both sides, a default within them, and drifts within
the skew (`MintClient`, `WorkContextFlow`); any number of calls and ids (`DatasourceEffects`);
any codes, reasons and statuses (`DatasourceClient`); any admins and names of operations, and
any positive number of calls (`SourceAdmin`).

*JwksVerifierProofs.* The properties are not inductive. `IInv` adds
to the type invariant: who fetches holds the lock, and what it was answered was
published and is not older than the cache it will replace (`FetchLocked`); a
cache exists exactly from generation 1 on (`CacheCounted`); an unknown-key fetch
of this window and one begun inside a back-off both leave their generation
reserved (`BudgetKept`, which is what makes the second one impossible); the
back-off is exactly the remembered failure's (`WindowKept`); and what a call
holds is bounded by the cache, the clock and its own beginning (`CallKept`).
From it follow `TypeCorrect`, `UnknownFetchesBounded`, `Revocation`, `Freshness`,
`OutageBounded`, `OutageReal`, the action property `RotationOwed` and the
refinement of `KeyAuthority` (`Refinement`). `FetchesExclude`: no two threads fetch at a time.

*WorkContextClaimsProofs.* `AttenuationNarrows` is the lemma about
`_scopes_attenuate`: an accepted child gives nothing its parent does not. `AttenuationExact`
is the converse too, for lists that `_validate_scopes` lets through: there a kind occurs once
(`KindsAscend`, by the least pair that would be out of order), so the entry that is found for a
kind is the one that was meant. The
loop's invariant (`LoopInv`) says that `previous` is within every hop so far, so
that one more iteration carries it one hop further; at the end the last hop is within
all of them, hence `DelegationNeverAmplifies` for chains of every length.
A chain that is well-formed and only narrows is not stopped in the loop (`HonestPass`), which
is half of `RefusalsHaveCause`; the other half is that a denied scope is missing (`DeniedIsMissing`).
`AcceptanceBounded` is arithmetic over the two checks of time.

*DatasourceEffectsProofs.* The host attempts an id once (`AttemptedOnce`), so executions can
multiply only over ids, and only a caller that has concluded "refused" takes a fresh one.
It concludes so from a refusal of its first request under the id; then no other request is
under way (`Solo`), and no answer that the transport or a proxy makes up is taken for a
refusal or for a commit (lemma `NothingFromTransport`). The invariant says besides that
requests are numbered by the calls made (`Numbered`), that only the current id is open
(`OneIdOpen`), that the answer on its way says what the host knows (`AnswerIsTrue`), and
what has been concluded is so (`Told`). From it follow `TypeCorrect`, `HappensAtMostOnce`,
`ConclusionsAreTrue`, `CommitsAreProven` and the refinement of `OneEffect`.
`IdentityIsKept` needs no assumption about outputs: a failure without evidence can only come
from a committed message nested too deep (lemma `IdentityLost`), and such a message is the host's
about this effect.

*DatasourceClientProofs.* These are about the mapping itself, so no behaviour is involved, and
every answer is covered, whoever gives it. Only a decoded envelope reaches `map_error`'s switch on
codes; every other answer ends in the one way of its kind (`RawOutcomes`). Of what the
switch concludes the envelope said so (`EnvelopeOutcomes`: no HTTP status stands in for
`not_found`), and it says `OutcomeUnknown` for the codes of README.md:148 and 153-154 and for no
others (`EnvelopeOpen`). `invoke` and `lookup` pass that on (`InvokePasses`, `LookupPasses`).
Hence `HostConcludes`; `OpenIsUnknown`, which says of each answer whether it ends as
`OutcomeUnknown`, and that any other failure of `invoke` but one keeps a receipt; and
`NothingIsInvented` for the declaration calls. `OutcomeUnknown` is not the end of every answer
that leaves an effect open: a recognized code the README does not list, `internal` or `aborted`,
stays the gateway's `HTTPError`, with the id and an UNKNOWN receipt on `invoke` and as it is on
`lookup`, and so does a deadline or a cancellation of a lookup (README.md:183-184).

*RevisionCheckProofs.* An answer that grants or denies exists only once the authority has
judged this very request (`Backed`), a judgement falls in the lifetime of its check, and
claims never carry a revision above the one current when the check began: "current" can
only mean that they carried that one (`Judged`). A check under way that nobody cancelled is
inside its budget, because the clock waits for a timer that is due (`Timed`); one that was
cancelled is at most closing a response, with its outcome fixed (`Stopped`); and who
holds a connection is using it (`Pooled`). `GrantsAreCurrent`, `PoolIsReturned`,
`DecisionsInBudget`, `Refinement` and `CancellationPropagates` are for both transports and both
kinds of wait_for. `CancellationPropagates` is an action property: it follows what a step may do
to a check that its caller has cancelled (lemma `CancelledEnds`), and leaves the two exceptions the findings
name. `BudgetEndsWaiting` is the safety half of
`ChecksEnd`: from its deadline on a check waits for no answer, and at most closes a response.

*MintClientProofs.* What `TtlAccepted` lets through is between 1 and the cap and, rounded,
within half a second of what was asked; every context held was issued for such a
request, and `Attachable` and `ShapeValid` agree on what a token is.

*WorkContextFlowProofs.* The flow is `RevisionCheck` with more around it
(`FlowImplementsChecks`), so the contract of a check holds of each of its checks
(`FlowChecksAreCurrent`). Its own invariant adds: a request's context
verified when its check began, before the supersession of the revision then current
(`Carried`), and a check that returned did so within its budget, after which the handler
acts before the clock moves (`Fresh`). What ends a context's validity can therefore precede an
action by one budget at most: `RevocationBounded`, `LifetimeBounded`.

*SourceAdminProofs.* The host is replaced only by a whole converted set, and the conversion
keeps names, so every set at the host or on its way there was passed by somebody (`Whole`).
Each admitted call makes one version and none is admitted twice (`Counted`), hence versions
only grow and are bounded by the calls, and nothing refers to one that is not there yet
(`Dated`). What was listed and not edited converts back to the declarations it was listed
from (lemma `ListingConvertsBack`), which are the host's while the version is the same
(`ConvertsBack`). An answer that reaches a waiting declaration is about that very call, and no
other answer is taken for a success (`Answered`, lemma `DeclarationOutcomes`).

## Model-checked only

`CallsReturn` and `ChecksEnd`: liveness is out of the prover's reach.

## Not modelled

The connection methods, which make one gateway call each and keep nothing. Byte
formats - base64url, protobuf, JSON and JWKS parsing, Ed25519 - are taken as one outcome
each: accepted or refused (or nested too deep). Text fields and digests of operations,
which are copied. The construction of the revision clients' channels and TLS contexts,
and the validation of their addresses: no state comes of it. Generated bindings, scripts,
packaging and CI have no behaviour of the running SDK. A wall clock that steps back under the
key cache: no bound is documented for it. That the later of two declarations of different
admins overwrites the earlier: the API carries no version and promises nothing else.

## Plan

Done:

1. `JwksVerifier`, `KeyAuthority`: safety, liveness, refinement, proofs.
2. `DatasourceClient`, `DatasourceEffects`, `OneEffect`: safety, refinement, proofs.
3. `WorkContextClaims`: safety and proofs.
4. `RevisionCheck`, `CurrentAuthority`: safety, liveness, refinement, proofs.
5. `MintClient`: safety and proofs.
6. `WorkContextFlow`: the composition, safety and proofs.
7. `SourceAdmin`: safety and proofs.

Left: the key cache in `WorkContextFlow`, so that a withdrawn key and a superseded revision
are bounded together; `MintClient`'s issue against `WorkContextClaims`' attenuation, which
needs the authority's half of the exchange that is not in this repository.

---------------------------- MODULE JwksVerifier ----------------------------
(***************************************************************************)
(* The rotation-aware verifier of work_context.py (class JWKSVerifier):    *)
(* request threads share one cached key set, re-fetch it on expiry, spend  *)
(* one extra fetch on a token whose key id is not cached, and hold a       *)
(* failed fetch for a short back-off instead of repeating it.              *)
(*                                                                         *)
(* One action is one section of code that runs without losing the lock or  *)
(* the network: the sections under `with self._lock` that do no I/O are    *)
(* atomic, a fetch is begun, answered by the endpoint and finished in      *)
(* separate steps, all of them with the lock held, and the verdict is      *)
(* given afterwards, outside the lock, from the thread's own snapshot.     *)
(*                                                                         *)
(* Abstractions: a key set is the epoch of the authority's Schedule it was *)
(* published in; a token is the key id it names; the signature, claim and  *)
(* time-window checks of Verifier.verify are one free choice (Judge).      *)
(***************************************************************************)
EXTENDS Integers, Sequences

CONSTANTS
    Threads,      \* request threads sharing the verifier
    NoThread,     \* the lock's holder when it is free
    KeyIds,       \* key ids a token may name, published or not
    NoKey,        \* the key id of a thread that is judging no token
    Schedule,     \* the key sets the authority publishes, oldest first
    CacheTtl,     \* cache_ttl, in ticks of the clock
    Backoff,      \* _JWKS_FAILED_REFRESH_BACKOFF, in ticks of the clock
    MaxTime,      \* bound: the clock stops here
    MaxCalls      \* bound: calls of verify and refresh in a behaviour

ASSUME NoThreadAssumption == NoThread \notin Threads
ASSUME KeysAssumption == NoKey \notin KeyIds
\* _parse_jwks refuses an empty key set, so a published set has a key.
ASSUME ScheduleAssumption ==
    Schedule \in Seq((SUBSET KeyIds) \ {{}}) /\ Len(Schedule) >= 1
\* The constructor refuses a TTL under one second; the back-off is 5 seconds.
ASSUME TimesAssumption == CacheTtl \in Nat \ {0} /\ Backoff \in Nat \ {0}
ASSUME BoundsAssumption == MaxTime \in Nat /\ MaxCalls \in Nat

VARIABLES
    now,          \* the clock read through self._now
    published,    \* epoch of the key set the endpoint serves
    lock,         \* holder of self._lock
    verifier,     \* epoch of the cached key set, 0 while _verifier is None
    generation,   \* _generation
    unknownRefreshGeneration,  \* _unknown_refresh_generation
    expiresAt,    \* _expires_at
    retryAfter,   \* _retry_after
    lastError,    \* whether _last_error is set
    pc,           \* where each thread is
    call,         \* each thread's locals: the token's key id and its snapshot
    reply,        \* epoch each thread's fetch was answered with, 0 before
    verdict,      \* outcome of each thread's last verify
    calls,        \* calls begun (bounded by MaxCalls)
    \* What the properties remember; no action reads it.
    unknownFetches,  \* unknown-key fetches since the last other successful one
    failedAt,        \* time of the last failed fetch since a success, or Never
    brokenAt,        \* the same for fetches that ended in another exception
    hurried          \* verify's fetches begun inside the back-off, since a success

cacheVars == <<verifier, generation, expiresAt, retryAfter, lastError>>
memory    == <<unknownFetches, failedAt, brokenAt, hurried>>
vars == <<now, published, lock, cacheVars, unknownRefreshGeneration, pc, call,
          reply, verdict, calls, memory>>

Never == -1

MaxEpoch == Len(Schedule)
Epochs == 1 .. MaxEpoch

\* _key_ids of the key set cached from an epoch.
Keys(epoch) == Schedule[epoch]

Verdicts == {"none", "accepted", "rejected", "unavailable", "broken"}

FetchPcs == {"fetchCurrent", "fetchUnknown", "fetchRefresh"}
VerifyPcs == {"current", "fetchCurrent", "unknown", "fetchUnknown", "judge"}
Pcs == {"idle", "refresh"} \union FetchPcs \union VerifyPcs

\* epoch and generation are the snapshot that _current or _refresh_unknown
\* returned. The rest is remembered for the properties: the cached epoch and the
\* time when the call began, and when the snapshot's key set expires.
Calls == [kid: KeyIds \union {NoKey}, epoch: {0} \union Epochs, generation: Nat,
          floor: Nat, begunAt: Nat, until: Nat]

NoCall == [kid |-> NoKey, epoch |-> 0, generation |-> 0,
           floor |-> 0, begunAt |-> 0, until |-> 0]

(***************************************************************************)
(* Predicates of the code.                                                 *)
(***************************************************************************)

\* Operators named ..._Bug are faulty variants of the definition that follows
\* them. No specification uses them: each shows that a property below notices
\* the mistake it stands for.

\* The expiry compared with <= .
CacheFresh_Bug == verifier # 0 /\ now <= expiresAt

\* _current: the cached key set may be used.
CacheFresh == verifier # 0 /\ now < expiresAt

\* A failure held only while there is no cache at all.
FailureHeld_Bug == now < retryAfter /\ verifier = 0

\* _current: a failed refresh is still held.
FailureHeld == now < retryAfter

\* _refresh_unknown: the cache was replaced since the thread looked at it.
CacheMoved(t) == verifier # 0 /\ generation # call[t].generation

\* _refresh_unknown: this generation's unknown-key refresh is spent.
UnknownBudgetSpent == verifier # 0 /\ unknownRefreshGeneration = generation

\* What the properties call an open back-off: some fetch failed less than
\* Backoff ago and none succeeded since.
WindowOpen(at) == at # Never /\ now < at + Backoff

-----------------------------------------------------------------------------
Init ==
    /\ now = 0 /\ published = 1
    /\ lock = NoThread
    /\ verifier = 0 /\ generation = 0 /\ unknownRefreshGeneration = 0
    /\ expiresAt = 0 /\ retryAfter = 0 /\ lastError = FALSE
    /\ pc = [t \in Threads |-> "idle"]
    /\ call = [t \in Threads |-> NoCall]
    /\ reply = [t \in Threads |-> 0]
    /\ verdict = [t \in Threads |-> "none"]
    /\ calls = 0
    /\ unknownFetches = 0 /\ failedAt = Never /\ brokenAt = Never /\ hurried = 0

(***************************************************************************)
(* Pieces of the actions.                                                  *)
(***************************************************************************)

GoTo(t, label) == pc' = [pc EXCEPT ![t] = label]

\* The key set and its generation unpacked in the wrong order.
Snapshot_Bug(t, epoch, gen, until) ==
    call' = [call EXCEPT ![t] = [@ EXCEPT !.epoch = gen, !.generation = epoch,
                                          !.until = until]]

\* The thread's locals after it was handed a key set that expires at until.
Snapshot(t, epoch, gen, until) ==
    call' = [call EXCEPT ![t] = [@ EXCEPT !.epoch = epoch, !.generation = gen,
                                          !.until = until]]

\* A call of verify ends with outcome v and its locals are gone.
Return(t, v) ==
    /\ GoTo(t, "idle")
    /\ call' = [call EXCEPT ![t] = NoCall]
    /\ verdict' = [verdict EXCEPT ![t] = v]

\* A fetch ends by an exception; refresh has no verdict to give.
Raise(t, v) ==
    IF pc[t] = "fetchRefresh"
    THEN GoTo(t, "idle") /\ UNCHANGED <<call, verdict>>
    ELSE Return(t, v)

\* The fetch made outside the lock.
StartFetch_Bug(t, label) == GoTo(t, label) /\ UNCHANGED <<lock, reply>>

\* _refresh_locked up to the request: the lock stays taken over the fetch.
StartFetch(t, label) ==
    /\ lock' = t
    /\ GoTo(t, label)
    /\ UNCHANGED reply

\* verify's fetches only: count one begun while a failure should be held.
CountHurried == hurried' = hurried + (IF WindowOpen(failedAt) THEN 1 ELSE 0)

\* `with self._lock` is left, and the fetch's locals with it.
EndFetch(t) == lock' = NoThread /\ reply' = [reply EXCEPT ![t] = 0]

\* The back-off window left open by a success.
Install_Bug(t) ==
    /\ verifier' = reply[t]
    /\ generation' = generation + 1
    /\ expiresAt' = now + CacheTtl
    /\ UNCHANGED <<retryAfter, lastError>>
    /\ failedAt' = Never /\ brokenAt' = Never /\ hurried' = 0
    /\ EndFetch(t)

\* The rest of _refresh_locked after a good answer: replace the cache, restart
\* its lifetime at the time the fetch ended, forget the last failure.
Install(t) ==
    /\ verifier' = reply[t]
    /\ generation' = generation + 1
    /\ expiresAt' = now + CacheTtl
    /\ retryAfter' = 0
    /\ lastError' = FALSE
    /\ failedAt' = Never /\ brokenAt' = Never /\ hurried' = 0
    /\ EndFetch(t)

-----------------------------------------------------------------------------
(***************************************************************************)
(* The environment: the clock, and the authority rotating its keys.        *)
(***************************************************************************)

Tick ==
    /\ now < MaxTime
    /\ now' = now + 1
    /\ UNCHANGED <<published, lock, cacheVars, unknownRefreshGeneration, pc, call,
                   reply, verdict, calls, memory>>

Rotate ==
    /\ published < MaxEpoch
    /\ published' = published + 1
    /\ UNCHANGED <<now, lock, cacheVars, unknownRefreshGeneration, pc, call,
                   reply, verdict, calls, memory>>

\* The endpoint answers the request in flight with what it publishes now.
Answer(t) ==
    /\ pc[t] \in FetchPcs /\ reply[t] = 0
    /\ reply' = [reply EXCEPT ![t] = published]
    /\ UNCHANGED <<now, published, lock, cacheVars, unknownRefreshGeneration, pc,
                   call, verdict, calls, memory>>

(***************************************************************************)
(* verify: decode the token and name its key, then _current.               *)
(***************************************************************************)

BeginVerify(t) ==
    /\ pc[t] = "idle" /\ calls < MaxCalls
    /\ \E k \in KeyIds :
         call' = [call EXCEPT ![t] = [NoCall EXCEPT !.kid = k, !.floor = verifier,
                                                    !.begunAt = now]]
    /\ GoTo(t, "current")
    /\ calls' = calls + 1
    /\ verdict' = [verdict EXCEPT ![t] = "none"]
    /\ UNCHANGED <<now, published, lock, cacheVars, unknownRefreshGeneration, reply,
                   memory>>

\* A token that does not decode is refused before the cache is looked at.
RejectUndecodable(t) ==
    /\ pc[t] = "idle" /\ calls < MaxCalls
    /\ calls' = calls + 1
    /\ verdict' = [verdict EXCEPT ![t] = "rejected"]
    /\ UNCHANGED <<now, published, lock, cacheVars, unknownRefreshGeneration, pc,
                   call, reply, memory>>

\* After _current: judge the token, or go on to _refresh_unknown.
AfterCurrent(t, epoch) == IF call[t].kid \in Keys(epoch) THEN "judge" ELSE "unknown"

CurrentFromCache(t) ==
    /\ pc[t] = "current" /\ lock = NoThread
    /\ CacheFresh
    /\ Snapshot(t, verifier, generation, expiresAt)
    /\ GoTo(t, AfterCurrent(t, verifier))
    /\ UNCHANGED <<now, published, lock, cacheVars, unknownRefreshGeneration, reply,
                   verdict, calls, memory>>

CurrentHoldsFailure(t) ==
    /\ pc[t] = "current" /\ lock = NoThread
    /\ ~CacheFresh /\ FailureHeld
    /\ Return(t, "unavailable")
    /\ UNCHANGED <<now, published, lock, cacheVars, unknownRefreshGeneration, reply,
                   calls, memory>>

CurrentStartsFetch(t) ==
    /\ pc[t] = "current" /\ lock = NoThread
    /\ ~CacheFresh /\ ~FailureHeld
    /\ StartFetch(t, "fetchCurrent")
    /\ CountHurried
    /\ UNCHANGED <<now, published, cacheVars, unknownRefreshGeneration, call, verdict,
                   calls, unknownFetches, failedAt, brokenAt>>

\* The new window born with its unknown-key refresh spent.
CurrentInstalls_Bug(t) ==
    /\ pc[t] = "fetchCurrent" /\ reply[t] # 0
    /\ Install(t)
    /\ unknownRefreshGeneration' = generation + 1
    /\ unknownFetches' = 0
    /\ Snapshot(t, reply[t], generation + 1, now + CacheTtl)
    /\ GoTo(t, AfterCurrent(t, reply[t]))
    /\ UNCHANGED <<now, published, verdict, calls>>

CurrentInstalls(t) ==
    /\ pc[t] = "fetchCurrent" /\ reply[t] # 0
    /\ Install(t)
    /\ unknownRefreshGeneration' = 0
    /\ unknownFetches' = 0
    /\ Snapshot(t, reply[t], generation + 1, now + CacheTtl)
    /\ GoTo(t, AfterCurrent(t, reply[t]))
    /\ UNCHANGED <<now, published, verdict, calls>>

(***************************************************************************)
(* _refresh_unknown.                                                       *)
(***************************************************************************)

UnknownFromCache(t) ==
    /\ pc[t] = "unknown" /\ lock = NoThread
    /\ CacheMoved(t) \/ UnknownBudgetSpent
    /\ Snapshot(t, verifier, generation, expiresAt)
    /\ GoTo(t, "judge")
    /\ UNCHANGED <<now, published, lock, cacheVars, unknownRefreshGeneration, reply,
                   verdict, calls, memory>>

\* The generation is reserved before the fetch, and stays so if it fails.
UnknownStartsFetch(t) ==
    /\ pc[t] = "unknown" /\ lock = NoThread
    /\ ~CacheMoved(t) /\ ~UnknownBudgetSpent
    /\ unknownRefreshGeneration' = generation
    /\ StartFetch(t, "fetchUnknown")
    /\ unknownFetches' = unknownFetches + 1
    /\ CountHurried
    /\ UNCHANGED <<now, published, cacheVars, call, verdict, calls, failedAt, brokenAt>>

\* The installed generation left with a refresh of its own to spend.
UnknownInstalls_Bug(t) ==
    /\ pc[t] = "fetchUnknown" /\ reply[t] # 0
    /\ Install(t)
    /\ Snapshot(t, reply[t], generation + 1, now + CacheTtl)
    /\ GoTo(t, "judge")
    /\ UNCHANGED <<now, published, unknownRefreshGeneration, verdict, calls,
                   unknownFetches>>

UnknownInstalls(t) ==
    /\ pc[t] = "fetchUnknown" /\ reply[t] # 0
    /\ Install(t)
    /\ unknownRefreshGeneration' = generation + 1
    /\ Snapshot(t, reply[t], generation + 1, now + CacheTtl)
    /\ GoTo(t, "judge")
    /\ UNCHANGED <<now, published, verdict, calls, unknownFetches>>

\* Verifier.verify on the snapshot: an unknown key id is refused; a known one
\* leaves the verdict to the signature, the claims and the time window.
Judge(t) ==
    /\ pc[t] = "judge"
    /\ \E v \in {"accepted", "rejected"} :
         /\ v = "accepted" => call[t].kid \in Keys(call[t].epoch)
         /\ Return(t, v)
    /\ UNCHANGED <<now, published, lock, cacheVars, unknownRefreshGeneration, reply,
                   calls, memory>>

(***************************************************************************)
(* refresh: an eager fetch, at boot or at any later time.                  *)
(***************************************************************************)

BeginRefresh(t) ==
    /\ pc[t] = "idle" /\ calls < MaxCalls
    /\ GoTo(t, "refresh")
    /\ calls' = calls + 1
    /\ UNCHANGED <<now, published, lock, cacheVars, unknownRefreshGeneration, call,
                   reply, verdict, memory>>

RefreshStartsFetch(t) ==
    /\ pc[t] = "refresh" /\ lock = NoThread
    /\ StartFetch(t, "fetchRefresh")
    /\ UNCHANGED <<now, published, cacheVars, unknownRefreshGeneration, call, verdict,
                   calls, memory>>

RefreshInstalls(t) ==
    /\ pc[t] = "fetchRefresh" /\ reply[t] # 0
    /\ Install(t)
    /\ unknownRefreshGeneration' = 0
    /\ unknownFetches' = 0
    /\ GoTo(t, "idle")
    /\ UNCHANGED <<now, published, call, verdict, calls>>

(***************************************************************************)
(* The two ways a fetch ends without a key set.                            *)
(***************************************************************************)

\* verify tries again instead of raising.
FetchFails_Bug(t) ==
    /\ pc[t] \in FetchPcs
    /\ EndFetch(t)
    /\ GoTo(t, IF pc[t] = "fetchRefresh" THEN "refresh" ELSE "current")
    /\ UNCHANGED <<now, published, cacheVars, unknownRefreshGeneration, call, verdict,
                   calls, memory>>

\* The endpoint cannot be reached, or what it served is refused: _refresh_locked
\* opens the back-off window, keeps the error and the old cache, and raises.
FetchFails(t) ==
    /\ pc[t] \in FetchPcs
    /\ retryAfter' = now + Backoff
    /\ lastError' = TRUE
    /\ failedAt' = now
    /\ EndFetch(t)
    /\ Raise(t, "unavailable")
    /\ UNCHANGED <<now, published, verifier, generation, expiresAt,
                   unknownRefreshGeneration, calls, unknownFetches, brokenAt, hurried>>

\* The connection stalls or breaks while the body is read: response.read is
\* outside _fetch's try, so its exception is no WorkContextError and passes
\* _refresh_locked by. Nothing but the lock is touched.
FetchBreaks(t) ==
    /\ pc[t] \in FetchPcs
    /\ brokenAt' = now
    /\ EndFetch(t)
    /\ Raise(t, "broken")
    /\ UNCHANGED <<now, published, cacheVars, unknownRefreshGeneration, calls,
                   unknownFetches, failedAt, hurried>>

-----------------------------------------------------------------------------
\* What a thread does in a call it has begun.
Step(t) ==
    \/ CurrentFromCache(t) \/ CurrentHoldsFailure(t)
    \/ CurrentStartsFetch(t) \/ CurrentInstalls(t)
    \/ UnknownFromCache(t) \/ UnknownStartsFetch(t) \/ UnknownInstalls(t)
    \/ RefreshStartsFetch(t) \/ RefreshInstalls(t)
    \/ FetchFails(t) \/ FetchBreaks(t)
    \/ Judge(t)

Begin(t) == BeginVerify(t) \/ RejectUndecodable(t) \/ BeginRefresh(t)

\* Every call the bound allows was made and has returned.
Quiescent ==
    /\ calls = MaxCalls
    /\ \A t \in Threads : pc[t] = "idle"
    /\ UNCHANGED vars

Next ==
    \/ \E t \in Threads : Begin(t) \/ Step(t) \/ Answer(t)
    \/ Tick \/ Rotate
    \/ Quiescent

Spec == Init /\ [][Next]_vars

\* A thread that can move moves; in particular a fetch ends, because every
\* socket operation of it has the request timeout.
FairSpec == Spec /\ \A t \in Threads : WF_vars(Step(t))

-----------------------------------------------------------------------------
(***************************************************************************)
(* What the verifier guarantees.                                           *)
(***************************************************************************)

\* Every variable has its type.
TypeOK ==
    /\ now \in Nat /\ published \in Epochs
    /\ lock \in Threads \union {NoThread}
    /\ verifier \in {0} \union Epochs
    /\ generation \in Nat /\ unknownRefreshGeneration \in Nat
    /\ expiresAt \in Nat /\ retryAfter \in Nat /\ lastError \in BOOLEAN
    /\ pc \in [Threads -> Pcs]
    /\ call \in [Threads -> Calls]
    /\ reply \in [Threads -> {0} \union Epochs]
    /\ verdict \in [Threads -> Verdicts]
    /\ calls \in Nat
    /\ unknownFetches \in Nat /\ hurried \in Nat
    /\ failedAt \in Nat \union {Never} /\ brokenAt \in Nat \union {Never}

\* However many threads present unknown key ids, they cost at most one fetch
\* between two fetches made for another reason (expiry or refresh): the bound
\* of _unknown_refresh_generation, across its reservation, its failure and the
\* new generation it installs.
OneUnknownFetchPerWindow == unknownFetches <= 1

\* Once the verifier has cached a key set, no call that begins later is judged
\* with an older one, whatever fetches were in flight: a key that was withdrawn
\* when the call began, and is not published again, cannot accept its token.
RevokedStaysRevoked ==
    \A t \in Threads :
        pc[t] = "judge" => call[t].floor <= call[t].epoch /\ call[t].epoch <= published

\* A token is judged with a key set that had not expired when its call began,
\* whichever of the cache, another thread's fetch or its own handed it over. (It
\* may expire while the call lasts: see NeverStaleKeys.)
FreshWhenCalled ==
    \A t \in Threads : pc[t] = "judge" => call[t].begunAt < call[t].until

\* While the endpoint keeps failing, verify begins at most one fetch inside the
\* back-off (an unknown-key refresh overtaken by the failure); every other one
\* waits for the back-off to end.
OneHurriedFetch == hurried <= 1

\* The cached failure is served only for a failure that happened less than
\* Backoff ago and that no successful fetch followed; and there is an error to
\* raise (_last_error is not None).
NoFalseOutage == FailureHeld => lastError /\ WindowOpen(failedAt)

\* A thread that was given no fetch for its unknown key id, and sees the same
\* generation it saw before, comes after a thread that was given one in this
\* window: the one refresh that rotation is owed is never withheld from all.
RotationRetried ==
    [][\A t \in Threads :
         /\ pc[t] = "unknown" /\ pc'[t] = "judge"
         /\ generation = call[t].generation
         => unknownFetches = 1]_vars

\* The verifier does what KeyAuthority promises: the cached key set is what is
\* known, a call in progress is a question, an accepted token is admitted.
Authority == INSTANCE KeyAuthority WITH
    known    <- verifier,
    asked    <- [t \in Threads |-> [kid |-> call[t].kid, floor |-> call[t].floor]],
    admitted <- {t \in Threads : verdict[t] = "accepted"}

ImplementsAuthority == Authority!ASpec

\* Every call of verify and refresh returns.
CallsReturn == \A t \in Threads : pc[t] # "idle" ~> pc[t] = "idle"

-----------------------------------------------------------------------------
(***************************************************************************)
(* What its comments say, and it does not do.                              *)
(***************************************************************************)

\* work_context.py:135: "callers inside the window get the cached failure, never
\* stale keys". _refresh_unknown hands out the cache without looking at its
\* expiry, so a thread overtaken on its way there is judged with expired keys
\* inside the back-off: keys that know its token, and a refresh that was due.
NeverStaleKeys ==
    [][\A t \in Threads :
         /\ pc[t] \in {"current", "unknown"} /\ pc'[t] = "judge"
         /\ call[t].kid \in Keys(verifier) /\ FailureHeld /\ failedAt >= expiresAt
         => CacheFresh]_vars

\* work_context.py:131: "After a scheduled refresh fails, hold the failure for
\* this long instead of re-fetching on the very next request". A fetch that ends
\* while its body is read opens no window, so the next request fetches again.
EveryFailureIsHeld ==
    [][\A t \in Threads :
         pc[t] = "current" /\ pc'[t] = "fetchCurrent"
         => ~WindowOpen(failedAt) /\ ~WindowOpen(brokenAt)]_vars

=============================================================================

---------------------------- MODULE RevisionCheck ----------------------------
(***************************************************************************)
(* The clients of authorization_revision.py: tasks of one event loop call  *)
(* check on one client, each of which loads the internal credential, asks  *)
(* the authority whether the claims' revision is current, and returns or   *)
(* raises. asyncio.wait_for bounds the whole of it; the caller may cancel  *)
(* it, and somebody may aclose the client under it.                        *)
(*                                                                         *)
(* One action is the code between two awaits. transport chooses between    *)
(* ConnectClient, which takes a connection from a pool, looks at the       *)
(* headers and then reads the body in parts, and _GRPCRevision, for which  *)
(* the RPC is one await. httpx, grpc.aio, the credential provider and the  *)
(* authority are not under src/: they are what the code relies on.         *)
(*                                                                         *)
(* Operators named ..._Bug, and the others with a suffix, are faulty       *)
(* variants of the definition that follows them, used by no specification. *)
(***************************************************************************)
EXTENDS Naturals, FiniteSets

CONSTANTS
    Checks,       \* tasks that share the client
    Clients,      \* the kinds of client: its transport, "connect" or "grpc", and where
                  \* wait_for runs _check, in a "task" of its own (before Python 3.12)
                  \* or "inline"
    Timeout,      \* TIMEOUT, in ticks of the loop's clock
    PoolSize,     \* connections of httpx's pool
    MaxParts,     \* parts of a body that fit in 8192 bytes
    MaxTime,      \* bound: the clock stops here, and no check begins that could reach it
    MaxRevision   \* bound: the authority's last revision

ASSUME ClientAssumption == Clients \subseteq {"connect", "grpc"} \X {"task", "inline"}
ASSUME TimesAssumption == Timeout \in Nat \ {0} /\ MaxTime \in Nat
ASSUME BoundsAssumption ==
    PoolSize \in Nat \ {0} /\ MaxParts \in Nat /\ MaxRevision \in Nat \ {0}

VARIABLES
    transport,    \* the client's transport; as waitFor, it never changes
    waitFor,      \* where its wait_for runs _check
    now,          \* the loop's clock
    closed,       \* aclose was called
    revision,     \* the authority's current revision
    pc,           \* the await each task is at
    claims,       \* the revision of its claims; 0 for claims that cannot be projected
    deadline,     \* when wait_for's timer is due
    cancelledBy,  \* who cancelled the task: "nobody", "timer" or "caller"
    said,         \* what the authority made of its request
    answer,       \* the response whose body it reads, or NoAnswer
    parts,        \* parts of that body read so far
    pending,      \* how _check is about to end, while an await is left
    verdict,      \* how check ended
    held,         \* the tasks that hold a connection of the pool
    \* What the properties remember; no action reads it.
    since,        \* the current revision when the check began
    begunAt       \* the time when it began

client == <<transport, waitFor>>
loopVars == <<client, now, closed, revision>>
callVars == <<claims, deadline, since, begunAt>>
vars == <<loopVars, callVars, pc, cancelledBy, said, answer, parts, pending, verdict, held>>

(***************************************************************************)
(* Responses, as far as the code distinguishes them: the HTTP or gRPC      *)
(* status, whether the content type is JSON and the encoding identity, and *)
(* what the body decodes to. "empty" is the canonical empty message; a     *)
(* body named for a Connect code is an object with that code; "deep" is    *)
(* JSON nested beyond the interpreter's recursion limit, which fits in     *)
(* 8192 bytes; "other" is all the rest, what _decode refuses included.     *)
(***************************************************************************)
Response == [status: {"200", "307", "400", "401", "403", "503"},
             json: BOOLEAN, identity: BOOLEAN,
             body: {"empty", "failed_precondition", "permission_denied", "deep", "other"}]
RpcResponse == [status: {"OK", "PERMISSION_DENIED", "FAILED_PRECONDITION",
                         "UNAUTHENTICATED", "UNAVAILABLE", "DEADLINE_EXCEEDED"},
                json: {TRUE}, identity: {TRUE}, body: {"empty", "other"}]

Plain(status, body) == [status |-> status, json |-> TRUE, identity |-> TRUE, body |-> body]
NoAnswer == Plain("none", "empty")

\* ConnectClient._check, before the body is read.
HeadersAccepted(a) == a.status \in {"200", "400", "403"} /\ a.json /\ a.identity

Denials == {<<"400", "failed_precondition">>, <<"403", "permission_denied">>}

\* ConnectClient._check, when the body is complete. RecursionError is no ValueError.
PayloadVerdict_Bug(a) ==
    IF a.body = "deep" THEN "raw"
    ELSE IF a.status = "200" THEN "granted"
    ELSE IF <<a.status, a.body>> \in Denials THEN "denied"
    ELSE "unavailable"
PayloadVerdict_ByStatus(a) ==
    IF a.body = "deep" THEN "raw"
    ELSE IF a.status = "200" /\ a.body = "empty" THEN "granted"
    ELSE IF a.status \in {"400", "403"} THEN "denied"
    ELSE "unavailable"
PayloadVerdict(a) ==
    IF a.body = "deep" THEN "raw"
    ELSE IF a.status = "200" /\ a.body = "empty" THEN "granted"
    ELSE IF <<a.status, a.body>> \in Denials THEN "denied"
    ELSE "unavailable"

\* _GRPCRevision._check, for the way the RPC ended.
RpcVerdict_AnyBody(a) ==
    IF a.status = "OK" THEN "granted"
    ELSE IF a.status \in {"PERMISSION_DENIED", "FAILED_PRECONDITION"}
    THEN "denied" ELSE "unavailable"
RpcVerdict(a) ==
    IF a.status = "OK" /\ a.body = "empty" THEN "granted"
    ELSE IF a.status \in {"PERMISSION_DENIED", "FAILED_PRECONDITION"}
    THEN "denied" ELSE "unavailable"

(***************************************************************************)
(* The authority and what is between: it confirms a current revision,      *)
(* refuses any other, or fails; a third party may answer in its place, but *)
(* neither with a confirmation nor with a refusal.                         *)
(***************************************************************************)
Confirmation == IF transport = "connect" THEN Plain("200", "empty") ELSE Plain("OK", "empty")

Refusals ==
    IF transport = "connect"
    THEN {Plain("400", "failed_precondition"), Plain("403", "permission_denied")}
    ELSE {Plain(s, b) : s \in {"PERMISSION_DENIED", "FAILED_PRECONDITION"},
                        b \in {"empty", "other"}}

Failures == (IF transport = "connect" THEN Response ELSE RpcResponse)
            \ ({Confirmation} \union Refusals)

Answers(c) ==
    Failures \union (IF said[c] = "current" THEN {Confirmation}
                     ELSE IF said[c] = "stale" THEN Refusals ELSE {})

-----------------------------------------------------------------------------
Init ==
    /\ \E kind \in Clients : transport = kind[1] /\ waitFor = kind[2]
    /\ now = 0 /\ closed = FALSE /\ revision = 1
    /\ pc = [c \in Checks |-> "idle"]
    /\ claims = [c \in Checks |-> 0] /\ since = [c \in Checks |-> 0]
    /\ deadline = [c \in Checks |-> 0] /\ begunAt = [c \in Checks |-> 0]
    /\ cancelledBy = [c \in Checks |-> "nobody"]
    /\ said = [c \in Checks |-> "nothing"]
    /\ answer = [c \in Checks |-> NoAnswer] /\ parts = [c \in Checks |-> 0]
    /\ pending = [c \in Checks |-> "none"] /\ verdict = [c \in Checks |-> "none"]
    /\ held = {}

\* revision_request: the claims have a tenant, an owner and a principal per actor.
Projectable(c) == claims[c] # 0

\* The awaits of _check at which a cancellation reaches it. "left" is the last of them
\* once check has ended without waiting for it.
Awaits == {"credential", "pool", "waiting", "body", "release"}

Running(c) == pc[c] \in Awaits \union {"finished"}

Set(f, c, v) == [f EXCEPT ![c] = v]

(***************************************************************************)
(* Pieces of the actions.                                                  *)
(***************************************************************************)

\* _check is over. In a task of its own, wait_for's task learns of it one turn of
\* the loop later, unless it has cancelled that task and waits for its end.
Conclude(c, outcome) ==
    /\ IF waitFor = "task" /\ cancelledBy[c] = "nobody"
       THEN pc' = Set(pc, c, "finished") /\ pending' = Set(pending, c, outcome)
            /\ UNCHANGED verdict
       ELSE pc' = Set(pc, c, "done") /\ pending' = Set(pending, c, "none")
            /\ verdict' = Set(verdict, c, outcome)
    /\ answer' = Set(answer, c, NoAnswer)

\* _check is over, and nobody waits for it any more.
Forgotten(c) == pc' = Set(pc, c, "done") /\ UNCHANGED <<pending, verdict, answer>>

\* _check reaches its finally clause with a response to close.
Finally(c, outcome) ==
    /\ pc' = Set(pc, c, "release") /\ pending' = Set(pending, c, outcome)
    /\ answer' = Set(answer, c, NoAnswer)
    /\ UNCHANGED verdict

\* CancelledError is thrown into the await. Only a response that is already there has
\* to be closed; httpx drops the connection of a request that is interrupted.
Interrupt_Bug(c, who) ==
    LET outcome == IF who = "caller" THEN "cancelled" ELSE "unavailable" IN
    /\ cancelledBy' = Set(cancelledBy, c, who)
    /\ pc' = Set(pc, c, "done") /\ pending' = Set(pending, c, "none")
    /\ verdict' = Set(verdict, c, outcome)
    /\ answer' = Set(answer, c, NoAnswer)
    /\ held' = IF pc[c] = "body" THEN held ELSE held \ {c}
    /\ UNCHANGED <<loopVars, callVars, said, parts>>
Interrupt_Swallowed(c, who) ==
    /\ cancelledBy' = Set(cancelledBy, c, who)
    /\ IF pc[c] = "body"
       THEN Finally(c, "unavailable") /\ UNCHANGED held
       ELSE /\ pc' = Set(pc, c, "done") /\ pending' = Set(pending, c, "none")
            /\ verdict' = Set(verdict, c, "unavailable")
            /\ answer' = Set(answer, c, NoAnswer)
            /\ held' = held \ {c}
    /\ UNCHANGED <<loopVars, callVars, said, parts>>
Interrupt(c, who) ==
    LET outcome == IF who = "caller" THEN "cancelled" ELSE "unavailable" IN
    /\ cancelledBy' = Set(cancelledBy, c, who)
    /\ IF pc[c] = "body"
       THEN Finally(c, outcome) /\ UNCHANGED held
       ELSE /\ pc' = Set(pc, c, "done") /\ pending' = Set(pending, c, "none")
            /\ verdict' = Set(verdict, c, outcome)
            /\ answer' = Set(answer, c, NoAnswer)
            /\ held' = held \ {c}
    /\ UNCHANGED <<loopVars, callVars, said, parts>>

-----------------------------------------------------------------------------
(***************************************************************************)
(* The client.                                                             *)
(***************************************************************************)

\* check: wait_for starts its timer and _check asks for the credential.
Check(c) ==
    /\ pc[c] \in {"idle", "done"} /\ now + Timeout <= MaxTime
    /\ \E r \in 0 .. revision : claims' = Set(claims, c, r)
    /\ since' = Set(since, c, revision) /\ begunAt' = Set(begunAt, c, now)
    /\ deadline' = Set(deadline, c, now + Timeout)
    /\ pc' = Set(pc, c, "credential") /\ cancelledBy' = Set(cancelledBy, c, "nobody")
    /\ said' = Set(said, c, "nothing") /\ parts' = Set(parts, c, 0)
    /\ verdict' = Set(verdict, c, "none")
    /\ UNCHANGED <<loopVars, answer, pending, held>>

\* The provider raises or its token is unusable, the claims cannot be projected, or
\* (gRPC) nothing of the budget remains.
NotSent(c) ==
    /\ pc[c] = "credential"
    /\ Conclude(c, "unavailable")
    /\ UNCHANGED <<loopVars, callVars, cancelledBy, said, parts, held>>

\* A closed client raises RuntimeError (httpx) or UsageError (grpc.aio).
SentOnClosed(c) ==
    /\ pc[c] = "credential" /\ Projectable(c) /\ closed
    /\ transport = "grpc" => now < deadline[c]
    /\ Conclude(c, "raw")
    /\ UNCHANGED <<loopVars, callVars, cancelledBy, said, parts, held>>

\* The request is handed to the transport.
CredentialArrives_Bug(c) ==
    /\ pc[c] = "credential" /\ Projectable(c) /\ ~ closed
    /\ pc' = Set(pc, c, IF transport = "grpc" THEN "waiting" ELSE "pool")
    /\ deadline' = Set(deadline, c, now + Timeout)
    /\ UNCHANGED <<loopVars, claims, since, begunAt, cancelledBy, said, answer, parts,
                   pending, verdict, held>>
CredentialArrives(c) ==
    /\ pc[c] = "credential" /\ Projectable(c) /\ ~ closed
    /\ transport = "grpc" => now < deadline[c]
    /\ pc' = Set(pc, c, IF transport = "grpc" THEN "waiting" ELSE "pool")
    /\ UNCHANGED <<loopVars, callVars, cancelledBy, said, answer, parts, pending, verdict,
                   held>>

\* The pool has a connection for the request.
Connects(c) ==
    /\ pc[c] = "pool" /\ Cardinality(held) < PoolSize
    /\ pc' = Set(pc, c, "waiting") /\ held' = held \union {c}
    /\ UNCHANGED <<loopVars, callVars, cancelledBy, said, answer, parts, pending, verdict>>

\* The connection cannot be had, or breaks.
TransportFails(c) ==
    /\ \/ pc[c] \in {"pool", "waiting"} /\ Conclude(c, "unavailable") /\ held' = held \ {c}
       \/ pc[c] = "body" /\ Finally(c, "unavailable") /\ UNCHANGED held
    /\ UNCHANGED <<loopVars, callVars, cancelledBy, said, parts>>

\* send returns: status, content type and encoding are looked at before the body.
HeadersArrive(c) ==
    /\ pc[c] = "waiting" /\ transport = "connect"
    /\ \/ (\E a \in Answers(c) : ~ HeadersAccepted(a)) /\ Finally(c, "unavailable")
       \/ /\ \E a \in Answers(c) : HeadersAccepted(a) /\ answer' = Set(answer, c, a)
          /\ pc' = Set(pc, c, "body")
          /\ UNCHANGED <<pending, verdict>>
    /\ UNCHANGED <<loopVars, callVars, cancelledBy, said, parts, held>>

\* aiter_bytes yields a part; with one too many, the body is given up.
PartArrives_Bug(c) ==
    /\ pc[c] = "body"
    /\ parts' = Set(parts, c, parts[c] + 1)
    /\ UNCHANGED <<loopVars, callVars, pc, cancelledBy, said, answer, pending, verdict, held>>
PartArrives(c) ==
    /\ pc[c] = "body"
    /\ IF parts[c] = MaxParts
       THEN Finally(c, "unavailable") /\ UNCHANGED parts
       ELSE parts' = Set(parts, c, parts[c] + 1) /\ UNCHANGED <<pc, answer, pending, verdict>>
    /\ UNCHANGED <<loopVars, callVars, cancelledBy, said, held>>

BodyEnds(c) ==
    /\ pc[c] = "body"
    /\ Finally(c, PayloadVerdict(answer[c]))
    /\ UNCHANGED <<loopVars, callVars, cancelledBy, said, parts, held>>

\* response.aclose in the finally clause.
Release(c) ==
    /\ \/ pc[c] = "release" /\ Conclude(c, pending[c])
       \/ pc[c] = "left" /\ Forgotten(c)
    /\ held' = held \ {c}
    /\ UNCHANGED <<loopVars, callVars, cancelledBy, said, parts>>

\* aclose raises (httpx.CloseError, OSError), outside the try: that exception replaces
\* the outcome, a cancellation too unless wait_for's own task has it.
ReleaseFails(c) ==
    /\ \/ /\ pc[c] = "release"
          /\ Conclude(c, IF waitFor = "task" /\ cancelledBy[c] = "caller"
                         THEN "cancelled" ELSE "raw")
       \/ pc[c] = "left" /\ Forgotten(c)
    /\ held' = held \ {c}
    /\ UNCHANGED <<loopVars, callVars, cancelledBy, said, parts>>

\* The await of the RPC is over.
RpcReturns(c) ==
    /\ pc[c] = "waiting" /\ transport = "grpc"
    /\ \E outcome \in {RpcVerdict(a) : a \in Answers(c)} : Conclude(c, outcome)
    /\ UNCHANGED <<loopVars, callVars, cancelledBy, said, parts, held>>

\* wait_for's task resumes after the task of _check has ended.
Return(c) ==
    /\ pc[c] = "finished"
    /\ pc' = Set(pc, c, "done") /\ verdict' = Set(verdict, c, pending[c])
    /\ pending' = Set(pending, c, "none")
    /\ UNCHANGED <<loopVars, callVars, cancelledBy, said, answer, parts, held>>

\* wait_for's timer cancels _check.
Expire_Bug(c) ==
    /\ pc[c] \in {"credential", "pool", "waiting"} /\ cancelledBy[c] = "nobody"
    /\ now >= deadline[c]
    /\ Interrupt(c, "timer")
Expire(c) ==
    /\ pc[c] \in Awaits /\ cancelledBy[c] = "nobody" /\ now >= deadline[c]
    /\ Interrupt(c, "timer")

\* The caller cancels the task in which check runs, once or again. Before Python 3.12,
\* wait_for returns the result of a finished _check nevertheless; while it waits for a
\* _check that it has cancelled, it leaves that task behind.
Cancel(c) ==
    \/ /\ pc[c] \in Awaits
       /\ waitFor = "task" => cancelledBy[c] = "nobody"
       /\ Interrupt(c, "caller")
    \/ /\ pc[c] \in Awaits /\ waitFor = "task" /\ cancelledBy[c] # "nobody"
       /\ cancelledBy' = Set(cancelledBy, c, "caller")
       /\ pc' = Set(pc, c, "left") /\ verdict' = Set(verdict, c, "cancelled")
       /\ pending' = Set(pending, c, "none")
       /\ UNCHANGED <<loopVars, callVars, said, answer, parts, held>>
    \/ /\ pc[c] = "finished"
       /\ cancelledBy' = Set(cancelledBy, c, "caller")
       /\ pc' = Set(pc, c, "done") /\ verdict' = Set(verdict, c, pending[c])
       /\ pending' = Set(pending, c, "none")
       /\ UNCHANGED <<loopVars, callVars, said, answer, parts, held>>

\* aclose. Connect's requests under way fail (TransportFails).
Close ==
    /\ ~ closed /\ closed' = TRUE
    /\ UNCHANGED <<client, now, revision, callVars, pc, cancelledBy, said, answer, parts, pending,
                   verdict, held>>

\* channel.close cancels the calls under way: their awaits raise CancelledError.
ClosedUnder(c) ==
    /\ pc[c] = "waiting" /\ transport = "grpc" /\ closed
    /\ Conclude(c, "cancelled")
    /\ UNCHANGED <<loopVars, callVars, cancelledBy, said, parts, held>>

(***************************************************************************)
(* The authority and the clock.                                            *)
(***************************************************************************)

\* The authority decides about a request that has reached it.
Judge(c) ==
    /\ pc[c] = "waiting" /\ said[c] = "nothing"
    /\ said' = Set(said, c, IF claims[c] = revision THEN "current" ELSE "stale")
    /\ UNCHANGED <<loopVars, callVars, pc, cancelledBy, answer, parts, pending, verdict, held>>

Revise ==
    /\ revision < MaxRevision /\ revision' = revision + 1
    /\ UNCHANGED <<client, now, closed, callVars, pc, cancelledBy, said, answer, parts, pending,
                   verdict, held>>

\* The loop is not blocked: no time passes while a timer is due.
Due(c) == Running(c) /\ cancelledBy[c] = "nobody" /\ now >= deadline[c]
Tick ==
    /\ now < MaxTime /\ \A c \in Checks : ~ Due(c)
    /\ now' = now + 1
    /\ UNCHANGED <<client, closed, revision, callVars, pc, cancelledBy, said, answer, parts, pending,
                   verdict, held>>

-----------------------------------------------------------------------------
Connect(c) ==
    \/ Connects(c) \/ HeadersArrive(c) \/ PartArrives(c) \/ BodyEnds(c)
    \/ Release(c) \/ ReleaseFails(c)

\* Everything that may happen to a check under way.
Serve(c) ==
    \/ NotSent(c) \/ SentOnClosed(c) \/ CredentialArrives(c)
    \/ TransportFails(c) \/ Connect(c) \/ RpcReturns(c) \/ ClosedUnder(c)
    \/ Return(c) \/ Expire(c) \/ Cancel(c) \/ Judge(c)

Next ==
    \/ Close \/ Revise \/ Tick
    \/ \E c \in Checks : Check(c) \/ Serve(c)

Spec == Init /\ [][Next]_vars

\* Time passes, the loop serves a timer that is due, closing a response ends, and a
\* finished task is joined. Nothing is assumed of the provider, the network, the
\* authority or the caller.
FairSpec ==
    /\ Spec /\ WF_vars(Tick)
    /\ \A c \in Checks : WF_vars(Expire(c)) /\ WF_vars(Release(c)) /\ WF_vars(Return(c))

-----------------------------------------------------------------------------
Outcomes == {"none", "granted", "denied", "unavailable", "cancelled", "raw"}

\* Every variable has its type.
TypeOK ==
    /\ client \in Clients
    /\ now \in 0 .. MaxTime /\ closed \in BOOLEAN /\ revision \in 1 .. MaxRevision
    /\ pc \in [Checks -> Awaits \union {"idle", "finished", "left", "done"}]
    /\ claims \in [Checks -> 0 .. MaxRevision] /\ since \in [Checks -> 0 .. MaxRevision]
    /\ deadline \in [Checks -> 0 .. MaxTime + Timeout] /\ begunAt \in [Checks -> 0 .. MaxTime]
    /\ cancelledBy \in [Checks -> {"nobody", "timer", "caller"}]
    /\ said \in [Checks -> {"nothing", "current", "stale"}]
    /\ answer \in [Checks -> Response \union {NoAnswer}]
    /\ parts \in [Checks -> 0 .. MaxParts]
    /\ pending \in [Checks -> Outcomes] /\ verdict \in [Checks -> Outcomes]
    /\ held \subseteq Checks

\* check returns only for claims that carry the revision that was current when it began:
\* no answer that is late, reordered or another response's makes it return for less.
NoStaleGrant == \A c \in Checks : verdict[c] = "granted" => claims[c] = since[c]

\* The authority's word is used within the one budget of TIMEOUT that covers the
\* credential, the pool, the connection and the body.
InBudget ==
    [][\A c \in Checks :
          verdict'[c] # verdict[c] /\ verdict'[c] \in {"granted", "denied"}
             => now <= begunAt[c] + Timeout]_vars

\* A connection of the pool is held only by a check that is using it: however a check
\* ends, by a refusal, an oversized body, a timer or its caller, it gives it back.
ConnectionsReturned ==
    /\ Cardinality(held) <= PoolSize
    /\ \A c \in held : pc[c] \in {"waiting", "body", "release", "left"}

\* A caller that cancelled is told nothing but its cancellation, at whichever await it
\* reached the check and whatever else ends it there, with two exceptions, and no third: a
\* wait_for with a task of its own hands out the result of a _check that is over already,
\* and an error of response.aclose replaces the cancellation it runs under.
CancellationHeard ==
    [][\A c \in Checks :
          cancelledBy'[c] = "caller" /\ verdict[c] = "none" /\ verdict'[c] # "none"
             => \/ verdict'[c] = "cancelled"
                \/ waitFor = "task" /\ pc[c] = "finished" /\ verdict'[c] = pending[c]
                \/ waitFor = "inline" /\ pc[c] = "release" /\ verdict'[c] = "raw"]_vars

\* The client implements its contract: a decision is always the authority's own, about
\* these claims, made during this check.
Contract == INSTANCE CurrentAuthority
ImplementsCurrentAuthority == Contract!ASpec

\* Every check ends, whether or not the provider, the network or the authority answers.
ChecksEnd == \A c \in Checks : Running(c) ~> ~ Running(c)

-----------------------------------------------------------------------------
(***************************************************************************)
(* What its documentation says, and it does not do.                        *)
(***************************************************************************)

\* README.md:356: "caller cancellation propagates". Each of the two exceptions of
\* CancellationHeard is a caller that cancels and is told something else: before Python
\* 3.12 even a decision, and on every version a response that cannot be closed.
EveryCancellationHeard ==
    \A c \in Checks : cancelledBy[c] = "caller" => verdict[c] \in {"none", "cancelled"}

=============================================================================

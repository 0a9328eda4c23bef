-------------------------- MODULE DatasourceEffects --------------------------
(***************************************************************************)
(* One intended effect of a caller of datasource.invoke and lookup: the    *)
(* caller, which follows the recovery protocol that invoke's docstring and *)
(* the README ask of it, the network and its proxies, and the host that    *)
(* performs the effect. The SDK is what stands between them: it dispatches *)
(* a request once, under one effect id, and turns the answer into an       *)
(* outcome (DatasourceClient). The caller, the network and the host are    *)
(* not under src/: they are modelled from what the README and the tests    *)
(* say the SDK relies on.                                                  *)
(***************************************************************************)
EXTENDS Naturals, FiniteSets, DatasourceClient

CONSTANTS
    Outputs,     \* what the outputs of a committed answer may be
    MaxCalls,    \* bound: invocations and lookups of the caller
    MaxIds       \* bound: effect ids the caller uses, one per fresh start

ASSUME OutputsAssumption == Outputs \subseteq {"objects", "other", "deep"}
ASSUME BoundsAssumption == MaxCalls \in Nat /\ MaxIds \in Nat \ {0}

Ids == 1 .. MaxIds

VARIABLES
    pc,          \* where the caller is
    id,          \* the effect id of this start
    input,       \* the encoded input it sends: as first built, or rebuilt
    persisted,   \* the caller stored id and input before it invoked
    earlier,     \* an earlier request under id may have reached the host
    told,        \* what the caller has concluded
    calls,       \* calls begun (bounded by MaxCalls); numbers the requests
    last,        \* outcome of the caller's last call under id, or NoOutcome
    sent,        \* requests between the caller and the host
    running,     \* attempts the host has marked and is working on
    answer,      \* the host's answer to the call in progress, or NoAnswer
    declared,    \* the operation is declared on the host
    attempt,     \* host, per effect id: "none", "marked" or "committed"
    bound,       \* host: the input each attempt was made with
    executions   \* how often the provider performed the effect

caller == <<pc, id, input, persisted, earlier, told, calls, last>>
host == <<declared, attempt, bound, executions, running>>
vars == <<caller, host, sent, answer>>

NoAnswer == [Blank EXCEPT !.kind = "none"]
NoOutcome == [how |-> "none", type |-> "none", evidence |-> "NONE"]

Requests == [seq: 1 .. MaxCalls, method: {"invoke", "lookup"}, id: Ids,
             input: {"first", "rebuilt"}]

Waiting == pc \in {"invoking", "looking"}

-----------------------------------------------------------------------------
Init ==
    /\ pc = "ready" /\ id = 1 /\ input = "first"
    /\ persisted \in BOOLEAN
    /\ earlier = FALSE /\ told = "pending" /\ calls = 0 /\ last = NoOutcome
    /\ sent = {} /\ running = {} /\ answer = NoAnswer
    /\ declared = TRUE
    /\ attempt = [i \in Ids |-> "none"] /\ bound = [i \in Ids |-> "first"]
    /\ executions = 0

(***************************************************************************)
(* The SDK: one call, one request.                                         *)
(***************************************************************************)

\* _rpc's call of gateway.unary: the effect id goes with the request.
Dispatched(method, label) ==
    /\ calls < MaxCalls
    /\ calls' = calls + 1
    /\ sent' = sent \union {[seq |-> calls + 1, method |-> method, id |-> id,
                             input |-> input]}
    /\ answer' = NoAnswer
    /\ pc' = label
    /\ UNCHANGED <<id, input, persisted, earlier, told, last, host>>

Invoke == pc = "ready" /\ Dispatched("invoke", "invoking")

Lookup == pc = "unsure" /\ Dispatched("lookup", "looking")

\* invoke raises before there is a request.
InvokeNotDispatched ==
    /\ pc = "ready" /\ calls < MaxCalls
    /\ calls' = calls + 1
    /\ last' = NotDispatched
    /\ UNCHANGED <<pc, id, input, persisted, earlier, told, host, sent, answer>>

(***************************************************************************)
(* What the gateway may end a call with at any moment, whether or not the  *)
(* request reached the host and whether or not the host is done with it.   *)
(***************************************************************************)
TransportAnswers ==
    {Lost, Other, NotConnect(503), NotConnect(403), CodeOmitted(503), CodeOmitted(404),
     BrokenBody, DeepBody, ForeignEncoding, Ok("foreign", "objects"), Ok("invalid", "objects")}
    \union {Connect(c) : c \in {"unavailable", "deadline_exceeded", "canceled", "internal"}}

Answers == TransportAnswers \union (IF answer = NoAnswer THEN {} ELSE {answer})

\* Exceptions by which a host says that it refused this request.
Refusals == {"NotPermitted", "UnknownOperation", "InputError", "RateLimited",
             "ProviderRefused", "OperationRefused"}

\* The caller concludes, from what it has of the outcome.
Conclude(conclusion) == told' = conclusion /\ pc' = "done" /\ UNCHANGED earlier
StayUnsure == pc' = "unsure" /\ earlier' = TRUE /\ UNCHANGED told

\* An exception without the effect id leaves a caller that has it from nowhere else (a
\* minted id) with nothing to look up.
InvokeReturns ==
    /\ pc = "invoking"
    /\ \E r \in Answers :
         LET o == InvokeOutcome(r) IN
         /\ last' = o
         /\ \/ o.evidence = "COMMITTED" /\ Conclude("committed")
            \/ o.type \in Refusals /\ ~earlier /\ Conclude("refused")
            \/ /\ o.evidence # "COMMITTED" /\ (o.type \in Refusals => earlier)
               /\ IF o.evidence = "NONE" /\ ~ persisted
                  THEN pc' = "abandoned" /\ UNCHANGED <<told, earlier>>
                  ELSE StayUnsure
    /\ answer' = NoAnswer
    /\ UNCHANGED <<id, input, persisted, calls, host, sent>>

\* EffectNotFound permits the caller to invoke again, under the same id.
LookupReturns ==
    /\ pc = "looking"
    /\ \E r \in Answers :
         LET o == LookupOutcome(r) IN
         /\ last' = o
         /\ \/ o.evidence = "COMMITTED" /\ Conclude("committed")
            \/ /\ o.evidence = "NOT_ATTEMPTED"
               /\ pc' = "ready" /\ UNCHANGED <<told, earlier>>
            \/ o.evidence \notin {"COMMITTED", "NOT_ATTEMPTED"} /\ StayUnsure
    /\ answer' = NoAnswer
    /\ UNCHANGED <<id, input, persisted, calls, host, sent>>

(***************************************************************************)
(* The caller, outside its calls.                                          *)
(***************************************************************************)

\* A refused effect may be tried again later; that is a new id.
StartAgain ==
    /\ pc = "done" /\ told = "refused" /\ id < MaxIds
    /\ id' = id + 1 /\ pc' = "ready" /\ told' = "pending"
    /\ earlier' = FALSE /\ input' = "first" /\ last' = NoOutcome
    /\ UNCHANGED <<persisted, calls, host, sent, answer>>

\* The caller's process dies. What it persisted is all its successor has: it does
\* not know whether the id was used, and may encode the input in another key order.
\* An id it had not persisted is lost with it.
Crash ==
    /\ pc \in {"ready", "invoking", "unsure", "looking"}
    /\ IF persisted
       THEN /\ pc' = "unsure" /\ earlier' = TRUE
            /\ input' \in {input, "rebuilt"}
       ELSE pc' = "abandoned" /\ UNCHANGED <<earlier, input>>
    /\ last' = NoOutcome /\ answer' = NoAnswer
    /\ UNCHANGED <<id, persisted, told, calls, host, sent>>

(***************************************************************************)
(* The network and the host.                                               *)
(***************************************************************************)

Reply(q, r) == answer' = IF Waiting /\ q.seq = calls THEN r ELSE answer

\* A request is lost on its way.
Lose(q) ==
    /\ q \in sent
    /\ sent' = sent \ {q}
    /\ UNCHANGED <<caller, host, answer>>

\* A proxy refuses to forward it, in JSON without a Connect code. The SDK takes a 403
\* in that form for a refusal (as Connect-Go does): it is one only because a proxy
\* that answers so did not forward, which is assumed here.
ProxyForbids(q) ==
    /\ q \in sent
    /\ sent' = sent \ {q}
    /\ Reply(q, CodeOmitted(403))
    /\ UNCHANGED <<caller, host>>

HostRefusals ==
    {Connect(c) : c \in {"permission_denied", "not_found", "invalid_argument"}}
    \union {[Connect("resource_exhausted") EXCEPT !.reason = "DATASOURCE_RATE_LIMITED"],
            Precondition("SOURCE_DECLARATION_CHANGED")}

\* The host refuses this request, before it looks at the attempt; not_found it says
\* of an operation.
HostRefusesInvoke(q) ==
    /\ q \in sent /\ q.method = "invoke"
    /\ sent' = sent \ {q}
    /\ \E r \in HostRefusals : Reply(q, r)
    /\ UNCHANGED <<caller, host>>

Removed(i) == [Precondition("SOURCE_OPERATION_DECLARATION_REMOVED")
                  EXCEPT !.committed = (attempt[i] = "committed")]
OutcomeUnknownAnswers == {Ok("unknown", "other"),
                          Precondition("SOURCE_OPERATION_OUTCOME_UNKNOWN")}

\* What the host answers of an attempt it has.
RetainedAnswers(i) ==
    (IF attempt[i] = "committed" THEN {Ok("committed", outputs) : outputs \in Outputs}
                                 ELSE OutcomeUnknownAnswers)
    \union (IF declared THEN {} ELSE {Removed(i)})

\* An id that was attempted is never attempted again.
HostReplays(q) ==
    /\ q \in sent /\ q.method = "invoke" /\ attempt[q.id] # "none"
    /\ sent' = sent \ {q}
    /\ \E r \in IF q.input # bound[q.id] THEN {Precondition("SOURCE_EFFECT_REUSED")}
                                         ELSE RetainedAnswers(q.id) : Reply(q, r)
    /\ UNCHANGED <<caller, host>>

\* A new attempt is marked before the provider is called.
HostMarks(q) ==
    /\ q \in sent /\ q.method = "invoke" /\ attempt[q.id] = "none" /\ declared
    /\ sent' = sent \ {q}
    /\ running' = running \union {q}
    /\ attempt' = [attempt EXCEPT ![q.id] = "marked"]
    /\ bound' = [bound EXCEPT ![q.id] = q.input]
    /\ UNCHANGED <<caller, answer, declared, executions>>

HostLooksUp(q) ==
    /\ q \in sent /\ q.method = "lookup"
    /\ sent' = sent \ {q}
    /\ \E r \in (IF attempt[q.id] = "none" THEN {Connect("not_found")}
                                           ELSE RetainedAnswers(q.id))
                \union {Connect("permission_denied")} : Reply(q, r)
    /\ UNCHANGED <<caller, host>>

\* The provider performs the effect and the host stores the receipt.
HostCommits(q) ==
    /\ q \in running
    /\ running' = running \ {q}
    /\ executions' = executions + 1
    /\ attempt' = [attempt EXCEPT ![q.id] = "committed"]
    /\ \E outputs \in Outputs : Reply(q, Ok("committed", outputs))
    /\ UNCHANGED <<caller, sent, declared, bound>>

\* The provider performs it and the host does not learn or store it.
HostLosesReceipt(q) ==
    /\ q \in running
    /\ running' = running \ {q}
    /\ executions' = executions + 1
    /\ \E r \in OutcomeUnknownAnswers \union {NoAnswer} : Reply(q, r)
    /\ UNCHANGED <<caller, sent, declared, attempt, bound>>

\* The provider does not perform it: it refuses, or the host dies before.
HostGivesUp(q) ==
    /\ q \in running
    /\ running' = running \ {q}
    /\ \E r \in {Precondition("SOURCE_PROVIDER_REFUSED"), NoAnswer} : Reply(q, r)
    /\ UNCHANGED <<caller, sent, declared, attempt, bound, executions>>

\* declare_operations, with or without the operation.
Redeclare ==
    /\ declared' = ~declared
    /\ UNCHANGED <<caller, sent, answer, attempt, bound, executions, running>>

-----------------------------------------------------------------------------
Call == Invoke \/ Lookup \/ InvokeNotDispatched \/ InvokeReturns \/ LookupReturns

Host(q) ==
    \/ HostRefusesInvoke(q) \/ HostReplays(q) \/ HostMarks(q) \/ HostLooksUp(q)
    \/ HostCommits(q) \/ HostLosesReceipt(q) \/ HostGivesUp(q)

Next ==
    \/ Call \/ StartAgain \/ Crash \/ Redeclare
    \/ \E q \in Requests : Lose(q) \/ ProxyForbids(q) \/ Host(q)

Spec == Init /\ [][Next]_vars

-----------------------------------------------------------------------------
(***************************************************************************)
(* What the SDK's outcomes guarantee a caller that follows the protocol.   *)
(***************************************************************************)

\* Every variable has its type.
TypeOK ==
    /\ pc \in {"ready", "invoking", "unsure", "looking", "done", "abandoned"}
    /\ id \in Ids /\ input \in {"first", "rebuilt"}
    /\ persisted \in BOOLEAN /\ earlier \in BOOLEAN
    /\ told \in {"pending", "committed", "refused"}
    /\ calls \in 0 .. MaxCalls
    /\ last.how \in {"none", "returns", "raises"}
    /\ last.evidence \in {"NONE", "COMMITTED", "UNKNOWN", "NOT_ATTEMPTED"}
    /\ sent \subseteq Requests /\ running \subseteq Requests
    /\ answer.kind \in {"none", "ok", "http"}
    /\ declared \in BOOLEAN
    /\ attempt \in [Ids -> {"none", "marked", "committed"}]
    /\ bound \in [Ids -> {"first", "rebuilt"}]
    /\ executions \in Nat

\* One intended effect happens at most once, over every id its caller used: an
\* outcome that hides that the effect may have happened (a lost reply or a proxy's
\* answer taken for a refusal) would let the caller start over with a fresh id.
AtMostOnce == executions <= 1

\* What the caller was told is so, while requests it gave up on are still under
\* way: a committed effect happened and has its receipt on the host; a refused one
\* has not happened, and nothing under way can make it happen.
ToldIsTrue ==
    /\ told = "committed" => executions = 1 /\ attempt[id] = "committed"
    /\ told = "refused" => /\ executions = 0 /\ running = {}
                           /\ \A q \in sent : q.method # "invoke"

\* Evidence of a commit comes from the host and is about this effect: a receipt
\* that is missing, malformed, unknown or another effect's is never one.
EvidenceIsTrue == last.evidence = "COMMITTED" => attempt[id] = "committed"

\* An invocation that was dispatched leaves its caller without the effect id and a receipt
\* in one case only, when a host that committed the effect nests the outputs too deep for
\* json.loads; whatever else ends it, the gateway's own exceptions and a body that breaks
\* off included, the id survives. And evidence of any sort comes from a request that went
\* out: a call that fails before that claims no attempt.
IdentityKept ==
    [][/\ pc = "invoking" /\ pc' # "invoking" /\ last' # NoOutcome
            => \/ last'.evidence \in {"UNKNOWN", "COMMITTED"}
               \/ /\ answer.receipt = "committed" /\ answer.outputs = "deep"
                  /\ attempt[id] = "committed"
       /\ last' # last /\ last'.evidence # "NONE" => Waiting]_vars

\* The caller sees one effect: OneEffect, with the provider's executions.
Effect == INSTANCE OneEffect WITH happened <- executions
ImplementsOneEffect == Effect!ESpec

-----------------------------------------------------------------------------
(***************************************************************************)
(* What its documentation says, and it does not do.                        *)
(***************************************************************************)

\* README.md:154: "Lookup answers unknown, `Unavailable`, a non-Connect HTTP error,
\* a lost/undecodable reply, or invalid receipt evidence | **returns**
\* `OutcomeUnknown`": a lookup raises only what a host said of this request and
\* exceptions of the gateway that are none of those. A reply lost while the body of
\* an HTTP error is read is raised raw. (RecursionError is FailureKeepsIdentity's matter.)
LostReplyIsAValue ==
    [][pc = "looking" /\ pc' \notin {"looking", "abandoned"} /\ last'.how = "raises"
       => last'.type \in Refusals \union {"EffectReused", "DatasourceError", "HTTPError",
                                         "GatewayError", "RecursionError"}]_vars

\* README.md:159: "Every dispatched invocation failure retains `.effect_id` and
\* `.receipt`, even when the gateway exception has no SDK mapping." The outputs of a
\* committed effect are decoded by _operation_result, after _rpc and the clause of it that
\* adds both; a RecursionError there carries neither.
FailureKeepsIdentity ==
    [][pc = "invoking" /\ pc' # "invoking" /\ last'.how = "raises"
       => last'.evidence \in {"UNKNOWN", "COMMITTED"}]_vars

=============================================================================

------------------------- MODULE DatasourceEffectsProofs -------------------------
(***************************************************************************)
(* What DatasourceEffects' run shows for four calls and two ids, proved    *)
(* for any number of either and whatever a committed answer holds.         *)
(*                                                                         *)
(* The argument. The host attempts an id once (AttemptedOnce), so          *)
(* executions can only multiply over ids, and a caller takes a fresh id    *)
(* only when it has concluded that the last one was refused. It concludes  *)
(* that from a refusal to its first request under the id: then no other    *)
(* request is under way (Solo), and the answers that may stand for the     *)
(* host without being its own are never taken for a refusal, nor for a     *)
(* commit (NothingFromTransport).                                          *)
(***************************************************************************)
EXTENDS DatasourceEffects, TLAPS

\* An answer with evidence of a commit, and one by which a host refuses an invocation.
Proves(r) ==
    \/ r.kind = "ok" /\ r.receipt \notin {"invalid", "foreign", "unknown"}
    \/ r.kind = "http" /\ r.committed
Refusing(r) == InvokeOutcome(r).type \in Refusals

Pending == sent \union running
Open == {q \in Pending : q.method = "invoke"}

\* Requests are numbered by the calls that sent them; that of the call in progress is
\* about the caller's id.
Numbered ==
    /\ \A q \in Pending : q.seq <= calls
    /\ \A q, r \in Pending : q.seq = r.seq => q = r
    /\ sent \intersect running = {}
    /\ \A q \in running : q.method = "invoke"
    /\ \A q \in Pending :
         Waiting /\ q.seq = calls =>
            q.id = id /\ q.method = IF pc = "invoking" THEN "invoke" ELSE "lookup"

\* Only the caller's present id is still under way, and later ones are unused.
OneIdOpen ==
    /\ \A q \in Open : q.id = id
    /\ \A j \in Ids : j > id => attempt[j] = "none"

\* The host attempts the id once.
AttemptedOnce ==
    /\ executions \in 0 .. 1
    /\ attempt[id] = "none" => running = {} /\ executions = 0
    /\ attempt[id] = "committed" => executions = 1
    /\ running # {} => executions = 0 /\ attempt[id] = "marked"
    /\ \A q, r \in running : q = r

\* What the answer in hand proves is so.
AnswerIsTrue ==
    /\ answer # NoAnswer => Waiting
    /\ Proves(answer) => attempt[id] = "committed"
    /\ pc = "invoking" /\ ~earlier /\ Refusing(answer) => executions = 0 /\ Open = {}

\* The first request under an id is alone.
Solo ==
    /\ pc \in {"unsure", "looking"} => earlier
    /\ pc = "ready" /\ ~earlier => Open = {} /\ attempt[id] = "none"
    /\ pc = "invoking" /\ ~earlier =>
         /\ \A q \in Open : q.seq = calls
         /\ attempt[id] # "none" => \A q \in sent : q.method # "invoke"

Told ==
    /\ told = "committed" => attempt[id] = "committed"
    /\ told = "refused" => executions = 0 /\ Open = {}
    /\ told # "pending" <=> pc = "done"

\* The inductive invariant.
IInv ==
    /\ TypeOK /\ Numbered /\ OneIdOpen /\ AttemptedOnce /\ AnswerIsTrue /\ Solo
    /\ Told /\ EvidenceIsTrue

-----------------------------------------------------------------------------
(***************************************************************************)
(* Outcomes.                                                               *)
(***************************************************************************)

Types == Refusals \union {"OutcomeUnknown", "HTTPError", "OperationDeclarationRemoved",
                          "EffectReused", "EffectNotFound", "IncompleteRead",
                          "GatewayError", "DatasourceError", "RecursionError", "Result",
                          "Receipt"}
Outcomes == [how : {"returns", "raises"}, type : Types,
             evidence : {"NONE", "COMMITTED", "UNKNOWN", "NOT_ATTEMPTED"}]

\* What an HTTP error with a recognized envelope becomes when an effect is at stake.
LEMMA MapCodeOutcomes ==
    ASSUME NEW r, NEW lookup \in BOOLEAN
    PROVE  LET o == MapCode(r, TRUE, lookup) IN
           /\ o \in Outcomes
           /\ o.evidence = "COMMITTED" => r.committed
           /\ o.evidence = "NOT_ATTEMPTED" => lookup
  <1> DEFINE o == MapCode(r, TRUE, lookup)
             p == MapPrecondition(r, TRUE)
             e == RemovedEvidence(r, TRUE)
  <1>1. e = IF r.committed THEN "COMMITTED" ELSE "UNKNOWN"
    BY DEF RemovedEvidence
  <1>2. \/ p = Unknown
        \/ p = Raises("OperationDeclarationRemoved", e)
        \/ p = Raises("EffectReused", "NONE")
        \/ p = Raises("ProviderRefused", "NONE")
        \/ p = Raises("OperationRefused", "NONE")
    BY Zenon DEF MapPrecondition
  <1>3. \/ o = p \/ o = Unknown \/ o = Original
        \/ lookup /\ o = Raises("EffectNotFound", "NOT_ATTEMPTED")
        \/ \E type \in {"NotPermitted", "UnknownOperation", "InputError", "RateLimited"} :
              o = Raises(type, "NONE")
    BY Zenon DEF MapCode
  <1> HIDE DEF o, p, e
  <1>4. p \in Outcomes /\ p.evidence # "NOT_ATTEMPTED" /\ (p.evidence = "COMMITTED" => r.committed)
    BY <1>1, <1>2 DEF Unknown, Raises, Outcomes, Types, Refusals
  <1>5. /\ o \in Outcomes
        /\ o.evidence = "COMMITTED" => r.committed
        /\ o.evidence = "NOT_ATTEMPTED" => lookup
    BY <1>3, <1>4 DEF Unknown, Original, Raises, Outcomes, Types, Refusals
  <1>6. QED BY <1>5 DEF o

LEMMA DispatchOutcomes ==
    ASSUME NEW r, NEW lookup \in BOOLEAN
    PROVE  LET o == Dispatch(r, TRUE, lookup) IN
           /\ o \in Outcomes
           /\ o.evidence = "COMMITTED" => r.kind = "http" /\ r.committed
           /\ o.evidence = "NOT_ATTEMPTED" => lookup
  <1> DEFINE o == Dispatch(r, TRUE, lookup)
             m == MapCode(r, TRUE, lookup)
  <1>1. \/ o = Unknown \/ o = Raises("IncompleteRead", "NONE")
        \/ o = Raises("RecursionError", "NONE") \/ o = Raises("GatewayError", "NONE")
        \/ r.kind = "http" /\ o = m
    BY Zenon DEF Dispatch, HttpOutcome
  <1>2. /\ m \in Outcomes
        /\ m.evidence = "COMMITTED" => r.committed
        /\ m.evidence = "NOT_ATTEMPTED" => lookup
    BY MapCodeOutcomes
  <1> HIDE DEF o, m
  <1>3. /\ o \in Outcomes
        /\ o.evidence = "COMMITTED" => r.kind = "http" /\ r.committed
        /\ o.evidence = "NOT_ATTEMPTED" => lookup
    BY <1>1, <1>2 DEF Unknown, Raises, Outcomes, Types, Refusals
  <1>4. QED BY <1>3 DEF o

LEMMA ReceiptOutcomes ==
    ASSUME NEW r
    PROVE  LET o == OperationResult(r) IN
           /\ o \in Outcomes /\ o.evidence # "NOT_ATTEMPTED"
           /\ o.type \in {"OutcomeUnknown", "DatasourceError", "RecursionError", "Result"}
           /\ o.evidence = "COMMITTED" => r.receipt \notin {"invalid", "foreign", "unknown"}
           /\ o.evidence = "NONE" => r.receipt = "committed" /\ r.outputs = "deep"
  <1> DEFINE o == OperationResult(r)
  <1>1. \/ o = Unknown
        \/ r.receipt = "committed" /\ o = Raises("DatasourceError", "COMMITTED")
        \/ /\ r.receipt = "committed" /\ r.outputs = "deep"
           /\ o = Raises("RecursionError", "NONE")
        \/ /\ r.receipt \notin {"invalid", "foreign", "unknown"}
           /\ o = Returns("Result", "COMMITTED")
    BY Zenon DEF OperationResult
  <1>2. QED BY <1>1 DEF Unknown, Raises, Returns, Outcomes, Types, Refusals

LEMMA InvokeOutcomes ==
    ASSUME NEW r
    PROVE  LET o == InvokeOutcome(r) IN
           /\ o \in Outcomes /\ o.evidence # "NOT_ATTEMPTED"
           /\ o.evidence = "COMMITTED" => Proves(r)
           /\ o.evidence = "NONE" => /\ r.kind = "ok" /\ r.receipt = "committed"
                                     /\ r.outputs = "deep"
  <1>1. CASE r.kind = "ok"
    BY <1>1, ReceiptOutcomes DEF InvokeOutcome, Proves
  <1>2. CASE r.kind # "ok"
    BY <1>2, DispatchOutcomes DEF InvokeOutcome, WithIdentity, Proves, Outcomes, Types, Refusals
  <1>3. QED BY <1>1, <1>2

LEMMA LookupOutcomes ==
    ASSUME NEW r
    PROVE  LET o == LookupOutcome(r) IN
           o \in Outcomes /\ (o.evidence = "COMMITTED" => Proves(r))
  <1> DEFINE o == IF r.kind = "ok" THEN OperationResult(r) ELSE Dispatch(r, TRUE, TRUE)
  <1>1. o \in Outcomes /\ (o.evidence = "COMMITTED" => Proves(r))
    BY ReceiptOutcomes, DispatchOutcomes DEF Proves
  <1>2. LookupOutcome(r) = IF o.type \in LookupValues THEN [o EXCEPT !.how = "returns"]
                           ELSE IF o.type = "Result" THEN Returns("Receipt", o.evidence) ELSE o
    BY DEF LookupOutcome
  <1> HIDE DEF o
  <1>3. CASE o.type \in LookupValues
    <2>1. LookupOutcome(r) = [o EXCEPT !.how = "returns"]
      BY <1>2, <1>3
    <2>2. QED BY <1>1, <2>1 DEF Outcomes
  <1>4. CASE o.type \notin LookupValues /\ o.type = "Result"
    <2>1. LookupOutcome(r) = Returns("Receipt", o.evidence)
      BY <1>2, <1>4
    <2>2. Returns("Receipt", o.evidence) \in Outcomes
      BY <1>1 DEF Returns, Outcomes, Types
    <2>3. Returns("Receipt", o.evidence).evidence = o.evidence
      BY DEF Returns
    <2>4. QED BY <1>1, <2>1, <2>2, <2>3
  <1>5. CASE o.type \notin LookupValues /\ o.type # "Result"
    BY <1>1, <1>2, <1>5
  <1>6. QED BY <1>3, <1>4, <1>5

-----------------------------------------------------------------------------
(***************************************************************************)
(* What each answer says.                                                  *)
(***************************************************************************)

\* A refusal or failure in the Connect protocol, with that code.
Envelope(r, code) ==
    /\ r.kind = "http" /\ ~ r.committed /\ r.encoding = "supported" /\ r.body = "connect"
    /\ r.code = code

LEMMA OkFields ==
    ASSUME NEW receipt, NEW outputs
    PROVE  /\ Ok(receipt, outputs).kind = "ok" /\ Ok(receipt, outputs).receipt = receipt
           /\ Ok(receipt, outputs).outputs = outputs
  BY DEF Ok, Blank

LEMMA ConnectFields ==
    ASSUME NEW code
    PROVE  Envelope(Connect(code), code)
  BY DEF Connect, Blank, Envelope

LEMMA OmittedFields ==
    ASSUME NEW status
    PROVE  Envelope(CodeOmitted(status), "") /\ CodeOmitted(status).status = status
  BY DEF CodeOmitted, Connect, Blank, Envelope

LEMMA PreconditionFields ==
    ASSUME NEW reason
    PROVE  /\ Envelope(Precondition(reason), "failed_precondition")
           /\ Precondition(reason).reason = reason
  BY DEF Precondition, Connect, Blank, Envelope

LEMMA UnreadableFields ==
    ASSUME NEW status
    PROVE  LET r == NotConnect(status) IN
           r.kind = "http" /\ ~ r.committed /\ r.encoding = "supported" /\ r.body = "unreadable"
  BY DEF NotConnect, Blank

\* Nothing the gateway or a proxy comes up with by itself is evidence of a commit, or
\* a refusal by the host.
LEMMA NothingFromTransport ==
    ASSUME NEW r \in TransportAnswers
    PROVE  ~ Proves(r) /\ ~ Refusing(r)
  <1> DEFINE codes == {"unavailable", "deadline_exceeded", "canceled", "internal",
                       "unimplemented"}
             d == Dispatch(r, TRUE, FALSE)
  <1>1. HttpToCode(503) = "unavailable" /\ HttpToCode(404) = "unimplemented"
    BY DEF HttpToCode
  <1>2. \/ r.kind = "ok" /\ r.receipt \in {"foreign", "invalid"}
        \/ r.kind \in {"lost", "other"}
        \/ /\ r.kind = "http" /\ ~ r.committed
           /\ \/ r.encoding = "unsupported"
              \/ r.encoding = "supported" /\ r.body \in {"broken", "deep", "unreadable"}
              \/ r.encoding = "supported" /\ r.body = "connect" /\ CodeOf(r) \in codes
    <2>1. CASE r \in {Lost, Other, Ok("foreign", "objects"), Ok("invalid", "objects")}
      <3>1. Lost.kind = "lost" /\ Other.kind = "other"
        BY DEF Lost, Other, Blank
      <3>2. QED BY <2>1, <3>1, OkFields
    <2>2. CASE r \in {NotConnect(503), NotConnect(403), BrokenBody, DeepBody,
                        ForeignEncoding}
      <3>1. /\ BrokenBody.kind = "http" /\ ~ BrokenBody.committed
            /\ BrokenBody.encoding = "supported" /\ BrokenBody.body = "broken"
        BY DEF BrokenBody, Blank
      <3>2. /\ DeepBody.kind = "http" /\ ~ DeepBody.committed
            /\ DeepBody.encoding = "supported" /\ DeepBody.body = "deep"
        BY DEF DeepBody, Blank
      <3>3. /\ ForeignEncoding.kind = "http" /\ ~ ForeignEncoding.committed
            /\ ForeignEncoding.encoding = "unsupported"
        BY DEF ForeignEncoding, Connect, Blank
      <3>4. QED BY <2>2, <3>1, <3>2, <3>3, UnreadableFields
    <2>3. CASE r \in {CodeOmitted(503), CodeOmitted(404)}
      <3>1. ASSUME NEW status, HttpToCode(status) \in codes
            PROVE  LET o == CodeOmitted(status) IN
                   /\ o.kind = "http" /\ ~ o.committed
                   /\ o.encoding = "supported" /\ o.body = "connect" /\ CodeOf(o) \in codes
        <4>1. Envelope(CodeOmitted(status), "") /\ CodeOmitted(status).status = status
          BY OmittedFields
        <4>2. CodeOf(CodeOmitted(status)) = HttpToCode(status)
          BY <4>1 DEF CodeOf, ConnectCodes, Envelope
        <4>3. QED BY <3>1, <4>1, <4>2 DEF Envelope
      <3>2. HttpToCode(503) \in codes /\ HttpToCode(404) \in codes
        BY <1>1
      <3>3. r = CodeOmitted(503) \/ r = CodeOmitted(404)
        BY <2>3
      <3>4. CASE r = CodeOmitted(503)
        BY <3>1, <3>2, <3>4
      <3>5. CASE r = CodeOmitted(404)
        BY <3>1, <3>2, <3>5
      <3>6. QED BY <3>3, <3>4, <3>5
    <2>4. CASE \E c \in {"unavailable", "deadline_exceeded", "canceled", "internal"} :
                 r = Connect(c)
      <3>1. PICK c \in {"unavailable", "deadline_exceeded", "canceled", "internal"} :
                 r = Connect(c)
        BY <2>4
      <3>2. Envelope(r, c)
        BY <3>1, ConnectFields
      <3>3. QED BY <3>1, <3>2 DEF CodeOf, ConnectCodes, Envelope
    <2>5. \/ r \in {Lost, Other, Ok("foreign", "objects"), Ok("invalid", "objects")}
          \/ r \in {NotConnect(503), NotConnect(403), BrokenBody, DeepBody,
                        ForeignEncoding}
          \/ r \in {CodeOmitted(503), CodeOmitted(404)}
          \/ \E c \in {"unavailable", "deadline_exceeded", "canceled", "internal"} :
                r = Connect(c)
      <3> DEFINE failing == {"unavailable", "deadline_exceeded", "canceled", "internal"}
                 made == {Connect(c) : c \in failing}
      <3>1. \/ r \in {Lost, Other, NotConnect(503), NotConnect(403), CodeOmitted(503),
                     CodeOmitted(404), BrokenBody, DeepBody, ForeignEncoding,
                     Ok("foreign", "objects"), Ok("invalid", "objects")}
            \/ r \in made
        BY DEF TransportAnswers
      <3>2. r \in made => \E c \in failing : r = Connect(c)
        OBVIOUS
      <3> HIDE DEF failing, made
      <3>3. CASE r \in made
        BY <3>2, <3>3 DEF failing
      <3>4. CASE r \notin made
        BY <3>1, <3>4
      <3>5. QED BY <3>3, <3>4
    <2>6. QED BY <2>1, <2>2, <2>3, <2>4, <2>5
  <1>3. r.kind # "ok" =>
          \/ d = Unknown \/ d = Original
          \/ d = Raises("IncompleteRead", "NONE") \/ d = Raises("RecursionError", "NONE")
          \/ d = Raises("GatewayError", "NONE")
    <2>1. CodeOf(r) \in codes =>
            \/ MapCode(r, TRUE, FALSE) = Unknown \/ MapCode(r, TRUE, FALSE) = Original
      BY Zenon DEF MapCode
    <2>2. QED BY <1>2, <2>1, Zenon DEF Dispatch, HttpOutcome
  <1>4. ~ Proves(r)
    BY <1>2 DEF Proves
  <1>5. ~ Refusing(r)
    <2>1. CASE r.kind = "ok"
      BY <2>1, ReceiptOutcomes DEF Refusing, InvokeOutcome, Refusals
    <2>2. CASE r.kind # "ok"
      <3> HIDE DEF d
      <3>1. d \in Outcomes /\ d.type \in {"OutcomeUnknown", "HTTPError", "IncompleteRead",
                                         "RecursionError", "GatewayError"}
        BY <2>2, <1>3 DEF Unknown, Original, Raises, Outcomes, Types, Refusals
      <3>2. QED BY <2>2, <3>1
                DEF d, Refusing, InvokeOutcome, WithIdentity, Outcomes, Types, Refusals
    <2>3. QED BY <2>1, <2>2
  <1>6. QED BY <1>4, <1>5

\* Of an attempt it has, a host does not say that it refused it.
LEMMA RetainedAreNoRefusals ==
    ASSUME NEW r, r.kind = "http", r.encoding = "supported", r.body = "connect",
           r.code = "failed_precondition",
           r.reason \in {"SOURCE_OPERATION_OUTCOME_UNKNOWN", "SOURCE_EFFECT_REUSED",
                         "SOURCE_OPERATION_DECLARATION_REMOVED"}
    PROVE  ~ Refusing(r)
  <1> DEFINE o == Dispatch(r, TRUE, FALSE)
             e == RemovedEvidence(r, TRUE)
  <1>1. CodeOf(r) = "failed_precondition"
    BY DEF CodeOf, ConnectCodes
  <1>2. o = MapPrecondition(r, TRUE)
    BY <1>1, Zenon DEF Dispatch, HttpOutcome, MapCode
  <1>3. \/ o = Unknown \/ o = Raises("OperationDeclarationRemoved", e)
        \/ o = Raises("EffectReused", "NONE")
    BY <1>2, Zenon DEF MapPrecondition
  <1>4. InvokeOutcome(r) = WithIdentity(o)
    BY DEF InvokeOutcome
  <1> HIDE DEF o, e
  <1>5. o.type \in {"OutcomeUnknown", "OperationDeclarationRemoved", "EffectReused"}
    BY <1>3 DEF Unknown, Raises
  <1>6. WithIdentity(o).type \notin Refusals
    BY <1>3, <1>5 DEF WithIdentity, Unknown, Raises, Refusals
  <1>7. QED BY <1>4, <1>6 DEF Refusing

LEMMA UnknownAnswers ==
    ASSUME NEW r \in OutcomeUnknownAnswers \union {Precondition("SOURCE_EFFECT_REUSED")}
    PROVE  r.kind \in {"ok", "http"} /\ ~ Proves(r) /\ ~ Refusing(r)
  <1>1. CASE r = Ok("unknown", "other")
    <2>1. r.kind = "ok" /\ r.receipt = "unknown"
      BY <1>1, OkFields
    <2>2. QED BY <2>1, ReceiptOutcomes DEF Proves, Refusing, InvokeOutcome, Refusals
  <1>2. ASSUME NEW reason \in {"SOURCE_OPERATION_OUTCOME_UNKNOWN", "SOURCE_EFFECT_REUSED"},
               r = Precondition(reason)
        PROVE  r.kind \in {"ok", "http"} /\ ~ Proves(r) /\ ~ Refusing(r)
    <2>1. Envelope(r, "failed_precondition") /\ r.reason = reason
      BY <1>2, PreconditionFields
    <2>2. ~ Refusing(r)
      BY <2>1, RetainedAreNoRefusals DEF Envelope
    <2>3. QED BY <2>1, <2>2 DEF Envelope, Proves
  <1>3. QED BY <1>1, <1>2 DEF OutcomeUnknownAnswers

\* The host speaks the truth of an attempt it has.
LEMMA RetainedAnswersAreTrue ==
    ASSUME NEW i, NEW r \in RetainedAnswers(i)
    PROVE  /\ r.kind \in {"ok", "http"} /\ ~ Refusing(r)
           /\ Proves(r) => attempt[i] = "committed"
  <1>1. ASSUME attempt[i] = "committed", NEW outputs \in Outputs, r = Ok("committed", outputs)
        PROVE  r.kind = "ok" /\ r.receipt = "committed" /\ ~ Refusing(r)
    <2>1. r.kind = "ok" /\ r.receipt = "committed"
      BY <1>1, OkFields
    <2>2. QED BY <2>1, ReceiptOutcomes DEF Refusing, InvokeOutcome, Refusals
  <1>2. ASSUME r = Removed(i)
        PROVE  /\ r.kind = "http" /\ ~ Refusing(r)
               /\ Proves(r) => attempt[i] = "committed"
    <2> DEFINE is == attempt[i] = "committed"
    <2>1. /\ r.kind = "http" /\ r.encoding = "supported" /\ r.body = "connect"
          /\ r.code = "failed_precondition"
          /\ r.reason = "SOURCE_OPERATION_DECLARATION_REMOVED"
      BY <1>2 DEF Removed, Precondition, Connect, Blank
    <2>2. r.committed => is
      BY <1>2 DEF Removed, Precondition, Connect, Blank
    <2>3. ~ Refusing(r)
      BY <2>1, RetainedAreNoRefusals
    <2>4. QED BY <2>1, <2>2, <2>3 DEF Proves
  <1>3. \/ attempt[i] = "committed" /\ \E outputs \in Outputs : r = Ok("committed", outputs)
        \/ r \in OutcomeUnknownAnswers
        \/ r = Removed(i)
    BY DEF RetainedAnswers
  <1>4. ASSUME r \in OutcomeUnknownAnswers
        PROVE  /\ r.kind \in {"ok", "http"} /\ ~ Refusing(r) /\ ~ Proves(r)
               /\ r.kind = "ok" => r.receipt = "unknown"
    <2>1. r.kind = "ok" => r.receipt = "unknown"
      BY <1>4, OkFields, PreconditionFields DEF OutcomeUnknownAnswers, Envelope
    <2>2. QED BY <1>4, <2>1, UnknownAnswers
  <1>5. QED BY <1>1, <1>2, <1>3, <1>4

\* A refusal proves no commit.
LEMMA RefusalsProveNothing ==
    ASSUME NEW r \in HostRefusals \union {CodeOmitted(403), Connect("not_found"),
                                          Connect("permission_denied"),
                                          Precondition("SOURCE_PROVIDER_REFUSED")}
    PROVE  r.kind = "http" /\ ~ Proves(r)
  <1> DEFINE limited == [Connect("resource_exhausted")
                            EXCEPT !.reason = "DATASOURCE_RATE_LIMITED"]
  <1>1. limited.kind = "http" /\ ~ limited.committed
    BY DEF Connect, Blank
  <1> HIDE DEF limited
  <1>2. \/ r = limited \/ r = CodeOmitted(403)
        \/ \E code \in {"permission_denied", "not_found", "invalid_argument"} :
              r = Connect(code)
        \/ \E reason \in {"SOURCE_DECLARATION_CHANGED", "SOURCE_PROVIDER_REFUSED"} :
              r = Precondition(reason)
    BY DEF HostRefusals, limited
  <1>3. r.kind = "http" /\ ~ r.committed
    <2>1. Envelope(CodeOmitted(403), "")
      BY OmittedFields
    <2>2. ASSUME NEW code, r = Connect(code) PROVE Envelope(r, code)
      BY <2>2, ConnectFields
    <2>3. ASSUME NEW reason, r = Precondition(reason)
          PROVE  Envelope(r, "failed_precondition")
      BY <2>3, PreconditionFields
    <2>4. \A code : Envelope(r, code) => r.kind = "http" /\ ~ r.committed
      BY DEF Envelope
    <2>5. CASE r = limited
      BY <2>5, <1>1
    <2>6. CASE r # limited
      <3>1. \E code : Envelope(r, code)
        <4>1. ASSUME r = CodeOmitted(403) PROVE Envelope(r, "")
          BY <2>1, <4>1
        <4>2. ASSUME \E code \in {"permission_denied", "not_found", "invalid_argument"} :
                       r = Connect(code)
              PROVE  \E code : Envelope(r, code)
          BY <2>2, <4>2
        <4>3. ASSUME \E reason \in {"SOURCE_DECLARATION_CHANGED", "SOURCE_PROVIDER_REFUSED"} :
                       r = Precondition(reason)
              PROVE  Envelope(r, "failed_precondition")
          BY <2>3, <4>3
        <4>4. QED BY <1>2, <2>6, <4>1, <4>2, <4>3
      <3>2. QED BY <2>4, <3>1, Zenon
    <2>7. QED BY <2>5, <2>6
  <1>4. QED BY <1>3 DEF Proves

LEMMA NothingFromNoAnswer == NoAnswer.kind = "none" /\ ~ Proves(NoAnswer) /\ ~ Refusing(NoAnswer)
  <1>1. NoAnswer.kind = "none"
    BY DEF NoAnswer, Blank
  <1>2. Dispatch(NoAnswer, TRUE, FALSE) = Raises("GatewayError", "NONE")
    BY <1>1, Zenon DEF Dispatch
  <1>3. InvokeOutcome(NoAnswer) = WithIdentity(Raises("GatewayError", "NONE"))
    BY <1>1, <1>2 DEF InvokeOutcome
  <1>4. QED BY <1>1, <1>3 DEF Proves, Refusing, WithIdentity, Raises, Refusals

-----------------------------------------------------------------------------
(***************************************************************************)
(* The invariant.                                                          *)
(***************************************************************************)

LEMMA InitInvariant == Init => IInv
  <1> SUFFICES ASSUME Init PROVE IInv
    OBVIOUS
  <1>1. NoAnswer.kind = "none" /\ ~ Proves(NoAnswer) /\ ~ Refusing(NoAnswer)
    BY NothingFromNoAnswer
  <1>2. id = 1 /\ 1 \in Ids /\ calls \in 0 .. MaxCalls
    BY BoundsAssumption DEF Init, Ids
  <1>3. TypeOK
    BY <1>1, <1>2 DEF Init, TypeOK, NoOutcome
  <1>4. Pending = {} /\ Open = {}
    BY DEF Init, Pending, Open
  <1>5. Numbered /\ OneIdOpen /\ AttemptedOnce
    BY <1>2, <1>4 DEF Init, Numbered, OneIdOpen, AttemptedOnce
  <1>6. AnswerIsTrue /\ Solo /\ Told /\ EvidenceIsTrue
    BY <1>1, <1>2, <1>4 DEF Init, AnswerIsTrue, Solo, Told, EvidenceIsTrue, NoOutcome
  <1>7. QED BY <1>3, <1>5, <1>6 DEF IInv

\* What the caller makes of the answers it may get, the host's and the gateway's.
LEMMA WhatACallLearns ==
    ASSUME IInv, NEW r \in Answers
    PROVE  /\ Proves(r) => attempt[id] = "committed"
           /\ pc = "invoking" /\ ~ earlier /\ Refusing(r) => executions = 0 /\ Open = {}
  <1>1. CASE r \in TransportAnswers
    BY <1>1, NothingFromTransport DEF Proves
  <1>2. CASE r \notin TransportAnswers
    <2>1. r = answer
      BY <1>2 DEF Answers
    <2>2. QED BY <2>1 DEF IInv, AnswerIsTrue
  <1>3. QED BY <1>1, <1>2

LEMMA DispatchedStep ==
    ASSUME IInv, NEW method \in {"invoke", "lookup"},
           NEW label \in {"invoking", "looking"},
           Dispatched(method, label),
           method = "invoke" => label = "invoking" /\ pc = "ready",
           method = "lookup" => label = "looking" /\ pc = "unsure"
    PROVE  IInv'
  <1> DEFINE new == [seq |-> calls + 1, method |-> method, id |-> id, input |-> input]
  <1>1. /\ calls' = calls + 1 /\ calls < MaxCalls /\ sent' = sent \union {new}
        /\ answer' = NoAnswer /\ pc' = label
        /\ UNCHANGED <<id, input, persisted, earlier, told, last>>
        /\ UNCHANGED <<declared, attempt, bound, executions, running>>
    BY DEF Dispatched, host
  <1>2. /\ calls \in Nat /\ calls + 1 \in 1 .. MaxCalls /\ new \in Requests
        /\ new.seq = calls + 1 /\ new.method = method /\ new.id = id
    BY <1>1, BoundsAssumption DEF IInv, TypeOK, Requests
  <1>3. NoAnswer.kind = "none" /\ ~ Proves(NoAnswer) /\ ~ Refusing(NoAnswer)
    BY NothingFromNoAnswer
  <1> HIDE DEF new
  <1>4. TypeOK'
    BY <1>1, <1>2, <1>3, BoundsAssumption DEF IInv, TypeOK
  <1>5. /\ Pending' = Pending \union {new}
        /\ \A q \in Pending : q.seq \in Nat /\ q.seq <= calls /\ q # new
        /\ Open' \subseteq Open \union {new} /\ Open \subseteq Open'
        /\ method = "lookup" => Open' = Open
    BY <1>1, <1>2 DEF IInv, TypeOK, Pending, Open, Numbered, Requests
  <1>6. Numbered'
    BY <1>1, <1>2, <1>5 DEF IInv, Numbered, Pending, Waiting
  <1>7. OneIdOpen' /\ AttemptedOnce'
    BY <1>1, <1>2, <1>5 DEF IInv, OneIdOpen, AttemptedOnce
  <1>8. AnswerIsTrue' /\ Told' /\ EvidenceIsTrue'
    BY <1>1, <1>2, <1>3, <1>5
       DEF IInv, AnswerIsTrue, Told, EvidenceIsTrue, Waiting, Proves, Refusing
  <1>9. Solo'
    <2>1. method = "lookup" => earlier
      BY DEF IInv, Solo
    <2>2. method = "invoke" /\ ~ earlier => Open = {} /\ attempt[id] = "none"
      BY DEF IInv, Solo
    <2>3. QED BY <1>1, <1>2, <1>5, <2>1, <2>2 DEF Solo, Open, Pending
  <1>10. QED BY <1>4, <1>6, <1>7, <1>8, <1>9 DEF IInv

LEMMA InvokeNotDispatchedStep ==
    ASSUME IInv, InvokeNotDispatched
    PROVE  IInv'
  <1>1. /\ pc = "ready" /\ calls < MaxCalls /\ calls' = calls + 1 /\ last' = NotDispatched
        /\ UNCHANGED <<pc, id, input, persisted, earlier, told, sent, answer>>
        /\ UNCHANGED <<declared, attempt, bound, executions, running>>
    BY DEF InvokeNotDispatched, host
  <1>2. last'.how = "raises" /\ last'.evidence = "NONE"
    BY <1>1 DEF NotDispatched, Raises
  <1>3. /\ calls \in Nat /\ calls' \in 0 .. MaxCalls /\ calls <= calls'
        /\ \A q \in Pending : q.seq \in Nat
    BY <1>1, BoundsAssumption DEF IInv, TypeOK, Pending, Requests
  <1>4. TypeOK'
    BY <1>1, <1>2, <1>3 DEF IInv, TypeOK
  <1>5. Pending' = Pending /\ Open' = Open /\ ~ Waiting'
    BY <1>1 DEF Pending, Open, Waiting
  <1>6. Numbered' /\ OneIdOpen' /\ AttemptedOnce' /\ Told'
    BY <1>1, <1>3, <1>5 DEF IInv, Numbered, OneIdOpen, AttemptedOnce, Told
  <1>7. AnswerIsTrue' /\ Solo' /\ EvidenceIsTrue'
    BY <1>1, <1>2, <1>5 DEF IInv, AnswerIsTrue, Solo, EvidenceIsTrue, Proves, Waiting
  <1>8. QED BY <1>4, <1>6, <1>7 DEF IInv

LEMMA InvokeReturnsStep ==
    ASSUME IInv, InvokeReturns
    PROVE  IInv'
  <1>1. PICK r \in Answers :
          /\ last' = InvokeOutcome(r)
          /\ \/ InvokeOutcome(r).evidence = "COMMITTED" /\ Conclude("committed")
             \/ InvokeOutcome(r).type \in Refusals /\ ~ earlier /\ Conclude("refused")
             \/ pc' = "abandoned" /\ UNCHANGED <<told, earlier>>
             \/ StayUnsure
    BY DEF InvokeReturns
  <1>2. /\ pc = "invoking" /\ answer' = NoAnswer
        /\ UNCHANGED <<id, input, persisted, calls, sent>>
        /\ UNCHANGED <<declared, attempt, bound, executions, running>>
    BY DEF InvokeReturns, host
  <1>3. /\ last'.how \in {"returns", "raises"}
        /\ last'.evidence \in {"NONE", "COMMITTED", "UNKNOWN", "NOT_ATTEMPTED"}
        /\ last'.evidence = "COMMITTED" => attempt[id] = "committed"
    BY <1>1, InvokeOutcomes, WhatACallLearns DEF Outcomes
  <1>4. NoAnswer.kind = "none" /\ ~ Proves(NoAnswer) /\ ~ Refusing(NoAnswer)
    BY NothingFromNoAnswer
  <1>5. \/ pc' = "done" /\ told' = "committed" /\ earlier' = earlier
           /\ attempt[id] = "committed"
        \/ pc' = "done" /\ told' = "refused" /\ earlier' = earlier
           /\ executions = 0 /\ Open = {}
        \/ pc' = "abandoned" /\ told' = told /\ earlier' = earlier
        \/ pc' = "unsure" /\ told' = told /\ earlier' = TRUE
    <2>1. CASE InvokeOutcome(r).evidence = "COMMITTED" /\ Conclude("committed")
      BY <2>1, <1>1, <1>3 DEF Conclude
    <2>2. CASE InvokeOutcome(r).type \in Refusals /\ ~ earlier /\ Conclude("refused")
      BY <2>2, <1>2, WhatACallLearns DEF Conclude, Refusing
    <2>3. QED BY <1>1, <2>1, <2>2 DEF StayUnsure
  <1>6. TypeOK'
    BY <1>2, <1>3, <1>4, <1>5 DEF IInv, TypeOK
  <1>7. Pending' = Pending /\ Open' = Open /\ ~ Waiting'
    BY <1>2, <1>5 DEF Pending, Open, Waiting
  <1>8. Numbered' /\ OneIdOpen' /\ AttemptedOnce'
    BY <1>2, <1>7 DEF IInv, Numbered, OneIdOpen, AttemptedOnce
  <1>9. Told'
    BY <1>2, <1>5, <1>7 DEF IInv, Told
  <1>10. AnswerIsTrue' /\ Solo' /\ EvidenceIsTrue'
    BY <1>2, <1>3, <1>4, <1>5 DEF AnswerIsTrue, Solo, EvidenceIsTrue, Proves
  <1>11. QED BY <1>6, <1>8, <1>9, <1>10 DEF IInv

LEMMA LookupReturnsStep ==
    ASSUME IInv, LookupReturns
    PROVE  IInv'
  <1>1. PICK r \in Answers :
          /\ last' = LookupOutcome(r)
          /\ \/ LookupOutcome(r).evidence = "COMMITTED" /\ Conclude("committed")
             \/ pc' = "ready" /\ UNCHANGED <<told, earlier>>
             \/ StayUnsure
    BY DEF LookupReturns
  <1>2. /\ pc = "looking" /\ answer' = NoAnswer
        /\ UNCHANGED <<id, input, persisted, calls, sent>>
        /\ UNCHANGED <<declared, attempt, bound, executions, running>>
    BY DEF LookupReturns, host
  <1>3. /\ last'.how \in {"returns", "raises"}
        /\ last'.evidence \in {"NONE", "COMMITTED", "UNKNOWN", "NOT_ATTEMPTED"}
        /\ last'.evidence = "COMMITTED" => attempt[id] = "committed"
    BY <1>1, LookupOutcomes, WhatACallLearns DEF Outcomes
  <1>4. NoAnswer.kind = "none" /\ ~ Proves(NoAnswer) /\ ~ Refusing(NoAnswer)
    BY NothingFromNoAnswer
  <1>5. /\ earlier' = TRUE
        /\ \/ pc' = "done" /\ told' = "committed" /\ attempt[id] = "committed"
           \/ pc' \in {"ready", "unsure"} /\ told' = told
    BY <1>1, <1>2, <1>3 DEF Conclude, StayUnsure, IInv, Solo
  <1>6. TypeOK'
    BY <1>2, <1>3, <1>4, <1>5 DEF IInv, TypeOK
  <1>7. Pending' = Pending /\ Open' = Open /\ ~ Waiting'
    BY <1>2, <1>5 DEF Pending, Open, Waiting
  <1>8. Numbered' /\ OneIdOpen' /\ AttemptedOnce'
    BY <1>2, <1>7 DEF IInv, Numbered, OneIdOpen, AttemptedOnce
  <1>9. Told'
    BY <1>2, <1>5, <1>7 DEF IInv, Told
  <1>10. AnswerIsTrue' /\ Solo' /\ EvidenceIsTrue'
    BY <1>2, <1>3, <1>4, <1>5 DEF AnswerIsTrue, Solo, EvidenceIsTrue, Proves
  <1>11. QED BY <1>6, <1>8, <1>9, <1>10 DEF IInv

LEMMA StartAgainStep ==
    ASSUME IInv, StartAgain
    PROVE  IInv'
  <1>1. /\ pc = "done" /\ told = "refused" /\ id < MaxIds
        /\ id' = id + 1 /\ pc' = "ready" /\ told' = "pending"
        /\ earlier' = FALSE /\ input' = "first" /\ last' = NoOutcome
        /\ UNCHANGED <<persisted, calls, sent, answer>>
        /\ UNCHANGED <<declared, attempt, bound, executions, running>>
    BY DEF StartAgain, host
  <1>2. id \in Nat /\ id' \in Ids /\ id' > id /\ \A j \in Ids : j > id' => j > id
    BY <1>1, BoundsAssumption DEF IInv, TypeOK, Ids
  <1>3. executions = 0 /\ Open = {} /\ attempt[id'] = "none" /\ answer = NoAnswer
    BY <1>1, <1>2 DEF IInv, Told, OneIdOpen, AnswerIsTrue, Waiting
  <1>4. NoAnswer.kind = "none" /\ ~ Proves(NoAnswer)
    BY NothingFromNoAnswer
  <1>5. Pending' = Pending /\ Open' = {} /\ ~ Waiting' /\ running = {}
    BY <1>1, <1>3 DEF IInv, Numbered, Pending, Open, Waiting
  <1>6. TypeOK'
    BY <1>1, <1>2 DEF IInv, TypeOK, NoOutcome
  <1>7. Numbered' /\ OneIdOpen' /\ AttemptedOnce' /\ Told'
    BY <1>1, <1>2, <1>3, <1>5 DEF IInv, Numbered, OneIdOpen, AttemptedOnce, Told
  <1>8. AnswerIsTrue' /\ Solo' /\ EvidenceIsTrue'
    BY <1>1, <1>3, <1>4, <1>5 DEF AnswerIsTrue, Solo, EvidenceIsTrue, Proves, NoOutcome
  <1>9. QED BY <1>6, <1>7, <1>8 DEF IInv

LEMMA CrashStep ==
    ASSUME IInv, Crash
    PROVE  IInv'
  <1>1. /\ pc \in {"ready", "invoking", "unsure", "looking"}
        /\ \/ pc' = "unsure" /\ earlier' = TRUE
           \/ pc' = "abandoned" /\ earlier' = earlier
        /\ input' \in {input, "rebuilt"} /\ last' = NoOutcome /\ answer' = NoAnswer
        /\ UNCHANGED <<id, persisted, told, calls, sent>>
        /\ UNCHANGED <<declared, attempt, bound, executions, running>>
    BY DEF Crash, host
  <1>2. NoAnswer.kind = "none" /\ ~ Proves(NoAnswer)
    BY NothingFromNoAnswer
  <1>3. Pending' = Pending /\ Open' = Open /\ ~ Waiting'
    BY <1>1 DEF Pending, Open, Waiting
  <1>4. TypeOK'
    BY <1>1, <1>2 DEF IInv, TypeOK, NoOutcome
  <1>5. Numbered' /\ OneIdOpen' /\ AttemptedOnce' /\ Told'
    BY <1>1, <1>3 DEF IInv, Numbered, OneIdOpen, AttemptedOnce, Told
  <1>6. AnswerIsTrue' /\ Solo' /\ EvidenceIsTrue'
    BY <1>1, <1>2, <1>3 DEF AnswerIsTrue, Solo, EvidenceIsTrue, Proves, NoOutcome
  <1>7. QED BY <1>4, <1>5, <1>6 DEF IInv

LEMMA RedeclareStep ==
    ASSUME IInv, Redeclare
    PROVE  IInv'
  <1>1. /\ declared' \in BOOLEAN
        /\ UNCHANGED <<pc, id, input, persisted, earlier, told, calls, last>>
        /\ UNCHANGED <<sent, answer, attempt, bound, executions, running>>
    BY DEF Redeclare, caller, IInv, TypeOK
  <1>2. Pending' = Pending /\ Open' = Open /\ Waiting' = Waiting
    BY <1>1 DEF Pending, Open, Waiting
  <1>3. TypeOK'
    BY <1>1 DEF IInv, TypeOK
  <1>4. Numbered' /\ OneIdOpen' /\ AttemptedOnce' /\ Told'
    BY <1>1, <1>2 DEF IInv, Numbered, OneIdOpen, AttemptedOnce, Told
  <1>5. AnswerIsTrue' /\ Solo' /\ EvidenceIsTrue'
    BY <1>1, <1>2 DEF IInv, AnswerIsTrue, Solo, EvidenceIsTrue, Proves, Refusing
  <1>6. QED BY <1>3, <1>4, <1>5 DEF IInv

\* A request leaves the network, answered with something true or not answered.
LEMMA ConsumedStep ==
    ASSUME IInv, NEW q \in sent, NEW r, sent' = sent \ {q},
           UNCHANGED <<caller, host>>,
           \/ answer' = answer
           \/ Reply(q, r) /\ r.kind \in {"ok", "http"},
           Proves(r) => attempt[q.id] = "committed"
    PROVE  IInv'
  <1>1. /\ UNCHANGED <<pc, id, input, persisted, earlier, told, calls, last>>
        /\ UNCHANGED <<declared, attempt, bound, executions, running>>
    BY DEF caller, host
  <1>2. /\ Pending' = Pending \ {q} /\ Open' = Open \ {q} /\ Waiting' = Waiting
        /\ q \in Pending /\ (q.method = "invoke" => q \in Open)
    BY <1>1 DEF IInv, Numbered, Pending, Open, Waiting
  <1>3. \/ answer' = answer
        \/ Waiting /\ q.seq = calls /\ answer' = r /\ r.kind \in {"ok", "http"}
    BY DEF Reply
  <1>4. TypeOK'
    BY <1>1, <1>3 DEF IInv, TypeOK
  <1>5. Numbered' /\ OneIdOpen' /\ AttemptedOnce' /\ Told' /\ Solo' /\ EvidenceIsTrue'
    BY <1>1, <1>2
       DEF IInv, Numbered, OneIdOpen, AttemptedOnce, Told, Solo, EvidenceIsTrue
  <1>6. AnswerIsTrue'
    <2>1. CASE answer' = answer
      BY <2>1, <1>1, <1>2 DEF IInv, AnswerIsTrue, Proves, Refusing
    <2>2. CASE Waiting /\ q.seq = calls /\ answer' = r
      <3>1. q.id = id /\ (pc = "invoking" => q.method = "invoke")
        BY <2>2, <1>2 DEF IInv, Numbered
      <3>2. pc = "invoking" /\ ~ earlier => executions = 0 /\ Open' = {}
        <4> SUFFICES ASSUME pc = "invoking", ~ earlier
                     PROVE  executions = 0 /\ Open' = {}
          OBVIOUS
        <4>1. attempt[id] = "none"
          BY <3>1 DEF IInv, Solo
        <4>2. \A o \in Open : o = q
          BY <2>2, <1>2 DEF IInv, Solo, Numbered, Open
        <4>3. QED BY <4>1, <4>2, <1>2 DEF IInv, AttemptedOnce
      <3>3. QED BY <2>2, <3>1, <3>2, <1>1, <1>2 DEF AnswerIsTrue, Proves, Refusing
    <2>3. QED BY <2>1, <2>2, <1>3
  <1>7. QED BY <1>4, <1>5, <1>6 DEF IInv

LEMMA NetworkStep ==
    ASSUME IInv, NEW q \in Requests, Lose(q) \/ ProxyForbids(q)
    PROVE  IInv'
  <1>1. ~ Proves(NoAnswer) /\ NoAnswer.kind = "none"
    BY NothingFromNoAnswer
  <1>2. CASE Lose(q)
    BY <1>1, <1>2, ConsumedStep DEF Lose
  <1>3. CASE ProxyForbids(q)
    BY <1>3, RefusalsProveNothing, ConsumedStep DEF ProxyForbids
  <1>4. QED BY <1>2, <1>3

LEMMA AnsweringStep ==
    ASSUME IInv, NEW q \in Requests,
           HostRefusesInvoke(q) \/ HostReplays(q) \/ HostLooksUp(q)
    PROVE  IInv'
  <1>1. CASE HostRefusesInvoke(q)
    BY <1>1, RefusalsProveNothing, ConsumedStep DEF HostRefusesInvoke
  <1>2. CASE HostReplays(q)
    <2>1. /\ q \in sent /\ sent' = sent \ {q} /\ UNCHANGED <<caller, host>>
      BY <1>2 DEF HostReplays
    <2>2. PICK r \in RetainedAnswers(q.id) \union {Precondition("SOURCE_EFFECT_REUSED")} :
                 Reply(q, r)
      BY <1>2 DEF HostReplays
    <2>3. r = Precondition("SOURCE_EFFECT_REUSED") => r.kind = "http"
      BY PreconditionFields DEF Envelope
    <2>4. /\ r.kind \in {"ok", "http"} /\ (Proves(r) => attempt[q.id] = "committed")
      BY <2>2, <2>3, RetainedAnswersAreTrue, UnknownAnswers
    <2>5. QED BY <2>1, <2>2, <2>4, ConsumedStep
  <1>3. CASE HostLooksUp(q)
    <2>1. /\ q \in sent /\ sent' = sent \ {q} /\ UNCHANGED <<caller, host>>
      BY <1>3 DEF HostLooksUp
    <2>2. PICK r \in RetainedAnswers(q.id)
                    \union {Connect("not_found"), Connect("permission_denied")} :
                 Reply(q, r)
      BY <1>3 DEF HostLooksUp
    <2>3. /\ r.kind \in {"ok", "http"} /\ (Proves(r) => attempt[q.id] = "committed")
      BY <2>2, RetainedAnswersAreTrue, RefusalsProveNothing
    <2>4. QED BY <2>1, <2>2, <2>3, ConsumedStep
  <1>4. QED BY <1>1, <1>2, <1>3

LEMMA HostMarksStep ==
    ASSUME IInv, NEW q \in Requests, HostMarks(q)
    PROVE  IInv'
  <1>1. /\ q \in sent /\ q.method = "invoke" /\ attempt[q.id] = "none"
        /\ sent' = sent \ {q} /\ running' = running \union {q}
        /\ attempt' = [attempt EXCEPT ![q.id] = "marked"]
        /\ bound' = [bound EXCEPT ![q.id] = q.input]
        /\ UNCHANGED <<pc, id, input, persisted, earlier, told, calls, last>>
        /\ UNCHANGED <<answer, declared, executions>>
    BY DEF HostMarks, caller
  <1>2. /\ Pending' = Pending /\ Open' = Open /\ Waiting' = Waiting /\ q \in Open
        /\ q.id = id /\ id \in Ids /\ q.input \in {"first", "rebuilt"}
    BY <1>1 DEF Pending, Open, Waiting, IInv, OneIdOpen, TypeOK, Requests
  <1>3. /\ attempt' \in [Ids -> {"none", "marked", "committed"}] /\ attempt'[id] = "marked"
        /\ \A j \in Ids : j # id => attempt'[j] = attempt[j]
    BY <1>1, <1>2 DEF IInv, TypeOK
  <1>4. running = {} /\ executions = 0
    BY <1>1, <1>2 DEF IInv, AttemptedOnce
  <1>5. TypeOK'
    BY <1>1, <1>2, <1>3 DEF IInv, TypeOK
  <1>6. Numbered'
    BY <1>1, <1>2, <1>4 DEF IInv, Numbered
  <1>7. OneIdOpen' /\ AttemptedOnce'
    BY <1>1, <1>2, <1>3, <1>4, BoundsAssumption
       DEF IInv, OneIdOpen, AttemptedOnce, Ids
  <1>8. AnswerIsTrue' /\ Told' /\ EvidenceIsTrue'
    BY <1>1, <1>2, <1>3 DEF IInv, AnswerIsTrue, Told, EvidenceIsTrue, Proves, Refusing
  <1>9. Solo'
    <2>1. pc = "invoking" /\ ~ earlier => \A o \in sent' : o.method # "invoke"
      BY <1>1, <1>2 DEF IInv, Solo, Numbered, Open, Pending
    <2>2. QED BY <2>1, <1>1, <1>2 DEF IInv, Solo
  <1>10. QED BY <1>5, <1>6, <1>7, <1>8, <1>9 DEF IInv

\* An attempt ends, whether or not the effect was performed and its receipt stored.
LEMMA FinishedStep ==
    ASSUME IInv, NEW q \in running, NEW r, NEW performed \in {0, 1},
           NEW mark \in {"marked", "committed"},
           running' = running \ {q}, executions' = executions + performed,
           attempt' = [attempt EXCEPT ![q.id] = mark],
           mark = "committed" => performed = 1,
           UNCHANGED <<caller, sent, declared, bound>>,
           Reply(q, r), r.kind \in {"ok", "http"} \/ r = NoAnswer,
           Proves(r) => mark = "committed",
           Refusing(r) => performed = 0
    PROVE  IInv'
  <1>1. UNCHANGED <<pc, id, input, persisted, earlier, told, calls, last>>
    BY DEF caller
  <1>2. /\ executions = 0 /\ attempt[id] = "marked" /\ running = {q}
        /\ q.method = "invoke" /\ q \in Pending /\ q \in Open /\ q \notin sent
    BY DEF IInv, AttemptedOnce, Numbered, Pending, Open
  <1>3. /\ Pending' = Pending \ {q} /\ Open' = Open \ {q} /\ Waiting' = Waiting
        /\ running' = {} /\ q.id = id /\ id \in Ids
    BY <1>1, <1>2 DEF Pending, Open, Waiting, IInv, OneIdOpen, TypeOK
  <1>4. /\ attempt' \in [Ids -> {"none", "marked", "committed"}] /\ attempt'[id] = mark
        /\ \A j \in Ids : j # id => attempt'[j] = attempt[j]
    BY <1>3 DEF IInv, TypeOK
  <1>5. /\ NoAnswer.kind = "none"
        /\ \/ answer' = answer
           \/ Waiting /\ q.seq = calls /\ answer' = r
    BY NothingFromNoAnswer DEF Reply
  <1>6. TypeOK'
    BY <1>1, <1>3, <1>4, <1>5 DEF IInv, TypeOK
  <1>7. Numbered' /\ OneIdOpen' /\ AttemptedOnce'
    BY <1>1, <1>2, <1>3, <1>4, BoundsAssumption
       DEF IInv, Numbered, OneIdOpen, AttemptedOnce, Ids
  <1>8. Told'
    BY <1>1, <1>2, <1>3 DEF IInv, Told
  <1>9. EvidenceIsTrue' /\ Solo'
    BY <1>1, <1>2, <1>3, <1>4 DEF IInv, EvidenceIsTrue, Solo
  <1>10. AnswerIsTrue'
    <2>1. CASE answer' = answer
      <3>1. ~ Proves(answer)
        BY <1>2 DEF IInv, AnswerIsTrue
      <3>2. ~ (pc = "invoking" /\ ~ earlier /\ Refusing(answer))
        BY <1>2 DEF IInv, AnswerIsTrue
      <3>3. QED BY <2>1, <3>1, <3>2, <1>1, <1>3 DEF IInv, AnswerIsTrue, Proves, Refusing
    <2>2. CASE Waiting /\ q.seq = calls /\ answer' = r
      <3>1. pc = "invoking" /\ ~ earlier => Open' = {}
        BY <2>2, <1>2, <1>3 DEF IInv, Solo, Numbered, Open
      <3>2. QED BY <2>2, <3>1, <1>1, <1>2, <1>3, <1>4 DEF AnswerIsTrue, Proves, Refusing
    <2>3. QED BY <2>1, <2>2, <1>5
  <1>11. QED BY <1>6, <1>7, <1>8, <1>9, <1>10 DEF IInv

LEMMA FinishingStep ==
    ASSUME IInv, NEW q \in Requests,
           HostCommits(q) \/ HostLosesReceipt(q) \/ HostGivesUp(q)
    PROVE  IInv'
  <1>1. q \in running /\ running' = running \ {q} /\ executions \in Nat
    BY DEF HostCommits, HostLosesReceipt, HostGivesUp, IInv, TypeOK
  <1>2. attempt = [attempt EXCEPT ![q.id] = "marked"]
    BY <1>1 DEF IInv, TypeOK, AttemptedOnce, OneIdOpen, Numbered, Open, Pending
  <1>3. ~ Proves(NoAnswer) /\ ~ Refusing(NoAnswer) /\ NoAnswer.kind = "none"
    BY NothingFromNoAnswer
  <1>4. CASE HostCommits(q)
    <2>1. PICK outputs \in Outputs : Reply(q, Ok("committed", outputs))
      BY <1>4 DEF HostCommits
    <2> DEFINE r == Ok("committed", outputs)
    <2>2. r.kind = "ok"
      BY OkFields
    <2>3. ~ Refusing(r)
      BY <2>2, ReceiptOutcomes DEF Refusing, InvokeOutcome, Refusals
    <2> HIDE DEF r
    <2>4. /\ executions' = executions + 1
          /\ attempt' = [attempt EXCEPT ![q.id] = "committed"]
          /\ UNCHANGED <<caller, sent, declared, bound>>
      BY <1>4 DEF HostCommits
    <2>5. Reply(q, r)
      BY <2>1 DEF r
    <2>6. QED BY <1>1, <2>2, <2>3, <2>4, <2>5, FinishedStep
  <1>5. CASE HostLosesReceipt(q)
    <2>1. PICK r \in OutcomeUnknownAnswers \union {NoAnswer} : Reply(q, r)
      BY <1>5 DEF HostLosesReceipt
    <2>2. /\ r.kind \in {"ok", "http"} \/ r = NoAnswer
          /\ ~ Proves(r) /\ ~ Refusing(r)
      BY <2>1, <1>3, UnknownAnswers
    <2>3. executions' = executions + 1 /\ UNCHANGED <<caller, sent, declared, attempt, bound>>
      BY <1>5 DEF HostLosesReceipt
    <2>4. r.kind = "ok" => r.receipt # "committed"
      BY <2>2, <1>3 DEF Proves
    <2>5. QED BY <1>1, <1>2, <2>1, <2>2, <2>3, <2>4, FinishedStep
  <1>6. CASE HostGivesUp(q)
    <2>1. PICK r \in {Precondition("SOURCE_PROVIDER_REFUSED"), NoAnswer} : Reply(q, r)
      BY <1>6 DEF HostGivesUp
    <2>2. (r.kind = "http" \/ r = NoAnswer) /\ ~ Proves(r)
      BY <2>1, <1>3, RefusalsProveNothing
    <2>3. executions' = executions + 0 /\ UNCHANGED <<caller, sent, declared, attempt, bound>>
      BY <1>1, <1>6 DEF HostGivesUp
    <2>4. r.kind # "ok"
      BY <2>2, <1>3
    <2>5. QED BY <1>1, <1>2, <2>1, <2>2, <2>3, <2>4, FinishedStep
  <1>7. QED BY <1>4, <1>5, <1>6

LEMMA StutterStep == IInv /\ UNCHANGED vars => IInv'
  <1> SUFFICES ASSUME IInv, UNCHANGED vars PROVE IInv'
    OBVIOUS
  <1>1. /\ UNCHANGED <<pc, id, input, persisted, earlier, told, calls, last>>
        /\ UNCHANGED <<declared, attempt, bound, executions, running, sent, answer>>
    BY DEF vars, caller, host
  <1>2. Pending' = Pending /\ Open' = Open /\ Waiting' = Waiting
    BY <1>1 DEF Pending, Open, Waiting
  <1>3. TypeOK'
    BY <1>1 DEF IInv, TypeOK
  <1>4. Numbered' /\ OneIdOpen' /\ AttemptedOnce' /\ Told'
    BY <1>1, <1>2 DEF IInv, Numbered, OneIdOpen, AttemptedOnce, Told
  <1>5. AnswerIsTrue' /\ Solo' /\ EvidenceIsTrue'
    BY <1>1, <1>2 DEF IInv, AnswerIsTrue, Solo, EvidenceIsTrue, Proves, Refusing
  <1>6. QED BY <1>3, <1>4, <1>5 DEF IInv

\* IInv holds throughout: no answer, loss, crash or late request makes the caller
\* believe what is not so.
THEOREM Invariance == Spec => []IInv
  <1>1. Init => IInv
    BY InitInvariant
  <1>2. IInv /\ [Next]_vars => IInv'
    <2> SUFFICES ASSUME IInv, [Next]_vars PROVE IInv'
      OBVIOUS
    <2>1. CASE Invoke
      BY <2>1, DispatchedStep DEF Invoke
    <2>2. CASE Lookup
      BY <2>2, DispatchedStep DEF Lookup
    <2>3. CASE InvokeNotDispatched \/ InvokeReturns \/ LookupReturns
      BY <2>3, InvokeNotDispatchedStep, InvokeReturnsStep, LookupReturnsStep
    <2>4. CASE StartAgain \/ Crash \/ Redeclare
      BY <2>4, StartAgainStep, CrashStep, RedeclareStep
    <2>5. ASSUME NEW q \in Requests, Lose(q) \/ ProxyForbids(q) \/ Host(q)
          PROVE  IInv'
      BY <2>5, NetworkStep, AnsweringStep, HostMarksStep, FinishingStep DEF Host
    <2>6. CASE UNCHANGED vars
      BY <2>6, StutterStep
    <2>7. QED BY <2>1, <2>2, <2>3, <2>4, <2>5, <2>6 DEF Next, Call
  <1>3. QED BY <1>1, <1>2, PTL DEF Spec

-----------------------------------------------------------------------------
\* Every variable keeps its type.
THEOREM TypeCorrect == Spec => []TypeOK
  <1>1. IInv => TypeOK
    BY DEF IInv
  <1>2. QED BY Invariance, <1>1, PTL

\* However requests, replies and crashes of caller and host fall, one intended effect
\* happens at most once, over every id its caller uses for it.
THEOREM HappensAtMostOnce == Spec => []AtMostOnce
  <1>1. IInv => AtMostOnce
    BY DEF IInv, AttemptedOnce, AtMostOnce
  <1>2. QED BY Invariance, <1>1, PTL

\* A caller that concluded that its effect was committed or refused is right, and
\* stays right whatever is still under way.
THEOREM ConclusionsAreTrue == Spec => []ToldIsTrue
  <1>1. IInv => ToldIsTrue
    BY DEF IInv, AttemptedOnce, Told, ToldIsTrue, Numbered, Open, Pending
  <1>2. QED BY Invariance, <1>1, PTL

\* Evidence of a commit is the host's, and about this effect.
THEOREM CommitsAreProven == Spec => []EvidenceIsTrue
  <1>1. IInv => EvidenceIsTrue
    BY DEF IInv
  <1>2. QED BY Invariance, <1>1, PTL

\* The invocation whose id can get lost is one that a host answered with the receipt of
\* this very effect and with outputs nested too deep for the decoder.
LEMMA IdentityLost ==
    ASSUME IInv, NEW r \in Answers, InvokeOutcome(r).evidence \notin {"UNKNOWN", "COMMITTED"}
    PROVE  /\ answer.receipt = "committed" /\ answer.outputs = "deep"
           /\ attempt[id] = "committed"
  <1>1. r.kind = "ok" /\ r.receipt = "committed" /\ r.outputs = "deep"
    BY InvokeOutcomes DEF Outcomes
  <1>2. Proves(r)
    BY <1>1 DEF Proves
  <1>3. r \notin TransportAnswers
    BY <1>2, NothingFromTransport
  <1>4. r = answer
    BY <1>3 DEF Answers
  <1>5. QED BY <1>1, <1>2, <1>4, WhatACallLearns

\* For any calls, ids and outputs: a dispatched invocation leaves its caller without id and
\* receipt only by outputs too deep to decode, and a call that sends nothing claims nothing.
THEOREM IdentityIsKept == Spec => IdentityKept
  <1>1. ASSUME IInv, [Next]_vars, pc = "invoking", pc' # "invoking", last' # NoOutcome
        PROVE  \/ last'.evidence \in {"UNKNOWN", "COMMITTED"}
               \/ /\ answer.receipt = "committed" /\ answer.outputs = "deep"
                  /\ attempt[id] = "committed"
    <2>1. CASE InvokeReturns
      <3>1. PICK r \in Answers : last' = InvokeOutcome(r)
        BY <2>1 DEF InvokeReturns
      <3>2. QED BY <1>1, <3>1, IdentityLost
    <2>2. CASE Crash
      BY <1>1, <2>2 DEF Crash
    <2>3. Invoke \/ Lookup \/ InvokeNotDispatched \/ LookupReturns \/ StartAgain => FALSE
      BY <1>1 DEF Invoke, Lookup, InvokeNotDispatched, LookupReturns, StartAgain
    <2>4. Redeclare => FALSE
      BY <1>1 DEF Redeclare, caller
    <2>5. ASSUME NEW q \in Requests, Lose(q) \/ ProxyForbids(q) \/ Host(q)
          PROVE  FALSE
      BY <1>1, <2>5 DEF Lose, ProxyForbids, Host, HostRefusesInvoke, HostReplays, HostMarks,
                  HostLooksUp, HostCommits, HostLosesReceipt, HostGivesUp, caller
    <2>6. UNCHANGED vars => FALSE
      BY <1>1 DEF vars, caller
    <2>7. QED BY <1>1, <2>1, <2>2, <2>3, <2>4, <2>5, <2>6 DEF Next, Call
  <1>2. ASSUME [Next]_vars, last' # last, last'.evidence # "NONE"
        PROVE  Waiting
    <2>1. CASE InvokeReturns \/ LookupReturns
      BY <2>1 DEF InvokeReturns, LookupReturns, Waiting
    <2>2. InvokeNotDispatched => FALSE
      BY <1>2 DEF InvokeNotDispatched, NotDispatched, Raises
    <2>3. StartAgain \/ Crash => FALSE
      BY <1>2 DEF StartAgain, Crash, NoOutcome
    <2>4. Invoke \/ Lookup \/ Redeclare \/ UNCHANGED vars => FALSE
      BY <1>2 DEF Invoke, Lookup, Dispatched, Redeclare, vars, caller
    <2>5. ASSUME NEW q \in Requests, Lose(q) \/ ProxyForbids(q) \/ Host(q)
          PROVE  FALSE
      BY <1>2, <2>5 DEF Lose, ProxyForbids, Host, HostRefusesInvoke, HostReplays, HostMarks,
                  HostLooksUp, HostCommits, HostLosesReceipt, HostGivesUp, caller
    <2>6. QED BY <1>2, <2>1, <2>2, <2>3, <2>4, <2>5 DEF Next, Call
  <1>3. QED BY Invariance, <1>1, <1>2, PTL DEF Spec, IdentityKept

-----------------------------------------------------------------------------
(***************************************************************************)
(* Refinement.                                                             *)
(***************************************************************************)

LEMMA EffectStep ==
    ASSUME IInv, IInv', [Next]_vars
    PROVE  [Effect!ENext]_Effect!evars
  <1> USE DEF Effect!ENext, Effect!evars, Effect!Happen, Effect!TellCommitted,
              Effect!TellRefused, Effect!StartOver
  <1>1. CASE \E q \in Requests : HostCommits(q) \/ HostLosesReceipt(q)
    <2>1. running # {} /\ executions' = executions + 1 /\ told' = told
      BY <1>1 DEF HostCommits, HostLosesReceipt, caller
    <2>2. executions = 0 /\ told # "refused"
      BY <2>1 DEF IInv, AttemptedOnce, Told, Numbered, Open, Pending
    <2>3. QED BY <2>1, <2>2
  <1>2. CASE InvokeReturns \/ LookupReturns
    <2>1. executions' = executions /\ told = "pending"
      BY <1>2 DEF InvokeReturns, LookupReturns, host, IInv, Told
    <2>2. /\ told' \in {"pending", "committed", "refused"}
          /\ told' = "committed" => executions' = 1
          /\ told' = "refused" => executions' = 0
      BY DEF IInv, TypeOK, Told, AttemptedOnce
    <2>3. QED BY <2>1, <2>2
  <1>3. CASE StartAgain
    BY <1>3 DEF StartAgain, host
  <1>4. CASE Invoke \/ Lookup \/ InvokeNotDispatched \/ Crash \/ Redeclare
    BY <1>4 DEF Invoke, Lookup, InvokeNotDispatched, Crash, Redeclare, Dispatched, host, caller
  <1>5. ASSUME NEW q \in Requests,
               \/ Lose(q) \/ ProxyForbids(q) \/ HostRefusesInvoke(q) \/ HostReplays(q)
               \/ HostMarks(q) \/ HostLooksUp(q) \/ HostGivesUp(q)
        PROVE  UNCHANGED <<executions, told>>
    BY <1>5 DEF Lose, ProxyForbids, HostRefusesInvoke, HostReplays, HostMarks, HostLooksUp,
                HostGivesUp, host, caller
  <1>6. CASE UNCHANGED vars
    BY <1>6 DEF vars, host, caller
  <1>7. QED BY <1>1, <1>2, <1>3, <1>4, <1>5, <1>6 DEF Next, Call, Host

\* A caller of the SDK sees one effect, with the promises OneEffect states.
THEOREM Refinement == Spec => ImplementsOneEffect
  <1>1. Init => Effect!EInit
    BY DEF Init, Effect!EInit
  <1>2. QED BY Invariance, <1>1, EffectStep, PTL
            DEF Spec, ImplementsOneEffect, Effect!ESpec

=============================================================================

--------------------------- MODULE DatasourceClient --------------------------
(***************************************************************************)
(* What one call of the datasource SDK makes of one answer: map_error      *)
(* (_datasource_errors.py), and _rpc, _operation_result, invoke and lookup *)
(* (datasource.py), as operators from the answer a gateway call ended with *)
(* to the outcome the caller sees. There is no state here: the SDK keeps   *)
(* none between calls.                                                     *)
(***************************************************************************)

(***************************************************************************)
(* Answers. One record type holds every way a gateway call may end:        *)
(*   kind "ok"     a decoded response message                              *)
(*        "http"   urllib's HTTPError                                      *)
(*        "lost"   TimeoutError, ConnectionError, IncompleteRead,          *)
(*                 DecodeError or URLError                                 *)
(*        "other"  any other exception of the gateway                      *)
(* For "http", encoding says whether the content encoding is one map_error *)
(* supports, body whether reading it breaks off, json.loads gives up on    *)
(* its nesting, it is no Connect error envelope, or it is one; code and    *)
(* reason are the envelope's, status the HTTP status, committed its        *)
(* receipt_status metadata. For "ok", receipt is what the receipt field    *)
(* holds; outputs is "objects" when both output fields are JSON objects,   *)
(* "deep" when json.loads gives up on the nesting of the first of them it  *)
(* cannot read, and "other" when it is not JSON or no object.              *)
(***************************************************************************)
Blank == [kind |-> "ok", encoding |-> "supported", body |-> "connect", status |-> 400,
          code |-> "", reason |-> "", committed |-> FALSE,
          receipt |-> "invalid", outputs |-> "other"]

Ok(receipt, outputs)  == [Blank EXCEPT !.receipt = receipt, !.outputs = outputs]
Connect(code)         == [Blank EXCEPT !.kind = "http", !.code = code]
Precondition(reason)  == [Connect("failed_precondition") EXCEPT !.reason = reason]
NotConnect(status)    == [Blank EXCEPT !.kind = "http", !.body = "unreadable",
                                       !.status = status]
CodeOmitted(status)   == [Connect("") EXCEPT !.status = status]
Lost                  == [Blank EXCEPT !.kind = "lost"]
Other                 == [Blank EXCEPT !.kind = "other"]
BrokenBody            == [Blank EXCEPT !.kind = "http", !.body = "broken"]
DeepBody              == [Blank EXCEPT !.kind = "http", !.body = "deep"]
ForeignEncoding       == [Connect("unavailable") EXCEPT !.encoding = "unsupported"]

\* _CONNECT_CODES.
ConnectCodes ==
    {"canceled", "unknown", "invalid_argument", "deadline_exceeded", "not_found",
     "already_exists", "permission_denied", "resource_exhausted",
     "failed_precondition", "aborted", "out_of_range", "unimplemented", "internal",
     "unavailable", "data_loss", "unauthenticated"}

\* _HTTP_TO_CODE, with "unknown" for every other status.
HttpToCode(status) ==
    CASE status = 400 -> "internal"
      [] status = 401 -> "unauthenticated"
      [] status = 403 -> "permission_denied"
      [] status = 404 -> "unimplemented"
      [] status \in {429, 502, 503, 504} -> "unavailable"
      [] OTHER -> "unknown"

CodeOf(r) == IF r.code \in ConnectCodes THEN r.code ELSE HttpToCode(r.status)

(***************************************************************************)
(* Outcomes: the type of the value returned or the exception raised, and   *)
(* the receipt status it carries ("NONE" when it carries no receipt; an    *)
(* outcome that carries a receipt carries its effect id). "HTTPError",     *)
(* "IncompleteRead" and "GatewayError" are exceptions that are not the     *)
(* SDK's own; "RecursionError" is Python's.                                *)
(***************************************************************************)
Returns(type, evidence) == [how |-> "returns", type |-> type, evidence |-> evidence]
Raises(type, evidence)  == [how |-> "raises", type |-> type, evidence |-> evidence]

\* unknown(effect_id, message).
Unknown == Raises("OutcomeUnknown", "UNKNOWN")

\* The original HTTPError, when map_error returns it or knows no mapping.
Original == Raises("HTTPError", "NONE")

\* The receipt status an OperationDeclarationRemoved carries: committed only when the
\* host says so.
RemovedEvidence_Presumed(r, effect) == IF effect THEN "COMMITTED" ELSE "NONE"
RemovedEvidence_Raw(r, effect) == IF effect /\ r.committed THEN "committed" ELSE "NONE"
RemovedEvidence(r, effect) ==
    CASE ~effect -> "NONE"
      [] effect /\ r.committed -> "COMMITTED"
      [] OTHER -> "UNKNOWN"

\* map_error for failed_precondition, by the reason of its ErrorInfo.
MapPrecondition_Bug(r, effect) ==
    CASE r.reason = "SOURCE_OPERATION_DECLARATION_REMOVED"
           -> Raises("OperationDeclarationRemoved", RemovedEvidence(r, effect))
      [] r.reason = "SOURCE_EFFECT_REUSED" -> Raises("EffectReused", "NONE")
      [] r.reason = "SOURCE_PROVIDER_REFUSED" -> Raises("ProviderRefused", "NONE")
      [] OTHER -> Raises("OperationRefused", "NONE")
MapPrecondition(r, effect) ==
    CASE r.reason = "SOURCE_OPERATION_OUTCOME_UNKNOWN" /\ effect -> Unknown
      [] r.reason = "SOURCE_OPERATION_DECLARATION_REMOVED"
           -> Raises("OperationDeclarationRemoved", RemovedEvidence(r, effect))
      [] r.reason = "SOURCE_EFFECT_REUSED" -> Raises("EffectReused", "NONE")
      [] r.reason = "SOURCE_PROVIDER_REFUSED" -> Raises("ProviderRefused", "NONE")
      [] OTHER -> Raises("OperationRefused", "NONE")

\* map_error by code, for a recognized envelope. effect says whether the call has
\* an effect id, lookup whether it is a lookup.
MapCode(r, effect, lookup) ==
    LET code == CodeOf(r) IN
    CASE code = "permission_denied" -> Raises("NotPermitted", "NONE")
      [] code = "not_found" -> IF lookup /\ effect
                               THEN Raises("EffectNotFound", "NOT_ATTEMPTED")
                               ELSE Raises("UnknownOperation", "NONE")
      [] code = "invalid_argument" -> Raises("InputError", "NONE")
      [] code = "resource_exhausted" /\ r.reason = "DATASOURCE_RATE_LIMITED"
           -> Raises("RateLimited", "NONE")
      [] code = "failed_precondition" -> MapPrecondition(r, effect)
      [] code = "unavailable" /\ effect -> Unknown
      [] code \in {"deadline_exceeded", "canceled"} /\ effect /\ ~lookup -> Unknown
      [] OTHER -> Original

\* The HTTPError branch of _rpc around map_error. An unsupported encoding is
\* refused before the body is read; a body that breaks off while it is read, and one
\* nested too deep, raise through both: IncompleteRead passes the clause that catches it
\* from the gateway, RecursionError is caught nowhere.
HttpOutcome_Bug(r, effect, lookup) ==
    CASE r.encoding = "unsupported" -> IF effect THEN Unknown
                                       ELSE Raises("DatasourceError", "NONE")
      [] r.encoding = "supported" /\ r.body = "broken" -> Raises("IncompleteRead", "NONE")
      [] r.encoding = "supported" /\ r.body = "deep" -> Raises("RecursionError", "NONE")
      [] r.encoding = "supported" /\ r.body = "unreadable" ->
           (CASE r.status = 403 -> Raises("NotPermitted", "NONE")
              [] effect /\ r.status # 403 -> Unknown
              [] OTHER -> Original)
      [] OTHER -> MapCode(r, effect, lookup)
HttpOutcome(r, effect, lookup) ==
    CASE r.encoding = "unsupported" -> IF effect THEN Unknown
                                       ELSE Raises("DatasourceError", "NONE")
      [] r.encoding = "supported" /\ r.body = "broken" -> Raises("IncompleteRead", "NONE")
      [] r.encoding = "supported" /\ r.body = "deep" -> Raises("RecursionError", "NONE")
      [] r.encoding = "supported" /\ r.body = "unreadable" ->
           (CASE effect -> Unknown
              [] ~effect /\ r.status = 403 -> Raises("NotPermitted", "NONE")
              [] OTHER -> Original)
      [] OTHER -> MapCode(r, effect, lookup)

\* The dispatch of _rpc: every way it does not return a response.
Dispatch(r, effect, lookup) ==
    CASE r.kind = "http" -> HttpOutcome(r, effect, lookup)
      [] r.kind = "lost" -> IF effect THEN Unknown ELSE Raises("GatewayError", "NONE")
      [] OTHER -> Raises("GatewayError", "NONE")

\* _rpc's last clause: a failed invoke keeps the effect id and an UNKNOWN receipt.
WithIdentity_Bug(outcome) ==
    IF outcome.evidence = "NONE" /\ outcome.type \notin {"HTTPError", "GatewayError"}
    THEN [outcome EXCEPT !.evidence = "UNKNOWN"] ELSE outcome
WithIdentity(outcome) ==
    IF outcome.evidence = "NONE" THEN [outcome EXCEPT !.evidence = "UNKNOWN"]
                                 ELSE outcome

\* _operation_result. A receipt that is missing, malformed or another effect's
\* proves nothing; a committed one outlives an output that is no JSON object, but not
\* one nested too deep: RecursionError is not among the exceptions caught.
OperationResult_Bug(r) ==
    CASE r.receipt \in {"invalid", "unknown"} -> Unknown
      [] r.receipt = "committed" /\ r.outputs = "other"
           -> Raises("DatasourceError", "COMMITTED")
      [] r.receipt = "committed" /\ r.outputs = "deep" -> Raises("RecursionError", "NONE")
      [] OTHER -> Returns("Result", "COMMITTED")
OperationResult(r) ==
    CASE r.receipt \in {"invalid", "foreign", "unknown"} -> Unknown
      [] r.receipt = "committed" /\ r.outputs = "other"
           -> Raises("DatasourceError", "COMMITTED")
      [] r.receipt = "committed" /\ r.outputs = "deep" -> Raises("RecursionError", "NONE")
      [] OTHER -> Returns("Result", "COMMITTED")

\* What invoke makes of the answer to a request it dispatched.
InvokeOutcome(r) ==
    IF r.kind = "ok" THEN OperationResult(r) ELSE WithIdentity(Dispatch(r, TRUE, FALSE))

\* lookup returns three of the exceptions as values, and the receipt of a result.
LookupValues == {"OutcomeUnknown", "EffectNotFound", "OperationDeclarationRemoved"}
LookupOutcome(r) ==
    LET o == IF r.kind = "ok" THEN OperationResult(r) ELSE Dispatch(r, TRUE, TRUE) IN
    IF o.type \in LookupValues THEN [o EXCEPT !.how = "returns"]
    ELSE IF o.type = "Result" THEN Returns("Receipt", o.evidence) ELSE o

\* What declare_operations and list_operations make of an answer, before the latter
\* converts the declarations it got.
DeclarationOutcome_Bug(r) ==
    IF r.kind \in {"ok", "lost"} THEN Returns("Declarations", "NONE")
                                ELSE Dispatch(r, FALSE, FALSE)
DeclarationOutcome(r) ==
    IF r.kind = "ok" THEN Returns("Declarations", "NONE") ELSE Dispatch(r, FALSE, FALSE)

\* invoke before it dispatches: a bad effect id, an input that is no JSON object, a
\* deadline that passed while it was encoded, a gateway without call options.
NotDispatched == Raises("NotDispatched", "NONE")

=============================================================================

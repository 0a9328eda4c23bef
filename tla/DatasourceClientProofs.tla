----------------------- MODULE DatasourceClientProofs -----------------------
(***************************************************************************)
(* The README's rules on evidence, for every answer a gateway call can end *)
(* with: every combination of encoding, readability, receipt and outputs,  *)
(* with any codes, reasons and statuses. DatasourceEffects and SourceAdmin *)
(* meet the answers their hosts and proxies give; here it does not matter  *)
(* who sent one, nor when.                                                 *)
(*                                                                         *)
(* The argument. Only a recognized envelope reaches map_error's switch on  *)
(* codes; every other answer ends one way, that of its kind (RawOutcomes). *)
(* So what the switch may conclude (EnvelopeOutcomes, EnvelopeOpen) was    *)
(* said by a decoded envelope, and invoke and lookup pass it on            *)
(* (InvokePasses, LookupPasses).                                           *)
(***************************************************************************)
EXTENDS DatasourceClient, TLAPS

CONSTANTS
    Codes,      \* values of an envelope's code, Connect's own among them or not
    Reasons,    \* reasons of an envelope's ErrorInfo
    Statuses    \* HTTP statuses

Receipts == {"invalid", "foreign", "unknown", "committed"}

\* An answer sets the fields of its kind; the mapping reads no others.
Answers ==
    [kind : {"ok", "http", "lost", "other"}, encoding : {"supported", "unsupported"},
     body : {"connect", "unreadable", "broken", "deep"}, status : Statuses,
     code : Codes, reason : Reasons, committed : BOOLEAN, receipt : Receipts,
     outputs : {"objects", "other", "deep"}]

\* A decoded error envelope of the host, in an encoding that is supported.
Recognized(r) == r.kind = "http" /\ r.encoding = "supported" /\ r.body = "connect"

\* A message whose receipt says that this effect is committed.
Commits(r) == r.kind = "ok" /\ r.receipt = "committed"

\* An answer in nobody's words: no reply, an undecodable one, a non-Connect HTTP error
\* or one in an unsupported encoding, or a receipt that says unknown or proves nothing.
Silent(r) ==
    \/ r.kind = "lost"
    \/ r.kind = "ok" /\ r.receipt # "committed"
    \/ r.kind = "http" /\ r.encoding = "unsupported"
    \/ r.kind = "http" /\ r.encoding = "supported" /\ r.body = "unreadable"

\* A body that raises through map_error.
Unread(r) == r.kind = "http" /\ r.encoding = "supported" /\ r.body \in {"broken", "deep"}

\* The codes by which a recognized envelope says that the outcome is unknown
\* (README.md:148 and 153-154): on lookup a deadline or a cancellation is the lookup's.
SaysUnknown(r, lookup) ==
    \/ CodeOf(r) = "unavailable"
    \/ CodeOf(r) \in {"deadline_exceeded", "canceled"} /\ ~ lookup
    \/ CodeOf(r) = "failed_precondition" /\ r.reason = "SOURCE_OPERATION_OUTCOME_UNKNOWN"

\* The answers the README maps to OutcomeUnknown.
Open(r, lookup) == Silent(r) \/ (Recognized(r) /\ SaysUnknown(r, lookup))

\* The outcomes that refuse an operation.
Refusals == {"NotPermitted", "UnknownOperation", "InputError", "RateLimited",
             "ProviderRefused", "OperationRefused", "EffectReused"}

\* What invoke and lookup start from: a message's evidence, or the way the call failed.
Raw(r, lookup) == IF r.kind = "ok" THEN OperationResult(r) ELSE Dispatch(r, TRUE, lookup)

-----------------------------------------------------------------------------
(***************************************************************************)
(* map_error's switch, when an effect is at stake.                         *)
(***************************************************************************)

\* The HTTP status stands in for a missing code, but no status means not_found: a 404
\* of somebody on the way is "unimplemented".
LEMMA NotFoundIsDeclared ==
    ASSUME NEW r, CodeOf(r) = "not_found"
    PROVE  r.code = "not_found"
  <1>1. HttpToCode(r.status) \in {"internal", "unauthenticated", "permission_denied",
                                  "unimplemented", "unavailable", "unknown"}
    BY DEF HttpToCode
  <1>2. QED BY <1>1 DEF CodeOf

\* map_error's switch, when an effect is at stake.
LEMMA EnvelopeOutcomes ==
    ASSUME NEW r, NEW lookup \in BOOLEAN
    PROVE  LET o == MapCode(r, TRUE, lookup) IN
           /\ \E type, evidence : o = Raises(type, evidence)
           /\ o.type # "Result"
           /\ o.evidence = "COMMITTED" => r.committed
           /\ o.evidence = "NOT_ATTEMPTED" => lookup /\ r.code = "not_found"
  <1> DEFINE o == MapCode(r, TRUE, lookup)
             p == MapPrecondition(r, TRUE)
             e == RemovedEvidence(r, TRUE)
  <1>1. e = IF r.committed THEN "COMMITTED" ELSE "UNKNOWN"
    BY DEF RemovedEvidence
  <1>2. \/ p = Unknown
        \/ p = Raises("OperationDeclarationRemoved", e)
        \/ p = Raises("EffectReused", "NONE")
        \/ p = Raises("ProviderRefused", "NONE")
        \/ p = Raises("OperationRefused", "NONE")
    BY Zenon DEF MapPrecondition
  <1>3. \/ o = p \/ o = Unknown \/ o = Original
        \/ /\ lookup /\ CodeOf(r) = "not_found"
           /\ o = Raises("EffectNotFound", "NOT_ATTEMPTED")
        \/ \E type \in {"NotPermitted", "UnknownOperation", "InputError", "RateLimited"} :
              o = Raises(type, "NONE")
    BY Zenon DEF MapCode
  <1> HIDE DEF o, p, e
  <1>4. /\ \E type, evidence : p = Raises(type, evidence)
        /\ p.type # "Result" /\ p.evidence # "NOT_ATTEMPTED"
        /\ p.evidence = "COMMITTED" => r.committed
    <2>1. \E type, evidence : p = Raises(type, evidence)
      BY <1>2 DEF Unknown
    <2>2. QED BY <1>1, <1>2 DEF Unknown, Raises
  <1>5. CASE o = p
    BY <1>4, <1>5 DEF o
  <1>6. CASE /\ lookup /\ CodeOf(r) = "not_found"
             /\ o = Raises("EffectNotFound", "NOT_ATTEMPTED")
    <2>1. o.type = "EffectNotFound" /\ o.evidence = "NOT_ATTEMPTED"
      BY <1>6 DEF Raises
    <2>2. QED BY <1>6, <2>1, NotFoundIsDeclared DEF o
  <1>7. CASE o = Unknown \/ o = Original
    <2>1. \E type, evidence : o = Raises(type, evidence)
      BY <1>7 DEF Unknown, Original
    <2>2. o.type # "Result" /\ o.evidence \in {"UNKNOWN", "NONE"}
      BY <1>7 DEF Unknown, Original, Raises
    <2>3. QED BY <2>1, <2>2 DEF o
  <1>8. CASE \E type \in {"NotPermitted", "UnknownOperation", "InputError", "RateLimited"} :
                o = Raises(type, "NONE")
    <2>1. PICK type \in {"NotPermitted", "UnknownOperation", "InputError", "RateLimited"} :
                o = Raises(type, "NONE")
      BY <1>8
    <2>2. o.type = type /\ o.evidence = "NONE"
      BY <2>1 DEF Raises
    <2>3. QED BY <2>1, <2>2 DEF o
  <1>9. QED BY <1>3, <1>5, <1>6, <1>7, <1>8

\* It says OutcomeUnknown for the codes of the README, and for no others.
LEMMA EnvelopeOpen ==
    ASSUME NEW r, NEW lookup \in BOOLEAN
    PROVE  IF SaysUnknown(r, lookup) THEN MapCode(r, TRUE, lookup) = Unknown
                                     ELSE MapCode(r, TRUE, lookup).type # "OutcomeUnknown"
  <1> DEFINE o == MapCode(r, TRUE, lookup)
             p == MapPrecondition(r, TRUE)
             e == RemovedEvidence(r, TRUE)
             c == CodeOf(r)
             others == {"NotPermitted", "EffectNotFound", "UnknownOperation", "InputError",
                        "RateLimited", "OperationDeclarationRemoved", "EffectReused",
                        "ProviderRefused", "OperationRefused"}
  <1>1. CASE SaysUnknown(r, lookup)
    <2>1. CASE \/ c = "unavailable"
               \/ c \in {"deadline_exceeded", "canceled"} /\ ~ lookup
      <3>1. o = Unknown
        BY <2>1 DEF MapCode
      <3>2. QED BY <1>1, <3>1
    <2>2. CASE c = "failed_precondition" /\ r.reason = "SOURCE_OPERATION_OUTCOME_UNKNOWN"
      <3>1. o = p
        BY <2>2 DEF MapCode
      <3>2. p = Unknown
        BY <2>2 DEF MapPrecondition
      <3>3. QED BY <1>1, <3>1, <3>2
    <2>3. \/ c = "unavailable"
          \/ c \in {"deadline_exceeded", "canceled"} /\ ~ lookup
          \/ c = "failed_precondition" /\ r.reason = "SOURCE_OPERATION_OUTCOME_UNKNOWN"
      BY <1>1 DEF SaysUnknown
    <2>4. QED BY <2>1, <2>2, <2>3
  <1>2. CASE ~ SaysUnknown(r, lookup)
    <2>1. CASE c = "failed_precondition"
      <3>1. o = p
        BY <2>1 DEF MapCode
      <3>2. r.reason # "SOURCE_OPERATION_OUTCOME_UNKNOWN"
        BY <1>2, <2>1 DEF SaysUnknown
      <3>3. \E type \in others, evidence \in {e, "NONE"} : p = Raises(type, evidence)
        BY <3>2, Zenon DEF MapPrecondition
      <3> HIDE DEF o, p, e
      <3>4. p.type \in others
        BY <3>3 DEF Raises
      <3>5. QED BY <1>2, <3>1, <3>4 DEF o
    <2>2. CASE c # "failed_precondition"
      <3>1. /\ c # "unavailable"
            /\ ~ (c \in {"deadline_exceeded", "canceled"} /\ ~ lookup)
        BY <1>2 DEF SaysUnknown
      <3>2. \/ o = Original
            \/ \E type \in others, evidence \in {"NONE", "NOT_ATTEMPTED"} :
                  o = Raises(type, evidence)
        BY <2>2, <3>1, Zenon DEF MapCode
      <3> HIDE DEF o
      <3>3. o.type \in others \union {"HTTPError"}
        BY <3>2 DEF Raises, Original
      <3>4. QED BY <1>2, <3>3 DEF o
    <2>3. QED BY <2>1, <2>2
  <1>3. QED BY <1>1, <1>2

-----------------------------------------------------------------------------
(***************************************************************************)
(* What each kind of answer ends as.                                       *)
(***************************************************************************)

\* Only an envelope reaches the switch on codes, and what is in nobody's words is unknown.
LEMMA RawOutcomes ==
    ASSUME NEW r \in Answers, NEW lookup \in BOOLEAN
    PROVE  \/ Recognized(r) /\ Raw(r, lookup) = MapCode(r, TRUE, lookup)
           \/ Silent(r) /\ Raw(r, lookup) = Unknown
           \/ /\ Commits(r) /\ r.outputs = "deep"
              /\ Raw(r, lookup) = Raises("RecursionError", "NONE")
           \/ /\ Commits(r)
              /\ \/ Raw(r, lookup) = Raises("DatasourceError", "COMMITTED")
                 \/ Raw(r, lookup) = Returns("Result", "COMMITTED")
           \/ r.kind = "other" /\ Raw(r, lookup) = Raises("GatewayError", "NONE")
           \/ /\ Unread(r)
              /\ \/ Raw(r, lookup) = Raises("IncompleteRead", "NONE")
                 \/ Raw(r, lookup) = Raises("RecursionError", "NONE")
  <1>1. CASE r.kind = "http"
    <2>1. Raw(r, lookup) = HttpOutcome(r, TRUE, lookup)
      BY <1>1 DEF Raw, Dispatch
    <2>2. CASE Recognized(r)
      <3>1. HttpOutcome(r, TRUE, lookup) = MapCode(r, TRUE, lookup)
        BY <2>2 DEF HttpOutcome, Recognized
      <3>2. QED BY <2>1, <2>2, <3>1
    <2>3. CASE Silent(r)
      <3>1. \/ r.encoding = "unsupported"
            \/ r.encoding = "supported" /\ r.body = "unreadable"
        BY <1>1, <2>3 DEF Silent
      <3>2. HttpOutcome(r, TRUE, lookup) = Unknown
        BY <3>1, Zenon DEF HttpOutcome
      <3>3. QED BY <2>1, <2>3, <3>2
    <2>4. CASE Unread(r)
      <3>1. r.encoding = "supported" /\ r.body \in {"broken", "deep"}
        BY <2>4 DEF Unread
      <3>2. \/ HttpOutcome(r, TRUE, lookup) = Raises("IncompleteRead", "NONE")
            \/ HttpOutcome(r, TRUE, lookup) = Raises("RecursionError", "NONE")
        BY <3>1, Zenon DEF HttpOutcome
      <3>3. QED BY <2>1, <2>4, <3>2
    <2>5. r.encoding \in {"supported", "unsupported"}
          /\ r.body \in {"connect", "unreadable", "broken", "deep"}
      BY DEF Answers
    <2>6. QED BY <1>1, <2>2, <2>3, <2>4, <2>5 DEF Recognized, Silent, Unread
  <1>2. CASE r.kind = "ok"
    <2>1. Raw(r, lookup) = OperationResult(r)
      BY <1>2 DEF Raw
    <2>2. CASE r.receipt # "committed"
      <3>1. r.receipt \in {"invalid", "foreign", "unknown"}
        BY <2>2 DEF Answers, Receipts
      <3>2. OperationResult(r) = Unknown
        BY <3>1, Zenon DEF OperationResult
      <3>3. QED BY <1>2, <2>1, <2>2, <3>2 DEF Silent
    <2>3. CASE r.receipt = "committed"
      <3>1. \/ r.outputs = "deep" /\ OperationResult(r) = Raises("RecursionError", "NONE")
            \/ OperationResult(r) = Raises("DatasourceError", "COMMITTED")
            \/ OperationResult(r) = Returns("Result", "COMMITTED")
        BY <2>3, Zenon DEF OperationResult
      <3>2. QED BY <1>2, <2>1, <2>3, <3>1 DEF Commits
    <2>4. QED BY <2>2, <2>3
  <1>3. CASE r.kind = "lost"
    BY <1>3 DEF Raw, Dispatch, Silent
  <1>4. CASE r.kind = "other"
    BY <1>4 DEF Raw, Dispatch
  <1>5. QED BY <1>1, <1>2, <1>3, <1>4 DEF Answers

\* What may be concluded from it.
LEMMA RawEvidence ==
    ASSUME NEW r \in Answers, NEW lookup \in BOOLEAN
    PROVE  LET o == Raw(r, lookup) IN
           /\ \E how, type, evidence : o = [how |-> how, type |-> type, evidence |-> evidence]
           /\ o.evidence = "COMMITTED" => Commits(r) \/ (Recognized(r) /\ r.committed)
           /\ o.evidence = "NOT_ATTEMPTED" =>
                lookup /\ Recognized(r) /\ r.code = "not_found"
           /\ o.type \in Refusals => Recognized(r)
           /\ o.type = "Result" => ~ Recognized(r)
  <1> DEFINE o == Raw(r, lookup)
  <1>1. CASE Recognized(r) /\ o = MapCode(r, TRUE, lookup)
    <2>0. \E type, evidence : MapCode(r, TRUE, lookup) = Raises(type, evidence)
      BY EnvelopeOutcomes, Zenon
    <2>1. PICK type, evidence : o = Raises(type, evidence)
      BY <1>1, <2>0
    <2>2. /\ o.type # "Result"
          /\ o.evidence = "COMMITTED" => r.committed
          /\ o.evidence = "NOT_ATTEMPTED" => lookup /\ r.code = "not_found"
      BY <1>1, EnvelopeOutcomes
    <2> HIDE DEF o
    <2>3. \E how, t, e : o = [how |-> how, type |-> t, evidence |-> e]
      BY <2>1 DEF Raises
    <2>4. QED BY <1>1, <2>2, <2>3 DEF o
  <1>2. ASSUME NEW type, NEW evidence,
               o = Raises(type, evidence) \/ o = Returns(type, evidence)
        PROVE  /\ \E how, t, e : o = [how |-> how, type |-> t, evidence |-> e]
               /\ o.type = type /\ o.evidence = evidence
    <2> HIDE DEF o
    <2>1. PICK how : o = [how |-> how, type |-> type, evidence |-> evidence]
      BY <1>2 DEF Raises, Returns
    <2>2. o.type = type /\ o.evidence = evidence
      BY <2>1
    <2>3. QED BY <2>1, <2>2
  <1>3. CASE o = Unknown
    BY <1>2, <1>3 DEF Unknown, Refusals
  <1>4. CASE /\ Commits(r)
             /\ \/ o = Raises("RecursionError", "NONE")
                \/ o = Raises("DatasourceError", "COMMITTED")
                \/ o = Returns("Result", "COMMITTED")
    <2>1. ~ Recognized(r)
      BY <1>4 DEF Commits, Recognized
    <2> HIDE DEF o
    <2>2. /\ \E how, t, e : o = [how |-> how, type |-> t, evidence |-> e]
          /\ o.type \in {"RecursionError", "DatasourceError", "Result"}
          /\ o.evidence \in {"NONE", "COMMITTED"}
      BY <1>2, <1>4
    <2>3. QED BY <1>4, <2>1, <2>2 DEF o, Refusals
  <1>5. CASE \/ o = Raises("GatewayError", "NONE") \/ o = Raises("IncompleteRead", "NONE")
             \/ o = Raises("RecursionError", "NONE")
    BY <1>2, <1>5 DEF Refusals
  <1>6. QED BY <1>1, <1>3, <1>4, <1>5, RawOutcomes

\* Which answers end as OutcomeUnknown; the only exception without evidence that a
\* message ends in is RecursionError.
LEMMA RawOpen ==
    ASSUME NEW r \in Answers, NEW lookup \in BOOLEAN
    PROVE  /\ IF Open(r, lookup) THEN Raw(r, lookup) = Unknown
                                 ELSE Raw(r, lookup).type # "OutcomeUnknown"
           /\ r.kind = "ok" /\ Raw(r, lookup).evidence = "NONE"
                => Commits(r) /\ r.outputs = "deep"
  <1> DEFINE o == Raw(r, lookup)
  <1>1. ASSUME NEW type, NEW evidence,
               o = Raises(type, evidence) \/ o = Returns(type, evidence)
        PROVE  o.type = type /\ o.evidence = evidence
    <2> HIDE DEF o
    <2>1. QED BY <1>1 DEF Raises, Returns
  <1>2. CASE Recognized(r) /\ o = MapCode(r, TRUE, lookup)
    <2>1. r.kind = "http" /\ ~ Silent(r)
      BY <1>2 DEF Recognized, Silent
    <2>2. QED BY <1>2, <2>1, EnvelopeOpen DEF Open
  <1>3. CASE Silent(r) /\ o = Unknown
    <2>1. o.evidence = "UNKNOWN"
      BY <1>1, <1>3 DEF Unknown
    <2>2. QED BY <1>3, <2>1 DEF Open
  <1>4. CASE /\ Commits(r)
             /\ \/ r.outputs = "deep" /\ o = Raises("RecursionError", "NONE")
                \/ o = Raises("DatasourceError", "COMMITTED")
                \/ o = Returns("Result", "COMMITTED")
    <2>1. ~ Open(r, lookup)
      BY <1>4 DEF Commits, Open, Silent, Recognized
    <2> HIDE DEF o
    <2>2. /\ o.type \in {"RecursionError", "DatasourceError", "Result"}
          /\ o.evidence = "NONE" => r.outputs = "deep"
      BY <1>1, <1>4
    <2>3. QED BY <1>4, <2>1, <2>2 DEF o
  <1>5. CASE /\ r.kind = "other" \/ Unread(r)
             /\ \/ o = Raises("GatewayError", "NONE") \/ o = Raises("IncompleteRead", "NONE")
                \/ o = Raises("RecursionError", "NONE")
    <2>1. r.kind # "ok" /\ ~ Open(r, lookup)
      BY <1>5 DEF Unread, Open, Silent, Recognized
    <2> HIDE DEF o
    <2>2. o.type \in {"GatewayError", "IncompleteRead", "RecursionError"}
      BY <1>1, <1>5
    <2>3. QED BY <2>1, <2>2 DEF o
  <1>6. QED BY <1>2, <1>3, <1>4, <1>5, RawOutcomes

-----------------------------------------------------------------------------
(***************************************************************************)
(* What the two calls and the declarations pass on.                        *)
(***************************************************************************)

\* invoke may add an UNKNOWN receipt, and otherwise leaves the failure as it is.
LEMMA InvokePasses ==
    ASSUME NEW r \in Answers
    PROVE  LET i == InvokeOutcome(r)
               o == Raw(r, FALSE) IN
           /\ o = Unknown => i = Unknown
           /\ i.type = o.type
           /\ i.evidence = o.evidence \/ (r.kind # "ok" /\ i.evidence = "UNKNOWN")
           /\ r.kind # "ok" => i.evidence # "NONE"
  <1> DEFINE o == Raw(r, FALSE)
             i == InvokeOutcome(r)
  <1>1. i = IF r.kind = "ok" THEN o ELSE WithIdentity(o)
    BY DEF InvokeOutcome, Raw
  <1>2. PICK how, type, evidence : o = [how |-> how, type |-> type, evidence |-> evidence]
    BY RawEvidence
  <1>3. CASE r.kind = "ok"
    <2>1. i = o
      BY <1>1, <1>3
    <2>2. QED BY <1>3, <2>1
  <1>4. CASE r.kind # "ok"
    <2>1. i = WithIdentity(o)
      BY <1>1, <1>4
    <2> HIDE DEF i, o
    <2>2. CASE evidence = "NONE"
      <3>1. i = [how |-> how, type |-> type, evidence |-> "UNKNOWN"]
        BY <1>2, <2>1, <2>2 DEF WithIdentity
      <3>2. o # Unknown
        BY <1>2, <2>2 DEF Unknown, Raises
      <3>3. i.type = o.type /\ i.evidence = "UNKNOWN"
        BY <1>2, <3>1
      <3>4. QED BY <1>4, <3>2, <3>3 DEF i, o
    <2>3. CASE evidence # "NONE"
      <3>1. i = o
        BY <1>2, <2>1, <2>3 DEF WithIdentity
      <3>2. i.evidence # "NONE"
        BY <1>2, <2>3, <3>1
      <3>3. QED BY <3>1, <3>2 DEF i, o
    <2>4. QED BY <2>2, <2>3
  <1>5. QED BY <1>3, <1>4

\* lookup may return instead of raising, and does not change what it learned.
LEMMA LookupPasses ==
    ASSUME NEW r \in Answers
    PROVE  LET l == LookupOutcome(r)
               o == Raw(r, TRUE) IN
           /\ o = Unknown => l = Returns("OutcomeUnknown", "UNKNOWN")
           /\ l.evidence = o.evidence
           /\ l.type = o.type \/ (o.type = "Result" /\ l.type = "Receipt")
  <1> DEFINE o == Raw(r, TRUE)
             l == LookupOutcome(r)
  <1>1. l = IF o.type \in LookupValues THEN [o EXCEPT !.how = "returns"]
            ELSE IF o.type = "Result" THEN Returns("Receipt", o.evidence) ELSE o
    BY DEF LookupOutcome, Raw
  <1>2. PICK how, type, evidence : o = [how |-> how, type |-> type, evidence |-> evidence]
    BY RawEvidence
  <1> HIDE DEF o, l
  <1>3. CASE type \in LookupValues
    <2>1. l = [how |-> "returns", type |-> type, evidence |-> evidence]
      BY <1>1, <1>2, <1>3
    <2>2. l.type = o.type /\ l.evidence = o.evidence
      BY <1>2, <2>1
    <2>3. o = Unknown => l = Returns("OutcomeUnknown", "UNKNOWN")
      BY <1>2, <2>1 DEF Unknown, Raises, Returns
    <2>4. QED BY <2>2, <2>3 DEF o, l
  <1>4. CASE type \notin LookupValues
    <2>1. o # Unknown
      BY <1>2, <1>4 DEF Unknown, Raises, LookupValues
    <2>2. CASE type = "Result"
      <3>1. l = [how |-> "returns", type |-> "Receipt", evidence |-> evidence]
        BY <1>1, <1>2, <1>4, <2>2 DEF Returns
      <3>2. o.type = "Result" /\ l.type = "Receipt" /\ l.evidence = o.evidence
        BY <1>2, <2>2, <3>1
      <3>3. QED BY <2>1, <3>2 DEF o, l
    <2>3. CASE type # "Result"
      <3>1. l = o
        BY <1>1, <1>2, <1>4, <2>3
      <3>2. QED BY <2>1, <3>1 DEF o, l
    <2>4. QED BY <2>2, <2>3
  <1>5. QED BY <1>3, <1>4

\* Without an effect, nothing ends in an outcome about one.
LEMMA DeclarationOutcomes ==
    ASSUME NEW r
    PROVE  LET o == DeclarationOutcome(r) IN
           /\ o.evidence = "NONE"
           /\ o.type \notin {"OutcomeUnknown", "EffectNotFound", "Receipt", "Result"}
  <1> DEFINE o == DeclarationOutcome(r)
             m == MapCode(r, FALSE, FALSE)
             p == MapPrecondition(r, FALSE)
  <1>1. RemovedEvidence(r, FALSE) = "NONE"
    BY DEF RemovedEvidence
  <1>2. \/ p = Raises("OperationDeclarationRemoved", "NONE")
        \/ p = Raises("EffectReused", "NONE")
        \/ p = Raises("ProviderRefused", "NONE")
        \/ p = Raises("OperationRefused", "NONE")
    BY <1>1, Zenon DEF MapPrecondition
  <1>3. \/ m = p \/ m = Original
        \/ m = Raises("NotPermitted", "NONE") \/ m = Raises("UnknownOperation", "NONE")
        \/ m = Raises("InputError", "NONE") \/ m = Raises("RateLimited", "NONE")
    BY Zenon DEF MapCode
  <1>4. \/ o = Returns("Declarations", "NONE") \/ o = m \/ o = Original
        \/ o = Raises("DatasourceError", "NONE") \/ o = Raises("IncompleteRead", "NONE")
        \/ o = Raises("RecursionError", "NONE") \/ o = Raises("NotPermitted", "NONE")
        \/ o = Raises("GatewayError", "NONE")
    BY Zenon DEF DeclarationOutcome, Dispatch, HttpOutcome
  <1> HIDE DEF o, m, p
  <1>5. /\ p.evidence = "NONE"
        /\ p.type \notin {"OutcomeUnknown", "EffectNotFound", "Receipt", "Result"}
    BY <1>2 DEF Raises
  <1>6. /\ m.evidence = "NONE"
        /\ m.type \notin {"OutcomeUnknown", "EffectNotFound", "Receipt", "Result"}
    BY <1>3, <1>5 DEF Raises, Original
  <1>7. /\ o.evidence = "NONE"
        /\ o.type \notin {"OutcomeUnknown", "EffectNotFound", "Receipt", "Result"}
    BY <1>4, <1>6 DEF Raises, Returns, Original
  <1>8. QED BY <1>7 DEF o

-----------------------------------------------------------------------------
(***************************************************************************)
(* The rules on evidence.                                                  *)
(***************************************************************************)

\* Whatever invoke and lookup conclude of an effect comes from a decoded answer that
\* says so: a commit from a receipt of this effect or from an explicit receipt_status,
\* "not attempted" from a declared not_found on lookup and never from an HTTP 404, and
\* a refusal from a recognized envelope (in which the HTTP status stands in for a
\* missing code), never from the status of a body nobody could read.
THEOREM HostConcludes ==
    ASSUME NEW r \in Answers
    PROVE  /\ \A o \in {InvokeOutcome(r), LookupOutcome(r)} :
                /\ o.evidence = "COMMITTED" => Commits(r) \/ (Recognized(r) /\ r.committed)
                /\ o.type \in Refusals => Recognized(r)
           /\ InvokeOutcome(r).evidence # "NOT_ATTEMPTED"
           /\ LookupOutcome(r).evidence = "NOT_ATTEMPTED" =>
                Recognized(r) /\ r.code = "not_found"
  <1>1. /\ InvokeOutcome(r).type = Raw(r, FALSE).type
        /\ InvokeOutcome(r).evidence \in {Raw(r, FALSE).evidence, "UNKNOWN"}
    BY InvokePasses
  <1>2. /\ LookupOutcome(r).evidence = Raw(r, TRUE).evidence
        /\ LookupOutcome(r).type \in {Raw(r, TRUE).type, "Receipt"}
    BY LookupPasses
  <1>3. ASSUME NEW lookup \in BOOLEAN
        PROVE  /\ Raw(r, lookup).evidence = "COMMITTED"
                    => Commits(r) \/ (Recognized(r) /\ r.committed)
               /\ Raw(r, lookup).evidence = "NOT_ATTEMPTED"
                    => lookup /\ Recognized(r) /\ r.code = "not_found"
               /\ Raw(r, lookup).type \in Refusals => Recognized(r)
    BY RawEvidence
  <1>4. "Receipt" \notin Refusals
    BY DEF Refusals
  <1>5. QED BY <1>1, <1>2, <1>3, <1>4

\* OutcomeUnknown is the end of the answers the README says it is (148, 153-154), and
\* of no others: a lost or undecodable reply, an HTTP error that is no Connect envelope
\* or has an unsupported encoding, a receipt that proves nothing, and the envelopes that
\* say unavailable, SOURCE_OPERATION_OUTCOME_UNKNOWN or, of an invocation, that its
\* deadline passed or that it was cancelled. invoke raises it and lookup returns it,
\* with an UNKNOWN receipt and so with the id. Any other failure of invoke keeps a
\* receipt too, mapped or not, but for the committed message whose outputs are nested too
\* deep (FailureKeepsIdentity). A body that raises while map_error reads it is no
\* undecodable reply here: it is LostReplyIsAValue's.
THEOREM OpenIsUnknown ==
    ASSUME NEW r \in Answers
    PROVE  /\ IF Open(r, FALSE) THEN InvokeOutcome(r) = Unknown
                                ELSE InvokeOutcome(r).type # "OutcomeUnknown"
           /\ IF Open(r, TRUE) THEN LookupOutcome(r) = Returns("OutcomeUnknown", "UNKNOWN")
                               ELSE LookupOutcome(r).type # "OutcomeUnknown"
           /\ InvokeOutcome(r).evidence = "NONE" => Commits(r) /\ r.outputs = "deep"
  <1>1. IF Open(r, FALSE) THEN InvokeOutcome(r) = Unknown
                          ELSE InvokeOutcome(r).type # "OutcomeUnknown"
    BY RawOpen, InvokePasses
  <1>2. IF Open(r, TRUE) THEN LookupOutcome(r) = Returns("OutcomeUnknown", "UNKNOWN")
                         ELSE LookupOutcome(r).type # "OutcomeUnknown"
    BY RawOpen, LookupPasses
  <1>3. InvokeOutcome(r).evidence = "NONE" => Commits(r) /\ r.outputs = "deep"
    BY RawOpen, InvokePasses
  <1>4. QED BY <1>1, <1>2, <1>3

\* The declaration calls share the mapper and have no effect: they never report
\* evidence of one, and no HTTP status is read out of an answer whose encoding is not
\* supported, a 403 included (README.md:156).
THEOREM NothingIsInvented ==
    ASSUME NEW r \in Answers
    PROVE  /\ DeclarationOutcome(r).evidence = "NONE"
           /\ DeclarationOutcome(r).type \notin {"OutcomeUnknown", "EffectNotFound",
                                                 "Receipt", "Result"}
           /\ r.kind = "http" /\ r.encoding = "unsupported"
                => DeclarationOutcome(r) = Raises("DatasourceError", "NONE")
  <1>1. ASSUME r.kind = "http", r.encoding = "unsupported"
        PROVE  DeclarationOutcome(r) = Raises("DatasourceError", "NONE")
    <2>1. DeclarationOutcome(r) = Dispatch(r, FALSE, FALSE)
      BY <1>1 DEF DeclarationOutcome
    <2>2. Dispatch(r, FALSE, FALSE) = HttpOutcome(r, FALSE, FALSE)
      BY <1>1, Zenon DEF Dispatch
    <2>3. HttpOutcome(r, FALSE, FALSE) = Raises("DatasourceError", "NONE")
      BY <1>1, Zenon DEF HttpOutcome
    <2>4. QED BY <2>1, <2>2, <2>3
  <1>2. QED BY <1>1, DeclarationOutcomes

=============================================================================

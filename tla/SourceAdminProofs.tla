--------------------------- MODULE SourceAdminProofs ---------------------------
(***************************************************************************)
(* What SourceAdmin's run shows of one admin and two names, proved for any *)
(* number of admins, names and calls.                                      *)
(*                                                                         *)
(* The argument. The host is replaced only by a whole converted set, and   *)
(* conversion keeps names (Whole). An answer that reaches a declaration    *)
(* under way is the host's word on that very call, and no failure is taken *)
(* for a success (Answered). What an admin has listed and not edited       *)
(* converts back to the declarations it was listed from (ConvertsBack), which   *)
(* are the host's while no other set was admitted: versions only grow      *)
(* (Dated), one for every call admitted (Counted).                         *)
(***************************************************************************)
EXTENDS SourceAdmin, TLAPS, FiniteSetTheorems

Refused == Connect("permission_denied")

\* The functions over admins that TypeOK describes point by point.
Shaped == DOMAIN answer = Admins /\ DOMAIN outcome = Admins

\* Every set at the host, or on its way there, is the whole of one that was passed.
Whole ==
    /\ NamesOf(declared) \in offered
    /\ \A q \in sent : NamesOf(q.operations) \in offered

\* An answer waits only for a declaration, and is about this one.
Answered ==
    \A a \in Admins :
      /\ answer[a] \in {NoAnswer, Blank, Refused}
      /\ pc[a] # "declaring" => answer[a] = NoAnswer
      /\ answer[a] = Blank => call[a] \in admitted

\* Every call that was admitted made one version; none is admitted twice.
Counted ==
    /\ IsFiniteSet(admitted) /\ version = Cardinality(admitted) + 1
    /\ admitted \subseteq 1 .. calls
    /\ \A q \in sent : q.call \in 1 .. calls /\ q.call \notin admitted
    /\ \A q, p \in sent : q.call = p.call => q = p

\* Nothing refers to a version that is not there yet.
Dated ==
    /\ \A a \in Admins : listedAt[a] <= version /\ shown[a].at <= version
    /\ \A q \in sent : q.basis <= version

\* What declaring makes of a set.
Wire(ops) == {Fields(o) : o \in ops}

\* What was listed and not edited can be declared, and is what the host has, while that
\* is of the version it was listed from.
ConvertsBack ==
    /\ \A a \in Admins :
         /\ shown[a].at = version => shown[a].operations = declared
         /\ listedAt[a] # 0 => \A o \in working[a] : FieldsValid(o)
         /\ listedAt[a] = version => Wire(working[a]) = Normalised(declared)
    /\ RedeclareChangesNothing

\* The inductive invariant.
IInv ==
    /\ TypeOK /\ Shaped /\ Whole /\ Answered /\ Counted /\ Dated /\ ConvertsBack
    /\ ReturnedIsAdmitted

-----------------------------------------------------------------------------
(***************************************************************************)
(* The conversions.                                                        *)
(***************************************************************************)

\* Both directions stay within their types.
LEMMA ConversionTypes ==
    /\ \A o \in Operation : FieldsValid(o) => Fields(o) \in WireOperation
    /\ \A v \in WireOperation : Listable(v) => Listed(v) \in Operation
  <1>1. ASSUME NEW o \in Operation, FieldsValid(o) PROVE Fields(o) \in WireOperation
    BY <1>1 DEF Operation, WireOperation, FieldsValid, Fields
  <1>2. ASSUME NEW v \in WireOperation, Listable(v) PROVE Listed(v) \in Operation
    BY <1>2 DEF Operation, WireOperation, Listable, Listed
  <1>3. QED BY <1>1, <1>2

\* Declaring undoes listing, but for absent schemas.
LEMMA ListedConvertsBack ==
    ASSUME NEW v \in WireOperation, Listable(v)
    PROVE  /\ FieldsValid(Listed(v))
           /\ Fields(Listed(v)) = Completed(v)
  <1> DEFINE o == Listed(v)
  <1>1. v.effect \in {"EFFECT_READ_ONLY", "EFFECT_MUTATION"}
    BY DEF WireOperation, Listable
  <1>2. /\ o.name = v.name /\ o.input = "object" /\ o.output = "object"
        /\ o.effect = IF v.effect = "EFFECT_MUTATION" THEN "MUTATION" ELSE "READ_ONLY"
    BY DEF Listed
  <1> HIDE DEF o
  <1>3. FieldsValid(o) /\ Fields(o) = Completed(v)
    BY <1>1, <1>2 DEF FieldsValid, Fields, Completed
  <1>4. QED BY <1>3 DEF o

\* The same of whole sets.
LEMMA ListingConvertsBack ==
    ASSUME NEW ops \in SUBSET WireOperation, \A v \in ops : Listable(v)
    PROVE  LET listed == {Listed(v) : v \in ops} IN
           /\ listed \subseteq Operation
           /\ \A o \in listed : FieldsValid(o)
           /\ Wire(listed) = Normalised(ops)
  <1> DEFINE listed == {Listed(v) : v \in ops}
  <1>1. listed \subseteq Operation
    BY ConversionTypes
  <1>2. \A o \in listed : FieldsValid(o)
    BY ListedConvertsBack
  <1>3. {Fields(o) : o \in listed} = {Fields(Listed(v)) : v \in ops}
    OBVIOUS
  <1>4. {Fields(Listed(v)) : v \in ops} = {Completed(v) : v \in ops}
    BY ListedConvertsBack
  <1>5. QED BY <1>1, <1>2, <1>3, <1>4 DEF Normalised, Wire

\* What declare_operations sends is the whole set, under the same names.
LEMMA ConvertedIsWhole ==
    ASSUME NEW ops \in SUBSET Operation, NEW sending \in Converted(ops)
    PROVE  /\ sending = Wire(ops)
           /\ sending \subseteq WireOperation
           /\ NamesOf(sending) = NamesOf(ops)
  <1>1. /\ \A o \in ops : FieldsValid(o)
        /\ sending = {Fields(o) : o \in ops}
    BY DEF Converted
  <1>2. sending \subseteq WireOperation
    BY <1>1, ConversionTypes
  <1>3. \A o \in ops : Fields(o).name = o.name
    BY DEF Fields
  <1>4. NamesOf(sending) = NamesOf(ops)
    BY <1>1, <1>3 DEF NamesOf
  <1>5. QED BY <1>1, <1>2, <1>4 DEF Wire

\* Names of declarations are names.
LEMMA NamesAreNames ==
    /\ \A ops \in SUBSET Operation : NamesOf(ops) \in SUBSET Names
    /\ \A ops \in SUBSET WireOperation : NamesOf(ops) \in SUBSET Names
  BY DEF NamesOf, Operation, WireOperation

-----------------------------------------------------------------------------
(***************************************************************************)
(* Outcomes.                                                               *)
(***************************************************************************)

\* Only a decoded response is a return: every error raises.
LEMMA DeclarationOutcomes ==
    ASSUME NEW r
    PROVE  LET o == DeclarationOutcome(r) IN
           /\ o.how \in {"returns", "raises"}
           /\ o.type = "Declarations" => r.kind = "ok"
  <1> DEFINE Failed(o) == o.how = "raises" /\ o.type # "Declarations"
             p == MapPrecondition(r, FALSE)
             m == MapCode(r, FALSE, FALSE)
             e == RemovedEvidence(r, FALSE)
             d == Dispatch(r, FALSE, FALSE)
  <1>1. \/ p = Unknown
        \/ p = Raises("OperationDeclarationRemoved", e)
        \/ p = Raises("EffectReused", "NONE")
        \/ p = Raises("ProviderRefused", "NONE")
        \/ p = Raises("OperationRefused", "NONE")
    BY Zenon DEF MapPrecondition
  <1>2. \/ m = p \/ m = Unknown \/ m = Original
        \/ \E type \in {"NotPermitted", "UnknownOperation", "InputError", "RateLimited"} :
              m = Raises(type, "NONE")
    BY Zenon DEF MapCode
  <1>3. \/ d = m \/ d = Original
        \/ \E type \in {"DatasourceError", "IncompleteRead", "RecursionError",
                        "NotPermitted", "GatewayError"} :
              d = Raises(type, "NONE")
    BY Zenon DEF Dispatch, HttpOutcome
  <1> HIDE DEF p, m, e, d
  <1>4. Failed(p)
    BY <1>1 DEF Unknown, Raises
  <1>5. Failed(m)
    BY <1>2, <1>4 DEF Unknown, Original, Raises
  <1>6. Failed(d)
    BY <1>3, <1>5 DEF Original, Raises
  <1>7. CASE r.kind = "ok"
    BY <1>7 DEF DeclarationOutcome, Returns
  <1>8. CASE r.kind # "ok"
    <2>1. DeclarationOutcome(r) = d
      BY <1>8 DEF DeclarationOutcome, d
    <2>2. QED BY <1>6, <2>1
  <1>9. QED BY <1>7, <1>8

\* The three answers to a declaration are told apart by their kind.
LEMMA AnswerKinds ==
    /\ Blank.kind = "ok" /\ NoAnswer.kind = "none" /\ Refused.kind = "http"
    /\ \A r \in TransportAnswers : r.kind # "ok"
  BY DEF Blank, NoAnswer, Refused, Connect, TransportAnswers, Lost, NotConnect, ForeignEncoding

-----------------------------------------------------------------------------
(***************************************************************************)
(* The invariant.                                                          *)
(***************************************************************************)

LEMMA InvariantInit == Init => IInv
  <1> SUFFICES ASSUME Init PROVE IInv
    OBVIOUS
  <1>1. declared \subseteq WireOperation
    BY DEF Init
  <1>2. /\ 1 \in 1 .. MaxCalls + 1 /\ 0 \in 0 .. MaxCalls /\ 0 \in 0 .. MaxCalls + 1
    BY AdminAssumption
  <1>3. NothingShown \in [operations: SUBSET WireOperation, at: 0 .. MaxCalls + 1]
    BY <1>2 DEF NothingShown
  <1>4. TypeOK
    BY <1>1, <1>2, <1>3, NamesAreNames, AnswerKinds DEF Init, TypeOK, NoOutcome
  <1>5. Shaped /\ Whole
    BY DEF Init, Shaped, Whole
  <1>6. Answered
    BY AnswerKinds DEF Init, Answered
  <1>7. Counted
    BY FS_EmptySet DEF Init, Counted
  <1>8. Dated
    BY DEF Init, Dated, NothingShown
  <1>9. ConvertsBack
    BY DEF Init, ConvertsBack, NothingShown, RedeclareChangesNothing
  <1>10. ReturnedIsAdmitted
    BY DEF Init, ReturnedIsAdmitted, NoOutcome
  <1>11. QED BY <1>4, <1>5, <1>6, <1>7, <1>8, <1>9, <1>10 DEF IInv

\* An admin edits what it has in hand, which then is no longer what it listed.
LEMMA EditStep ==
    ASSUME IInv, NEW a \in Admins, Edit(a)
    PROVE  IInv'
  <1>1. /\ working'[a] \subseteq Operation
        /\ working' = [working EXCEPT ![a] = working'[a]]
    BY DEF Edit, Set, Drafts, IInv, TypeOK
  <1>2. listedAt' = [listedAt EXCEPT ![a] = 0]
    BY DEF Edit, Set
  <1>3. UNCHANGED <<host, calls, pc, call, sent, answer, shown, outcome, history>>
    BY DEF Edit
  <1>4. TypeOK'
    BY <1>1, <1>2, <1>3, AdminAssumption DEF host, history, IInv, TypeOK
  <1>5. Dated' /\ ConvertsBack'
    BY <1>1, <1>2, <1>3 DEF host, history, IInv, TypeOK, Dated, ConvertsBack,
       RedeclareChangesNothing
  <1>6. Shaped' /\ Whole' /\ Answered' /\ Counted' /\ ReturnedIsAdmitted'
    BY <1>3 DEF host, history, IInv, Shaped, Whole, Answered, Counted, ReturnedIsAdmitted
  <1>7. QED BY <1>4, <1>5, <1>6 DEF IInv

\* A call is begun that sends nothing, or a listing.
LEMMA ListStep ==
    ASSUME IInv, NEW a \in Admins, List(a)
    PROVE  IInv'
  <1>1. /\ pc[a] = "idle" /\ calls' = calls + 1 /\ calls' \in 0 .. MaxCalls
        /\ call' = [call EXCEPT ![a] = calls + 1]
        /\ pc' = [pc EXCEPT ![a] = "listing"]
        /\ outcome' = [outcome EXCEPT ![a] = NoOutcome]
        /\ UNCHANGED <<host, working, listedAt, sent, answer, shown, history>>
    BY AdminAssumption DEF List, NewCall, Set, IInv, TypeOK
  <1>2. NoOutcome.how = "none" /\ NoOutcome.type = "none"
    BY DEF NoOutcome
  <1>3. TypeOK' /\ Shaped'
    BY <1>1, <1>2, AdminAssumption DEF host, history, IInv, TypeOK, Shaped
  <1>4. Answered'
    BY <1>1, AnswerKinds DEF history, IInv, TypeOK, Answered
  <1>5. Counted'
    BY <1>1, AdminAssumption DEF host, history, IInv, TypeOK, Counted
  <1>6. ReturnedIsAdmitted'
    BY <1>1, <1>2 DEF history, IInv, TypeOK, Shaped, ReturnedIsAdmitted
  <1>7. Whole' /\ Dated' /\ ConvertsBack'
    BY <1>1 DEF host, history, IInv, Whole, Dated, ConvertsBack, RedeclareChangesNothing
  <1>8. QED BY <1>3, <1>4, <1>5, <1>6, <1>7 DEF IInv

\* declare_operations raises InputError, or sends the whole set it was given.
LEMMA DeclareStep ==
    ASSUME IInv, NEW a \in Admins, Declare(a)
    PROVE  IInv'
  <1>1. /\ pc[a] = "idle" /\ calls' = calls + 1 /\ calls' \in 0 .. MaxCalls
        /\ call' = [call EXCEPT ![a] = calls + 1]
        /\ offered' = offered \union {NamesOf(working[a])}
        /\ UNCHANGED <<host, working, listedAt, answer, shown, admitted>>
    BY AdminAssumption DEF Declare, NewCall, Set, IInv, TypeOK
  <1>2. working[a] \in SUBSET Operation /\ NamesOf(working[a]) \in SUBSET Names
    BY NamesAreNames DEF IInv, TypeOK
  <1>3. ASSUME NEW o, outcome' = [outcome EXCEPT ![a] = o], o.type # "Declarations",
               o.how \in {"none", "raises"},
               UNCHANGED <<pc, sent>> \/ pc' = [pc EXCEPT ![a] = "declaring"]
        PROVE  /\ \A b \in Admins : outcome'[b].how \in {"none", "returns", "raises"}
               /\ Shaped' /\ Answered' /\ ReturnedIsAdmitted'
               /\ pc' \in [Admins -> {"idle", "listing", "declaring"}]
    <2>1. pc' \in [Admins -> {"idle", "listing", "declaring"}]
      BY <1>3 DEF IInv, TypeOK
    <2>2. Shaped'
      BY <1>1, <1>3 DEF IInv, Shaped
    <2>3. Answered'
      BY <1>1, <1>3, AnswerKinds DEF IInv, TypeOK, Answered
    <2>4. /\ \A b \in Admins : outcome'[b].how \in {"none", "returns", "raises"}
          /\ ReturnedIsAdmitted'
      BY <1>1, <1>3 DEF IInv, TypeOK, Shaped, ReturnedIsAdmitted
    <2>5. QED BY <2>1, <2>2, <2>3, <2>4
  <1>4. /\ \A b \in Admins : outcome'[b].how \in {"none", "returns", "raises"}
        /\ Shaped' /\ Answered' /\ ReturnedIsAdmitted'
        /\ pc' \in [Admins -> {"idle", "listing", "declaring"}]
    <2>1. /\ Raises("InputError", "NONE").type # "Declarations"
          /\ Raises("InputError", "NONE").how = "raises"
          /\ NoOutcome.type # "Declarations" /\ NoOutcome.how = "none"
      BY DEF Raises, NoOutcome
    <2>2. CASE /\ outcome' = [outcome EXCEPT ![a] = Raises("InputError", "NONE")]
               /\ UNCHANGED <<pc, sent>>
      BY <1>3, <2>1, <2>2
    <2>3. CASE /\ outcome' = [outcome EXCEPT ![a] = NoOutcome]
               /\ pc' = [pc EXCEPT ![a] = "declaring"]
      BY <1>3, <2>1, <2>3
    <2>4. QED BY <2>2, <2>3 DEF Declare, Set
  <1>5. CASE UNCHANGED sent
    <2>1. TypeOK'
      BY <1>1, <1>2, <1>4, <1>5, AdminAssumption DEF host, IInv, TypeOK
    <2>2. Whole' /\ Counted' /\ Dated' /\ ConvertsBack'
      BY <1>1, <1>5 DEF host, IInv, TypeOK, Whole, Counted, Dated, ConvertsBack,
         RedeclareChangesNothing
    <2>3. QED BY <1>4, <2>1, <2>2 DEF IInv
  <1>6. ASSUME NEW sending \in Converted(working[a]),
               sent' = sent \union {[from |-> a, call |-> calls + 1, operations |-> sending,
                                     basis |-> listedAt[a]]}
        PROVE  IInv'
    <2> DEFINE q == [from |-> a, call |-> calls + 1, operations |-> sending,
                     basis |-> listedAt[a]]
    <2>1. /\ q.from = a /\ q.call = calls + 1 /\ q.operations = sending
          /\ q.basis = listedAt[a]
      OBVIOUS
    <2>2. /\ sending = Wire(working[a]) /\ sending \subseteq WireOperation
          /\ NamesOf(sending) = NamesOf(working[a])
      BY <1>2, <1>6, ConvertedIsWhole
    <2> HIDE DEF q
    <2>3. sent' = sent \union {q}
      BY <1>6 DEF q
    <2>4. TypeOK'
      <3>1. calls + 1 \in 1 .. MaxCalls /\ listedAt[a] \in 0 .. MaxCalls + 1
        BY <1>1, AdminAssumption DEF IInv, TypeOK
      <3>2. \A p \in sent' : /\ p.from \in Admins /\ p.call \in 1 .. MaxCalls
                             /\ p.operations \subseteq WireOperation
                             /\ p.basis \in 0 .. MaxCalls + 1
        <4>1. ASSUME NEW p \in sent
              PROVE  /\ p.from \in Admins /\ p.call \in 1 .. MaxCalls
                     /\ p.operations \subseteq WireOperation
                     /\ p.basis \in 0 .. MaxCalls + 1
          BY DEF IInv, TypeOK
        <4>2. /\ q.from \in Admins /\ q.call \in 1 .. MaxCalls
              /\ q.operations \subseteq WireOperation
              /\ q.basis \in 0 .. MaxCalls + 1
          BY <2>1, <2>2, <3>1
        <4>3. QED BY <4>1, <4>2, <2>3
      <3>3. call' \in [Admins -> 0 .. MaxCalls]
        BY <1>1, <3>1, AdminAssumption DEF IInv, TypeOK
      <3>4. offered' \subseteq SUBSET Names
        BY <1>1, <1>2 DEF IInv, TypeOK
      <3>5. QED BY <1>1, <1>4, <3>2, <3>3, <3>4 DEF host, IInv, TypeOK
    <2>5. Whole' /\ Dated'
      BY <1>1, <2>1, <2>2, <2>3 DEF host, IInv, Whole, Dated
    <2>6. Counted'
      BY <1>1, <2>1, <2>3, AdminAssumption DEF host, IInv, TypeOK, Counted
    <2>7. ConvertsBack'
      BY <1>1, <2>1, <2>2, <2>3 DEF host, IInv, ConvertsBack, RedeclareChangesNothing
    <2>8. QED BY <1>4, <2>4, <2>5, <2>6, <2>7 DEF IInv
  <1>7. QED BY <1>5, <1>6 DEF Declare

\* What the host answers reaches a call only while it waits.
LEMMA ReplyKeeps ==
    ASSUME IInv, NEW q \in sent, NEW r \in {Blank, Refused}, Reply(q, r),
           r = Blank => q.call \in admitted', admitted \subseteq admitted',
           UNCHANGED <<pc, call>>
    PROVE  /\ DOMAIN answer' = Admins /\ Answered'
           /\ \A a \in Admins : answer'[a].kind \in {"none", "ok", "http"}
  <1>1. q.from \in Admins
    BY DEF IInv, TypeOK
  <1>2. CASE answer' = answer
    BY <1>2 DEF IInv, TypeOK, Shaped, Answered
  <1>3. CASE /\ pc[q.from] = "declaring" /\ call[q.from] = q.call
             /\ answer' = [answer EXCEPT ![q.from] = r]
    <2>1. DOMAIN answer' = Admins
      BY <1>3 DEF IInv, Shaped
    <2>2. \A a \in Admins : answer'[a].kind \in {"none", "ok", "http"}
      BY <1>1, <1>3, AnswerKinds DEF IInv, TypeOK, Shaped
    <2>3. Answered'
      BY <1>1, <1>3 DEF IInv, Shaped, Answered
    <2>4. QED BY <2>1, <2>2, <2>3
  <1>4. QED BY <1>2, <1>3 DEF Reply, Set

\* The host replaces its set by the whole of one on its way, late or not.
LEMMA HostAdmitsStep ==
    ASSUME IInv, NEW q \in sent, HostAdmits(q)
    PROVE  IInv'
  <1>1. /\ sent' = sent \ {q} /\ declared' = q.operations /\ version' = version + 1
        /\ admitted' = admitted \union {q.call}
        /\ UNCHANGED <<adminVars, shown, outcome, offered>>
    BY DEF HostAdmits
  <1>2. /\ DOMAIN answer' = Admins /\ Answered'
        /\ \A a \in Admins : answer'[a].kind \in {"none", "ok", "http"}
    BY <1>1, ReplyKeeps DEF HostAdmits, adminVars
  <1>3. /\ IsFiniteSet(admitted') /\ Cardinality(admitted') = Cardinality(admitted) + 1
    BY <1>1, FS_AddElement DEF IInv, Counted
  <1>4. Counted'
    BY <1>1, <1>3 DEF adminVars, IInv, Counted
  <1>5. version' \in 1 .. MaxCalls + 1
    <2>1. admitted' \subseteq 1 .. calls /\ calls \in Nat /\ calls <= MaxCalls
      BY <1>4, <1>1, AdminAssumption DEF Counted, adminVars, IInv, TypeOK
    <2>2. IsFiniteSet(1 .. calls) /\ Cardinality(1 .. calls) = calls
      BY <2>1, FS_Interval
    <2>3. Cardinality(admitted') <= calls /\ Cardinality(admitted') \in Nat
      BY <1>3, <2>1, <2>2, FS_Subset, FS_CardinalityType
    <2>4. QED BY <1>1, <1>3, <2>1, <2>3, AdminAssumption DEF IInv, TypeOK, Counted
  <1>6. TypeOK'
    BY <1>1, <1>2, <1>5 DEF adminVars, IInv, TypeOK
  <1>7. Shaped' /\ Whole' /\ ReturnedIsAdmitted'
    BY <1>1, <1>2 DEF adminVars, IInv, Shaped, Whole, ReturnedIsAdmitted
  <1>8. /\ \A b \in Admins : listedAt[b] < version' /\ shown[b].at < version'
        /\ \A p \in sent : p.basis < version'
    BY <1>1, AdminAssumption DEF IInv, TypeOK, Dated
  <1>9. Dated'
    BY <1>1, <1>8, AdminAssumption DEF adminVars, IInv, TypeOK, Dated
  <1>10. ConvertsBack'
    BY <1>1, <1>8, AdminAssumption DEF adminVars, IInv, TypeOK, ConvertsBack, RedeclareChangesNothing
  <1>11. QED BY <1>2, <1>4, <1>6, <1>7, <1>9, <1>10 DEF IInv

LEMMA HostRefusesStep ==
    ASSUME IInv, NEW q \in sent, HostRefuses(q)
    PROVE  IInv'
  <1>1. /\ sent' = sent \ {q} /\ UNCHANGED <<host, adminVars, shown, outcome, history>>
    BY DEF HostRefuses
  <1>2. Refused # Blank
    BY AnswerKinds
  <1>3. /\ DOMAIN answer' = Admins /\ Answered'
        /\ \A a \in Admins : answer'[a].kind \in {"none", "ok", "http"}
    BY <1>1, <1>2, ReplyKeeps DEF HostRefuses, Refused, adminVars, history
  <1>4. TypeOK'
    BY <1>1, <1>3 DEF host, adminVars, history, IInv, TypeOK
  <1>5. Shaped' /\ Whole' /\ Counted' /\ ReturnedIsAdmitted'
    BY <1>1, <1>3 DEF host, adminVars, history, IInv, Shaped, Whole, Counted, ReturnedIsAdmitted
  <1>6. Dated' /\ ConvertsBack'
    BY <1>1 DEF host, adminVars, IInv, Dated, ConvertsBack, RedeclareChangesNothing
  <1>7. QED BY <1>3, <1>4, <1>5, <1>6 DEF IInv

LEMMA HostListsStep ==
    ASSUME IInv, NEW a \in Admins, HostLists(a)
    PROVE  IInv'
  <1>1. /\ shown' = [shown EXCEPT ![a] = [operations |-> declared, at |-> version]]
        /\ UNCHANGED <<host, adminVars, sent, answer, outcome, history>>
    BY DEF HostLists, Set
  <1>2. TypeOK'
    BY <1>1, AdminAssumption DEF host, adminVars, history, IInv, TypeOK
  <1>3. Shaped' /\ Whole' /\ Counted' /\ ReturnedIsAdmitted' /\ Answered'
    BY <1>1 DEF host, adminVars, history, IInv, Shaped, Whole, Counted, ReturnedIsAdmitted,
       Answered
  <1>4. Dated' /\ ConvertsBack'
    BY <1>1, AdminAssumption DEF host, adminVars, IInv, TypeOK, Dated, ConvertsBack,
       RedeclareChangesNothing
  <1>5. QED BY <1>2, <1>3, <1>4 DEF IInv

\* A call ends, with nothing but its outcome to show for it. A declaration returns only
\* on the host's word on this call.
LEMMA EndsKeeps ==
    ASSUME IInv, NEW a \in Admins, NEW o, Ends(a, o), o.how \in {"returns", "raises"},
           o.type = "Declarations" => call[a] \in admitted,
           UNCHANGED <<host, calls, call, sent, history>>
    PROVE  /\ Shaped' /\ Whole' /\ Answered' /\ Counted' /\ ReturnedIsAdmitted'
           /\ pc' \in [Admins -> {"idle", "listing", "declaring"}]
           /\ shown' \in [Admins -> [operations: SUBSET WireOperation, at: 0 .. MaxCalls + 1]]
           /\ \A b \in Admins : /\ answer'[b].kind \in {"none", "ok", "http"}
                                /\ outcome'[b].how \in {"none", "returns", "raises"}
           /\ \A b \in Admins : shown'[b] = shown[b] \/ shown'[b].at = 0
  <1>1. /\ outcome' = [outcome EXCEPT ![a] = o] /\ pc' = [pc EXCEPT ![a] = "idle"]
        /\ answer' = [answer EXCEPT ![a] = NoAnswer]
        /\ shown' = [shown EXCEPT ![a] = NothingShown]
        /\ UNCHANGED <<declared, version, calls, call, sent, offered, admitted>>
    BY DEF Ends, Set, host, history
  <1>2. /\ NothingShown.at = 0
        /\ NothingShown \in [operations: SUBSET WireOperation, at: 0 .. MaxCalls + 1]
    BY AdminAssumption DEF NothingShown
  <1>3. pc' \in [Admins -> {"idle", "listing", "declaring"}]
    BY <1>1 DEF IInv, TypeOK
  <1>4. /\ shown' \in [Admins -> [operations: SUBSET WireOperation, at: 0 .. MaxCalls + 1]]
        /\ \A b \in Admins : shown'[b] = shown[b] \/ shown'[b].at = 0
    BY <1>1, <1>2 DEF IInv, TypeOK
  <1>5. \A b \in Admins : /\ answer'[b].kind \in {"none", "ok", "http"}
                          /\ outcome'[b].how \in {"none", "returns", "raises"}
    BY <1>1, AnswerKinds DEF IInv, TypeOK, Shaped
  <1>6. Answered'
    <2>1. \A b \in Admins : answer'[b] = IF b = a THEN NoAnswer ELSE answer[b]
      BY <1>1 DEF IInv, Shaped
    <2>2. \A b \in Admins \ {a} : pc'[b] = pc[b]
      BY <1>1 DEF IInv, TypeOK
    <2>3. NoAnswer # Blank
      BY AnswerKinds
    <2>4. QED BY <1>1, <2>1, <2>2, <2>3 DEF IInv, Answered
  <1>7. ReturnedIsAdmitted'
    BY <1>1 DEF IInv, TypeOK, Shaped, ReturnedIsAdmitted
  <1>8. Shaped' /\ Whole' /\ Counted'
    BY <1>1 DEF IInv, Shaped, Whole, Counted
  <1>9. QED BY <1>3, <1>4, <1>5, <1>6, <1>7, <1>8

\* A call that ends without changing what its admin has in hand.
LEMMA EndsEmptyHanded ==
    ASSUME IInv, NEW a \in Admins, NEW o, Ends(a, o), o.how \in {"returns", "raises"},
           o.type = "Declarations" => call[a] \in admitted,
           UNCHANGED <<host, calls, call, working, listedAt, sent, history>>
    PROVE  IInv'
  <1>1. /\ Shaped' /\ Whole' /\ Answered' /\ Counted' /\ ReturnedIsAdmitted'
        /\ pc' \in [Admins -> {"idle", "listing", "declaring"}]
        /\ shown' \in [Admins -> [operations: SUBSET WireOperation, at: 0 .. MaxCalls + 1]]
        /\ \A b \in Admins : /\ answer'[b].kind \in {"none", "ok", "http"}
                             /\ outcome'[b].how \in {"none", "returns", "raises"}
        /\ \A b \in Admins : shown'[b] = shown[b] \/ shown'[b].at = 0
    BY EndsKeeps
  <1>2. TypeOK'
    BY <1>1 DEF host, history, IInv, TypeOK
  <1>3. version \in Nat /\ version >= 1
    BY AdminAssumption DEF IInv, TypeOK
  <1>4. Dated' /\ ConvertsBack'
    BY <1>1, <1>3 DEF host, IInv, Dated, ConvertsBack, RedeclareChangesNothing
  <1>5. QED BY <1>1, <1>2, <1>4 DEF IInv

LEMMA DeclareReturnsStep ==
    ASSUME IInv, NEW a \in Admins, DeclareReturns(a)
    PROVE  IInv'
  <1>1. PICK r \in TransportAnswers \union ({answer[a]} \ {NoAnswer}) :
             Ends(a, DeclarationOutcome(r))
    BY DEF DeclareReturns
  <1>2. r.kind = "ok" => call[a] \in admitted
    BY AnswerKinds DEF IInv, Answered
  <1> DEFINE o == DeclarationOutcome(r)
  <1>3. /\ o.how \in {"returns", "raises"}
        /\ o.type = "Declarations" => call[a] \in admitted
    BY <1>2, DeclarationOutcomes
  <1>4. Ends(a, o)
    BY <1>1
  <1>5. UNCHANGED <<host, calls, call, working, listedAt, sent, history>>
    BY DEF DeclareReturns
  <1> HIDE DEF o
  <1>6. QED BY <1>3, <1>4, <1>5, EndsEmptyHanded

LEMMA ListFailsStep ==
    ASSUME IInv, NEW a \in Admins, ListFails(a)
    PROVE  IInv'
  <1>1. PICK r \in TransportAnswers \union {Refused} : Ends(a, DeclarationOutcome(r))
    BY DEF ListFails, Refused
  <1>2. r.kind # "ok"
    BY AnswerKinds
  <1> DEFINE o == DeclarationOutcome(r)
  <1>3. o.how \in {"returns", "raises"} /\ o.type # "Declarations"
    BY <1>2, DeclarationOutcomes
  <1>4. Ends(a, o)
    BY <1>1
  <1>5. UNCHANGED <<host, calls, call, working, listedAt, sent, history>>
    BY DEF ListFails
  <1> HIDE DEF o
  <1>6. QED BY <1>3, <1>4, <1>5, EndsEmptyHanded

\* A listing puts in hand what converts back to the declarations it was shown.
LEMMA ListReturnsStep ==
    ASSUME IInv, NEW a \in Admins, ListReturns(a)
    PROVE  IInv'
  <1>1. UNCHANGED <<host, calls, call, sent, history>>
    BY DEF ListReturns
  <1>2. ASSUME \A v \in shown[a].operations : Listable(v),
               Ends(a, Returns("Operations", "NONE")),
               working' = [working EXCEPT ![a] = {Listed(v) : v \in shown[a].operations}],
               listedAt' = [listedAt EXCEPT ![a] = shown[a].at]
        PROVE  IInv'
    <2> DEFINE listed == {Listed(v) : v \in shown[a].operations}
               o == Returns("Operations", "NONE")
    <2>1. /\ shown[a].operations \in SUBSET WireOperation
          /\ shown[a].at \in 0 .. MaxCalls + 1
      BY DEF IInv, TypeOK
    <2>2. /\ listed \subseteq Operation
          /\ \A p \in listed : FieldsValid(p)
          /\ Wire(listed) = Normalised(shown[a].operations)
      BY <1>2, <2>1, ListingConvertsBack
    <2>3. /\ o.how \in {"returns", "raises"} /\ o.type # "Declarations" /\ Ends(a, o)
      BY <1>2 DEF Returns
    <2>4. working' = [working EXCEPT ![a] = listed]
      BY <1>2
    <2> HIDE DEF o, listed
    <2>5. /\ Shaped' /\ Whole' /\ Answered' /\ Counted' /\ ReturnedIsAdmitted'
          /\ pc' \in [Admins -> {"idle", "listing", "declaring"}]
          /\ shown' \in [Admins -> [operations: SUBSET WireOperation, at: 0 .. MaxCalls + 1]]
          /\ \A b \in Admins : /\ answer'[b].kind \in {"none", "ok", "http"}
                               /\ outcome'[b].how \in {"none", "returns", "raises"}
          /\ \A b \in Admins : shown'[b] = shown[b] \/ shown'[b].at = 0
      BY <1>1, <2>3, EndsKeeps
    <2>6. /\ working' \in [Admins -> SUBSET Operation]
          /\ listedAt' \in [Admins -> 0 .. MaxCalls + 1]
      BY <1>2, <2>1, <2>2, <2>4 DEF IInv, TypeOK
    <2>7. TypeOK'
      BY <1>1, <2>5, <2>6 DEF host, history, IInv, TypeOK
    <2>8. version \in Nat /\ version >= 1
      BY AdminAssumption DEF IInv, TypeOK
    <2>9. /\ working'[a] = listed /\ listedAt'[a] = shown[a].at
          /\ \A b \in Admins \ {a} : working'[b] = working[b] /\ listedAt'[b] = listedAt[b]
      BY <1>2, <2>4 DEF IInv, TypeOK
    <2>10. Dated'
      BY <1>1, <2>5, <2>8, <2>9 DEF host, IInv, Dated
    <2>11. ConvertsBack'
      <3>1. RedeclareChangesNothing'
        BY <1>1 DEF host, IInv, ConvertsBack, RedeclareChangesNothing
      <3>2. \A b \in Admins : shown'[b].at = version' => shown'[b].operations = declared'
        BY <1>1, <2>5, <2>8 DEF host, IInv, ConvertsBack
      <3>3. \A b \in Admins : listedAt'[b] # 0 => \A p \in working'[b] : FieldsValid(p)
        BY <2>2, <2>9 DEF IInv, ConvertsBack
      <3>4. \A b \in Admins :
              listedAt'[b] = version' => Wire(working'[b]) = Normalised(declared')
        BY <1>1, <2>2, <2>9 DEF host, IInv, ConvertsBack
      <3>5. QED BY <3>1, <3>2, <3>3, <3>4 DEF ConvertsBack
    <2>12. QED BY <2>5, <2>7, <2>10, <2>11 DEF IInv
  <1>3. ASSUME UNCHANGED <<working, listedAt>>, NEW type \in {"InputError", "DatasourceError"},
               Ends(a, Raises(type, "NONE"))
        PROVE  IInv'
    <2> DEFINE o == Raises(type, "NONE")
    <2>1. o.how = "raises" /\ o.type # "Declarations" /\ Ends(a, o)
      BY <1>3 DEF Raises
    <2> HIDE DEF o
    <2>2. QED BY <1>1, <1>3, <2>1, EndsEmptyHanded
  <1>4. QED BY <1>2, <1>3 DEF ListReturns, Set

LEMMA StutterStep ==
    ASSUME IInv, UNCHANGED vars
    PROVE  IInv'
  BY DEF vars, host, adminVars, history, IInv, TypeOK, Shaped, Whole, Answered, Counted,
     Dated, ConvertsBack, RedeclareChangesNothing, ReturnedIsAdmitted

LEMMA StepsKeep == IInv /\ [Next]_vars => IInv'
  <1> SUFFICES ASSUME IInv, [Next]_vars PROVE IInv'
    OBVIOUS
  <1>1. ASSUME NEW a \in Admins, Edit(a) PROVE IInv'
    BY <1>1, EditStep
  <1>2. ASSUME NEW a \in Admins, List(a) PROVE IInv'
    BY <1>2, ListStep
  <1>3. ASSUME NEW a \in Admins, Declare(a) PROVE IInv'
    BY <1>3, DeclareStep
  <1>4. ASSUME NEW a \in Admins, DeclareReturns(a) PROVE IInv'
    BY <1>4, DeclareReturnsStep
  <1>5. ASSUME NEW a \in Admins, ListFails(a) PROVE IInv'
    BY <1>5, ListFailsStep
  <1>6. ASSUME NEW a \in Admins, ListReturns(a) PROVE IInv'
    BY <1>6, ListReturnsStep
  <1>7. ASSUME NEW a \in Admins, HostLists(a) PROVE IInv'
    BY <1>7, HostListsStep
  <1>8. ASSUME NEW q \in sent, HostAdmits(q) PROVE IInv'
    BY <1>8, HostAdmitsStep
  <1>9. ASSUME NEW q \in sent, HostRefuses(q) PROVE IInv'
    BY <1>9, HostRefusesStep
  <1>10. CASE UNCHANGED vars
    BY <1>10, StutterStep
  <1>11. QED BY <1>1, <1>2, <1>3, <1>4, <1>5, <1>6, <1>7, <1>8, <1>9, <1>10 DEF Next

LEMMA Invariance == Spec => []IInv
  BY InvariantInit, StepsKeep, PTL DEF Spec

-----------------------------------------------------------------------------
(***************************************************************************)
(* What it gives.                                                          *)
(***************************************************************************)

\* Every variable of the calls, the host and the messages between them keeps its type;
\* the host's versions are no more than the calls, plus one.
THEOREM TypeCorrect == Spec => []TypeOK
  <1>1. IInv => TypeOK
    BY DEF IInv
  <1>2. QED BY <1>1, Invariance, PTL

\* However the declarations of any number of admins interleave, late ones included, the
\* host has the whole of a set that was passed to declare_operations.
THEOREM WholeIsKept == Spec => []WholeOrNothing
  <1>1. IInv => WholeOrNothing
    BY DEF IInv, Whole, WholeOrNothing
  <1>2. QED BY <1>1, Invariance, PTL

\* What list_operations returned is never refused by declare_operations' own checks.
THEOREM ListedDeclarable == Spec => []ListedIsDeclarable
  <1>1. IInv => ListedIsDeclarable
    BY DEF IInv, ConvertsBack, ListedIsDeclarable, Converted
  <1>2. QED BY <1>1, Invariance, PTL

\* A declaration of what was listed from the version the host still has changes nothing
\* but absent schemas into {}.
THEOREM RedeclaringIsIdempotent == Spec => []RedeclareChangesNothing
  <1>1. IInv => RedeclareChangesNothing
    BY DEF IInv, ConvertsBack
  <1>2. QED BY <1>1, Invariance, PTL

\* declare_operations never returns for a declaration the host did not admit.
THEOREM ReturnsAreAdmitted == Spec => []ReturnedIsAdmitted
  <1>1. IInv => ReturnedIsAdmitted
    BY DEF IInv
  <1>2. QED BY <1>1, Invariance, PTL

=============================================================================

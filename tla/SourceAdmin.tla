----------------------------- MODULE SourceAdmin -----------------------------
(***************************************************************************)
(* declare_operations and list_operations of datasource.py, called by      *)
(* admins of one source, each from its own process. Listing converts what  *)
(* the host has to Operation values; declaring converts them back and      *)
(* replaces the host's whole set. Requests and replies may be lost or      *)
(* late; the SDK retries nothing. The host and the network are not under   *)
(* src/, and how an answer becomes an outcome is DatasourceClient's part.  *)
(*                                                                         *)
(* An operation is its name, its effect and its two schemas, as far as the *)
(* conversions tell values apart: a schema is an object, absent (None, or  *)
(* a field not on the wire), or another value. The text fields are copied  *)
(* and left out; the digest is the host's.                                 *)
(*                                                                         *)
(* Operators named ..._Bug and Listed_Swapped are faulty variants of the   *)
(* definition that follows them, used by no specification.                 *)
(***************************************************************************)
EXTENDS Naturals, FiniteSets, DatasourceClient

CONSTANTS
    Admins,
    Names,        \* of operations
    MaxCalls      \* bound: calls of all admins together

ASSUME AdminAssumption == MaxCalls \in Nat \ {0}

VARIABLES
    declared,   \* the host's declarations, in the wire's terms
    version,    \* how many sets the host has admitted
    calls,      \* calls begun (bounded by MaxCalls)
    pc,         \* where each admin is
    call,       \* the number of its last call
    working,    \* the operations it has in hand
    listedAt,   \* the version it listed them from, or 0 if it has edited them since
    sent,       \* declarations between the admins and the host
    answer,     \* what the host answered to the call in progress, or NoAnswer
    shown,      \* the declarations of an answer to a listing, and their version
    outcome,    \* how each admin's last call ended
    \* What the properties remember; no action reads it.
    offered,    \* the names in every set passed to declare_operations
    admitted    \* the calls whose declaration the host admitted

adminVars == <<calls, pc, call, working, listedAt>>
host == <<declared, version>>
history == <<offered, admitted>>
vars == <<host, adminVars, sent, answer, shown, outcome, history>>

(***************************************************************************)
(* On the wire and at the host, a declaration may come from another client *)
(* and lack a schema or an effect.                                         *)
(***************************************************************************)
WireOperation ==
    [name: Names, effect: {"EFFECT_READ_ONLY", "EFFECT_MUTATION", "EFFECT_UNSPECIFIED",
                            "EFFECT_UNSUPPORTED"},
     input: {"object", "absent"}, output: {"object", "absent"}]
Operation ==
    [name: Names, effect: {"READ_ONLY", "MUTATION", "other"},
     input: {"object", "absent", "other"}, output: {"object", "absent", "other"}]

NamesOf(ops) == {o.name : o \in ops}

\* What an admin writes by hand: every good operation, and some it may not declare.
Drafts ==
    {o \in Operation : /\ o.input = "object"
                       /\ o.output # "other"
                       /\ o.output = "object" \/ o.effect = "MUTATION"}

(***************************************************************************)
(* The conversions.                                                        *)
(***************************************************************************)

\* _operation_fields.
FieldsValid(o) == o.effect # "other" /\ o.input = "object" /\ o.output = "object"
Fields_Bug(o) ==
    [name |-> o.name, input |-> o.input, output |-> o.output, effect |-> o.effect]
Fields(o) ==
    [name |-> o.name, input |-> o.input, output |-> o.output,
     effect |-> IF o.effect = "MUTATION" THEN "EFFECT_MUTATION" ELSE "EFFECT_READ_ONLY"]

\* declare_operations: the one set it sends, or none when an operation cannot be
\* converted.
Converted_Bug(ops) == {{Fields(o) : o \in {p \in ops : FieldsValid(p)}}}
Converted(ops) == IF \A o \in ops : FieldsValid(o) THEN {{Fields(o) : o \in ops}} ELSE {}

\* _operation: an absent schema is listed as {}.
Listable(v) == v.effect \notin {"EFFECT_UNSPECIFIED", "EFFECT_UNSUPPORTED"}
Listed_Bug(v) ==
    [name |-> v.name, input |-> v.input, output |-> v.output,
     effect |-> IF v.effect = "EFFECT_MUTATION" THEN "MUTATION" ELSE "READ_ONLY"]
Listed_Swapped(v) ==
    [name |-> v.name, input |-> "object", output |-> "object",
     effect |-> IF v.effect = "EFFECT_READ_ONLY" THEN "MUTATION" ELSE "READ_ONLY"]
Listed(v) ==
    [name |-> v.name, input |-> "object", output |-> "object",
     effect |-> IF v.effect = "EFFECT_MUTATION" THEN "MUTATION" ELSE "READ_ONLY"]

-----------------------------------------------------------------------------
NoAnswer == [Blank EXCEPT !.kind = "none"]
NoOutcome == [how |-> "none", type |-> "none", evidence |-> "NONE"]
NothingShown == [operations |-> {}, at |-> 0]

Set(f, a, v) == [f EXCEPT ![a] = v]

Init ==
    /\ declared \in {{}} \union {{v} : v \in WireOperation} /\ version = 1
    /\ calls = 0 /\ pc = [a \in Admins |-> "idle"] /\ call = [a \in Admins |-> 0]
    /\ working = [a \in Admins |-> {}] /\ listedAt = [a \in Admins |-> 0]
    /\ sent = {} /\ answer = [a \in Admins |-> NoAnswer]
    /\ shown = [a \in Admins |-> NothingShown]
    /\ outcome = [a \in Admins |-> NoOutcome]
    /\ offered = {NamesOf(declared)} /\ admitted = {}

\* An admin adds, changes or drops one operation, while it can still declare.
Edit(a) ==
    /\ pc[a] = "idle" /\ calls < MaxCalls
    /\ \E o \in Drafts :
         LET others == {p \in working[a] : p.name # o.name} IN
         working' \in {Set(working, a, others), Set(working, a, others \union {o})}
    /\ listedAt' = Set(listedAt, a, 0)
    /\ UNCHANGED <<host, calls, pc, call, sent, answer, shown, outcome, history>>

NewCall(a) ==
    /\ calls < MaxCalls /\ calls' = calls + 1
    /\ call' = Set(call, a, calls + 1)

\* list_operations calls the host.
List(a) ==
    /\ pc[a] = "idle" /\ NewCall(a)
    /\ pc' = Set(pc, a, "listing")
    /\ outcome' = Set(outcome, a, NoOutcome)
    /\ UNCHANGED <<host, working, listedAt, sent, answer, shown, history>>

\* declare_operations converts and calls the host, or raises InputError.
Declare(a) ==
    /\ pc[a] = "idle" /\ NewCall(a)
    /\ offered' = offered \union {NamesOf(working[a])}
    /\ \/ /\ Converted(working[a]) = {}
          /\ outcome' = Set(outcome, a, Raises("InputError", "NONE"))
          /\ UNCHANGED <<pc, sent>>
       \/ /\ \E operations \in Converted(working[a]) :
               sent' = sent \union {[from |-> a, call |-> calls + 1,
                                     operations |-> operations, basis |-> listedAt[a]]}
          /\ pc' = Set(pc, a, "declaring")
          /\ outcome' = Set(outcome, a, NoOutcome)
    /\ UNCHANGED <<host, working, listedAt, answer, shown, admitted>>

(***************************************************************************)
(* The host and the network. A declaration its admin has given up waiting  *)
(* for may still arrive.                                                   *)
(***************************************************************************)
Reply(q, r) ==
    answer' = IF pc[q.from] = "declaring" /\ call[q.from] = q.call
              THEN Set(answer, q.from, r) ELSE answer

HostAdmits(q) ==
    /\ q \in sent /\ sent' = sent \ {q}
    /\ declared' = q.operations /\ version' = version + 1
    /\ admitted' = admitted \union {q.call}
    /\ Reply(q, Blank)
    /\ UNCHANGED <<adminVars, shown, outcome, offered>>

HostRefuses(q) ==
    /\ q \in sent /\ sent' = sent \ {q}
    /\ Reply(q, Connect("permission_denied"))
    /\ UNCHANGED <<host, adminVars, shown, outcome, history>>

HostLists(a) ==
    /\ pc[a] = "listing" /\ shown[a] = NothingShown
    /\ shown' = Set(shown, a, [operations |-> declared, at |-> version])
    /\ UNCHANGED <<host, adminVars, sent, answer, outcome, history>>

\* What a call may end with at any moment, whatever the host does.
TransportAnswers == {Lost, NotConnect(403), ForeignEncoding}

Ends(a, o) ==
    /\ outcome' = Set(outcome, a, o) /\ pc' = Set(pc, a, "idle")
    /\ answer' = Set(answer, a, NoAnswer) /\ shown' = Set(shown, a, NothingShown)

DeclareReturns(a) ==
    /\ pc[a] = "declaring"
    /\ \E r \in TransportAnswers \union ({answer[a]} \ {NoAnswer}) :
         Ends(a, DeclarationOutcome(r))
    /\ UNCHANGED <<host, calls, call, working, listedAt, sent, history>>

ListFails(a) ==
    /\ pc[a] = "listing"
    /\ \E r \in TransportAnswers \union {Connect("permission_denied")} :
         Ends(a, DeclarationOutcome(r))
    /\ UNCHANGED <<host, calls, call, working, listedAt, sent, history>>

\* One operation that cannot be listed makes the whole listing fail.
ListReturns(a) ==
    /\ pc[a] = "listing" /\ shown[a] # NothingShown
    /\ \/ /\ \A v \in shown[a].operations : Listable(v)
          /\ Ends(a, Returns("Operations", "NONE"))
          /\ working' = Set(working, a, {Listed(v) : v \in shown[a].operations})
          /\ listedAt' = Set(listedAt, a, shown[a].at)
       \/ /\ \E v \in shown[a].operations :
                \/ v.effect = "EFFECT_UNSPECIFIED" /\ Ends(a, Raises("InputError", "NONE"))
                \/ v.effect = "EFFECT_UNSUPPORTED"
                   /\ Ends(a, Raises("DatasourceError", "NONE"))
          /\ UNCHANGED <<working, listedAt>>
    /\ UNCHANGED <<host, calls, call, sent, history>>

Next ==
    \/ \E a \in Admins :
         \/ Edit(a) \/ List(a) \/ Declare(a)
         \/ DeclareReturns(a) \/ ListFails(a) \/ ListReturns(a) \/ HostLists(a)
    \/ \E q \in sent : HostAdmits(q) \/ HostRefuses(q)

Spec == Init /\ [][Next]_vars

-----------------------------------------------------------------------------
\* Every variable has its type.
TypeOK ==
    /\ declared \subseteq WireOperation /\ version \in 1 .. MaxCalls + 1
    /\ calls \in 0 .. MaxCalls /\ call \in [Admins -> 0 .. MaxCalls]
    /\ pc \in [Admins -> {"idle", "listing", "declaring"}]
    /\ working \in [Admins -> SUBSET Operation]
    /\ listedAt \in [Admins -> 0 .. MaxCalls + 1]
    /\ \A q \in sent : /\ q.from \in Admins /\ q.call \in 1 .. MaxCalls
                       /\ q.operations \subseteq WireOperation
                       /\ q.basis \in 0 .. MaxCalls + 1
    /\ shown \in [Admins -> [operations: SUBSET WireOperation, at: 0 .. MaxCalls + 1]]
    /\ \A a \in Admins : /\ answer[a].kind \in {"none", "ok", "http"}
                         /\ outcome[a].how \in {"none", "returns", "raises"}
    /\ offered \subseteq SUBSET Names /\ admitted \subseteq 1 .. MaxCalls

\* What the host has is always the whole of a set that some admin passed: no list of
\* which only the convertible part was declared.
WholeOrNothing == NamesOf(declared) \in offered

\* A listed operation can be declared again, although the host holds schemas that are
\* absent and declaring requires them (README.md: "Listing normalizes absent schemas to
\* `{}`, so a listed operation can be re-declared").
ListedIsDeclarable ==
    \A a \in Admins : listedAt[a] # 0 => Converted(working[a]) # {}

\* Declaring what was just listed, with no other declaration in between, changes nothing
\* but absent schemas into {}: the two conversions are inverse, effect by effect.
Completed(v) ==
    [name |-> v.name, input |-> "object", output |-> "object", effect |-> v.effect]
Normalised(ops) == {Completed(v) : v \in ops}
RedeclareChangesNothing ==
    \A q \in sent : q.basis = version => q.operations = Normalised(declared)

\* declare_operations returns only if the host admitted this very declaration: a reply
\* that is lost or comes from elsewhere, and an earlier one of this admin's, are errors.
ReturnedIsAdmitted ==
    \A a \in Admins :
      pc[a] = "idle" /\ outcome[a].type = "Declarations" => call[a] \in admitted

=============================================================================

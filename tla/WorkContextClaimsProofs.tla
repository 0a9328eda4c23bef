---------------------- MODULE WorkContextClaimsProofs ----------------------
(***************************************************************************)
(* Delegation never amplifies, for scope lists, chains, clocks and limits  *)
(* of every size. What the actors' loop has established after some of its  *)
(* iterations is the invariant: the scopes it will compare the next actor  *)
(* with give nothing that an earlier hop did not have. And it gets as far  *)
(* as it should: the comparison accepts exactly the lists that narrow      *)
(* (AttenuationExact), so no honest chain is refused on the way.           *)
(***************************************************************************)
EXTENDS WorkContextClaims, TLAPS, WellFoundedInduction

\* While the loop runs: the limits hold, and previous is within every hop so far.
LoopInv ==
    phase = "chain" =>
        /\ WindowValid(context.window) /\ DepthValid(context)
        /\ index <= Len(context.chain) + 1
        /\ previous = Link(context, index - 1)
        /\ \A j \in 0 .. index - 1 : Within(previous, Link(context, j))

\* After the loop: the last hop is within every hop.
DoneInv ==
    phase \in {"time", "scopes", "verified"} =>
        /\ WindowValid(context.window) /\ index > Len(context.chain)
        /\ \A j \in 0 .. Len(context.chain) : Within(Effective(context), Link(context, j))

IInv ==
    /\ TypeOK /\ LoopInv /\ DoneInv /\ NoAmplification /\ RefusedForCause
    /\ AcceptedWithinLifetime

-----------------------------------------------------------------------------
(* What a context is made of. *)
LEMMA ContextParts ==
    ASSUME NEW c \in Contexts
    PROVE  /\ c.authority \in Lists /\ c.window \in Window
           /\ c.chain \in Seq(Actor) /\ Len(c.chain) \in Nat
           /\ \A j \in 1 .. Len(c.chain) : c.chain[j] \in Actor
           /\ \A j \in 0 .. Len(c.chain) : Link(c, j) \in Lists
<1>1. c.authority \in Lists /\ c.window \in Window /\ c.chain \in Chains
  BY ClaimsAssumption DEF Contexts
<1>2. PICK n \in 0 .. MaxDepth + 1 : c.chain \in [1 .. n -> Actor]
  BY <1>1 DEF Chains
<1>3. c.chain \in Seq(Actor) /\ Len(c.chain) = n /\ n \in Nat
  BY <1>2, ClaimsAssumption
<1>4. \A j \in 1 .. Len(c.chain) : c.chain[j] \in Actor
  BY <1>2, <1>3
<1>5. ASSUME NEW j \in 0 .. Len(c.chain) PROVE Link(c, j) \in Lists
  <2>1. CASE j = 0
    BY <2>1, <1>1 DEF Link
  <2>2. CASE j # 0
    BY <2>2, <1>3, <1>4 DEF Link, Actor
  <2> QED BY <2>1, <2>2
<1> QED BY <1>1, <1>3, <1>4, <1>5

\* _scopes_attenuate does what its name says: an attenuated list of scopes gives
\* nothing that its parent does not give, on one resource or on all of them.
THEOREM AttenuationNarrows ==
    ASSUME NEW parent \in Lists, NEW child \in Lists, Attenuates(parent, child)
    PROVE  Within(child, parent)
<1> SUFFICES ASSUME NEW kind \in Kinds, NEW action \in Actions,
                    NEW resource \in Resources \union {AnyResource},
                    Covers(child, kind, action, resource)
             PROVE  Covers(parent, kind, action, resource)
  BY DEF Within
<1>1. PICK i \in DOMAIN child :
        /\ child[i].kind = kind /\ action \in child[i].actions
        /\ child[i].ids = {} \/ resource \in child[i].ids
  BY DEF Covers
<1>2. PICK j \in DOMAIN parent :
        /\ parent[j].kind = child[i].kind
        /\ child[i].actions \subseteq parent[j].actions
        /\ parent[j].ids # {} => child[i].ids # {} /\ child[i].ids \subseteq parent[j].ids
  BY <1>1 DEF Attenuates, Ancestor
<1>3. parent[j].ids = {} \/ resource \in parent[j].ids
  BY <1>1, <1>2
<1> QED BY <1>1, <1>2, <1>3 DEF Covers

\* What a list of scopes is made of.
LEMMA ScopeParts ==
    ASSUME NEW list \in Lists
    PROVE  /\ DOMAIN list = 1 .. Len(list) /\ Len(list) \in Nat
           /\ \A i \in DOMAIN list :
                /\ list[i].kind \in Kinds /\ list[i].kind \in Nat
                /\ list[i].actions \subseteq Actions /\ list[i].ids \subseteq Resources
<1>1. list \in Seq(Scope)
  BY ClaimsAssumption
<1>2. \A i \in DOMAIN list : list[i] \in Scope
  BY <1>1
<1>3. \A x \in Scope : /\ x.kind \in Kinds /\ x.kind \in Nat
                       /\ x.actions \subseteq Actions /\ x.ids \subseteq Resources
  BY ClaimsAssumption DEF Scope
<1> QED BY <1>1, <1>2, <1>3

\* Each kind has at most one scope in a list that _validate_scopes accepts, although it
\* compares neighbours only.
LEMMA KindsAscend ==
    ASSUME NEW list \in Lists, ScopesValid(list)
    PROVE  \A i, j \in DOMAIN list : i < j => list[i].kind < list[j].kind
<1> DEFINE bad == {j \in DOMAIN list : \E i \in DOMAIN list :
                      i < j /\ ~ (list[i].kind < list[j].kind)}
<1>1. /\ DOMAIN list = 1 .. Len(list) /\ Len(list) \in Nat
      /\ \A i \in DOMAIN list : list[i].kind \in Nat
  BY ScopeParts
<1>2. CASE bad # {}
  <2> DEFINE less == OpToRel(<, Nat)
  <2>1. IsWellFoundedOn(less, Nat) /\ bad \subseteq Nat
    <3>1. IsWellFoundedOn(less, Nat)
      BY NatLessThanWellFounded
    <3>2. bad \subseteq Nat
      BY <1>1
    <3> QED BY <3>1, <3>2
  <2>2. PICK j \in bad : \A y \in bad : <<y, j>> \notin less
    <3> HIDE DEF bad, less
    <3> QED BY <1>2, <2>1, WFMin
  <2>3. PICK i \in DOMAIN list : i < j /\ ~ (list[i].kind < list[j].kind)
    OBVIOUS
  <2>4. /\ i \in Nat /\ j \in Nat /\ i >= 1 /\ j > 1 /\ j - 1 \in DOMAIN list
        /\ j \in DOMAIN list
    BY <1>1, <2>3
  <2>5. list[j - 1].kind < list[j].kind
    BY <2>4 DEF ScopesValid
  <2>6. j - 1 \notin bad
    <3>1. j - 1 \in Nat /\ j \in Nat /\ j - 1 < j
      BY <2>4
    <3>2. <<j - 1, j>> \in less
      BY <3>1 DEF OpToRel
    <3> HIDE DEF bad, less
    <3> QED BY <2>2, <3>2
  <2>7. i = j - 1 \/ list[i].kind < list[j - 1].kind
    BY <2>3, <2>4, <2>6
  <2>8. /\ list[i].kind \in Nat /\ list[j].kind \in Nat /\ list[j - 1].kind \in Nat
        /\ i = j - 1 => list[i].kind = list[j - 1].kind
    BY <1>1, <2>4
  <2>9. ~ (list[i].kind < list[j].kind)
    BY <2>3
  <2> HIDE DEF bad
  <2> QED BY <2>5, <2>7, <2>8, <2>9
<1>3. CASE bad = {}
  BY <1>3
<1> QED BY <1>2, <1>3

\* And refuses nothing else: of lists that _validate_scopes accepts, _scopes_attenuate
\* accepts exactly the ones that give no more than their parent.
THEOREM AttenuationExact ==
    ASSUME NEW parent \in Lists, NEW child \in Lists,
           ScopesValid(parent), ScopesValid(child)
    PROVE  Attenuates(parent, child) <=> Within(child, parent)
<1>1. Attenuates(parent, child) => Within(child, parent)
  BY AttenuationNarrows
<1>2. ASSUME Within(child, parent), NEW i \in DOMAIN child
      PROVE  \E j \in DOMAIN parent :
                /\ Ancestor(parent, j, child[i].kind)
                /\ child[i].actions \subseteq parent[j].actions
                /\ parent[j].ids # {} =>
                     child[i].ids # {} /\ child[i].ids \subseteq parent[j].ids
  <2> DEFINE scope == child[i]
             reach == IF scope.ids = {} THEN {AnyResource} ELSE scope.ids
  <2>1. /\ scope.kind \in Kinds /\ scope.actions \subseteq Actions
        /\ scope.ids \subseteq Resources /\ scope.actions # {}
    <3>1. child[i].actions # {}
      BY DEF ScopesValid
    <3> QED BY <3>1, ScopeParts
  <2>2. \A l \in DOMAIN parent : parent[l].ids \subseteq Resources
    BY ScopeParts
  <2>3. reach # {} /\ reach \subseteq Resources \union {AnyResource}
    BY <2>1
  <2>4. ASSUME NEW action \in scope.actions, NEW resource \in reach
        PROVE  \E j \in DOMAIN parent :
                  /\ parent[j].kind = scope.kind /\ action \in parent[j].actions
                  /\ parent[j].ids = {} \/ resource \in parent[j].ids
    <3>1. Covers(child, scope.kind, action, resource)
      BY DEF Covers
    <3>2. Covers(parent, scope.kind, action, resource)
      BY <1>2, <2>1, <2>3, <3>1 DEF Within
    <3> QED BY <3>2 DEF Covers
  <2>5. PICK j \in DOMAIN parent : parent[j].kind = scope.kind
    BY <2>1, <2>3, <2>4
  <2>6. \A l \in DOMAIN parent : parent[l].kind = scope.kind => l = j
    <3> SUFFICES ASSUME NEW l \in DOMAIN parent, parent[l].kind = scope.kind PROVE l = j
      OBVIOUS
    <3>1. l \in Nat /\ j \in Nat /\ scope.kind \in Nat
      BY <2>5, ScopeParts
    <3>2. ~ (l < j) /\ ~ (j < l)
      BY <2>5, <3>1, KindsAscend
    <3> QED BY <3>1, <3>2
  <2>7. scope.actions \subseteq parent[j].actions
    BY <2>3, <2>4, <2>6
  <2>8. ASSUME parent[j].ids # {}
        PROVE  scope.ids # {} /\ scope.ids \subseteq parent[j].ids
    <3>1. reach \subseteq parent[j].ids
      BY <2>1, <2>4, <2>6, <2>8
    <3>2. AnyResource \notin parent[j].ids
      BY <2>2, ClaimsAssumption
    <3> QED BY <3>1, <3>2
  <2>9. Ancestor(parent, j, scope.kind)
    <3>1. j \in Nat
      BY ScopeParts
    <3> QED BY <2>5, <2>6, <3>1 DEF Ancestor
  <2> QED BY <2>7, <2>8, <2>9
<1> QED BY <1>1, <1>2 DEF Attenuates

LEMMA WithinTransitive ==
    ASSUME NEW x, NEW y, NEW z, Within(x, y), Within(y, z)
    PROVE  Within(x, z)
BY DEF Within

LEMMA WithinReflexive == \A x : Within(x, x)
BY DEF Within

\* A scope that grants a requirement covers it.
LEMMA GrantedCovers ==
    ASSUME NEW c, NEW req \in Requirements, Granted(c, req)
    PROVE  Covers(Effective(c), req.kind, req.action, req.resource)
BY DEF Granted, Grants, Covers

\* A requirement that does not ask for an explicit id is granted if it is covered.
LEMMA DeniedIsMissing ==
    ASSUME NEW c \in Contexts, NEW req \in Requirements, ~ req.explicit, ~ Granted(c, req)
    PROVE  ~ Covers(Effective(c), req.kind, req.action, req.resource)
<1> DEFINE scopes == Effective(c)
<1>1. scopes \in Lists
  BY ContextParts DEF Effective
<1>2. \A i \in DOMAIN scopes : scopes[i].ids \subseteq Resources
  BY <1>1, ScopeParts
<1>3. \A i \in DOMAIN scopes : AnyResource \notin scopes[i].ids
  BY <1>2, ClaimsAssumption
<1> HIDE DEF scopes
<1>4. \A i \in DOMAIN scopes : ~ Grants(scopes[i], req)
  BY DEF Granted, scopes
<1>5. ~ Covers(scopes, req.kind, req.action, req.resource)
  BY <1>3, <1>4 DEF Covers, Grants
<1> QED BY <1>5 DEF scopes

\* The loop refuses no actor of an honest chain.
LEMMA HonestPass ==
    ASSUME IInv, Refuse
    PROVE  ~ Honest(context)
<1> DEFINE c == context
<1>1. c \in Contexts /\ index \in Nat /\ index >= 1 /\ Len(c.chain) \in Nat
  BY ContextParts, ClaimsAssumption DEF IInv, TypeOK
<1>2. CASE phase = "structure"
  BY <1>2 DEF Refuse, Honest
<1>3. CASE phase = "chain"
  <2>1. /\ index <= Len(c.chain) /\ ~ ActorValid(c.chain[index])
        /\ previous = Link(c, index - 1)
    BY <1>3 DEF Refuse, IInv, LoopInv
  <2>2. /\ index \in 1 .. Len(c.chain) /\ index \in 0 .. Len(c.chain)
        /\ index - 1 \in 0 .. Len(c.chain)
    BY <1>1, <2>1
  <2>3. Link(c, index) = c.chain[index].scopes
    BY <1>1 DEF Link
  <2>4. Link(c, index) \in Lists /\ Link(c, index - 1) \in Lists
    BY <1>1, <2>2, ContextParts
  <2> SUFFICES ASSUME Honest(c) PROVE FALSE
    OBVIOUS
  <2>5. /\ c.chain[index].valid /\ ScopesValid(Link(c, index))
        /\ Within(Link(c, index), Link(c, index - 1))
    BY <2>2, <2>3 DEF Honest
  <2>6. ScopesValid(Link(c, index - 1))
    <3>1. CASE index = 1
      BY <3>1 DEF Honest, Link
    <3>2. CASE index # 1
      <4>1. index - 1 \in 1 .. Len(c.chain)
        BY <1>1, <2>2, <3>2
      <4> QED BY <4>1 DEF Honest, Link
    <3> QED BY <3>1, <3>2
  <2>7. Attenuates(Link(c, index - 1), Link(c, index))
    BY <2>4, <2>5, <2>6, AttenuationExact
  <2> QED BY <2>1, <2>3, <2>5, <2>7 DEF ActorValid
<1> QED BY <1>2, <1>3 DEF Refuse

-----------------------------------------------------------------------------
LEMMA InvInit == Init => IInv
BY ClaimsAssumption
   DEF Init, IInv, TypeOK, LoopInv, DoneInv, NoAmplification, RefusedForCause,
       AcceptedWithinLifetime

\* One more actor: previous moves one hop on, and stays within every hop so far.
LEMMA OneMoreActor ==
    ASSUME IInv, CheckActor
    PROVE  LoopInv'
<1> DEFINE c == context
           n == index
<1>1. /\ n \in Nat /\ n >= 1 /\ n <= Len(c.chain) /\ c \in Contexts
      /\ previous = Link(c, n - 1) /\ WindowValid(c.window) /\ DepthValid(c)
      /\ \A j \in 0 .. n - 1 : Within(previous, Link(c, j))
  BY DEF IInv, TypeOK, LoopInv, CheckActor
<1>2. Len(c.chain) \in Nat /\ \A j \in 0 .. Len(c.chain) : Link(c, j) \in Lists
  BY <1>1, ContextParts
<1>3. Link(c, n) = c.chain[n].scopes /\ previous' = Link(c, n) /\ c' = c /\ n' = n + 1
  BY <1>1 DEF Link, CheckActor
<1>4. Within(Link(c, n), previous)
  <2>1. previous \in Lists /\ Link(c, n) \in Lists
    BY <1>1, <1>2
  <2>2. Attenuates(previous, Link(c, n))
    BY <1>3 DEF CheckActor, ActorValid
  <2> QED BY <2>1, <2>2, AttenuationNarrows
<1>5. ASSUME NEW j \in 0 .. n PROVE Within(Link(c, n), Link(c, j))
  <2>1. CASE j = n
    BY <2>1, WithinReflexive
  <2>2. CASE j # n
    <3>1. Within(previous, Link(c, j))
      BY <2>2, <1>1
    <3> QED BY <3>1, <1>4, WithinTransitive
  <2> QED BY <2>1, <2>2
<1>6. n' - 1 = n
  BY <1>1, <1>3
<1>7. \A j \in 0 .. n' - 1 : Within(previous', Link(c', j))
  BY <1>5, <1>3, <1>6
<1>8. n' <= Len(c'.chain) + 1 /\ previous' = Link(c', n' - 1)
  BY <1>1, <1>2, <1>3, <1>6
<1> QED BY <1>1, <1>3, <1>7, <1>8 DEF LoopInv

LEMMA InvStep == IInv /\ [Next]_vars => IInv'
<1> SUFFICES ASSUME IInv, [Next]_vars PROVE IInv'
  OBVIOUS
<1>0. context \in Contexts /\ index \in Nat /\ Len(context.chain) \in Nat
  BY ContextParts, ClaimsAssumption DEF IInv, TypeOK
<1>1. CASE Verify
  BY <1>1 DEF IInv, Verify, TypeOK, LoopInv, DoneInv, NoAmplification, RefusedForCause,
              AcceptedWithinLifetime
<1>2. CASE RequireScope
  BY <1>2 DEF IInv, RequireScope, TypeOK, LoopInv, DoneInv, NoAmplification,
              RefusedForCause,
              AcceptedWithinLifetime
<1>3. CASE CheckStructure
  <2>1. TypeOK'
    BY <1>3, <1>0, ContextParts, ClaimsAssumption DEF IInv, CheckStructure, TypeOK
  <2>2. LoopInv'
    <3>1. previous' = Link(context, 0) /\ index' = 1 /\ context' = context
      BY <1>3 DEF CheckStructure, Link
    <3>2. \A j \in 0 .. index' - 1 : j = 0
      BY <3>1
    <3>3. \A j \in 0 .. index' - 1 : Within(previous', Link(context', j))
      BY <3>1, <3>2, WithinReflexive
    <3> QED BY <3>1, <3>3, <1>3, <1>0 DEF CheckStructure, LoopInv, Link
  <2> QED BY <2>1, <2>2, <1>3
          DEF IInv, CheckStructure, DoneInv, NoAmplification, RefusedForCause,
              AcceptedWithinLifetime
<1>4. CASE CheckActor
  <2>1. TypeOK'
    <3>1. index + 1 \in 1 .. MaxDepth + 1
      BY <1>4, <1>0, ClaimsAssumption DEF IInv, TypeOK, LoopInv, CheckActor, DepthValid
    <3>2. context.chain[index].scopes \in Lists
      BY <1>4, <1>0, ContextParts DEF IInv, TypeOK, CheckActor, Actor
    <3> QED BY <3>1, <3>2, <1>4 DEF IInv, TypeOK, CheckActor
  <2>2. LoopInv'
    BY <1>4, OneMoreActor
  <2> QED BY <2>1, <2>2, <1>4
          DEF IInv, CheckActor, LoopInv, DoneInv, NoAmplification, RefusedForCause,
              AcceptedWithinLifetime
<1>5. CASE ChainChecked
  <2>1. index - 1 = Len(context.chain)
    BY <1>5, <1>0 DEF IInv, LoopInv, ChainChecked
  <2>2. \A j \in 0 .. Len(context.chain) : Within(Effective(context), Link(context, j))
    BY <1>5, <2>1 DEF IInv, LoopInv, ChainChecked, Effective
  <2> QED BY <2>2, <1>5
          DEF IInv, ChainChecked, TypeOK, LoopInv, DoneInv, NoAmplification,
              RefusedForCause,
              AcceptedWithinLifetime
<1>6. CASE Refuse
  <2>1. phase' = "refused" /\ context' = context
    BY <1>6 DEF Refuse
  <2>2. RefusedForCause'
    <3>1. ~ Honest(context)
      BY <1>6, HonestPass
    <3> QED BY <2>1, <3>1 DEF RefusedForCause
  <2> QED BY <2>2, <1>6
          DEF IInv, Refuse, TypeOK, LoopInv, DoneInv, NoAmplification,
              AcceptedWithinLifetime
<1>7. CASE RefuseAtThisTime
  BY <1>7 DEF IInv, RefuseAtThisTime, TypeOK, LoopInv, DoneInv, NoAmplification,
              RefusedForCause,
              AcceptedWithinLifetime
<1>8. CASE Judge
  <2>1. PICK req \in Requirements :
          /\ requirement' = req
          /\ phase' \in {"refused", "granted", "denied"}
          /\ phase' = "granted" => Granted(context, req)
    BY <1>8 DEF Judge
  <2>2. phase' \in {"refused", "granted", "denied"}
    BY <2>1
  <2>3. TypeOK'
    BY <2>1, <2>2, <1>8 DEF IInv, Judge, TypeOK
  <2>4. NoAmplification'
    <3> SUFFICES ASSUME phase' = "granted", NEW j \in 0 .. Len(context.chain)
                 PROVE  Covers(Link(context, j), req.kind, req.action, req.resource)
      BY <2>1, <1>8 DEF Judge, NoAmplification
    <3>1. Granted(context, req)
      BY <2>1
    <3>2. Covers(Effective(context), req.kind, req.action, req.resource)
      BY <3>1, GrantedCovers
    <3>3. Within(Effective(context), Link(context, j))
      BY <1>8 DEF IInv, DoneInv, Judge
    <3> QED BY <3>2, <3>3 DEF Within, Requirements
  <2>5. RefusedForCause'
    <3>1. index > Len(context.chain) /\ context' = context /\ index' = index
      BY <1>8 DEF IInv, DoneInv, Judge
    <3>2. phase' = "denied" => ~ Granted(context, req)
      <4>1. phase' = "denied" => ~ Granted(context, requirement')
        BY <1>8 DEF Judge
      <4> QED BY <2>1, <4>1
    <3>3. phase' = "denied" /\ ~ req.explicit =>
             ~ Covers(Effective(context), req.kind, req.action, req.resource)
      BY <1>0, <3>2, DeniedIsMissing
    <3> QED BY <2>1, <3>1, <3>3 DEF RefusedForCause
  <2> QED BY <2>2, <2>3, <2>4, <2>5, <1>8
          DEF IInv, Judge, LoopInv, DoneInv, AcceptedWithinLifetime
<1>9. ASSUME NEW now \in Clock, Accept(now) PROVE IInv'
  <2>1. now \in Int /\ context.window \in Window
    <3>1. now \in Int
      BY ClaimsAssumption
    <3>2. context.window \in Window
      BY <1>0, ContextParts
    <3> QED BY <3>1, <3>2
  <2>2. TypeOK'
    BY <1>9, <2>1 DEF IInv, TypeOK, Accept
  <2>3. AcceptedWithinLifetime'
    <3> DEFINE w == context.window
    <3>1. /\ w.issuedAt \in Int /\ w.expiresAt \in Int
          /\ MaxTtl \in Int /\ Skew \in Int
      BY <2>1, ClaimsAssumption DEF Window
    <3>2. /\ w.expiresAt - w.issuedAt <= MaxTtl
          /\ w.issuedAt <= now + Skew /\ now <= w.expiresAt + Skew
      BY <1>9 DEF IInv, DoneInv, Accept, Active, WindowValid
    <3>3. acceptedAt' = now /\ w' = w
      BY <1>9 DEF Accept
    <3>4. now >= w.issuedAt - Skew /\ now <= w.issuedAt + MaxTtl + Skew
      BY <2>1, <3>1, <3>2
    <3> QED BY <3>3, <3>4 DEF AcceptedWithinLifetime
  <2> QED BY <2>2, <2>3, <1>9
          DEF IInv, Accept, LoopInv, DoneInv, NoAmplification, RefusedForCause
<1>10. CASE UNCHANGED vars
  BY <1>10 DEF IInv, vars, TypeOK, LoopInv, DoneInv, NoAmplification, RefusedForCause,
               AcceptedWithinLifetime
<1> QED BY <1>1, <1>2, <1>3, <1>4, <1>5, <1>6, <1>7, <1>8, <1>9, <1>10 DEF Next

LEMMA Invariance == Spec => []IInv
<1>1. Init => IInv
  BY InvInit
<1>2. IInv /\ [Next]_vars => IInv'
  BY InvStep
<1> QED BY <1>1, <1>2, PTL DEF Spec

-----------------------------------------------------------------------------
\* Type correctness of every state of the claims checks.
THEOREM ClaimsTypeCorrect == Spec => []TypeOK
<1>1. IInv => TypeOK
  BY DEF IInv
<1> QED BY <1>1, Invariance, PTL

\* Delegation never amplifies: require_scope grants nothing to a hop that any hop
\* before it, or the owner, did not have.
THEOREM DelegationNeverAmplifies == Spec => []NoAmplification
<1>1. IInv => NoAmplification
  BY DEF IInv
<1> QED BY <1>1, Invariance, PTL

\* An honest chain is not refused by the comparison of its hops, and what is denied
\* without asking for an explicit id, the last hop does not have.
THEOREM RefusalsHaveCause == Spec => []RefusedForCause
<1>1. IInv => RefusedForCause
  BY DEF IInv
<1> QED BY <1>1, Invariance, PTL

\* verify accepts claims only near the lifetime the cap allows them.
THEOREM AcceptanceBounded == Spec => []AcceptedWithinLifetime
<1>1. IInv => AcceptedWithinLifetime
  BY DEF IInv
<1> QED BY <1>1, Invariance, PTL

=============================================================================

-------------------------- MODULE WorkContextClaims --------------------------
(***************************************************************************)
(* What a callee does with the claims of a Work Context: verify checks     *)
(* their structure, actor by actor, then the time window and the caller's  *)
(* expectations; require_scope checks the structure again, of claims that  *)
(* verify returned or that somebody built or changed by hand, and asks     *)
(* whether the last hop's scopes grant one requirement. Signatures and     *)
(* keys are JwksVerifier's part.                                           *)
(*                                                                         *)
(* Strings are abstracted: a resource kind is a number, so that it has an  *)
(* order; a list of actions or of resource ids is the set of its members,  *)
(* and a scope's field canonical says whether the lists are sorted, unique *)
(* and within their limits; valid says the same of the other fields of an  *)
(* actor or of the context. AnyResource is the empty resource_id.          *)
(***************************************************************************)
EXTENDS Integers, Sequences, ClaimsWindow

CONSTANTS
    Kinds, Actions, Resources, AnyResource, NoRequirement,
    Lists,       \* the scope lists that contexts carry
    Windows,     \* the time windows they carry
    Clock,       \* what the wall clock may read; it may step either way
    MaxScopes,   \* _MAX_SCOPES
    MaxDepth     \* _MAX_ACTOR_DEPTH

Scope == [kind: Kinds, actions: SUBSET Actions, ids: SUBSET Resources, canonical: BOOLEAN]

ASSUME ClaimsAssumption ==
    /\ Kinds \subseteq Nat /\ AnyResource \notin Resources
    /\ Lists \subseteq Seq(Scope)
    /\ Windows \subseteq Window
    /\ Clock \subseteq Int
    /\ {MaxTtl, Skew, MaxScopes, MaxDepth} \subseteq Nat

VARIABLES
    phase,        \* where the call in progress is, or how the last one ended
    call,         \* that call: "verify" or "require_scope"
    context,      \* the claims it is about
    index,        \* the next actor of the chain to validate
    previous,     \* the scopes that actor must attenuate
    requirement,  \* what require_scope asks for
    acceptedAt    \* the time at which verify accepted the claims

vars == <<phase, call, context, index, previous, requirement, acceptedAt>>

-----------------------------------------------------------------------------
Actor == [valid: BOOLEAN, scopes: Lists]

\* One actor more than may be accepted, to meet the limit.
Chains == UNION {[1 .. n -> Actor] : n \in 0 .. MaxDepth + 1}

Contexts == [valid: BOOLEAN, window: Windows, authority: Lists, chain: Chains]

Requirements == [kind: Kinds, action: Actions, resource: Resources \union {AnyResource},
                 explicit: BOOLEAN]

\* The scopes of hop j: the owner's authority, then what each actor was granted.
Link(c, j) == IF j = 0 THEN c.authority ELSE c.chain[j].scopes

\* WorkContext.effective_scopes.
Effective(c) == Link(c, Len(c.chain))

\* _validate_scopes.
ScopesValid(list) ==
    /\ Len(list) <= MaxScopes
    /\ \A i \in DOMAIN list :
         /\ list[i].actions # {} /\ list[i].canonical
         /\ i > 1 => list[i - 1].kind < list[i].kind

\* The scope that parent_by_kind finds: the last one of its kind.
Ancestor(parent, j, kind) ==
    /\ parent[j].kind = kind
    /\ \A l \in DOMAIN parent : parent[l].kind = kind => l <= j

\* _scopes_attenuate. No ids is every id: it may be narrowed, and never come back.
Attenuates_Bug(parent, child) ==
    \A i \in DOMAIN child : \E j \in DOMAIN parent :
        /\ Ancestor(parent, j, child[i].kind)
        /\ child[i].actions \subseteq parent[j].actions
        /\ parent[j].ids # {} => child[i].ids \subseteq parent[j].ids
Attenuates_Closed(parent, child) ==
    \A i \in DOMAIN child : \E j \in DOMAIN parent :
        /\ Ancestor(parent, j, child[i].kind)
        /\ child[i].actions \subseteq parent[j].actions
        /\ child[i].ids \subseteq parent[j].ids
Attenuates(parent, child) ==
    \A i \in DOMAIN child : \E j \in DOMAIN parent :
        /\ Ancestor(parent, j, child[i].kind)
        /\ child[i].actions \subseteq parent[j].actions
        /\ parent[j].ids # {} => child[i].ids # {} /\ child[i].ids \subseteq parent[j].ids

DepthValid_Bug(c) == Len(c.chain) <= MaxDepth + 1
DepthValid(c) == Len(c.chain) <= MaxDepth

\* require_scope refuses to match an explicit id that is not there.
Incomplete(req) == req.explicit /\ req.resource = AnyResource

\* One scope of require_scope's loop.
Grants(scope, req) ==
    /\ scope.kind = req.kind /\ req.action \in scope.actions
    /\ \/ scope.ids = {} /\ ~req.explicit
       \/ req.resource # AnyResource /\ req.resource \in scope.ids

Granted(c, req) == \E i \in DOMAIN Effective(c) : Grants(Effective(c)[i], req)

-----------------------------------------------------------------------------
Init ==
    /\ phase = "idle" /\ call = "verify"
    /\ context \in Contexts
    /\ index = 1 /\ previous = <<>>
    /\ requirement = NoRequirement /\ acceptedAt = 0

\* verify, of a token whose signature was good over these claims.
Verify ==
    /\ phase = "idle"
    /\ phase' = "structure" /\ call' = "verify"
    /\ UNCHANGED <<context, index, previous, requirement, acceptedAt>>

\* require_scope, of claims verify returned or of hand-built ones.
RequireScope ==
    /\ phase \in {"idle", "verified"}
    /\ phase' = "structure" /\ call' = "require_scope"
    /\ UNCHANGED <<context, index, previous, requirement, acceptedAt>>

\* _validate_work_context up to its loop.
CheckStructure ==
    /\ phase = "structure"
    /\ context.valid /\ WindowValid(context.window) /\ DepthValid(context)
    /\ ScopesValid(context.authority)
    /\ phase' = "chain" /\ index' = 1 /\ previous' = context.authority
    /\ UNCHANGED <<call, context, requirement, acceptedAt>>

ActorValid(actor) ==
    actor.valid /\ ScopesValid(actor.scopes) /\ Attenuates(previous, actor.scopes)

\* One iteration of the loop.
CheckActor ==
    /\ phase = "chain" /\ index <= Len(context.chain)
    /\ ActorValid(context.chain[index])
    /\ index' = index + 1 /\ previous' = context.chain[index].scopes
    /\ UNCHANGED <<phase, call, context, requirement, acceptedAt>>

\* The loop is over: verify goes on to the time, require_scope to the scopes.
ChainChecked ==
    /\ phase = "chain" /\ index > Len(context.chain)
    /\ phase' = IF call = "verify" THEN "time" ELSE "scopes"
    /\ UNCHANGED <<call, context, index, previous, requirement, acceptedAt>>

\* _validate_work_context raises WorkContextError.
Refuse ==
    /\ \/ /\ phase = "structure"
          /\ ~ (/\ context.valid /\ WindowValid(context.window) /\ DepthValid(context)
                /\ ScopesValid(context.authority))
       \/ /\ phase = "chain" /\ index <= Len(context.chain)
          /\ ~ ActorValid(context.chain[index])
    /\ phase' = "refused"
    /\ UNCHANGED <<call, context, index, previous, requirement, acceptedAt>>

\* The clock is read once, after the structure is known to be good.
Accept(now) ==
    /\ phase = "time" /\ Active(context.window, now)
    /\ phase' = "verified" /\ acceptedAt' = now
    /\ UNCHANGED <<call, context, index, previous, requirement>>

\* The time is outside the window, or a claim is not what the caller expects.
RefuseAtThisTime ==
    /\ phase = "time"
    /\ phase' = "refused"
    /\ UNCHANGED <<call, context, index, previous, requirement, acceptedAt>>

\* The requirement is incomplete, or the effective scopes are searched for it.
Judge ==
    /\ phase = "scopes"
    /\ \E req \in Requirements :
         /\ requirement' = req
         /\ \/ Incomplete(req) /\ phase' = "refused"
            \/ ~ Incomplete(req) /\ Granted(context, req) /\ phase' = "granted"
            \/ ~ Incomplete(req) /\ ~ Granted(context, req) /\ phase' = "denied"
    /\ UNCHANGED <<call, context, index, previous, acceptedAt>>

Next ==
    \/ Verify \/ RequireScope \/ CheckStructure \/ CheckActor \/ ChainChecked
    \/ Refuse \/ RefuseAtThisTime \/ Judge
    \/ \E now \in Clock : Accept(now)

Spec == Init /\ [][Next]_vars

-----------------------------------------------------------------------------
(***************************************************************************)
(* Properties.                                                             *)
(***************************************************************************)

\* Every variable has its type; the loop never runs past the depth limit.
TypeOK ==
    /\ phase \in {"idle", "structure", "chain", "time", "scopes", "verified", "granted",
                  "denied", "refused"}
    /\ call \in {"verify", "require_scope"}
    /\ context \in Contexts
    /\ index \in 1 .. MaxDepth + 1
    /\ previous \in Lists \union {<<>>}
    /\ requirement \in Requirements \union {NoRequirement}
    /\ acceptedAt \in Int

\* scopes give an action on a resource; on AnyResource, on every resource.
Covers(scopes, kind, action, resource) ==
    \E i \in DOMAIN scopes :
        /\ scopes[i].kind = kind /\ action \in scopes[i].actions
        /\ scopes[i].ids = {} \/ resource \in scopes[i].ids

\* Delegation never amplifies: what require_scope grants to the last hop of a chain,
\* however long and whoever built it, the owner and every actor before it had; and
\* it grants every resource only if all of them had every resource.
NoAmplification ==
    phase = "granted" =>
        \A j \in 0 .. Len(context.chain) :
            Covers(Link(context, j), requirement.kind, requirement.action,
                   requirement.resource)

\* child gives nothing that parent does not, on one resource or on all of them.
Within(child, parent) ==
    \A kind \in Kinds, action \in Actions, resource \in Resources \union {AnyResource} :
        Covers(child, kind, action, resource) => Covers(parent, kind, action, resource)

\* Claims in order, of a chain in which nobody was given more than its parent had.
Honest(c) ==
    /\ c.valid /\ WindowValid(c.window) /\ DepthValid(c)
    /\ ScopesValid(c.authority)
    /\ \A j \in 1 .. Len(c.chain) :
         /\ c.chain[j].valid /\ ScopesValid(c.chain[j].scopes)
         /\ Within(Link(c, j), Link(c, j - 1))

\* The other side of it, where a caller is stranded rather than let through. The
\* comparison of one scope with its ancestor refuses no delegation that only narrows: an
\* honest chain is past the loop, and refused for the time, the expectations or an
\* incomplete requirement alone. And require_scope denies only what the last hop does
\* not have; a requirement of an explicit id may also be denied a wildcard.
RefusedForCause ==
    /\ phase = "refused" /\ Honest(context) => index > Len(context.chain)
    /\ phase = "denied" /\ ~requirement.explicit =>
         ~Covers(Effective(context), requirement.kind, requirement.action,
                 requirement.resource)

\* Whatever the issuer wrote into the claims, verify accepts them only from the skew
\* before they were issued to the lifetime cap and the skew after: the cap and the
\* window are checked apart, the cap without a clock.
AcceptedWithinLifetime ==
    phase = "verified" =>
        /\ acceptedAt >= context.window.issuedAt - Skew
        /\ acceptedAt <= context.window.issuedAt + MaxTtl + Skew

=============================================================================

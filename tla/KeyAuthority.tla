---------------------------- MODULE KeyAuthority ----------------------------
(***************************************************************************)
(* What a caller of JWKSVerifier.verify may rely on, whatever the threads, *)
(* the cache and the endpoint do: the verifier knows a published key set   *)
(* that only ever moves forward, and a token is admitted only under a key  *)
(* set at least as recent as the one known when its call began. A token    *)
(* may always be refused: the verifier fails closed.                       *)
(***************************************************************************)
EXTENDS Integers, Sequences

CONSTANTS Threads, KeyIds, NoKey, Schedule

VARIABLES
    published,   \* epoch of the key set the authority publishes
    known,       \* epoch of the newest key set the verifier has obtained, or 0
    asked,       \* each thread's question: the key id, and what was known then
    admitted     \* the threads whose last token was admitted

avars == <<published, known, asked, admitted>>

NoQuestion == [kid |-> NoKey, floor |-> 0]

AInit ==
    /\ published = 1 /\ known = 0
    /\ asked = [t \in Threads |-> NoQuestion]
    /\ admitted = {}

Publish ==
    /\ published < Len(Schedule)
    /\ published' = published + 1
    /\ UNCHANGED <<known, asked, admitted>>

Learn ==
    /\ known' \in known .. published
    /\ UNCHANGED <<published, asked, admitted>>

Ask(t) ==
    /\ asked[t] = NoQuestion
    /\ \E k \in KeyIds : asked' = [asked EXCEPT ![t] = [kid |-> k, floor |-> known]]
    /\ admitted' = admitted \ {t}
    /\ UNCHANGED <<published, known>>

Admit(t) ==
    /\ \E e \in 1 .. known : asked[t].floor <= e /\ asked[t].kid \in Schedule[e]
    /\ asked' = [asked EXCEPT ![t] = NoQuestion]
    /\ admitted' = admitted \union {t}
    /\ UNCHANGED <<published, known>>

\* Also for what is no token at all, before anything was asked.
Refuse(t) ==
    /\ asked' = [asked EXCEPT ![t] = NoQuestion]
    /\ admitted' = admitted \ {t}
    /\ UNCHANGED <<published, known>>

ANext ==
    \/ Publish \/ Learn
    \/ \E t \in Threads : Ask(t) \/ Admit(t) \/ Refuse(t)

ASpec == AInit /\ [][ANext]_avars

=============================================================================

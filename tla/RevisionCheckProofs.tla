-------------------------- MODULE RevisionCheckProofs --------------------------
(***************************************************************************)
(* What RevisionCheck's runs show for two checks, proved for any number of *)
(* them, every pool, budget, body limit and revision, and both transports. *)
(*                                                                         *)
(* The argument. An answer that grants or denies exists only once the      *)
(* authority has judged this very request (Backed), a judgement falls in   *)
(* the lifetime of its check, and the claims never carry a revision above  *)
(* the one current when the check began; so "current" can only mean that   *)
(* they carried that one (Judged). A check that is still under way and     *)
(* that nobody cancelled is inside its budget (Timed), and one that was    *)
(* cancelled is at most closing a response, its outcome already fixed      *)
(* (Stopped).                                                              *)
(***************************************************************************)
EXTENDS RevisionCheck, FiniteSetTheorems, TLAPS

USE DEF Awaits, Running, Set, Outcomes, client

\* A check has no verdict while it runs, and has chosen how to end from its finally
\* clause on.
Ended(c) ==
    /\ Running(c) => verdict[c] = "none"
    /\ pc[c] \in {"release", "finished"} => pending[c] # "none"
    /\ pc[c] \notin {"release", "finished"} => pending[c] = "none"

\* What the authority said is about these claims, at a moment of this check.
Judged(c) ==
    /\ claims[c] <= since[c] /\ since[c] <= revision
    /\ pc[c] # "idle" => since[c] # 0
    /\ said[c] = "current" => claims[c] = since[c]
    /\ said[c] = "stale" => \E r \in since[c] .. revision : r # claims[c]

\* A decision has the authority's word behind it.
WordFor(c, outcome) ==
    /\ outcome = "granted" => said[c] = "current"
    /\ outcome = "denied" => said[c] = "stale"
Backed(c) ==
    /\ WordFor(c, pending[c]) /\ WordFor(c, verdict[c])
    /\ pc[c] = "body" => WordFor(c, PayloadVerdict(answer[c]))

\* The budget, and the size of the body.
Timed(c) ==
    /\ pc[c] # "idle" => deadline[c] = begunAt[c] + Timeout
    /\ Running(c) /\ cancelledBy[c] = "nobody" => now <= deadline[c]
    /\ pc[c] \in {"credential", "pool", "waiting", "body"} => parts[c] <= MaxParts

\* A cancelled check is over, or closes a response.
Stopped(c) ==
    /\ Running(c) /\ cancelledBy[c] # "nobody"
         => pc[c] = "release" /\ pending[c] \in {"unavailable", "cancelled"}
    /\ Running(c) /\ cancelledBy[c] = "caller" => pending[c] = "cancelled"
    /\ pc[c] = "finished" => waitFor = "task"

Pooled ==
    /\ IsFiniteSet(held) /\ Cardinality(held) <= PoolSize
    /\ \A c \in held : pc[c] \in {"waiting", "body", "release", "left"}
    /\ transport = "grpc" => held = {} /\ \A c \in Checks : pc[c] # "pool"

Sound(c) == Ended(c) /\ Judged(c) /\ Backed(c) /\ Timed(c) /\ Stopped(c)

\* The inductive invariant.
IInv == TypeOK /\ (\A c \in Checks : Sound(c)) /\ Pooled

-----------------------------------------------------------------------------
(***************************************************************************)
(* Answers and verdicts.                                                   *)
(***************************************************************************)

\* The responses the transport can carry.
Responses == IF transport = "connect" THEN Response ELSE RpcResponse

\* What the authority says can be carried, and its two words differ.
LEMMA WordsAreResponses ==
    /\ Confirmation \in Responses /\ Refusals \subseteq Responses
    /\ Confirmation \notin Refusals
  <1>1. CASE transport = "connect"
    BY <1>1 DEF Responses, Confirmation, Refusals, Plain, Response
  <1>2. CASE transport # "connect"
    <2>1. ASSUME NEW s \in {"PERMISSION_DENIED", "FAILED_PRECONDITION"},
                 NEW b \in {"empty", "other"}
          PROVE  Plain(s, b) \in RpcResponse
      BY <2>1 DEF Plain, RpcResponse
    <2>2. Refusals \subseteq RpcResponse
      BY <1>2, <2>1 DEF Refusals
    <2>3. Confirmation \in RpcResponse
      BY <1>2 DEF Confirmation, Plain, RpcResponse
    <2>4. ASSUME NEW s \in {"PERMISSION_DENIED", "FAILED_PRECONDITION"},
                 NEW b \in {"empty", "other"}
          PROVE  Plain(s, b) # Plain("OK", "empty")
      BY <2>4 DEF Plain
    <2>5. Confirmation \notin Refusals
      BY <1>2, <2>4 DEF Confirmation, Refusals
    <2>6. QED BY <1>2, <2>2, <2>3, <2>5 DEF Responses
  <1>3. QED BY <1>1, <1>2

\* A confirmation is an answer only to a request judged current, a refusal only to one
\* judged stale.
LEMMA AnswersAreBacked ==
    ASSUME NEW c \in Checks, NEW a \in Answers(c)
    PROVE  /\ a \in Responses
           /\ a = Confirmation => said[c] = "current"
           /\ a \in Refusals => said[c] = "stale"
  BY WordsAreResponses DEF Answers, Failures, Responses

\* ConnectClient takes only the empty message for a confirmation, and only the two pairs
\* of status and code for a refusal.
LEMMA PayloadVerdictExact ==
    ASSUME transport = "connect", NEW a \in Response, HeadersAccepted(a)
    PROVE  /\ PayloadVerdict(a) = "granted" => a = Confirmation
           /\ PayloadVerdict(a) = "denied" => a \in Refusals
  BY DEF PayloadVerdict, HeadersAccepted, Response, Confirmation, Refusals, Plain, Denials

\* _GRPCRevision likewise, by the status of the RPC.
LEMMA RpcVerdictExact ==
    ASSUME transport = "grpc", NEW a \in RpcResponse
    PROVE  /\ RpcVerdict(a) = "granted" => a = Confirmation
           /\ RpcVerdict(a) = "denied" => a \in Refusals
  <1>1. /\ a = Plain(a.status, a.body) /\ a.body \in {"empty", "other"}
    BY DEF RpcResponse, Plain
  <1>2. RpcVerdict(a) = "granted" => a = Confirmation
    BY <1>1 DEF RpcVerdict, Confirmation
  <1>3. RpcVerdict(a) = "denied" => a \in Refusals
    BY <1>1 DEF RpcVerdict, Refusals
  <1>4. QED BY <1>2, <1>3

LEMMA Verdicts ==
    ASSUME NEW a
    PROVE  /\ PayloadVerdict(a) \in {"raw", "granted", "denied", "unavailable"}
           /\ RpcVerdict(a) \in {"granted", "denied", "unavailable"}
  BY DEF PayloadVerdict, RpcVerdict

\* What an answer decides has the authority's word behind it.
LEMMA DecisionsAreBacked ==
    ASSUME NEW c \in Checks, NEW a \in Answers(c)
    PROVE  /\ transport = "connect" /\ HeadersAccepted(a) => WordFor(c, PayloadVerdict(a))
           /\ transport = "grpc" => WordFor(c, RpcVerdict(a))
  BY AnswersAreBacked, PayloadVerdictExact, RpcVerdictExact DEF WordFor, Responses

-----------------------------------------------------------------------------

LEMMA HeldShrinks ==
    ASSUME IsFiniteSet(held), Cardinality(held) <= PoolSize, NEW c
    PROVE  IsFiniteSet(held \ {c}) /\ Cardinality(held \ {c}) <= PoolSize
  BY FS_RemoveElement, FS_CardinalityType, BoundsAssumption

LEMMA HeldGrows ==
    ASSUME IsFiniteSet(held), Cardinality(held) < PoolSize, NEW c
    PROVE  IsFiniteSet(held \union {c}) /\ Cardinality(held \union {c}) <= PoolSize
  <1>1. Cardinality(held) \in Nat
    BY FS_CardinalityType
  <1>2. /\ IsFiniteSet(held \union {c})
        /\ Cardinality(held \union {c}) \in {Cardinality(held), Cardinality(held) + 1}
    BY FS_AddElement
  <1>3. QED BY <1>1, <1>2, BoundsAssumption

\* What ConnectClient reads the body of is a response with a type.
LEMMA HeaderResponses ==
    ASSUME transport = "connect"
    PROVE  Responses = Response
  BY DEF Responses

\* A step of one check is none of another's.
LEMMA OthersAlone ==
    ASSUME TypeOK, NEW c \in Checks, Serve(c)
    PROVE  \A d \in Checks \ {c} : verdict'[d] = verdict[d] /\ pc'[d] = pc[d]
  <1> USE DEF TypeOK, loopVars, callVars
  <1>1. CASE NotSent(c) \/ SentOnClosed(c) \/ RpcReturns(c) \/ ClosedUnder(c)
    BY <1>1 DEF NotSent, SentOnClosed, RpcReturns, ClosedUnder, Conclude
  <1>2. CASE CredentialArrives(c) \/ Return(c) \/ Judge(c) \/ Connects(c)
    BY <1>2 DEF CredentialArrives, Return, Judge, Connects
  <1>3. CASE TransportFails(c) \/ Release(c) \/ ReleaseFails(c)
    BY <1>3 DEF TransportFails, Release, ReleaseFails, Conclude, Forgotten, Finally
  <1>4. CASE HeadersArrive(c) \/ PartArrives(c) \/ BodyEnds(c)
    BY <1>4 DEF HeadersArrive, PartArrives, BodyEnds, Finally
  <1>5. CASE Expire(c) \/ Cancel(c)
    BY <1>5 DEF Expire, Cancel, Interrupt, Finally
  <1>6. QED BY <1>1, <1>2, <1>3, <1>4, <1>5 DEF Serve, Connect

\* Every step keeps the invariant.
LEMMA StepsKeep ==
    ASSUME IInv, [Next]_vars
    PROVE  IInv'
  <1> USE DEF IInv, Sound, TypeOK, loopVars, callVars
  <1>1. ASSUME NEW c \in Checks, Check(c)
        PROVE  IInv'
    <2>1. TypeOK'
      BY <1>1, TimesAssumption, BoundsAssumption DEF Check, Timed
    <2>2. \A d \in Checks : Sound(d)'
      BY <1>1, TimesAssumption, BoundsAssumption DEF Check, Ended, Judged, Backed,
         WordFor, Timed, Stopped
    <2>3. Pooled'
      BY <1>1, BoundsAssumption DEF Check, Pooled
    <2>4. QED BY <2>1, <2>2, <2>3
  <1>2. ASSUME NEW c \in Checks, CredentialArrives(c)
        PROVE  IInv'
    <2>1. TypeOK'
      BY <1>2, TimesAssumption, BoundsAssumption DEF CredentialArrives, Timed
    <2>2. \A d \in Checks : Sound(d)'
      BY <1>2, TimesAssumption, BoundsAssumption DEF CredentialArrives, Ended,
         Judged, Backed, WordFor, Timed, Stopped
    <2>3. Pooled'
      BY <1>2, BoundsAssumption DEF CredentialArrives, Pooled
    <2>4. QED BY <2>1, <2>2, <2>3
  <1>3. ASSUME NEW c \in Checks, NotSent(c)
        PROVE  IInv'
    <2>1. TypeOK'
      BY <1>3, TimesAssumption, BoundsAssumption DEF NotSent, Conclude, Timed
    <2>2. \A d \in Checks : Sound(d)'
      BY <1>3, TimesAssumption, BoundsAssumption DEF NotSent, Conclude, Ended,
         Judged, Backed, WordFor, Timed, Stopped
    <2>3. Pooled'
      BY <1>3, BoundsAssumption DEF NotSent, Conclude, Pooled
    <2>4. QED BY <2>1, <2>2, <2>3
  <1>4. ASSUME NEW c \in Checks, SentOnClosed(c)
        PROVE  IInv'
    <2>1. TypeOK'
      BY <1>4, TimesAssumption, BoundsAssumption DEF SentOnClosed, Conclude, Timed
    <2>2. \A d \in Checks : Sound(d)'
      BY <1>4, TimesAssumption, BoundsAssumption DEF SentOnClosed, Conclude, Ended,
         Judged, Backed, WordFor, Timed, Stopped
    <2>3. Pooled'
      BY <1>4, BoundsAssumption DEF SentOnClosed, Conclude, Pooled
    <2>4. QED BY <2>1, <2>2, <2>3
  <1>5. ASSUME NEW c \in Checks, Connects(c)
        PROVE  IInv'
    <2>1. TypeOK'
      BY <1>5, TimesAssumption, BoundsAssumption DEF Connects, Timed
    <2>2. \A d \in Checks : Sound(d)'
      BY <1>5, TimesAssumption, BoundsAssumption DEF Connects, Ended, Judged,
         Backed, WordFor, Timed, Stopped
    <2>3. Pooled'
      BY <1>5, HeldGrows, BoundsAssumption DEF Connects, Pooled
    <2>4. QED BY <2>1, <2>2, <2>3
  <1>6. ASSUME NEW c \in Checks, TransportFails(c)
        PROVE  IInv'
    <2>1. TypeOK'
      BY <1>6, TimesAssumption, BoundsAssumption DEF TransportFails, Conclude,
         Finally, Timed
    <2>2. \A d \in Checks : Sound(d)'
      BY <1>6, TimesAssumption, BoundsAssumption DEF TransportFails, Conclude,
         Finally, Ended, Judged, Backed, WordFor, Timed, Stopped
    <2>3. IsFiniteSet(held \ {c}) /\ Cardinality(held \ {c}) <= PoolSize
      BY HeldShrinks DEF Pooled
    <2>4. held' \in {held, held \ {c}}
      BY <1>6 DEF TransportFails, Conclude, Finally
    <2>5. IsFiniteSet(held') /\ Cardinality(held') <= PoolSize
      BY <2>3, <2>4 DEF Pooled
    <2>6. \A d \in held' : pc'[d] \in {"waiting", "body", "release", "left"}
      BY <1>6 DEF TransportFails, Conclude, Finally, Pooled
    <2>7. transport' = "grpc" => held' = {} /\ \A d \in Checks : pc'[d] # "pool" 
      BY <1>6, <2>4 DEF TransportFails, Conclude, Finally, Pooled
    <2>8. Pooled' BY <2>5, <2>6, <2>7 DEF Pooled
    <2>9. QED BY <2>1, <2>2, <2>8
  <1>7. ASSUME NEW c \in Checks, HeadersArrive(c)
        PROVE  IInv'
    <2>1. TypeOK'
      BY <1>7, AnswersAreBacked, HeaderResponses, TimesAssumption, BoundsAssumption
         DEF HeadersArrive, Finally, Timed
    <2>2. \A d \in Checks : Sound(d)'
      BY <1>7, DecisionsAreBacked, TimesAssumption, BoundsAssumption DEF
         HeadersArrive, Finally, Ended, Judged, Backed, WordFor, Timed, Stopped
    <2>3. Pooled'
      BY <1>7, BoundsAssumption DEF HeadersArrive, Finally, Pooled
    <2>4. QED BY <2>1, <2>2, <2>3
  <1>8. ASSUME NEW c \in Checks, PartArrives(c)
        PROVE  IInv'
    <2>1. TypeOK'
      BY <1>8, TimesAssumption, BoundsAssumption DEF PartArrives, Finally, Timed
    <2>2. \A d \in Checks : Sound(d)'
      BY <1>8, TimesAssumption, BoundsAssumption DEF PartArrives, Finally, Ended,
         Judged, Backed, WordFor, Timed, Stopped
    <2>3. Pooled'
      BY <1>8, BoundsAssumption DEF PartArrives, Finally, Pooled
    <2>4. QED BY <2>1, <2>2, <2>3
  <1>9. ASSUME NEW c \in Checks, BodyEnds(c)
        PROVE  IInv'
    <2>1. TypeOK'
      BY <1>9, Verdicts, TimesAssumption, BoundsAssumption DEF BodyEnds, Finally,
         Timed
    <2>2. \A d \in Checks : Sound(d)'
      BY <1>9, Verdicts, TimesAssumption, BoundsAssumption DEF BodyEnds, Finally,
         Ended, Judged, Backed, WordFor, Timed, Stopped
    <2>3. Pooled'
      BY <1>9, BoundsAssumption DEF BodyEnds, Finally, Pooled
    <2>4. QED BY <2>1, <2>2, <2>3
  <1>10. ASSUME NEW c \in Checks, Release(c)
        PROVE  IInv'
    <2>1. TypeOK'
      BY <1>10, TimesAssumption, BoundsAssumption DEF Release, Conclude, Forgotten, Timed
    <2>2. \A d \in Checks : Sound(d)'
      BY <1>10, TimesAssumption, BoundsAssumption DEF Release, Conclude, Forgotten, Ended,
         Judged, Backed, WordFor, Timed, Stopped
    <2>3. IsFiniteSet(held \ {c}) /\ Cardinality(held \ {c}) <= PoolSize
      BY HeldShrinks DEF Pooled
    <2>4. Pooled'
      BY <1>10, <2>3, BoundsAssumption DEF Release, Conclude, Forgotten, Pooled
    <2>5. QED BY <2>1, <2>2, <2>4
  <1>11. ASSUME NEW c \in Checks, ReleaseFails(c)
        PROVE  IInv'
    <2>1. TypeOK'
      BY <1>11, TimesAssumption, BoundsAssumption DEF ReleaseFails, Conclude, Forgotten, Timed
    <2>2. \A d \in Checks : Sound(d)'
      BY <1>11, TimesAssumption, BoundsAssumption DEF ReleaseFails, Conclude, Forgotten, Ended,
         Judged, Backed, WordFor, Timed, Stopped
    <2>3. IsFiniteSet(held \ {c}) /\ Cardinality(held \ {c}) <= PoolSize
      BY HeldShrinks DEF Pooled
    <2>4. Pooled'
      BY <1>11, <2>3, BoundsAssumption DEF ReleaseFails, Conclude, Forgotten, Pooled
    <2>5. QED BY <2>1, <2>2, <2>4
  <1>12. ASSUME NEW c \in Checks, RpcReturns(c)
        PROVE  IInv'
    <2>1. TypeOK'
      BY <1>12, Verdicts, TimesAssumption, BoundsAssumption DEF RpcReturns,
         Conclude, Timed
    <2>2. \A d \in Checks : Sound(d)'
      BY <1>12, Verdicts, DecisionsAreBacked, TimesAssumption, BoundsAssumption DEF
         RpcReturns, Conclude, Ended, Judged, Backed, WordFor, Timed, Stopped
    <2>3. Pooled'
      BY <1>12, BoundsAssumption DEF RpcReturns, Conclude, Pooled
    <2>4. QED BY <2>1, <2>2, <2>3
  <1>13. ASSUME NEW c \in Checks, ClosedUnder(c)
        PROVE  IInv'
    <2>1. TypeOK'
      BY <1>13, TimesAssumption, BoundsAssumption DEF ClosedUnder, Conclude, Timed
    <2>2. \A d \in Checks : Sound(d)'
      BY <1>13, TimesAssumption, BoundsAssumption DEF ClosedUnder, Conclude, Ended,
         Judged, Backed, WordFor, Timed, Stopped
    <2>3. Pooled'
      BY <1>13, BoundsAssumption DEF ClosedUnder, Conclude, Pooled
    <2>4. QED BY <2>1, <2>2, <2>3
  <1>14. ASSUME NEW c \in Checks, Return(c)
        PROVE  IInv'
    <2>1. TypeOK'
      BY <1>14, TimesAssumption, BoundsAssumption DEF Return, Timed
    <2>2. \A d \in Checks : Sound(d)'
      BY <1>14, TimesAssumption, BoundsAssumption DEF Return, Ended, Judged, Backed,
         WordFor, Timed, Stopped
    <2>3. Pooled'
      BY <1>14, BoundsAssumption DEF Return, Pooled
    <2>4. QED BY <2>1, <2>2, <2>3
  <1>15. ASSUME NEW c \in Checks, Expire(c)
        PROVE  IInv'
    <2>1. TypeOK'
      BY <1>15, TimesAssumption, BoundsAssumption DEF Expire, Interrupt, Finally,
         Timed
    <2>2. \A d \in Checks : Sound(d)'
      BY <1>15, TimesAssumption, BoundsAssumption DEF Expire, Interrupt, Finally,
         Ended, Judged, Backed, WordFor, Timed, Stopped
    <2>3. IsFiniteSet(held \ {c}) /\ Cardinality(held \ {c}) <= PoolSize
      BY HeldShrinks DEF Pooled
    <2>4. held' \in {held, held \ {c}}
      BY <1>15 DEF Expire, Interrupt, Finally
    <2>5. IsFiniteSet(held') /\ Cardinality(held') <= PoolSize
      BY <2>3, <2>4 DEF Pooled
    <2>6. \A d \in held' : pc'[d] \in {"waiting", "body", "release", "left"}
      BY <1>15 DEF Expire, Interrupt, Finally, Pooled
    <2>7. transport' = "grpc" => held' = {} /\ \A d \in Checks : pc'[d] # "pool" 
      BY <1>15, <2>4 DEF Expire, Interrupt, Finally, Pooled
    <2>8. Pooled' BY <2>5, <2>6, <2>7 DEF Pooled
    <2>9. QED BY <2>1, <2>2, <2>8
  <1>16. ASSUME NEW c \in Checks, Cancel(c)
        PROVE  IInv'
    <2>1. TypeOK'
      BY <1>16, TimesAssumption, BoundsAssumption DEF Cancel, Interrupt, Finally,
         Timed
    <2>2. \A d \in Checks : Sound(d)'
      BY <1>16, TimesAssumption, BoundsAssumption DEF Cancel, Interrupt, Finally,
         Ended, Judged, Backed, WordFor, Timed, Stopped
    <2>3. IsFiniteSet(held \ {c}) /\ Cardinality(held \ {c}) <= PoolSize
      BY HeldShrinks DEF Pooled
    <2>4. held' \in {held, held \ {c}}
      BY <1>16 DEF Cancel, Interrupt, Finally
    <2>5. IsFiniteSet(held') /\ Cardinality(held') <= PoolSize
      BY <2>3, <2>4 DEF Pooled
    <2>6. \A d \in held' : pc'[d] \in {"waiting", "body", "release", "left"}
      BY <1>16 DEF Cancel, Interrupt, Finally, Pooled
    <2>7. transport' = "grpc" => held' = {} /\ \A d \in Checks : pc'[d] # "pool" 
      BY <1>16, <2>4 DEF Cancel, Interrupt, Finally, Pooled
    <2>8. Pooled' BY <2>5, <2>6, <2>7 DEF Pooled
    <2>9. QED BY <2>1, <2>2, <2>8
  <1>17. ASSUME NEW c \in Checks, Judge(c)
        PROVE  IInv'
    <2>1. TypeOK'
      BY <1>17, TimesAssumption, BoundsAssumption DEF Judge, Timed
    <2>2. \A d \in Checks : Sound(d)'
      BY <1>17, TimesAssumption, BoundsAssumption DEF Judge, Ended, Judged, Backed,
         WordFor, Timed, Stopped
    <2>3. Pooled'
      BY <1>17, BoundsAssumption DEF Judge, Pooled
    <2>4. QED BY <2>1, <2>2, <2>3
  <1>18. ASSUME Close
        PROVE  IInv'
    <2>1. TypeOK'
      BY <1>18, TimesAssumption, BoundsAssumption DEF Close
    <2>2. \A d \in Checks : Sound(d)'
      BY <1>18, TimesAssumption, BoundsAssumption DEF Close, Ended, Judged, Backed,
         WordFor, Timed, Stopped
    <2>3. Pooled'
      BY <1>18 DEF Close, Pooled
    <2>4. QED BY <2>1, <2>2, <2>3
  <1>19. ASSUME Revise
        PROVE  IInv'
    <2>1. TypeOK'
      BY <1>19, TimesAssumption, BoundsAssumption DEF Revise
    <2>2. \A d \in Checks : Sound(d)'
      BY <1>19, TimesAssumption, BoundsAssumption DEF Revise, Ended, Judged, Backed,
         WordFor, Timed, Stopped
    <2>3. Pooled'
      BY <1>19 DEF Revise, Pooled
    <2>4. QED BY <2>1, <2>2, <2>3
  <1>20. ASSUME Tick
        PROVE  IInv'
    <2>1. TypeOK'
      BY <1>20, TimesAssumption, BoundsAssumption DEF Tick, Due
    <2>2. \A d \in Checks : Sound(d)'
      BY <1>20, TimesAssumption, BoundsAssumption DEF Tick, Due, Ended, Judged,
         Backed, WordFor, Timed, Stopped
    <2>3. Pooled'
      BY <1>20 DEF Tick, Due, Pooled
    <2>4. QED BY <2>1, <2>2, <2>3
  <1>21. ASSUME UNCHANGED vars
        PROVE  IInv'
    <2>1. TypeOK'
      BY <1>21, TimesAssumption, BoundsAssumption DEF vars
    <2>2. \A d \in Checks : Sound(d)'
      BY <1>21, TimesAssumption, BoundsAssumption DEF vars, Ended, Judged, Backed,
         WordFor, Timed, Stopped
    <2>3. Pooled'
      BY <1>21 DEF vars, Pooled
    <2>4. QED BY <2>1, <2>2, <2>3
  <1>22. QED
    BY <1>1, <1>2, <1>3, <1>4, <1>5, <1>6, <1>7, <1>8, <1>9, <1>10, <1>11, <1>12,
       <1>13, <1>14, <1>15, <1>16, <1>17, <1>18, <1>19, <1>20, <1>21 DEF Next, Serve,
       Connect

LEMMA InvariantInit == Init => IInv
  <1> SUFFICES ASSUME Init PROVE IInv
    OBVIOUS
  <1>1. TypeOK
    <2>1. /\ 0 \in 0 .. MaxTime /\ 0 \in 0 .. MaxTime + Timeout /\ 1 \in 1 .. MaxRevision
          /\ 0 \in 0 .. MaxRevision /\ 0 \in 0 .. MaxParts
      BY TimesAssumption, BoundsAssumption
    <2>2. client \in Clients
      <3>1. PICK kind \in Clients : transport = kind[1] /\ waitFor = kind[2]
        BY DEF Init
      <3>2. client = kind
        BY <3>1, ClientAssumption
      <3>3. QED BY <3>2
    <2>3. QED BY <2>1, <2>2 DEF Init, TypeOK
  <1>2. \A c \in Checks : Sound(c)
    BY DEF Init, Sound, Ended, Judged, Backed, WordFor, Timed, Stopped
  <1>3. Pooled
    BY FS_EmptySet, BoundsAssumption DEF Init, Pooled
  <1>4. QED BY <1>1, <1>2, <1>3 DEF IInv

THEOREM Invariance == Spec => []IInv
  BY InvariantInit, StepsKeep, PTL DEF Spec

\* Type correctness, for every number of checks and value of the bounds.
THEOREM TypeCorrect == Spec => []TypeOK
  BY Invariance, PTL DEF IInv

\* check returns only for claims that carried the revision current when it began: the
\* verdict of _check is always backed by what the authority said of this request.
THEOREM GrantsAreCurrent == Spec => []NoStaleGrant
  <1>1. IInv => NoStaleGrant
    BY DEF IInv, Sound, Backed, WordFor, Judged, NoStaleGrant
  <1>2. QED BY <1>1, Invariance, PTL

\* A connection of the pool is held only by a check that uses it (the finally clause and
\* httpx's handling of an interrupted request), and there are never too many.
THEOREM PoolIsReturned == Spec => []ConnectionsReturned
  <1>1. IInv => ConnectionsReturned
    BY DEF IInv, Pooled, ConnectionsReturned
  <1>2. QED BY <1>1, Invariance, PTL

\* A check whose budget is spent waits for nobody any more: not for the credential, the
\* pool, the headers, the RPC or the rest of a body. All it may still do is close a
\* response, having been interrupted, and with an outcome that is no decision. It is what
\* remains of ChecksEnd where nothing is assumed of the scheduler.
OverdueOnlyCloses ==
    \A c \in Checks :
        Running(c) /\ now > deadline[c] =>
            /\ cancelledBy[c] \in {"timer", "caller"}
            /\ pc[c] = "release" /\ pending[c] \in {"unavailable", "cancelled"}

\* For both transports, both kinds of wait_for and any number of checks.
THEOREM BudgetEndsWaiting == Spec => []OverdueOnlyCloses
  <1>1. IInv => OverdueOnlyCloses
    BY DEF IInv, TypeOK, Sound, Timed, Stopped, OverdueOnlyCloses
  <1>2. QED BY <1>1, Invariance, PTL

-----------------------------------------------------------------------------
(***************************************************************************)
(* Cancellation.                                                           *)
(***************************************************************************)

\* What a check that its caller has cancelled may end with, in this step.
Heard(c) ==
    \/ verdict'[c] = "cancelled"
    \/ waitFor = "task" /\ pc[c] = "finished" /\ verdict'[c] = pending[c]
    \/ waitFor = "inline" /\ pc[c] = "release" /\ verdict'[c] = "raw"

\* Only from its finally clause on can a check be under way that its caller cancelled.
LEMMA CancelledEnds ==
    ASSUME IInv, [Next]_vars, NEW c \in Checks, cancelledBy'[c] = "caller",
           verdict[c] = "none", verdict'[c] # "none"
    PROVE  Heard(c)
  <1> USE DEF IInv, Sound, TypeOK, Heard, loopVars, callVars
  <1>1. cancelledBy[c] = "caller" /\ Running(c) => pc[c] = "release" /\ pending[c] = "cancelled"
    BY DEF Stopped
  <1>2. CASE Cancel(c)
    BY <1>1, <1>2 DEF Cancel, Interrupt, Finally, Stopped
  <1>3. CASE Release(c) \/ ReleaseFails(c)
    BY <1>1, <1>3, ClientAssumption DEF Release, ReleaseFails, Conclude, Forgotten
  <1>4. CASE Expire(c)
    BY <1>4 DEF Expire, Interrupt, Finally
  <1>5. CASE Return(c)
    BY <1>1, <1>5 DEF Return
  <1>6. CASE \/ NotSent(c) \/ SentOnClosed(c) \/ TransportFails(c) \/ RpcReturns(c)
             \/ ClosedUnder(c)
    BY <1>1, <1>6 DEF NotSent, SentOnClosed, TransportFails, RpcReturns, ClosedUnder
  <1>7. CASE \/ CredentialArrives(c) \/ Connects(c) \/ HeadersArrive(c) \/ PartArrives(c)
             \/ BodyEnds(c) \/ Judge(c)
    BY <1>7 DEF CredentialArrives, Connects, HeadersArrive, PartArrives, BodyEnds, Judge,
       Finally
  <1>8. CASE Close \/ Tick \/ Revise \/ UNCHANGED vars
    BY <1>8 DEF Close, Tick, Revise, vars
  <1>9. ASSUME NEW d \in Checks, Check(d)
        PROVE  FALSE
    BY <1>9 DEF Check
  <1>10. ASSUME NEW d \in Checks \ {c}, Serve(d)
         PROVE  FALSE
    BY <1>10, OthersAlone
  <1>11. QED
    BY <1>2, <1>3, <1>4, <1>5, <1>6, <1>7, <1>8, <1>9, <1>10 DEF Next, Serve, Connect

\* A cancelled caller hears of its cancellation, for every set of checks and both kinds of
\* client, unless _check is over already in a task of its own or closing a response fails
\* under an inline one.
THEOREM CancellationPropagates == Spec => CancellationHeard
  <1>1. IInv /\ [Next]_vars
          => \A c \in Checks :
               cancelledBy'[c] = "caller" /\ verdict[c] = "none" /\ verdict'[c] # "none"
                 => Heard(c)
    BY CancelledEnds
  <1>2. QED BY <1>1, Invariance, PTL DEF Spec, CancellationHeard, Heard

-----------------------------------------------------------------------------
(***************************************************************************)
(* Decisions.                                                              *)
(***************************************************************************)

\* A running check ends with an outcome that, if it is a decision, is the authority's
\* and inside the budget.
Ending(c, outcome) ==
    /\ Contract!End(c, outcome) /\ outcome # "none" /\ WordFor(c, outcome)
    /\ outcome \in {"granted", "denied"} => now <= begunAt[c] + Timeout

\* Nothing the contract is about changes.
Silent == UNCHANGED <<revision, claims, since, verdict>>

\* Every step of the client is one of these.
LEMMA StepsEnd ==
    ASSUME IInv, [Next]_vars
    PROVE  \/ Silent \/ Contract!Revise
           \/ \E c \in Checks : \/ Contract!Begin(c)
                                \/ \E outcome \in Outcomes : Ending(c, outcome)
  <1> USE DEF IInv, Sound, TypeOK, Silent, loopVars, callVars
  <1>1. ASSUME NEW c \in Checks, Check(c)
        PROVE  Contract!Begin(c)
    BY <1>1 DEF Check, Contract!Begin
  <1>2. ASSUME NEW c \in Checks, NotSent(c)
        PROVE  Silent \/ \E outcome \in Outcomes : Ending(c, outcome)
    BY <1>2, TimesAssumption DEF NotSent, Conclude, Ending, Contract!End, Ended,
       Judged, Backed, WordFor, Timed, Stopped
  <1>3. ASSUME NEW c \in Checks, SentOnClosed(c)
        PROVE  Silent \/ \E outcome \in Outcomes : Ending(c, outcome)
    BY <1>3, TimesAssumption DEF SentOnClosed, Conclude, Ending, Contract!End,
       Ended, Judged, Backed, WordFor, Timed, Stopped
  <1>4. ASSUME NEW c \in Checks, TransportFails(c)
        PROVE  Silent \/ \E outcome \in Outcomes : Ending(c, outcome)
    BY <1>4, TimesAssumption DEF TransportFails, Conclude, Finally, Ending,
       Contract!End, Ended, Judged, Backed, WordFor, Timed, Stopped
  <1>5. ASSUME NEW c \in Checks, Release(c)
        PROVE  Silent \/ \E outcome \in Outcomes : Ending(c, outcome)
    BY <1>5, TimesAssumption DEF Release, Conclude, Forgotten, Ending, Contract!End, Ended,
       Judged, Backed, WordFor, Timed, Stopped
  <1>6. ASSUME NEW c \in Checks, ReleaseFails(c)
        PROVE  Silent \/ \E outcome \in Outcomes : Ending(c, outcome)
    BY <1>6, TimesAssumption DEF ReleaseFails, Conclude, Forgotten, Ending, Contract!End,
       Ended, Judged, Backed, WordFor, Timed, Stopped
  <1>7. ASSUME NEW c \in Checks, RpcReturns(c)
        PROVE  Silent \/ \E outcome \in Outcomes : Ending(c, outcome)
    BY <1>7, DecisionsAreBacked, Verdicts, TimesAssumption DEF RpcReturns, Conclude,
       Ending, Contract!End, Ended, Judged, Backed, WordFor, Timed, Stopped
  <1>8. ASSUME NEW c \in Checks, ClosedUnder(c)
        PROVE  Silent \/ \E outcome \in Outcomes : Ending(c, outcome)
    BY <1>8, TimesAssumption DEF ClosedUnder, Conclude, Ending, Contract!End, Ended,
       Judged, Backed, WordFor, Timed, Stopped
  <1>9. ASSUME NEW c \in Checks, Return(c)
        PROVE  Silent \/ \E outcome \in Outcomes : Ending(c, outcome)
    <2>1. Ending(c, pending[c]) /\ pending[c] \in Outcomes
      BY <1>9, TimesAssumption DEF Return, Ending, Contract!End, Ended, Backed, WordFor,
         Timed, Stopped, Judged
    <2>2. QED BY <2>1
  <1>10. ASSUME NEW c \in Checks, Expire(c)
        PROVE  Silent \/ \E outcome \in Outcomes : Ending(c, outcome)
    BY <1>10, TimesAssumption DEF Expire, Interrupt, Finally, Ending, Contract!End,
       Ended, Judged, Backed, WordFor, Timed, Stopped
  <1>11. ASSUME NEW c \in Checks, Cancel(c)
        PROVE  Silent \/ \E outcome \in Outcomes : Ending(c, outcome)
    BY <1>11, TimesAssumption DEF Cancel, Interrupt, Finally, Ending, Contract!End,
       Ended, Judged, Backed, WordFor, Timed, Stopped
  <1>12. ASSUME NEW c \in Checks,
               \/ CredentialArrives(c) \/ Connects(c) \/ HeadersArrive(c)
               \/ PartArrives(c) \/ BodyEnds(c) \/ Judge(c)
        PROVE  Silent
    BY <1>12 DEF CredentialArrives, Connects, HeadersArrive, PartArrives, BodyEnds, Judge,
       Finally
  <1>13. Close \/ Tick \/ UNCHANGED vars => Silent
    BY DEF Close, Tick, vars
  <1>14. Revise => Contract!Revise
    BY DEF Revise, Contract!Revise
  <1>15. QED
    BY <1>1, <1>2, <1>3, <1>4, <1>5, <1>6, <1>7, <1>8, <1>9, <1>10, <1>11, <1>12,
       <1>13, <1>14 DEF Next, Serve, Connect

\* No step makes a decision outside the budget of its check.
LEMMA DecisionStep ==
    ASSUME IInv, [Next]_vars
    PROVE  \A c \in Checks :
             verdict'[c] # verdict[c] /\ verdict'[c] \in {"granted", "denied"}
               => now <= begunAt[c] + Timeout
  <1>1. CASE Silent
    BY <1>1 DEF Silent
  <1>2. CASE Contract!Revise
    BY <1>2 DEF Contract!Revise
  <1>3. ASSUME NEW d \in Checks, Contract!Begin(d), NEW c \in Checks
        PROVE  verdict'[c] \in {verdict[c], "none"}
    BY <1>3 DEF Contract!Begin, IInv, TypeOK
  <1>4. ASSUME NEW d \in Checks, NEW outcome \in Outcomes, Ending(d, outcome),
               NEW c \in Checks, verdict'[c] # verdict[c]
        PROVE  c = d /\ verdict'[c] = outcome
    BY <1>4 DEF Ending, Contract!End, IInv, TypeOK
  <1>5. QED BY <1>1, <1>2, <1>3, <1>4, StepsEnd DEF Ending

\* The authority's word is used within TIMEOUT of the call of check, whichever of its
\* awaits took the time.
THEOREM DecisionsInBudget == Spec => InBudget
  BY Invariance, DecisionStep, PTL DEF Spec, InBudget

\* The initial states of the client are the contract's.
LEMMA ContractInit == Init => Contract!AInit
  BY DEF Init, Contract!AInit

\* Every step of the client is a step of the contract or leaves it alone.
LEMMA ContractStep ==
    ASSUME IInv, [Next]_vars
    PROVE  [Contract!ANext]_(Contract!avars)
  <1>1. ASSUME NEW c \in Checks, NEW outcome \in Outcomes, Ending(c, outcome)
        PROVE  Contract!Grant(c) \/ Contract!Deny(c) \/ Contract!Undecided(c)
    <2>1. CASE outcome = "granted"
      <3>1. claims[c] \in since[c] .. revision
        BY <1>1, <2>1 DEF Ending, WordFor, IInv, TypeOK, Sound, Judged
      <3>2. QED BY <1>1, <2>1, <3>1 DEF Ending, Contract!Grant, Contract!Seen
    <2>2. CASE outcome = "denied"
      <3>1. \E r \in since[c] .. revision : r # claims[c]
        BY <1>1, <2>2 DEF Ending, WordFor, IInv, Sound, Judged
      <3>2. QED BY <1>1, <2>2, <3>1 DEF Ending, Contract!Deny, Contract!Seen
    <2>3. CASE outcome \in {"unavailable", "cancelled", "raw"}
      BY <1>1, <2>3 DEF Ending, Contract!Undecided
    <2>4. QED BY <1>1, <2>1, <2>2, <2>3 DEF Ending
  <1>2. Silent => UNCHANGED Contract!avars
    BY DEF Silent, Contract!avars
  <1>3. QED BY <1>1, <1>2, StepsEnd DEF Contract!ANext

\* The client implements its contract: a decision is the authority's own, about these
\* claims and made while this check ran.
THEOREM Refinement == Spec => ImplementsCurrentAuthority
  BY Invariance, ContractInit, ContractStep, PTL
     DEF Spec, ImplementsCurrentAuthority, Contract!ASpec

=============================================================================

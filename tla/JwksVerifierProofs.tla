------------------------- MODULE JwksVerifierProofs -------------------------
(* Theorems about JwksVerifier, for every set of threads and key ids, every *)
(* schedule of key sets and every lifetime, back-off and bound.             *)
EXTENDS JwksVerifier, TLAPS

(***************************************************************************)
(* The inductive invariant.                                                *)
(***************************************************************************)

\* A fetch is made with the lock held, and only then is there an answer; an
\* answer is published, and no older than the cache it is about to replace.
FetchLocked ==
    \A t \in Threads :
        /\ pc[t] \in FetchPcs => lock = t
        /\ reply[t] # 0 => pc[t] \in FetchPcs /\ verifier <= reply[t]
                           /\ reply[t] <= published

\* A key set is cached exactly from the first generation on.
CacheCounted == verifier <= published /\ (verifier = 0 <=> generation = 0)

\* The reservation is what limits both the unknown-key fetches of a window and
\* those begun inside a back-off.
BudgetKept ==
    /\ unknownFetches <= 1 /\ hurried <= 1
    /\ (unknownFetches = 1 \/ hurried = 1)
         => generation # 0 /\ unknownRefreshGeneration = generation
    /\ generation # 0 /\ unknownRefreshGeneration = generation => unknownFetches = 1
    /\ \A t \in Threads : pc[t] = "fetchUnknown" => unknownFetches = 1

\* The back-off is exactly the remembered failure's.
WindowKept ==
    /\ retryAfter = IF failedAt = Never THEN 0 ELSE failedAt + Backoff
    /\ lastError <=> failedAt # Never

\* What a call in progress holds, relative to the cache and the clock.
CallOK(t) ==
    /\ pc[t] \notin VerifyPcs => call[t] = NoCall
    /\ call[t].floor <= verifier /\ call[t].begunAt <= now
    /\ pc[t] \in {"unknown", "fetchUnknown"}
         => verifier # 0 /\ call[t].begunAt < expiresAt
    /\ pc[t] = "judge"
         => /\ call[t].floor <= call[t].epoch /\ call[t].epoch <= verifier
            /\ call[t].epoch # 0 /\ call[t].begunAt < call[t].until

CallKept == \A t \in Threads : CallOK(t)

IInv == TypeOK /\ FetchLocked /\ CacheCounted /\ BudgetKept /\ WindowKept /\ CallKept

LEMMA EpochsExist == MaxEpoch \in Nat /\ MaxEpoch >= 1
BY ScheduleAssumption DEF MaxEpoch

USE EpochsExist, TimesAssumption, BoundsAssumption, NoThreadAssumption, KeysAssumption

LEMMA NoCallTyped == NoCall \in Calls
BY DEF NoCall, Calls

LEMMA TypeInit == Init => TypeOK
<1> SUFFICES ASSUME Init PROVE TypeOK
  OBVIOUS
<1> USE DEF Init
<1>1. now \in Nat /\ published \in Epochs
  BY DEF Epochs
<1>2. lock \in Threads \union {NoThread} /\ verifier \in {0} \union Epochs
  OBVIOUS
<1>3. pc \in [Threads -> Pcs]
  BY DEF Pcs
<1>4. call \in [Threads -> Calls]
  BY NoCallTyped
<1>5. reply \in [Threads -> {0} \union Epochs]
  OBVIOUS
<1>6. verdict \in [Threads -> Verdicts]
  BY DEF Verdicts
<1> QED BY <1>1, <1>2, <1>3, <1>4, <1>5, <1>6 DEF TypeOK, Never

\* A thread that goes to a known place leaves pc typed.
LEMMA GoToTyped ==
    ASSUME TypeOK, NEW t \in Threads, NEW label \in Pcs, GoTo(t, label)
    PROVE  pc' \in [Threads -> Pcs]
BY DEF TypeOK, GoTo

\* A snapshot of a key set leaves the locals typed and keeps the question.
LEMMA SnapshotTyped ==
    ASSUME TypeOK, NEW t \in Threads, NEW epoch \in {0} \union Epochs,
           NEW gen \in Nat, NEW until \in Nat, Snapshot(t, epoch, gen, until)
    PROVE  /\ call' \in [Threads -> Calls]
           /\ \A u \in Threads \ {t} : call'[u] = call[u]
           /\ call'[t].kid = call[t].kid /\ call'[t].floor = call[t].floor
           /\ call'[t].begunAt = call[t].begunAt
           /\ call'[t].epoch = epoch /\ call'[t].generation = gen
           /\ call'[t].until = until
<1>1. call[t] \in Calls
  BY DEF TypeOK
<1> DEFINE new == [call[t] EXCEPT !.epoch = epoch, !.generation = gen, !.until = until]
<1>2. /\ new.kid = call[t].kid /\ new.floor = call[t].floor
      /\ new.begunAt = call[t].begunAt
      /\ new.epoch = epoch /\ new.generation = gen /\ new.until = until
      /\ new \in Calls
  BY <1>1 DEF Calls
<1>3. call' = [call EXCEPT ![t] = new]
  BY DEF Snapshot
<1> HIDE DEF new
<1> QED BY <1>2, <1>3 DEF TypeOK

\* Returning, normally or by an exception, leaves the thread typed.
LEMMA ReturnTyped ==
    ASSUME TypeOK, NEW t \in Threads, NEW v \in Verdicts, Return(t, v)
    PROVE  /\ pc' \in [Threads -> Pcs] /\ call' \in [Threads -> Calls]
           /\ verdict' \in [Threads -> Verdicts]
BY NoCallTyped DEF TypeOK, Return, GoTo, Pcs

LEMMA RaiseTyped ==
    ASSUME TypeOK, NEW t \in Threads, NEW v \in Verdicts, Raise(t, v)
    PROVE  /\ pc' \in [Threads -> Pcs] /\ call' \in [Threads -> Calls]
           /\ verdict' \in [Threads -> Verdicts]
<1>1. CASE pc[t] = "fetchRefresh"
  <2>1. GoTo(t, "idle") /\ UNCHANGED <<call, verdict>>
    BY <1>1 DEF Raise
  <2> QED BY <2>1, GoToTyped DEF TypeOK, Pcs
<1>2. CASE pc[t] # "fetchRefresh"
  BY <1>2, ReturnTyped DEF Raise
<1> QED BY <1>1, <1>2

\* Installing an answer leaves what it assigns typed.
LEMMA InstallTyped ==
    ASSUME TypeOK, NEW t \in Threads, reply[t] # 0, Install(t)
    PROVE  /\ verifier' \in Epochs /\ generation' = generation + 1
           /\ generation' \in Nat /\ expiresAt' = now + CacheTtl
           /\ expiresAt' \in Nat /\ retryAfter' = 0 /\ lastError' = FALSE
           /\ failedAt' = Never /\ brokenAt' = Never /\ hurried' = 0
           /\ lock' = NoThread /\ reply' \in [Threads -> {0} \union Epochs]
BY DEF TypeOK, Install, EndFetch

LEMMA TypeStep == TypeOK /\ [Next]_vars => TypeOK'
<1> SUFFICES ASSUME TypeOK, [Next]_vars PROVE TypeOK'
  OBVIOUS
<1>1. ASSUME NEW t \in Threads, BeginVerify(t) PROVE TypeOK'
  <2>1. PICK k \in KeyIds :
          call' = [call EXCEPT ![t] = [NoCall EXCEPT !.kid = k, !.floor = verifier,
                                                     !.begunAt = now]]
    BY <1>1 DEF BeginVerify
  <2>2. [NoCall EXCEPT !.kid = k, !.floor = verifier, !.begunAt = now] \in Calls
    <3>1. verifier \in Nat /\ now \in Nat
      BY DEF TypeOK, Epochs
    <3> QED BY <3>1 DEF NoCall, Calls
  <2>3. call' \in [Threads -> Calls]
    BY <2>1, <2>2 DEF TypeOK
  <2>4. pc' \in [Threads -> Pcs]
    BY <1>1, GoToTyped DEF BeginVerify, Pcs, VerifyPcs
  <2> QED BY <1>1, <2>3, <2>4 DEF BeginVerify, TypeOK, cacheVars, memory, Verdicts
<1>2. ASSUME NEW t \in Threads, RejectUndecodable(t) PROVE TypeOK'
  BY <1>2 DEF RejectUndecodable, TypeOK, cacheVars, memory, Verdicts
<1>3. ASSUME NEW t \in Threads, CurrentFromCache(t) PROVE TypeOK'
  <2>1. pc' \in [Threads -> Pcs]
    BY <1>3, GoToTyped DEF CurrentFromCache, AfterCurrent, Pcs, VerifyPcs
  <2>2. call' \in [Threads -> Calls]
    BY <1>3, SnapshotTyped DEF CurrentFromCache, TypeOK
  <2> QED BY <1>3, <2>1, <2>2 DEF CurrentFromCache, TypeOK, cacheVars, memory
<1>4. ASSUME NEW t \in Threads, CurrentHoldsFailure(t) PROVE TypeOK'
  BY <1>4, ReturnTyped
     DEF CurrentHoldsFailure, TypeOK, cacheVars, memory, Verdicts
<1>5. ASSUME NEW t \in Threads, CurrentStartsFetch(t) PROVE TypeOK'
  <2>1. pc' \in [Threads -> Pcs]
    BY <1>5, GoToTyped DEF CurrentStartsFetch, StartFetch, Pcs, FetchPcs
  <2> QED BY <1>5, <2>1
          DEF CurrentStartsFetch, StartFetch, CountHurried, TypeOK, cacheVars
<1>6. ASSUME NEW t \in Threads, CurrentInstalls(t) PROVE TypeOK'
  <2>1. reply[t] # 0 /\ Install(t)
    BY <1>6 DEF CurrentInstalls
  <2>2. pc' \in [Threads -> Pcs]
    BY <1>6, GoToTyped DEF CurrentInstalls, AfterCurrent, Pcs, VerifyPcs
  <2>3. reply[t] \in {0} \union Epochs /\ generation + 1 \in Nat /\ now + CacheTtl \in Nat
    BY DEF TypeOK
  <2>4. Snapshot(t, reply[t], generation + 1, now + CacheTtl)
    BY <1>6 DEF CurrentInstalls
  <2>5. call' \in [Threads -> Calls]
    BY <2>3, <2>4, SnapshotTyped
  <2>6. /\ verifier' \in Epochs /\ generation' \in Nat /\ expiresAt' \in Nat
        /\ retryAfter' = 0 /\ lastError' = FALSE
        /\ failedAt' = Never /\ brokenAt' = Never /\ hurried' = 0
        /\ lock' = NoThread /\ reply' \in [Threads -> {0} \union Epochs]
    BY <2>1, InstallTyped
  <2> QED BY <1>6, <2>2, <2>3, <2>5, <2>6 DEF CurrentInstalls, TypeOK
<1>7. ASSUME NEW t \in Threads, UnknownFromCache(t) PROVE TypeOK'
  <2>1. pc' \in [Threads -> Pcs]
    BY <1>7, GoToTyped DEF UnknownFromCache, Pcs, VerifyPcs
  <2>2. call' \in [Threads -> Calls]
    BY <1>7, SnapshotTyped DEF UnknownFromCache, TypeOK
  <2> QED BY <1>7, <2>1, <2>2 DEF UnknownFromCache, TypeOK, cacheVars, memory
<1>8. ASSUME NEW t \in Threads, UnknownStartsFetch(t) PROVE TypeOK'
  <2>1. pc' \in [Threads -> Pcs]
    BY <1>8, GoToTyped DEF UnknownStartsFetch, StartFetch, Pcs, FetchPcs
  <2> QED BY <1>8, <2>1
          DEF UnknownStartsFetch, StartFetch, CountHurried, TypeOK, cacheVars
<1>9. ASSUME NEW t \in Threads, UnknownInstalls(t) PROVE TypeOK'
  <2>1. reply[t] # 0 /\ Install(t)
    BY <1>9 DEF UnknownInstalls
  <2>2. pc' \in [Threads -> Pcs]
    BY <1>9, GoToTyped DEF UnknownInstalls, Pcs, VerifyPcs
  <2>3. reply[t] \in {0} \union Epochs /\ generation + 1 \in Nat /\ now + CacheTtl \in Nat
    BY DEF TypeOK
  <2>4. Snapshot(t, reply[t], generation + 1, now + CacheTtl)
    BY <1>9 DEF UnknownInstalls
  <2>5. call' \in [Threads -> Calls]
    BY <2>3, <2>4, SnapshotTyped
  <2>6. /\ verifier' \in Epochs /\ generation' \in Nat /\ expiresAt' \in Nat
        /\ retryAfter' = 0 /\ lastError' = FALSE
        /\ failedAt' = Never /\ brokenAt' = Never /\ hurried' = 0
        /\ lock' = NoThread /\ reply' \in [Threads -> {0} \union Epochs]
    BY <2>1, InstallTyped
  <2> QED BY <1>9, <2>2, <2>3, <2>5, <2>6 DEF UnknownInstalls, TypeOK
<1>10. ASSUME NEW t \in Threads, Judge(t) PROVE TypeOK'
  <2>1. PICK v \in {"accepted", "rejected"} : Return(t, v)
    BY <1>10 DEF Judge
  <2>2. v \in Verdicts
    BY DEF Verdicts
  <2> QED BY <1>10, <2>1, <2>2, ReturnTyped DEF Judge, TypeOK, cacheVars, memory
<1>11. ASSUME NEW t \in Threads, BeginRefresh(t) PROVE TypeOK'
  BY <1>11, GoToTyped DEF BeginRefresh, TypeOK, Pcs, cacheVars, memory
<1>12. ASSUME NEW t \in Threads, RefreshStartsFetch(t) PROVE TypeOK'
  BY <1>12, GoToTyped
     DEF RefreshStartsFetch, StartFetch, TypeOK, Pcs, FetchPcs, cacheVars, memory
<1>13. ASSUME NEW t \in Threads, RefreshInstalls(t) PROVE TypeOK'
  <2>1. reply[t] # 0 /\ Install(t)
    BY <1>13 DEF RefreshInstalls
  <2>2. pc' \in [Threads -> Pcs]
    BY <1>13, GoToTyped DEF RefreshInstalls, Pcs
  <2>3. /\ verifier' \in Epochs /\ generation' \in Nat /\ expiresAt' \in Nat
        /\ retryAfter' = 0 /\ lastError' = FALSE
        /\ failedAt' = Never /\ brokenAt' = Never /\ hurried' = 0
        /\ lock' = NoThread /\ reply' \in [Threads -> {0} \union Epochs]
    BY <2>1, InstallTyped
  <2> QED BY <1>13, <2>2, <2>3 DEF RefreshInstalls, TypeOK
<1>14. ASSUME NEW t \in Threads, FetchFails(t) PROVE TypeOK'
  BY <1>14, RaiseTyped DEF FetchFails, EndFetch, TypeOK, Verdicts
<1>15. ASSUME NEW t \in Threads, FetchBreaks(t) PROVE TypeOK'
  BY <1>15, RaiseTyped DEF FetchBreaks, EndFetch, TypeOK, Verdicts, cacheVars
<1>16. ASSUME NEW t \in Threads, Answer(t) PROVE TypeOK'
  BY <1>16 DEF Answer, TypeOK, cacheVars, memory
<1>17. CASE Tick
  BY <1>17 DEF Tick, TypeOK, cacheVars, memory
<1>18. CASE Rotate
  BY <1>18 DEF Rotate, TypeOK, Epochs, cacheVars, memory
<1>19. CASE UNCHANGED vars
  BY <1>19 DEF vars, TypeOK, cacheVars, memory
<1> QED BY <1>1, <1>2, <1>3, <1>4, <1>5, <1>6, <1>7, <1>8, <1>9, <1>10, <1>11, <1>12,
           <1>13, <1>14, <1>15, <1>16, <1>17, <1>18, <1>19
        DEF Next, Begin, Step, Quiescent

LEMMA FetchLockedStep == TypeOK /\ FetchLocked /\ CacheCounted /\ [Next]_vars => FetchLocked'
<1> SUFFICES ASSUME TypeOK, FetchLocked, CacheCounted, [Next]_vars PROVE FetchLocked'
  OBVIOUS
<1> USE DEF TypeOK, FetchLocked, CacheCounted, FetchPcs, Epochs
<1>1. ASSUME NEW t \in Threads, BeginVerify(t) PROVE FetchLocked'
  BY <1>1 DEF BeginVerify, GoTo, cacheVars, memory
<1>2. ASSUME NEW t \in Threads, RejectUndecodable(t) PROVE FetchLocked'
  BY <1>2 DEF RejectUndecodable, cacheVars, memory
<1>3. ASSUME NEW t \in Threads, CurrentFromCache(t) PROVE FetchLocked'
  BY <1>3 DEF CurrentFromCache, GoTo, Snapshot, AfterCurrent, cacheVars, memory
<1>4. ASSUME NEW t \in Threads, CurrentHoldsFailure(t) PROVE FetchLocked'
  BY <1>4 DEF CurrentHoldsFailure, Return, GoTo, cacheVars, memory
<1>5. ASSUME NEW t \in Threads, CurrentStartsFetch(t) PROVE FetchLocked'
  BY <1>5 DEF CurrentStartsFetch, StartFetch, GoTo, CountHurried, cacheVars, memory
<1>6. ASSUME NEW t \in Threads, CurrentInstalls(t) PROVE FetchLocked'
  BY <1>6 DEF CurrentInstalls, Install, EndFetch, GoTo, Snapshot, AfterCurrent, cacheVars, memory
<1>7. ASSUME NEW t \in Threads, UnknownFromCache(t) PROVE FetchLocked'
  BY <1>7 DEF UnknownFromCache, GoTo, Snapshot, cacheVars, memory
<1>8. ASSUME NEW t \in Threads, UnknownStartsFetch(t) PROVE FetchLocked'
  BY <1>8 DEF UnknownStartsFetch, StartFetch, GoTo, CountHurried, cacheVars, memory
<1>9. ASSUME NEW t \in Threads, UnknownInstalls(t) PROVE FetchLocked'
  BY <1>9 DEF UnknownInstalls, Install, EndFetch, GoTo, Snapshot, cacheVars, memory
<1>10. ASSUME NEW t \in Threads, Judge(t) PROVE FetchLocked'
  BY <1>10 DEF Judge, Return, GoTo, cacheVars, memory
<1>11. ASSUME NEW t \in Threads, BeginRefresh(t) PROVE FetchLocked'
  BY <1>11 DEF BeginRefresh, GoTo, cacheVars, memory
<1>12. ASSUME NEW t \in Threads, RefreshStartsFetch(t) PROVE FetchLocked'
  BY <1>12 DEF RefreshStartsFetch, StartFetch, GoTo, cacheVars, memory
<1>13. ASSUME NEW t \in Threads, RefreshInstalls(t) PROVE FetchLocked'
  BY <1>13 DEF RefreshInstalls, Install, EndFetch, GoTo, cacheVars, memory
<1>14. ASSUME NEW t \in Threads, FetchFails(t) PROVE FetchLocked'
  BY <1>14 DEF FetchFails, EndFetch, Raise, Return, GoTo, cacheVars, memory
<1>15. ASSUME NEW t \in Threads, FetchBreaks(t) PROVE FetchLocked'
  BY <1>15 DEF FetchBreaks, EndFetch, Raise, Return, GoTo, cacheVars, memory
<1>16. ASSUME NEW t \in Threads, Answer(t) PROVE FetchLocked'
  BY <1>16 DEF Answer, cacheVars, memory
<1>17. CASE Tick
  BY <1>17 DEF Tick, cacheVars, memory
<1>18. CASE Rotate
  BY <1>18 DEF Rotate, cacheVars, memory
<1>19. CASE UNCHANGED vars
  BY <1>19 DEF vars, cacheVars, memory
<1> QED BY <1>1, <1>2, <1>3, <1>4, <1>5, <1>6, <1>7, <1>8, <1>9, <1>10, <1>11, <1>12, <1>13, <1>14, <1>15, <1>16, <1>17, <1>18, <1>19
        DEF Next, Begin, Step, Quiescent

LEMMA CacheCountedStep == TypeOK /\ FetchLocked /\ CacheCounted /\ [Next]_vars => CacheCounted'
<1> SUFFICES ASSUME TypeOK, FetchLocked, CacheCounted, [Next]_vars PROVE CacheCounted'
  OBVIOUS
<1> USE DEF TypeOK, FetchLocked, CacheCounted, Epochs
<1>1. ASSUME NEW t \in Threads, BeginVerify(t) PROVE CacheCounted'
  BY <1>1 DEF BeginVerify, GoTo, cacheVars, memory
<1>2. ASSUME NEW t \in Threads, RejectUndecodable(t) PROVE CacheCounted'
  BY <1>2 DEF RejectUndecodable, cacheVars, memory
<1>3. ASSUME NEW t \in Threads, CurrentFromCache(t) PROVE CacheCounted'
  BY <1>3 DEF CurrentFromCache, GoTo, Snapshot, AfterCurrent, cacheVars, memory
<1>4. ASSUME NEW t \in Threads, CurrentHoldsFailure(t) PROVE CacheCounted'
  BY <1>4 DEF CurrentHoldsFailure, Return, GoTo, cacheVars, memory
<1>5. ASSUME NEW t \in Threads, CurrentStartsFetch(t) PROVE CacheCounted'
  BY <1>5 DEF CurrentStartsFetch, StartFetch, GoTo, CountHurried, cacheVars, memory
<1>6. ASSUME NEW t \in Threads, CurrentInstalls(t) PROVE CacheCounted'
  BY <1>6 DEF CurrentInstalls, Install, EndFetch, GoTo, Snapshot, AfterCurrent, cacheVars, memory
<1>7. ASSUME NEW t \in Threads, UnknownFromCache(t) PROVE CacheCounted'
  BY <1>7 DEF UnknownFromCache, GoTo, Snapshot, cacheVars, memory
<1>8. ASSUME NEW t \in Threads, UnknownStartsFetch(t) PROVE CacheCounted'
  BY <1>8 DEF UnknownStartsFetch, StartFetch, GoTo, CountHurried, cacheVars, memory
<1>9. ASSUME NEW t \in Threads, UnknownInstalls(t) PROVE CacheCounted'
  BY <1>9 DEF UnknownInstalls, Install, EndFetch, GoTo, Snapshot, cacheVars, memory
<1>10. ASSUME NEW t \in Threads, Judge(t) PROVE CacheCounted'
  BY <1>10 DEF Judge, Return, GoTo, cacheVars, memory
<1>11. ASSUME NEW t \in Threads, BeginRefresh(t) PROVE CacheCounted'
  BY <1>11 DEF BeginRefresh, GoTo, cacheVars, memory
<1>12. ASSUME NEW t \in Threads, RefreshStartsFetch(t) PROVE CacheCounted'
  BY <1>12 DEF RefreshStartsFetch, StartFetch, GoTo, cacheVars, memory
<1>13. ASSUME NEW t \in Threads, RefreshInstalls(t) PROVE CacheCounted'
  BY <1>13 DEF RefreshInstalls, Install, EndFetch, GoTo, cacheVars, memory
<1>14. ASSUME NEW t \in Threads, FetchFails(t) PROVE CacheCounted'
  BY <1>14 DEF FetchFails, EndFetch, Raise, Return, GoTo, cacheVars, memory
<1>15. ASSUME NEW t \in Threads, FetchBreaks(t) PROVE CacheCounted'
  BY <1>15 DEF FetchBreaks, EndFetch, Raise, Return, GoTo, cacheVars, memory
<1>16. ASSUME NEW t \in Threads, Answer(t) PROVE CacheCounted'
  BY <1>16 DEF Answer, cacheVars, memory
<1>17. CASE Tick
  BY <1>17 DEF Tick, cacheVars, memory
<1>18. CASE Rotate
  BY <1>18 DEF Rotate, cacheVars, memory
<1>19. CASE UNCHANGED vars
  BY <1>19 DEF vars, cacheVars, memory
<1> QED BY <1>1, <1>2, <1>3, <1>4, <1>5, <1>6, <1>7, <1>8, <1>9, <1>10, <1>11, <1>12, <1>13, <1>14, <1>15, <1>16, <1>17, <1>18, <1>19
        DEF Next, Begin, Step, Quiescent

LEMMA WindowKeptStep == TypeOK /\ WindowKept /\ [Next]_vars => WindowKept'
<1> SUFFICES ASSUME TypeOK, WindowKept, [Next]_vars PROVE WindowKept'
  OBVIOUS
<1> USE DEF TypeOK, WindowKept, Never
<1>1. ASSUME NEW t \in Threads, BeginVerify(t) PROVE WindowKept'
  BY <1>1 DEF BeginVerify, GoTo, cacheVars, memory
<1>2. ASSUME NEW t \in Threads, RejectUndecodable(t) PROVE WindowKept'
  BY <1>2 DEF RejectUndecodable, cacheVars, memory
<1>3. ASSUME NEW t \in Threads, CurrentFromCache(t) PROVE WindowKept'
  BY <1>3 DEF CurrentFromCache, GoTo, Snapshot, AfterCurrent, cacheVars, memory
<1>4. ASSUME NEW t \in Threads, CurrentHoldsFailure(t) PROVE WindowKept'
  BY <1>4 DEF CurrentHoldsFailure, Return, GoTo, cacheVars, memory
<1>5. ASSUME NEW t \in Threads, CurrentStartsFetch(t) PROVE WindowKept'
  BY <1>5 DEF CurrentStartsFetch, StartFetch, GoTo, CountHurried, cacheVars, memory
<1>6. ASSUME NEW t \in Threads, CurrentInstalls(t) PROVE WindowKept'
  BY <1>6 DEF CurrentInstalls, Install, EndFetch, GoTo, Snapshot, AfterCurrent, cacheVars, memory
<1>7. ASSUME NEW t \in Threads, UnknownFromCache(t) PROVE WindowKept'
  BY <1>7 DEF UnknownFromCache, GoTo, Snapshot, cacheVars, memory
<1>8. ASSUME NEW t \in Threads, UnknownStartsFetch(t) PROVE WindowKept'
  BY <1>8 DEF UnknownStartsFetch, StartFetch, GoTo, CountHurried, cacheVars, memory
<1>9. ASSUME NEW t \in Threads, UnknownInstalls(t) PROVE WindowKept'
  BY <1>9 DEF UnknownInstalls, Install, EndFetch, GoTo, Snapshot, cacheVars, memory
<1>10. ASSUME NEW t \in Threads, Judge(t) PROVE WindowKept'
  BY <1>10 DEF Judge, Return, GoTo, cacheVars, memory
<1>11. ASSUME NEW t \in Threads, BeginRefresh(t) PROVE WindowKept'
  BY <1>11 DEF BeginRefresh, GoTo, cacheVars, memory
<1>12. ASSUME NEW t \in Threads, RefreshStartsFetch(t) PROVE WindowKept'
  BY <1>12 DEF RefreshStartsFetch, StartFetch, GoTo, cacheVars, memory
<1>13. ASSUME NEW t \in Threads, RefreshInstalls(t) PROVE WindowKept'
  BY <1>13 DEF RefreshInstalls, Install, EndFetch, GoTo, cacheVars, memory
<1>14. ASSUME NEW t \in Threads, FetchFails(t) PROVE WindowKept'
  BY <1>14 DEF FetchFails, EndFetch, Raise, Return, GoTo, cacheVars, memory
<1>15. ASSUME NEW t \in Threads, FetchBreaks(t) PROVE WindowKept'
  BY <1>15 DEF FetchBreaks, EndFetch, Raise, Return, GoTo, cacheVars, memory
<1>16. ASSUME NEW t \in Threads, Answer(t) PROVE WindowKept'
  BY <1>16 DEF Answer, cacheVars, memory
<1>17. CASE Tick
  BY <1>17 DEF Tick, cacheVars, memory
<1>18. CASE Rotate
  BY <1>18 DEF Rotate, cacheVars, memory
<1>19. CASE UNCHANGED vars
  BY <1>19 DEF vars, cacheVars, memory
<1> QED BY <1>1, <1>2, <1>3, <1>4, <1>5, <1>6, <1>7, <1>8, <1>9, <1>10, <1>11, <1>12, <1>13, <1>14, <1>15, <1>16, <1>17, <1>18, <1>19
        DEF Next, Begin, Step, Quiescent

LEMMA BudgetKeptStep == TypeOK /\ FetchLocked /\ CacheCounted /\ BudgetKept /\ WindowKept /\ CallKept /\ [Next]_vars => BudgetKept'
<1> SUFFICES ASSUME TypeOK, FetchLocked, CacheCounted, BudgetKept, WindowKept, CallKept, [Next]_vars PROVE BudgetKept'
  OBVIOUS
<1> USE DEF TypeOK, FetchLocked, CacheCounted, BudgetKept, FetchPcs, Epochs
<1>1. ASSUME NEW t \in Threads, BeginVerify(t) PROVE BudgetKept'
  BY <1>1 DEF BeginVerify, GoTo, cacheVars, memory
<1>2. ASSUME NEW t \in Threads, RejectUndecodable(t) PROVE BudgetKept'
  BY <1>2 DEF RejectUndecodable, cacheVars, memory
<1>3. ASSUME NEW t \in Threads, CurrentFromCache(t) PROVE BudgetKept'
  BY <1>3 DEF CurrentFromCache, GoTo, Snapshot, AfterCurrent, cacheVars, memory
<1>4. ASSUME NEW t \in Threads, CurrentHoldsFailure(t) PROVE BudgetKept'
  BY <1>4 DEF CurrentHoldsFailure, Return, GoTo, cacheVars, memory
<1>5. ASSUME NEW t \in Threads, CurrentStartsFetch(t) PROVE BudgetKept'
  BY <1>5 DEF CurrentStartsFetch, WindowKept, WindowOpen, FailureHeld, Never, StartFetch, GoTo, CountHurried, cacheVars, memory
<1>6. ASSUME NEW t \in Threads, CurrentInstalls(t) PROVE BudgetKept'
  BY <1>6 DEF CurrentInstalls, Install, EndFetch, GoTo, Snapshot, AfterCurrent, cacheVars, memory
<1>7. ASSUME NEW t \in Threads, UnknownFromCache(t) PROVE BudgetKept'
  BY <1>7 DEF UnknownFromCache, GoTo, Snapshot, cacheVars, memory
<1>8. ASSUME NEW t \in Threads, UnknownStartsFetch(t) PROVE BudgetKept'
  BY <1>8 DEF UnknownStartsFetch, CallKept, CallOK, UnknownBudgetSpent, CacheMoved, StartFetch, GoTo, CountHurried, cacheVars, memory
<1>9. ASSUME NEW t \in Threads, UnknownInstalls(t) PROVE BudgetKept'
  BY <1>9 DEF UnknownInstalls, Install, EndFetch, GoTo, Snapshot, cacheVars, memory
<1>10. ASSUME NEW t \in Threads, Judge(t) PROVE BudgetKept'
  BY <1>10 DEF Judge, Return, GoTo, cacheVars, memory
<1>11. ASSUME NEW t \in Threads, BeginRefresh(t) PROVE BudgetKept'
  BY <1>11 DEF BeginRefresh, GoTo, cacheVars, memory
<1>12. ASSUME NEW t \in Threads, RefreshStartsFetch(t) PROVE BudgetKept'
  BY <1>12 DEF RefreshStartsFetch, StartFetch, GoTo, cacheVars, memory
<1>13. ASSUME NEW t \in Threads, RefreshInstalls(t) PROVE BudgetKept'
  BY <1>13 DEF RefreshInstalls, Install, EndFetch, GoTo, cacheVars, memory
<1>14. ASSUME NEW t \in Threads, FetchFails(t) PROVE BudgetKept'
  BY <1>14 DEF FetchFails, EndFetch, Raise, Return, GoTo, cacheVars, memory
<1>15. ASSUME NEW t \in Threads, FetchBreaks(t) PROVE BudgetKept'
  BY <1>15 DEF FetchBreaks, EndFetch, Raise, Return, GoTo, cacheVars, memory
<1>16. ASSUME NEW t \in Threads, Answer(t) PROVE BudgetKept'
  BY <1>16 DEF Answer, cacheVars, memory
<1>17. CASE Tick
  BY <1>17 DEF Tick, cacheVars, memory
<1>18. CASE Rotate
  BY <1>18 DEF Rotate, cacheVars, memory
<1>19. CASE UNCHANGED vars
  BY <1>19 DEF vars, cacheVars, memory
<1> QED BY <1>1, <1>2, <1>3, <1>4, <1>5, <1>6, <1>7, <1>8, <1>9, <1>10, <1>11, <1>12, <1>13, <1>14, <1>15, <1>16, <1>17, <1>18, <1>19
        DEF Next, Begin, Step, Quiescent

LEMMA NoCallFields ==
    NoCall.floor = 0 /\ NoCall.begunAt = 0 /\ NoCall.kid = NoKey
BY DEF NoCall

LEMMA CallFields ==
    ASSUME TypeOK, NEW t \in Threads
    PROVE  /\ call[t].floor \in Nat /\ call[t].begunAt \in Nat /\ call[t].until \in Nat
           /\ call[t].epoch \in Nat /\ call[t].generation \in Nat
           /\ call[t].kid \in KeyIds \union {NoKey}
BY DEF TypeOK, Calls, Epochs

LEMMA CacheTyped ==
    TypeOK => /\ verifier \in Nat /\ expiresAt \in Nat /\ now \in Nat
              /\ published \in Nat /\ generation \in Nat
BY DEF TypeOK, Epochs

\* The cache and the clock after a step: nothing a call relies on is undone.
CacheAdvances ==
    /\ verifier <= verifier' /\ now <= now'
    /\ expiresAt' = expiresAt \/ expiresAt' = now + CacheTtl

\* A thread that does not move keeps CallOK.
LEMMA CallUnmoved ==
    ASSUME TypeOK, TypeOK', NEW t \in Threads, CallOK(t), CacheAdvances,
           pc'[t] = pc[t], call'[t] = call[t]
    PROVE  CallOK(t)'
<1>1. verifier' \in Nat /\ expiresAt' \in Nat /\ now' \in Nat
  BY DEF TypeOK, Epochs
<1> QED BY <1>1, CallFields, CacheTyped, TimesAssumption DEF CallOK, CacheAdvances

\* Nor does a thread that goes from one place to another with the same locals.
LEMMA CallMoved ==
    ASSUME TypeOK, TypeOK', NEW t \in Threads, CallOK(t), CacheAdvances,
           call'[t] = call[t],
           \/ pc[t] = "idle" /\ pc'[t] = "refresh"
           \/ pc[t] = "current" /\ pc'[t] = "fetchCurrent"
           \/ pc[t] = "unknown" /\ pc'[t] = "fetchUnknown"
           \/ pc[t] = "refresh" /\ pc'[t] = "fetchRefresh"
           \/ pc[t] = "fetchRefresh" /\ pc'[t] = "idle"
    PROVE  CallOK(t)'
<1>1. verifier' \in Nat /\ expiresAt' \in Nat /\ now' \in Nat
  BY DEF TypeOK, Epochs
<1> QED BY <1>1, CallFields, CacheTyped, TimesAssumption DEF CallOK, CacheAdvances, VerifyPcs

\* A call that is over holds nothing.
LEMMA CallOver ==
    ASSUME TypeOK', NEW t \in Threads, pc'[t] = "idle", call'[t] = NoCall
    PROVE  CallOK(t)'
BY NoCallFields, CacheTyped DEF CallOK, VerifyPcs, TypeOK, Epochs

\* Every step of the specification lets the cache and the clock advance.
LEMMA StepAdvances ==
    ASSUME TypeOK, FetchLocked, CacheCounted, [Next]_vars PROVE CacheAdvances
<1> USE DEF TypeOK, FetchLocked, CacheAdvances, Epochs
<1>1. ASSUME NEW t \in Threads, BeginVerify(t) PROVE CacheAdvances
  BY <1>1 DEF BeginVerify, cacheVars
<1>2. ASSUME NEW t \in Threads, RejectUndecodable(t) PROVE CacheAdvances
  BY <1>2 DEF RejectUndecodable, cacheVars
<1>3. ASSUME NEW t \in Threads, CurrentFromCache(t) PROVE CacheAdvances
  BY <1>3 DEF CurrentFromCache, cacheVars
<1>4. ASSUME NEW t \in Threads, CurrentHoldsFailure(t) PROVE CacheAdvances
  BY <1>4 DEF CurrentHoldsFailure, cacheVars
<1>5. ASSUME NEW t \in Threads, CurrentStartsFetch(t) PROVE CacheAdvances
  BY <1>5 DEF CurrentStartsFetch, cacheVars
<1>6. ASSUME NEW t \in Threads, CurrentInstalls(t) PROVE CacheAdvances
  BY <1>6 DEF CurrentInstalls, Install
<1>7. ASSUME NEW t \in Threads, UnknownFromCache(t) PROVE CacheAdvances
  BY <1>7 DEF UnknownFromCache, cacheVars
<1>8. ASSUME NEW t \in Threads, UnknownStartsFetch(t) PROVE CacheAdvances
  BY <1>8 DEF UnknownStartsFetch, cacheVars
<1>9. ASSUME NEW t \in Threads, UnknownInstalls(t) PROVE CacheAdvances
  BY <1>9 DEF UnknownInstalls, Install
<1>10. ASSUME NEW t \in Threads, Judge(t) PROVE CacheAdvances
  BY <1>10 DEF Judge, cacheVars
<1>11. ASSUME NEW t \in Threads, BeginRefresh(t) PROVE CacheAdvances
  BY <1>11 DEF BeginRefresh, cacheVars
<1>12. ASSUME NEW t \in Threads, RefreshStartsFetch(t) PROVE CacheAdvances
  BY <1>12 DEF RefreshStartsFetch, cacheVars
<1>13. ASSUME NEW t \in Threads, RefreshInstalls(t) PROVE CacheAdvances
  BY <1>13 DEF RefreshInstalls, Install
<1>14. ASSUME NEW t \in Threads, FetchFails(t) PROVE CacheAdvances
  BY <1>14 DEF FetchFails, cacheVars
<1>15. ASSUME NEW t \in Threads, FetchBreaks(t) PROVE CacheAdvances
  BY <1>15 DEF FetchBreaks, cacheVars
<1>16. ASSUME NEW t \in Threads, Answer(t) PROVE CacheAdvances
  BY <1>16 DEF Answer, cacheVars
<1>17. CASE Tick
  BY <1>17 DEF Tick, cacheVars
<1>18. CASE Rotate
  BY <1>18 DEF Rotate, cacheVars
<1>19. CASE UNCHANGED vars
  BY <1>19 DEF vars, cacheVars
<1> QED BY <1>1, <1>2, <1>3, <1>4, <1>5, <1>6, <1>7, <1>8, <1>9, <1>10, <1>11, <1>12,
           <1>13, <1>14, <1>15, <1>16, <1>17, <1>18, <1>19
        DEF Next, Begin, Step, Quiescent

LEMMA CallKeptStep ==
    ASSUME TypeOK, FetchLocked, CacheCounted, CallKept, [Next]_vars PROVE CallKept'
<1>0. CacheAdvances /\ TypeOK'
  BY StepAdvances, TypeStep
<1>a. ASSUME NEW t \in Threads, Begin(t) \/ Step(t) \/ Answer(t), CallOK(t)',
             \A u \in Threads \ {t} : pc'[u] = pc[u] /\ call'[u] = call[u]
      PROVE  CallKept'
  <2>1. \A u \in Threads \ {t} : CallOK(u)'
    BY <1>0, <1>a, CallUnmoved DEF CallKept
  <2> QED BY <1>a, <2>1 DEF CallKept
<1>1. ASSUME NEW t \in Threads, BeginVerify(t) PROVE CallKept'
  <2>0. \A u \in Threads \ {t} : pc'[u] = pc[u] /\ call'[u] = call[u]
    BY <1>1 DEF BeginVerify, TypeOK, GoTo
  <2>1. CallOK(t)'
    <3>1. pc'[t] = "current" /\ call'[t].floor = verifier /\ call'[t].begunAt = now
      BY <1>1 DEF BeginVerify, TypeOK, GoTo, NoCall
    <3>2. verifier' = verifier /\ now' = now
      BY <1>1 DEF BeginVerify, cacheVars
    <3> QED BY <3>1, <3>2, CacheTyped DEF CallOK, VerifyPcs
  <2> QED BY <1>a, <1>1, <2>0, <2>1 DEF Begin, Step
<1>2. ASSUME NEW t \in Threads, RejectUndecodable(t) PROVE CallKept'
  <2>0. UNCHANGED <<pc, call>>
    BY <1>2 DEF RejectUndecodable
  <2> QED BY <1>0, <2>0, CallUnmoved DEF CallKept
<1>3. ASSUME NEW t \in Threads, CurrentFromCache(t) PROVE CallKept'
  <2>0. \A u \in Threads \ {t} : pc'[u] = pc[u] /\ call'[u] = call[u]
    BY <1>3 DEF CurrentFromCache, TypeOK, GoTo, Snapshot
  <2>1. CallOK(t)'
    <3>1. pc'[t] \in {"judge", "unknown"}
      BY <1>3 DEF CurrentFromCache, TypeOK, GoTo, AfterCurrent
    <3>2. Snapshot(t, verifier, generation, expiresAt) /\ CacheFresh
          /\ verifier' = verifier /\ expiresAt' = expiresAt /\ now' = now
      BY <1>3 DEF CurrentFromCache, cacheVars
    <3>3. /\ call'[t].floor = call[t].floor /\ call'[t].begunAt = call[t].begunAt
          /\ call'[t].epoch = verifier /\ call'[t].until = expiresAt
      BY <3>2, SnapshotTyped DEF TypeOK
    <3>4. CallOK(t)
      BY DEF CallKept
    <3> QED BY <3>1, <3>2, <3>3, <3>4, CallFields, CacheTyped
            DEF CallOK, CacheFresh, VerifyPcs
  <2> QED BY <1>a, <1>3, <2>0, <2>1 DEF Begin, Step
<1>4. ASSUME NEW t \in Threads, CurrentHoldsFailure(t) PROVE CallKept'
  <2>0. \A u \in Threads \ {t} : pc'[u] = pc[u] /\ call'[u] = call[u]
    BY <1>4 DEF CurrentHoldsFailure, TypeOK, Return, GoTo
  <2>1. CallOK(t)'
    <3>1. pc'[t] = "idle" /\ call'[t] = NoCall
      BY <1>4 DEF CurrentHoldsFailure, TypeOK, Return, GoTo
    <3> QED BY <1>0, <3>1, CallOver
  <2> QED BY <1>a, <1>4, <2>0, <2>1 DEF Begin, Step
<1>5. ASSUME NEW t \in Threads, CurrentStartsFetch(t) PROVE CallKept'
  <2>0. \A u \in Threads \ {t} : pc'[u] = pc[u] /\ call'[u] = call[u]
    BY <1>5 DEF CurrentStartsFetch, TypeOK, StartFetch, GoTo
  <2>1. CallOK(t)'
    BY <1>0, <1>5, CallMoved DEF CallKept, CurrentStartsFetch, TypeOK, StartFetch, GoTo
  <2> QED BY <1>a, <1>5, <2>0, <2>1 DEF Begin, Step
<1>6. ASSUME NEW t \in Threads, CurrentInstalls(t) PROVE CallKept'
  <2>0. \A u \in Threads \ {t} : pc'[u] = pc[u] /\ call'[u] = call[u]
    BY <1>6 DEF CurrentInstalls, TypeOK, GoTo, Snapshot
  <2>1. CallOK(t)'
    <3>1. pc'[t] \in {"judge", "unknown"}
      BY <1>6 DEF CurrentInstalls, TypeOK, GoTo, AfterCurrent
    <3>2. /\ Snapshot(t, reply[t], generation + 1, now + CacheTtl)
          /\ verifier' = reply[t] /\ expiresAt' = now + CacheTtl /\ now' = now
          /\ reply[t] # 0
      BY <1>6 DEF CurrentInstalls, Install
    <3>3. /\ call'[t].floor = call[t].floor /\ call'[t].begunAt = call[t].begunAt
          /\ call'[t].epoch = reply[t] /\ call'[t].until = now + CacheTtl
      BY <3>2, SnapshotTyped DEF TypeOK
    <3>4. CallOK(t) /\ verifier <= reply[t] /\ reply[t] \in Nat
      BY <3>2 DEF CallKept, FetchLocked, TypeOK, Epochs
    <3> QED BY <3>1, <3>2, <3>3, <3>4, CallFields, CacheTyped DEF CallOK, VerifyPcs
  <2> QED BY <1>a, <1>6, <2>0, <2>1 DEF Begin, Step
<1>7. ASSUME NEW t \in Threads, UnknownFromCache(t) PROVE CallKept'
  <2>0. \A u \in Threads \ {t} : pc'[u] = pc[u] /\ call'[u] = call[u]
    BY <1>7 DEF UnknownFromCache, TypeOK, GoTo, Snapshot
  <2>1. CallOK(t)'
    <3>1. pc[t] = "unknown" /\ pc'[t] = "judge"
      BY <1>7 DEF UnknownFromCache, TypeOK, GoTo
    <3>2. Snapshot(t, verifier, generation, expiresAt)
          /\ verifier' = verifier /\ expiresAt' = expiresAt /\ now' = now
      BY <1>7 DEF UnknownFromCache, cacheVars
    <3>3. /\ call'[t].floor = call[t].floor /\ call'[t].begunAt = call[t].begunAt
          /\ call'[t].epoch = verifier /\ call'[t].until = expiresAt
      BY <3>2, SnapshotTyped DEF TypeOK
    <3>4. CallOK(t)
      BY DEF CallKept
    <3> QED BY <3>1, <3>2, <3>3, <3>4, CallFields, CacheTyped DEF CallOK, VerifyPcs
  <2> QED BY <1>a, <1>7, <2>0, <2>1 DEF Begin, Step
<1>8. ASSUME NEW t \in Threads, UnknownStartsFetch(t) PROVE CallKept'
  <2>0. \A u \in Threads \ {t} : pc'[u] = pc[u] /\ call'[u] = call[u]
    BY <1>8 DEF UnknownStartsFetch, TypeOK, StartFetch, GoTo
  <2>1. CallOK(t)'
    BY <1>0, <1>8, CallMoved DEF CallKept, UnknownStartsFetch, TypeOK, StartFetch, GoTo
  <2> QED BY <1>a, <1>8, <2>0, <2>1 DEF Begin, Step
<1>9. ASSUME NEW t \in Threads, UnknownInstalls(t) PROVE CallKept'
  <2>0. \A u \in Threads \ {t} : pc'[u] = pc[u] /\ call'[u] = call[u]
    BY <1>9 DEF UnknownInstalls, TypeOK, GoTo, Snapshot
  <2>1. CallOK(t)'
    <3>1. pc'[t] \in {"judge"}
      BY <1>9 DEF UnknownInstalls, TypeOK, GoTo
    <3>2. /\ Snapshot(t, reply[t], generation + 1, now + CacheTtl)
          /\ verifier' = reply[t] /\ expiresAt' = now + CacheTtl /\ now' = now
          /\ reply[t] # 0
      BY <1>9 DEF UnknownInstalls, Install
    <3>3. /\ call'[t].floor = call[t].floor /\ call'[t].begunAt = call[t].begunAt
          /\ call'[t].epoch = reply[t] /\ call'[t].until = now + CacheTtl
      BY <3>2, SnapshotTyped DEF TypeOK
    <3>4. CallOK(t) /\ verifier <= reply[t] /\ reply[t] \in Nat
      BY <3>2 DEF CallKept, FetchLocked, TypeOK, Epochs
    <3> QED BY <3>1, <3>2, <3>3, <3>4, CallFields, CacheTyped DEF CallOK, VerifyPcs
  <2> QED BY <1>a, <1>9, <2>0, <2>1 DEF Begin, Step
<1>10. ASSUME NEW t \in Threads, Judge(t) PROVE CallKept'
  <2>0. \A u \in Threads \ {t} : pc'[u] = pc[u] /\ call'[u] = call[u]
    BY <1>10 DEF Judge, TypeOK, Return, GoTo
  <2>1. CallOK(t)'
    <3>1. pc'[t] = "idle" /\ call'[t] = NoCall
      BY <1>10 DEF Judge, TypeOK, Return, GoTo
    <3> QED BY <1>0, <3>1, CallOver
  <2> QED BY <1>a, <1>10, <2>0, <2>1 DEF Begin, Step
<1>11. ASSUME NEW t \in Threads, BeginRefresh(t) PROVE CallKept'
  <2>0. \A u \in Threads \ {t} : pc'[u] = pc[u] /\ call'[u] = call[u]
    BY <1>11 DEF BeginRefresh, TypeOK, GoTo
  <2>1. CallOK(t)'
    BY <1>0, <1>11, CallMoved DEF CallKept, BeginRefresh, TypeOK, GoTo
  <2> QED BY <1>a, <1>11, <2>0, <2>1 DEF Begin, Step
<1>12. ASSUME NEW t \in Threads, RefreshStartsFetch(t) PROVE CallKept'
  <2>0. \A u \in Threads \ {t} : pc'[u] = pc[u] /\ call'[u] = call[u]
    BY <1>12 DEF RefreshStartsFetch, TypeOK, StartFetch, GoTo
  <2>1. CallOK(t)'
    BY <1>0, <1>12, CallMoved DEF CallKept, RefreshStartsFetch, TypeOK, StartFetch, GoTo
  <2> QED BY <1>a, <1>12, <2>0, <2>1 DEF Begin, Step
<1>13. ASSUME NEW t \in Threads, RefreshInstalls(t) PROVE CallKept'
  <2>0. \A u \in Threads \ {t} : pc'[u] = pc[u] /\ call'[u] = call[u]
    BY <1>13 DEF RefreshInstalls, TypeOK, GoTo
  <2>1. CallOK(t)'
    BY <1>0, <1>13, CallMoved DEF CallKept, RefreshInstalls, TypeOK, GoTo
  <2> QED BY <1>a, <1>13, <2>0, <2>1 DEF Begin, Step
<1>14. ASSUME NEW t \in Threads, FetchFails(t) PROVE CallKept'
  <2>0. \A u \in Threads \ {t} : pc'[u] = pc[u] /\ call'[u] = call[u]
    BY <1>14 DEF FetchFails, TypeOK, Raise, Return, GoTo
  <2>1. CallOK(t)'
    <3>1. CASE pc[t] = "fetchRefresh"
      BY <1>0, <1>14, <3>1, CallMoved DEF CallKept, FetchFails, TypeOK, Raise, GoTo
    <3>2. CASE pc[t] # "fetchRefresh"
      BY <1>0, <1>14, <3>2, CallOver DEF FetchFails, TypeOK, Raise, Return, GoTo
    <3> QED BY <3>1, <3>2
  <2> QED BY <1>a, <1>14, <2>0, <2>1 DEF Begin, Step
<1>15. ASSUME NEW t \in Threads, FetchBreaks(t) PROVE CallKept'
  <2>0. \A u \in Threads \ {t} : pc'[u] = pc[u] /\ call'[u] = call[u]
    BY <1>15 DEF FetchBreaks, TypeOK, Raise, Return, GoTo
  <2>1. CallOK(t)'
    <3>1. CASE pc[t] = "fetchRefresh"
      BY <1>0, <1>15, <3>1, CallMoved DEF CallKept, FetchBreaks, TypeOK, Raise, GoTo
    <3>2. CASE pc[t] # "fetchRefresh"
      BY <1>0, <1>15, <3>2, CallOver DEF FetchBreaks, TypeOK, Raise, Return, GoTo
    <3> QED BY <3>1, <3>2
  <2> QED BY <1>a, <1>15, <2>0, <2>1 DEF Begin, Step
<1>16. ASSUME NEW t \in Threads, Answer(t) PROVE CallKept'
  <2>0. UNCHANGED <<pc, call>>
    BY <1>16 DEF Answer
  <2> QED BY <1>0, <2>0, CallUnmoved DEF CallKept
<1>17. CASE Tick \/ Rotate \/ UNCHANGED vars
  <2>0. UNCHANGED <<pc, call>>
    BY <1>17 DEF Tick, Rotate, vars
  <2> QED BY <1>0, <2>0, CallUnmoved DEF CallKept
<1> QED BY <1>1, <1>2, <1>3, <1>4, <1>5, <1>6, <1>7, <1>8, <1>9, <1>10, <1>11, <1>12,
           <1>13, <1>14, <1>15, <1>16, <1>17
        DEF Next, Begin, Step, Quiescent

(***************************************************************************)
(* The theorems.                                                           *)
(***************************************************************************)

LEMMA InvInit == Init => IInv
<1> SUFFICES ASSUME Init PROVE IInv
  OBVIOUS
<1>1. TypeOK
  BY TypeInit
<1>2. FetchLocked /\ CacheCounted
  BY DEF Init, FetchLocked, CacheCounted, FetchPcs
<1>3. BudgetKept /\ WindowKept
  BY DEF Init, BudgetKept, WindowKept
<1>4. CallKept
  <2> SUFFICES ASSUME NEW t \in Threads PROVE CallOK(t)
    BY DEF CallKept
  <2>1. pc[t] = "idle" /\ call[t] = NoCall /\ verifier = 0 /\ now = 0
    BY DEF Init
  <2> QED BY <2>1, NoCallFields DEF CallOK, VerifyPcs
<1> QED BY <1>1, <1>2, <1>3, <1>4 DEF IInv

LEMMA InvStep == IInv /\ [Next]_vars => IInv'
BY TypeStep, FetchLockedStep, CacheCountedStep, BudgetKeptStep, WindowKeptStep,
   CallKeptStep
   DEF IInv

LEMMA Invariance == Spec => []IInv
BY InvInit, InvStep, PTL DEF Spec

\* Every variable has its type, in every state.
THEOREM TypeCorrect == Spec => []TypeOK
BY Invariance, PTL DEF IInv

\* At most one thread is fetching, whatever its reason: the lock is held over the network,
\* by the thread that fetches and nobody else, and free when none does.
OneFetch ==
    /\ \A t, u \in Threads : pc[t] \in FetchPcs /\ pc[u] \in FetchPcs => t = u
    /\ \A t \in Threads : pc[t] \in FetchPcs => lock = t

\* The endpoint sees one request at a time from a verifier, for any number of threads.
THEOREM FetchesExclude == Spec => []OneFetch
<1>1. IInv => OneFetch
  BY DEF IInv, FetchLocked, OneFetch
<1> QED BY <1>1, Invariance, PTL

\* However many threads bring unknown key ids, _refresh_unknown spends at most
\* one fetch per window of the cache.
THEOREM UnknownFetchesBounded == Spec => []OneUnknownFetchPerWindow
<1>1. IInv => OneUnknownFetchPerWindow
  BY DEF IInv, BudgetKept, OneUnknownFetchPerWindow
<1> QED BY <1>1, Invariance, PTL

\* No call is judged with a key set older than the one cached when it began.
THEOREM Revocation == Spec => []RevokedStaysRevoked
<1>1. IInv => RevokedStaysRevoked
  <2> SUFFICES ASSUME IInv, NEW t \in Threads, pc[t] = "judge"
               PROVE  call[t].floor <= call[t].epoch /\ call[t].epoch <= published
    BY DEF RevokedStaysRevoked
  <2>1. call[t].floor <= call[t].epoch /\ call[t].epoch <= verifier
    BY DEF IInv, CallKept, CallOK
  <2>2. verifier <= published
    BY DEF IInv, CacheCounted
  <2> QED BY <2>1, <2>2, CallFields, CacheTyped DEF IInv
<1> QED BY <1>1, Invariance, PTL

\* No call is judged with a key set that had expired before it began.
THEOREM Freshness == Spec => []FreshWhenCalled
<1>1. IInv => FreshWhenCalled
  BY DEF IInv, CallKept, CallOK, FreshWhenCalled
<1> QED BY <1>1, Invariance, PTL

\* An endpoint that keeps failing gets at most one fetch from verify inside the
\* back-off.
THEOREM OutageBounded == Spec => []OneHurriedFetch
<1>1. IInv => OneHurriedFetch
  BY DEF IInv, BudgetKept, OneHurriedFetch
<1> QED BY <1>1, Invariance, PTL

\* A held failure is a recent one that no success followed.
THEOREM OutageReal == Spec => []NoFalseOutage
<1>1. IInv => NoFalseOutage
  BY DEF IInv, TypeOK, WindowKept, NoFalseOutage, FailureHeld, WindowOpen, Never
<1> QED BY <1>1, Invariance, PTL

\* Only UnknownFromCache takes a thread from "unknown" to "judge" in one step.
LEMMA JudgedWithoutFetch ==
    ASSUME TypeOK, [Next]_vars, NEW t \in Threads, pc[t] = "unknown", pc'[t] = "judge"
    PROVE  UnknownFromCache(t)
<1> USE DEF TypeOK
<1>1. ASSUME NEW u \in Threads, BeginVerify(u) PROVE FALSE
  BY <1>1 DEF BeginVerify, GoTo
<1>2. ASSUME NEW u \in Threads, RejectUndecodable(u) PROVE FALSE
  BY <1>2 DEF RejectUndecodable
<1>3. ASSUME NEW u \in Threads, CurrentFromCache(u) PROVE FALSE
  BY <1>3 DEF CurrentFromCache, GoTo
<1>4. ASSUME NEW u \in Threads, CurrentHoldsFailure(u) PROVE FALSE
  BY <1>4 DEF CurrentHoldsFailure, Return, GoTo
<1>5. ASSUME NEW u \in Threads, CurrentStartsFetch(u) PROVE FALSE
  BY <1>5 DEF CurrentStartsFetch, StartFetch, GoTo
<1>6. ASSUME NEW u \in Threads, CurrentInstalls(u) PROVE FALSE
  BY <1>6 DEF CurrentInstalls, GoTo
<1>7. ASSUME NEW u \in Threads, UnknownFromCache(u) PROVE UnknownFromCache(t)
  BY <1>7 DEF UnknownFromCache, GoTo
<1>8. ASSUME NEW u \in Threads, UnknownStartsFetch(u) PROVE FALSE
  BY <1>8 DEF UnknownStartsFetch, StartFetch, GoTo
<1>9. ASSUME NEW u \in Threads, UnknownInstalls(u) PROVE FALSE
  BY <1>9 DEF UnknownInstalls, GoTo
<1>10. ASSUME NEW u \in Threads, Judge(u) PROVE FALSE
  BY <1>10 DEF Judge, Return, GoTo
<1>11. ASSUME NEW u \in Threads, BeginRefresh(u) PROVE FALSE
  BY <1>11 DEF BeginRefresh, GoTo
<1>12. ASSUME NEW u \in Threads, RefreshStartsFetch(u) PROVE FALSE
  BY <1>12 DEF RefreshStartsFetch, StartFetch, GoTo
<1>13. ASSUME NEW u \in Threads, RefreshInstalls(u) PROVE FALSE
  BY <1>13 DEF RefreshInstalls, GoTo
<1>14. ASSUME NEW u \in Threads, FetchFails(u) PROVE FALSE
  BY <1>14 DEF FetchFails, Raise, Return, GoTo, FetchPcs
<1>15. ASSUME NEW u \in Threads, FetchBreaks(u) PROVE FALSE
  BY <1>15 DEF FetchBreaks, Raise, Return, GoTo, FetchPcs
<1>16. ASSUME NEW u \in Threads, Answer(u) PROVE FALSE
  BY <1>16 DEF Answer
<1>17. ~Tick /\ ~Rotate /\ ~UNCHANGED vars
  BY DEF Tick, Rotate, vars
<1> QED BY <1>1, <1>2, <1>3, <1>4, <1>5, <1>6, <1>7, <1>8, <1>9, <1>10, <1>11, <1>12,
           <1>13, <1>14, <1>15, <1>16, <1>17
        DEF Next, Begin, Step, Quiescent

\* The unknown-key refresh is withheld from a thread only after another thread of
\* the same window had it.
THEOREM RotationOwed == Spec => RotationRetried
<1>1. IInv /\ [Next]_vars
      => [\A t \in Threads :
            /\ pc[t] = "unknown" /\ pc'[t] = "judge"
            /\ generation = call[t].generation
            => unknownFetches = 1]_vars
  <2> SUFFICES ASSUME IInv, [Next]_vars, NEW t \in Threads,
                      pc[t] = "unknown", pc'[t] = "judge",
                      generation = call[t].generation
               PROVE  unknownFetches = 1
    OBVIOUS
  <2>1. UnknownFromCache(t)
    BY JudgedWithoutFetch DEF IInv
  <2>2. verifier # 0 /\ unknownRefreshGeneration = generation
    BY <2>1 DEF UnknownFromCache, CacheMoved, UnknownBudgetSpent
  <2> QED BY <2>2 DEF IInv, CacheCounted, BudgetKept
<1> QED BY <1>1, Invariance, PTL DEF Spec, RotationRetried

-----------------------------------------------------------------------------
(***************************************************************************)
(* JwksVerifier implements KeyAuthority.                                   *)
(***************************************************************************)

\* What KeyAuthority sees of a thread's locals.
Asked == [t \in Threads |-> [kid |-> call[t].kid, floor |-> call[t].floor]]
Admitted == {t \in Threads : verdict[t] = "accepted"}

LEMMA AuthorityInit == Init => Authority!AInit
BY NoCallFields DEF Init, Authority!AInit, Authority!NoQuestion

\* A step that hands a thread a key set, or only moves it, asks nothing.
LEMMA AskedKept ==
    ASSUME \A t \in Threads : call'[t].kid = call[t].kid /\ call'[t].floor = call[t].floor
    PROVE  Asked' = Asked
BY DEF Asked

\* A call that ends leaves no question.
LEMMA AskedOver ==
    ASSUME TypeOK, NEW t \in Threads, call' = [call EXCEPT ![t] = NoCall]
    PROVE  Asked' = [Asked EXCEPT ![t] = Authority!NoQuestion]
BY NoCallFields DEF Asked, TypeOK, Authority!NoQuestion

\* A refusal.
LEMMA ReturnRefuses ==
    ASSUME TypeOK, NEW t \in Threads, NEW v \in {"rejected", "unavailable", "broken"},
           Return(t, v), UNCHANGED <<published, verifier>>
    PROVE  Authority!Refuse(t)
<1>1. Asked' = [Asked EXCEPT ![t] = Authority!NoQuestion]
  BY AskedOver DEF Return
<1>2. Admitted' = Admitted \ {t}
  BY DEF Return, Admitted, TypeOK
<1> QED BY <1>1, <1>2 DEF Authority!Refuse, Asked, Admitted

LEMMA AuthorityStep ==
    IInv /\ IInv' /\ [Next]_vars => [Authority!ANext]_(Authority!avars)
<1> SUFFICES ASSUME IInv, IInv', [Next]_vars PROVE [Authority!ANext]_(Authority!avars)
  OBVIOUS
<1>0. TypeOK /\ TypeOK'
  BY DEF IInv
\* The steps that KeyAuthority does not see.
<1>a. ASSUME UNCHANGED <<published, verifier, verdict>>, Asked' = Asked
      PROVE  UNCHANGED Authority!avars
  BY <1>a DEF Authority!avars, Asked
<1>1. ASSUME NEW t \in Threads, BeginVerify(t) PROVE Authority!Ask(t)
  <2>1. PICK k \in KeyIds :
          call' = [call EXCEPT ![t] = [NoCall EXCEPT !.kid = k, !.floor = verifier,
                                                     !.begunAt = now]]
    BY <1>1 DEF BeginVerify
  <2>2. Asked' = [Asked EXCEPT ![t] = [kid |-> k, floor |-> verifier]]
    BY <1>0, <2>1 DEF Asked, TypeOK, NoCall
  <2>3. Asked[t] = Authority!NoQuestion
    BY <1>1, NoCallFields
       DEF IInv, CallKept, CallOK, BeginVerify, VerifyPcs, Asked, Authority!NoQuestion
  <2>4. Admitted' = Admitted \ {t}
    BY <1>0, <1>1 DEF BeginVerify, Admitted, TypeOK
  <2> QED BY <1>1, <2>2, <2>3, <2>4
          DEF BeginVerify, Authority!Ask, Asked, Admitted, cacheVars
<1>2. ASSUME NEW t \in Threads, RejectUndecodable(t) PROVE Authority!Refuse(t)
  <2>1. call[t] = NoCall
    BY <1>2 DEF IInv, CallKept, CallOK, RejectUndecodable, VerifyPcs
  <2>2. Asked' = [Asked EXCEPT ![t] = Authority!NoQuestion]
    BY <1>2, <2>1, NoCallFields DEF RejectUndecodable, Asked, Authority!NoQuestion
  <2>3. Admitted' = Admitted \ {t}
    BY <1>0, <1>2 DEF RejectUndecodable, Admitted, TypeOK
  <2> QED BY <1>2, <2>2, <2>3
          DEF RejectUndecodable, Authority!Refuse, Asked, Admitted, cacheVars
<1>3. ASSUME NEW t \in Threads, CurrentFromCache(t) \/ UnknownFromCache(t)
      PROVE  UNCHANGED Authority!avars
  <2>1. Snapshot(t, verifier, generation, expiresAt)
    BY <1>3 DEF CurrentFromCache, UnknownFromCache
  <2>2. Asked' = Asked
    BY <1>0, <2>1, SnapshotTyped, AskedKept DEF TypeOK
  <2> QED BY <1>3, <1>a, <2>2 DEF CurrentFromCache, UnknownFromCache, cacheVars
<1>4. ASSUME NEW t \in Threads, CurrentHoldsFailure(t) PROVE Authority!Refuse(t)
  BY <1>0, <1>4, ReturnRefuses DEF CurrentHoldsFailure, cacheVars
<1>5. ASSUME NEW t \in Threads,
             \/ CurrentStartsFetch(t) \/ UnknownStartsFetch(t) \/ RefreshStartsFetch(t)
             \/ BeginRefresh(t) \/ Answer(t)
      PROVE  UNCHANGED Authority!avars
  BY <1>5, <1>a DEF CurrentStartsFetch, UnknownStartsFetch, RefreshStartsFetch,
                    BeginRefresh, Answer, Asked, cacheVars
<1>6. ASSUME NEW t \in Threads,
             CurrentInstalls(t) \/ UnknownInstalls(t) \/ RefreshInstalls(t)
      PROVE  Authority!Learn
  <2>1. verifier' = reply[t] /\ reply[t] # 0 /\ UNCHANGED <<published, verdict>>
    BY <1>6 DEF CurrentInstalls, UnknownInstalls, RefreshInstalls, Install
  <2>2. verifier' \in verifier .. published
    BY <1>0, <2>1 DEF IInv, FetchLocked, TypeOK, Epochs
  <2>3. Asked' = Asked
    <3>1. CASE RefreshInstalls(t)
      BY <3>1 DEF RefreshInstalls, Asked
    <3>2. CASE CurrentInstalls(t) \/ UnknownInstalls(t)
      <4>1. Snapshot(t, reply[t], generation + 1, now + CacheTtl)
        BY <3>2 DEF CurrentInstalls, UnknownInstalls
      <4>2. reply[t] \in {0} \union Epochs /\ generation + 1 \in Nat
            /\ now + CacheTtl \in Nat
        BY <1>0 DEF TypeOK
      <4> QED BY <1>0, <4>1, <4>2, SnapshotTyped, AskedKept
    <3> QED BY <1>6, <3>1, <3>2
  <2> QED BY <2>1, <2>2, <2>3 DEF Authority!Learn, Asked
<1>7. ASSUME NEW t \in Threads, Judge(t) PROVE Authority!Admit(t) \/ Authority!Refuse(t)
  <2>1. PICK v \in {"accepted", "rejected"} :
          /\ v = "accepted" => call[t].kid \in Keys(call[t].epoch)
          /\ Return(t, v)
    BY <1>7 DEF Judge
  <2>2. UNCHANGED <<published, verifier>>
    BY <1>7 DEF Judge, cacheVars
  <2>3. CASE v = "rejected"
    BY <1>0, <2>1, <2>2, <2>3, ReturnRefuses
  <2>4. CASE v = "accepted"
    <3>1. call[t].floor <= call[t].epoch /\ call[t].epoch <= verifier /\ call[t].epoch # 0
      BY <1>7 DEF IInv, CallKept, CallOK, Judge
    <3>2. call[t].epoch \in 1 .. verifier
      BY <1>0, <3>1, CallFields, CacheTyped
    <3>3. Asked[t].floor = call[t].floor /\ Asked[t].kid = call[t].kid
      BY DEF Asked
    <3>4. Asked' = [Asked EXCEPT ![t] = Authority!NoQuestion]
      BY <1>0, <2>1, AskedOver DEF Return
    <3>5. Admitted' = Admitted \union {t}
      BY <1>0, <2>1, <2>4 DEF Return, Admitted, TypeOK
    <3>6. Authority!Admit(t)
      BY <2>1, <2>2, <2>4, <3>1, <3>2, <3>3, <3>4, <3>5
         DEF Authority!Admit, Asked, Admitted, Keys
    <3> QED BY <3>6
  <2> QED BY <2>1, <2>3, <2>4
<1>8. ASSUME NEW t \in Threads, FetchFails(t) \/ FetchBreaks(t)
      PROVE  Authority!Refuse(t) \/ UNCHANGED Authority!avars
  <2>1. PICK v \in {"unavailable", "broken"} : Raise(t, v)
    BY <1>8 DEF FetchFails, FetchBreaks
  <2>2. UNCHANGED <<published, verifier>>
    BY <1>8 DEF FetchFails, FetchBreaks, cacheVars
  <2>3. CASE pc[t] = "fetchRefresh"
    BY <1>a, <2>1, <2>2, <2>3 DEF Raise, Asked
  <2>4. CASE pc[t] # "fetchRefresh"
    BY <1>0, <2>1, <2>2, <2>4, ReturnRefuses DEF Raise
  <2> QED BY <2>3, <2>4
<1>9. CASE Tick
  BY <1>9, <1>a DEF Tick, Asked, cacheVars
<1>10. ASSUME Rotate PROVE Authority!Publish
  BY <1>10 DEF Rotate, Authority!Publish, MaxEpoch, cacheVars
<1>11. CASE UNCHANGED vars
  BY <1>11, <1>a DEF vars, Asked, cacheVars
<1> QED BY <1>1, <1>2, <1>3, <1>4, <1>5, <1>6, <1>7, <1>8, <1>9, <1>10, <1>11
        DEF Next, Begin, Step, Quiescent, Authority!ANext

\* The verifier fails closed and never goes back: what it admits, KeyAuthority
\* admits, from the first state on and step by step.
THEOREM Refinement == Spec => ImplementsAuthority
<1>1. Spec => []IInv
  BY Invariance
<1> QED BY <1>1, AuthorityInit, AuthorityStep, PTL
        DEF Spec, ImplementsAuthority, Authority!ASpec

======

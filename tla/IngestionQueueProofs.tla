------------------------ MODULE IngestionQueueProofs ------------------------
(***************************************************************************)
(* For any number of jobs, processes, faults and any timing: the types of  *)
(* the queue; and, when there is one process or no thread outlives the     *)
(* lease, that a running thread owns its claim, that the queue implements  *)
(* JobLifecycle, what bounds the attempts of a job, and how often one job  *)
(* may overtake another.                                                   *)
(***************************************************************************)
EXTENDS MCQueueOrder, FiniteSetTheorems, TLAPS

\* The delays of the backoff are natural numbers.
LEMMA BackoffNat == \A a \in Nat : Backoff(a) \subseteq Nat
  BY DEF Backoff

\* The initial state has its types.
LEMMA TypeInit == Init => TypeOK
  BY QueueAssumption
  DEF Init, TypeOK, JL!Init, JL!TypeOK, JL!JobStatus, LoopState, Null

\* Every step keeps the columns of ingestion_jobs, the places of the loops and
\* the clock within their types.
LEMMA TypeStep == TypeOK /\ [Next]_vars => TypeOK'
<1> SUFFICES ASSUME TypeOK, [Next]_vars PROVE TypeOK'
  OBVIOUS
<1> USE QueueAssumption
    DEF TypeOK, JL!TypeOK, JL!JobStatus, LoopState, Null, jobVars, rowTimes, Goto
<1>1. ASSUME NEW j \in Jobs, Enqueue(j) PROVE TypeOK'
  BY <1>1 DEF Enqueue, JL!Enqueue
<1>2. ASSUME NEW w \in Workers, Start(w) PROVE TypeOK'
  BY <1>2 DEF Start
<1>3. ASSUME NEW w \in Workers, RecoverStaleJobs(w) PROVE TypeOK'
  BY <1>3 DEF RecoverStaleJobs
<1>4. ASSUME NEW w \in Workers, ClaimNext(w) PROVE TypeOK'
  BY <1>4 DEF ClaimNext, OldestDue, Due, JL!Claim, JL!TakeClaim
<1>5. ASSUME NEW w \in Workers, NothingDue(w) PROVE TypeOK'
  BY <1>5 DEF NothingDue
<1>6. ASSUME NEW w \in Workers, ClaimLost(w) PROVE TypeOK'
  BY <1>6 DEF ClaimLost, OldestDue, Due, JL!ClaimLost, JL!TakeClaim
<1>7. ASSUME NEW w \in Workers, IterationFailed(w) PROVE TypeOK'
  BY <1>7 DEF IterationFailed
<1>8. ASSUME NEW w \in Workers, Wake(w) PROVE TypeOK'
  BY <1>8 DEF Wake
<1>9. ASSUME NEW w \in Workers, Shutdown(w) PROVE TypeOK'
  BY <1>9 DEF Shutdown
<1>10. ASSUME NEW w \in Workers, Crash(w) PROVE TypeOK'
  BY <1>10 DEF Crash
<1>11. ASSUME NEW w \in Workers, Completed(w) PROVE TypeOK'
  BY <1>11 DEF Completed, AfterThread, JL!Complete, JL!Finish
<1>12. ASSUME NEW w \in Workers, CompletedUnanswered(w) PROVE TypeOK'
  BY <1>12 DEF CompletedUnanswered, JL!CompleteUnanswered, JL!Finish
<1>13. ASSUME NEW w \in Workers, FailedOrRetried(w) PROVE TypeOK'
  <2>1. JL!TypeOK' /\ loop' \in [Workers -> LoopState]
    BY <1>13 DEF FailedOrRetried, AfterThread, AfterError, JL!FailOrRetry, JL!Finish
  <2>2. working[w] \in Jobs
    BY <1>13 DEF FailedOrRetried, JL!FailOrRetry, JL!Finish
  <2>3. next_attempt_at' \in [Jobs -> Nat]
    BY <1>13, <2>2, BackoffNat DEF FailedOrRetried
  <2> QED
    BY <1>13, <2>1, <2>3 DEF FailedOrRetried
<1>14. ASSUME NEW w \in Workers, HandlerFailed(w) PROVE TypeOK'
  BY <1>14 DEF HandlerFailed, AfterError, JL!Abandon
<1>15. CASE Tick
  BY <1>15 DEF Tick
<1>16. CASE UNCHANGED vars
  BY <1>16 DEF vars
<1> QED
  BY <1>1, <1>2, <1>3, <1>4, <1>5, <1>6, <1>7, <1>8, <1>9, <1>10, <1>11, <1>12,
     <1>13, <1>14, <1>15, <1>16
  DEF Next, LoopStep, ThreadStep

\* Type correctness of the ingestion_jobs table and of the worker loops.
THEOREM QueueTypes == Spec => []TypeOK
  BY TypeInit, TypeStep, PTL DEF Spec

-----------------------------------------------------------------------------
\* What the lease rests on. LEASE_TIMEOUT_SECONDS outlasts every attempt, or there
\* is one process, as render-start.sh starts it: its only loop recovers stale jobs
\* when it has no thread.
LeaseHolds == RunBound <= Lease \/ \A v, w \in Workers : v = w

\* The loop of a running thread waits for it.
ThreadIsAwaited ==
    \A w \in Workers : working[w] # NoJob => loop[w] \in {"await", "drain"}

\* The clock part of the inductive invariant: how long a thread has been running.
ThreadIsYoung ==
    \A w \in Workers :
        working[w] # NoJob => started[w] <= now /\ now - started[w] <= RunBound

Exclusive ==
    \A v, w \in Workers : working[w] # NoJob /\ working[v] = working[w] => v = w

LeaseInv == TypeOK /\ ClaimIsCurrent /\ Exclusive /\ ThreadIsYoung /\ ThreadIsAwaited

\* Why the lease is safe: to the loop that recovers it, a claim that looks stale
\* has no thread any more.
LEMMA StaleIsOrphaned ==
    ASSUME LeaseHolds, LeaseInv, NEW w \in Workers, loop[w] = "reap", NEW j \in Stale
    PROVE  JL!Orphaned(j)
<1>1. ASSUME NEW v \in Workers, working[v] = j PROVE FALSE
  <2>1. working[v] # NoJob
    BY <1>1, QueueAssumption DEF Stale
  <2>2. CASE RunBound <= Lease
    <3>1. claimed_at[j] = started[v] /\ started[v] \in Nat /\ now \in Nat
      BY <1>1, <2>1 DEF LeaseInv, ClaimIsCurrent, TypeOK
    <3>2. now - started[v] <= RunBound
      BY <2>1 DEF LeaseInv, ThreadIsYoung
    <3>3. claimed_at[j] < now - Lease
      BY DEF Stale
    <3> QED
      BY <2>2, <3>1, <3>2, <3>3, QueueAssumption
  <2>3. CASE \A u, t \in Workers : u = t
    <3>1. loop[v] \in {"await", "drain"}
      BY <2>1 DEF LeaseInv, ThreadIsAwaited
    <3>2. loop[v] = "reap"
      BY <2>3
    <3> QED
      BY <3>1, <3>2
  <2> QED
    BY <2>2, <2>3 DEF LeaseHolds
<1> QED
  BY <1>1 DEF JL!Orphaned, Stale

\* No thread runs at the start.
LEMMA LeaseInit == Init => LeaseInv
  BY TypeInit
  DEF Init, LeaseInv, ClaimIsCurrent, Exclusive, ThreadIsYoung, ThreadIsAwaited, JL!Init

\* Only ClaimNext starts a thread, only RecoverStaleJobs takes rows back, and the
\* clock waits for threads at their bound.
LEMMA LeaseStep ==
    ASSUME LeaseHolds, LeaseInv, [Next]_vars
    PROVE  LeaseInv'
<1>1. TypeOK'
  BY TypeStep DEF LeaseInv
<1> USE QueueAssumption
    DEF LeaseInv, ClaimIsCurrent, Exclusive, ThreadIsYoung, ThreadIsAwaited, TypeOK,
        JL!TypeOK, jobVars, rowTimes, Goto
<1>2. ASSUME NEW j \in Jobs, Enqueue(j) PROVE LeaseInv'
  BY <1>1, <1>2 DEF Enqueue, JL!Enqueue
<1>3. ASSUME NEW w \in Workers,
             \/ Start(w)
             \/ NothingDue(w)
             \/ IterationFailed(w)
             \/ Wake(w)
             \/ Shutdown(w)
      PROVE  LeaseInv'
  BY <1>1, <1>3 DEF Start, NothingDue, IterationFailed, Wake, Shutdown
<1>4. ASSUME NEW w \in Workers, RecoverStaleJobs(w) PROVE LeaseInv'
  <2>1. \A v \in Workers : working[v] \notin Stale
    BY <1>4, StaleIsOrphaned DEF JL!Orphaned, RecoverStaleJobs
  <2> QED
    BY <1>1, <1>4, <2>1 DEF RecoverStaleJobs
<1>5. ASSUME NEW w \in Workers, ClaimNext(w) PROVE LeaseInv'
  <2>1. PICK j \in OldestDue :
          JL!Claim(w, j) /\ claimed_at' = [claimed_at EXCEPT ![j] = now]
    BY <1>5 DEF ClaimNext
  <2>2. j \in Jobs /\ \A v \in Workers : working[v] # j
    BY <2>1 DEF OldestDue, Due
  <2> QED
    BY <1>1, <1>5, <2>1, <2>2 DEF ClaimNext, JL!Claim, JL!TakeClaim
<1>6. ASSUME NEW w \in Workers, ClaimLost(w) PROVE LeaseInv'
  <2>1. PICK j \in OldestDue :
          JL!ClaimLost(w, j) /\ claimed_at' = [claimed_at EXCEPT ![j] = now]
    BY <1>6 DEF ClaimLost
  <2>2. j \in Jobs /\ \A v \in Workers : working[v] # j
    BY <2>1 DEF OldestDue, Due
  <2> QED
    BY <1>1, <1>6, <2>1, <2>2 DEF ClaimLost, JL!ClaimLost, JL!TakeClaim
<1>7. ASSUME NEW w \in Workers, Crash(w) PROVE LeaseInv'
  BY <1>1, <1>7 DEF Crash
<1>8. ASSUME NEW w \in Workers, Completed(w) PROVE LeaseInv'
  BY <1>1, <1>8 DEF Completed, AfterThread, JL!Complete, JL!Finish
<1>9. ASSUME NEW w \in Workers, CompletedUnanswered(w) PROVE LeaseInv'
  BY <1>1, <1>9 DEF CompletedUnanswered, JL!CompleteUnanswered, JL!Finish
<1>10. ASSUME NEW w \in Workers, FailedOrRetried(w) PROVE LeaseInv'
  BY <1>1, <1>10 DEF FailedOrRetried, AfterThread, AfterError, JL!FailOrRetry, JL!Finish
<1>11. ASSUME NEW w \in Workers, HandlerFailed(w) PROVE LeaseInv'
  BY <1>1, <1>11 DEF HandlerFailed, AfterError, JL!Abandon
<1>12. CASE Tick
  BY <1>1, <1>12 DEF Tick
<1>13. CASE UNCHANGED vars
  BY <1>1, <1>13 DEF vars
<1> QED
  BY <1>2, <1>3, <1>4, <1>5, <1>6, <1>7, <1>8, <1>9, <1>10, <1>11, <1>12, <1>13
  DEF Next, LoopStep, ThreadStep

\* The lease invariant holds in every reachable state.
LEMMA LeaseInvariant == LeaseHolds => (Spec => []LeaseInv)
<1> SUFFICES ASSUME LeaseHolds PROVE Spec => []LeaseInv
  OBVIOUS
<1>1. LeaseInv /\ [Next]_vars => LeaseInv'
  BY LeaseStep
<1> QED
  BY <1>1, LeaseInit, PTL DEF Spec

\* A running thread owns the claim that its row shows, whatever crashes.
THEOREM QueueClaims == LeaseHolds => (Spec => []ClaimIsCurrent)
<1>1. LeaseInv => ClaimIsCurrent
  BY DEF LeaseInv
<1> QED
  BY <1>1, LeaseInvariant, PTL

\* Two processes never process one job at once.
THEOREM QueueExclusion == LeaseHolds => (Spec => []ExclusiveClaim)
<1>1. LeaseInv => ExclusiveClaim
  BY DEF LeaseInv, ClaimIsCurrent, Exclusive, ExclusiveClaim, JL!ExclusiveClaim
<1> QED
  BY <1>1, LeaseInvariant, PTL

-----------------------------------------------------------------------------
\* Every step of the queue is a step of the job lifecycle, or none.
LEMMA LifecycleStep ==
    ASSUME LeaseHolds, LeaseInv, [Next]_vars
    PROVE  [JL!Next]_jobVars
<1> USE DEF JL!Next, jobVars
<1>1. ASSUME NEW j \in Jobs, Enqueue(j) PROVE JL!Next
  BY <1>1 DEF Enqueue
<1>2. ASSUME NEW w \in Workers,
             \/ Start(w)
             \/ NothingDue(w)
             \/ IterationFailed(w)
             \/ Wake(w)
             \/ Shutdown(w)
      PROVE  UNCHANGED jobVars
  BY <1>2 DEF Start, NothingDue, IterationFailed, Wake, Shutdown
<1>3. ASSUME NEW w \in Workers, RecoverStaleJobs(w) PROVE [JL!Next]_jobVars
  <2>1. CASE Stale = {}
    BY <1>3, <2>1 DEF RecoverStaleJobs, LeaseInv, TypeOK, JL!TypeOK
  <2>2. CASE Stale # {}
    <3>1. Stale \in SUBSET Jobs
      BY DEF Stale
    <3>2. JL!Recover(Stale)
      BY <1>3, <2>2, StaleIsOrphaned DEF RecoverStaleJobs, JL!Recover
    <3> QED
      BY <3>1, <3>2
  <2> QED
    BY <2>1, <2>2
<1>4. ASSUME NEW w \in Workers, ClaimNext(w) \/ ClaimLost(w) PROVE JL!Next
  BY <1>4 DEF ClaimNext, ClaimLost, OldestDue, Due
<1>5. ASSUME NEW w \in Workers, Crash(w) PROVE [JL!Next]_jobVars
  <2>1. CASE working[w] = NoJob
    BY <1>5, <2>1 DEF Crash, LeaseInv, TypeOK, JL!TypeOK
  <2>2. CASE working[w] # NoJob
    BY <1>5, <2>2 DEF Crash, JL!Abandon
  <2> QED
    BY <2>1, <2>2
<1>6. ASSUME NEW w \in Workers, ThreadStep(w) PROVE JL!Next
  BY <1>6
  DEF ThreadStep, Completed, CompletedUnanswered, FailedOrRetried, HandlerFailed
<1>7. CASE Tick \/ UNCHANGED vars
  BY <1>7 DEF Tick, vars
<1> QED
  BY <1>1, <1>2, <1>3, <1>4, <1>5, <1>6, <1>7 DEF Next, LoopStep

\* With one process or attempts shorter than the lease, the queue with its clock, its loops and
\* its faults implements the lifecycle that JobLifecycle promises.
THEOREM QueueRefinement == LeaseHolds => (Spec => ImplementsLifecycle)
<1> SUFFICES ASSUME LeaseHolds PROVE Spec => JL!Spec
  BY DEF ImplementsLifecycle
<1>1. Init => JL!Init
  BY DEF Init
<1>2. LeaseInv /\ [Next]_vars => [JL!Next]_jobVars
  BY LifecycleStep
<1> QED
  BY <1>1, <1>2, LeaseInvariant, PTL DEF Spec, JL!Spec, jobVars, JL!jobVars

\* A job that has ended and that no thread holds is never touched again.
THEOREM QueueOutcomeIsFinal == LeaseHolds => (Spec => OutcomeIsFinal)
<1> SUFFICES ASSUME LeaseHolds PROVE Spec => JL!OutcomeIsFinal
  BY DEF OutcomeIsFinal
<1>1. LeaseInv /\ [Next]_vars
        => [\A j \in Jobs :
              status[j] \in JL!Terminal /\ (\A w \in Workers : working[w] # j)
                => status'[j] = status[j] /\ attempts'[j] = attempts[j]]_jobVars
  <2> SUFFICES ASSUME LeaseInv, [Next]_vars, NEW j \in Jobs, ~ UNCHANGED jobVars,
                      status[j] \in {"completed", "failed"},
                      \A w \in Workers : working[w] # j
               PROVE  status'[j] = status[j] /\ attempts'[j] = attempts[j]
    BY DEF JL!Terminal
  <2>1. JL!Next
    BY LifecycleStep
  <2>2. JL!TypeOK
    BY DEF LeaseInv, TypeOK
  <2>3. ASSUME NEW k \in Jobs, NEW w \in Workers,
               JL!Claim(w, k) \/ JL!ClaimLost(w, k)
        PROVE  status'[j] = status[j] /\ attempts'[j] = attempts[j]
    BY <2>2, <2>3
    DEF JL!TypeOK, JL!Claim, JL!ClaimLost, JL!TakeClaim
  <2>4. ASSUME NEW k \in Jobs, JL!Enqueue(k)
        PROVE  status'[j] = status[j] /\ attempts'[j] = attempts[j]
    BY <2>2, <2>4 DEF JL!TypeOK, JL!Enqueue
  <2>5. ASSUME NEW w \in Workers,
               \/ JL!Complete(w)
               \/ JL!CompleteUnanswered(w)
               \/ JL!FailOrRetry(w)
               \/ JL!Abandon(w)
        PROVE  status'[j] = status[j] /\ attempts'[j] = attempts[j]
    BY <2>2, <2>5
    DEF JL!TypeOK, JL!Complete, JL!CompleteUnanswered, JL!FailOrRetry,
        JL!Finish, JL!Abandon
  <2>6. ASSUME NEW stale \in SUBSET Jobs, JL!Recover(stale)
        PROVE  status'[j] = status[j] /\ attempts'[j] = attempts[j]
    BY <2>6 DEF JL!Recover, JL!Orphaned
  <2> QED
    BY <2>1, <2>3, <2>4, <2>5, <2>6 DEF JL!Next
<1> QED
  BY <1>1, LeaseInvariant, PTL DEF Spec, JL!OutcomeIsFinal, JL!jobVars, jobVars

-----------------------------------------------------------------------------
\* The counting part of the inductive invariant: a row that is up for another
\* claim, now or after its lease, has an attempt to spare.
Spare ==
    \A j \in Jobs :
        /\ attempts[j] <= MaxAttempts + faults
        /\ status[j] \in {"absent", "pending"} \/ JL!Orphaned(j)
              => attempts[j] < MaxAttempts + faults

\* No attempt is used at the start.
LEMMA SpareInit == Init => Spare
<1> SUFFICES ASSUME Init PROVE Spare
  OBVIOUS
<1>1. faults = 0 /\ \A j \in Jobs : attempts[j] = 0
  BY DEF Init, JL!Init
<1>2. 0 < MaxAttempts + 0 /\ 0 <= MaxAttempts + 0
  BY QueueAssumption
<1>3. \A j \in Jobs : /\ attempts[j] <= MaxAttempts + faults
                     /\ attempts[j] < MaxAttempts + faults
  BY <1>1, <1>2
<1> QED
  BY <1>3 DEF Spare

\* A claim spends the spare attempt, a fault pays for the next one, and a retry
\* has one left because mark_failed_or_retry compared with max_attempts.
LEMMA SpareStep ==
    ASSUME LeaseHolds, LeaseInv, Spare, [Next]_vars
    PROVE  Spare'
<1> TypeOK /\ TypeOK'
  BY TypeStep DEF LeaseInv
<1> USE QueueAssumption
    DEF Spare, TypeOK, JL!TypeOK, JL!Orphaned, jobVars, rowTimes
<1>1. ASSUME NEW j \in Jobs, Enqueue(j) PROVE Spare'
  BY <1>1 DEF Enqueue, JL!Enqueue
<1>2. ASSUME NEW w \in Workers,
             \/ Start(w)
             \/ NothingDue(w)
             \/ IterationFailed(w)
             \/ Wake(w)
             \/ Shutdown(w)
      PROVE  Spare'
  BY <1>2 DEF Start, NothingDue, IterationFailed, Wake, Shutdown
<1>3. ASSUME NEW w \in Workers, RecoverStaleJobs(w) PROVE Spare'
  <2>1. \A j \in Stale : JL!Orphaned(j)
    BY <1>3, StaleIsOrphaned DEF RecoverStaleJobs
  <2> QED
    BY <1>3, <2>1 DEF RecoverStaleJobs
<1>4. ASSUME NEW w \in Workers, ClaimNext(w) PROVE Spare'
  <2>1. PICK j \in OldestDue : JL!Claim(w, j)
    BY <1>4 DEF ClaimNext
  <2>2. j \in Jobs /\ faults' = faults
    BY <1>4 DEF ClaimNext, OldestDue, Due
  <2> QED
    BY <2>1, <2>2 DEF JL!Claim, JL!TakeClaim
<1>5. ASSUME NEW w \in Workers, ClaimLost(w) PROVE Spare'
  <2>1. PICK j \in OldestDue : JL!ClaimLost(w, j)
    BY <1>5 DEF ClaimLost
  <2>2. j \in Jobs /\ faults' = faults + 1
    BY <1>5 DEF ClaimLost, OldestDue, Due
  <2> QED
    BY <2>1, <2>2 DEF JL!ClaimLost, JL!TakeClaim
<1>6. ASSUME NEW w \in Workers, Crash(w) PROVE Spare'
  BY <1>6 DEF Crash
<1>7. ASSUME NEW w \in Workers, Completed(w) PROVE Spare'
  BY <1>7 DEF Completed, JL!Complete, JL!Finish
<1>8. ASSUME NEW w \in Workers, CompletedUnanswered(w) PROVE Spare'
  BY <1>8 DEF CompletedUnanswered, JL!CompleteUnanswered, JL!Finish
<1>9. ASSUME NEW w \in Workers, FailedOrRetried(w) PROVE Spare'
  BY <1>9 DEF FailedOrRetried, JL!FailOrRetry, JL!Finish
<1>10. ASSUME NEW w \in Workers, HandlerFailed(w) PROVE Spare'
  BY <1>10 DEF HandlerFailed, JL!Abandon
<1>11. CASE Tick \/ UNCHANGED vars
  BY <1>11 DEF Tick, vars
<1> QED
  BY <1>1, <1>2, <1>3, <1>4, <1>5, <1>6, <1>7, <1>8, <1>9, <1>10, <1>11
  DEF Next, LoopStep, ThreadStep

\* A job never has more attempts than its max_attempts and the faults together.
THEOREM QueueAttempts == LeaseHolds => (Spec => []AttemptsAccounted)
<1> SUFFICES ASSUME LeaseHolds PROVE Spec => []AttemptsAccounted
  OBVIOUS
<1>1. Spec => []LeaseInv
  BY LeaseInvariant
<1>2. LeaseInv /\ Spare /\ [Next]_vars => Spare'
  BY SpareStep
<1>3. Spare => AttemptsAccounted
  BY DEF Spare, AttemptsAccounted
<1> QED
  BY <1>1, <1>2, <1>3, SpareInit, PTL DEF Spec

-----------------------------------------------------------------------------
(***************************************************************************)
(* The order of the claims                                                 *)
(***************************************************************************)

\* A set of n elements has 2^n subsets, so the backoff's base never vanishes.
LEMMA PowersArePositive == \A n \in Nat : 2^n \in Nat /\ 2^n >= 1
<1>1. SUFFICES ASSUME NEW n \in Nat PROVE 2^n \in Nat /\ 2^n >= 1
  OBVIOUS
<1>2. IsFiniteSet(1..n) /\ Cardinality(1..n) = n
  BY FS_Interval
<1>3. IsFiniteSet(SUBSET (1..n)) /\ Cardinality(SUBSET (1..n)) = 2^n
  BY <1>2, FS_SUBSET
<1>4. SUBSET (1..n) # {}
  OBVIOUS
<1>5. 2^n \in Nat /\ 2^n # 0
  BY <1>3, <1>4, FS_CardinalityType, FS_EmptySet
<1> QED
  BY <1>5

\* A retry is never due at once.
LEMMA BackoffTakesTime == \A a \in Nat : a >= 1 => \A d \in Backoff(a) : d >= 1
<1>1. SUFFICES ASSUME NEW a \in Nat, a >= 1, NEW d \in Backoff(a) PROVE d >= 1
  OBVIOUS
<1> DEFINE p == 2^(a - 1)
           base == BackoffBase * p
<1>2. a - 1 \in Nat
  BY <1>1
<1>3. p \in Nat /\ p >= 1
  BY <1>2, PowersArePositive
<1>4. BackoffBase \in Nat /\ BackoffBase >= 1 /\ BackoffCap \in Nat /\ BackoffCap >= 1
  BY QueueAssumption
<1> HIDE DEF p
<1>5. base \in Nat /\ base >= 1
  <2>1. BackoffBase * p \in Nat
    BY <1>3, <1>4
  <2>2. BackoffBase * p # 0
    BY <1>3, <1>4
  <2> QED
    BY <2>1, <2>2
<1>6. Capped(a) = IF base < BackoffCap THEN base ELSE BackoffCap
  BY DEF Capped, p
<1> HIDE DEF base
<1>7. Capped(a) \in Nat /\ Capped(a) >= 1
  BY <1>4, <1>5, <1>6
<1>8. d \in Nat /\ Capped(a) <= d
  BY <1>4 DEF Backoff
<1> QED
  BY <1>7, <1>8

\* The history.
CountsOvertaking ==
    overtook' = [j \in Jobs |-> [k \in Jobs |->
                    IF k \notin Due \/ Claimed(k) THEN 0
                    ELSE IF Claimed(j) THEN overtook[j][k] + 1
                    ELSE overtook[j][k]]]

\* A thread runs a job whose attempt has been counted.
AttemptIsCounted ==
    \A w \in Workers : working[w] # NoJob => attempts[working[w]] >= 1

\* j has not been served since k became due, but for its faults: it is not there
\* yet, or its row is up for another claim and ranks before k's.
MayOvertake(j, k) ==
    \/ status[j] = "absent"
    \/ /\ status[j] = "pending" \/ JL!Orphaned(j)
       /\ next_attempt_at[j] <= next_attempt_at[k]

\* Who may still overtake k has done so only as often as a fault put it back.
Overtaking(j, k) ==
    /\ k \notin Due => overtook[j][k] = 0
    /\ overtook[j][k] <= 1 + faults
    /\ k \in Due /\ MayOvertake(j, k) => overtook[j][k] <= faults

OrderInv ==
    /\ overtook \in [Jobs -> [Jobs -> Nat]]
    /\ AttemptIsCounted
    /\ \A j, k \in Jobs : Overtaking(j, k)

LEMMA OrderInvInit == OrderInit => OrderInv
<1> SUFFICES ASSUME OrderInit PROVE OrderInv
  OBVIOUS
<1>1. faults = 0 /\ \A j, k \in Jobs : overtook[j][k] = 0
  BY DEF OrderInit, Init
<1>2. overtook \in [Jobs -> [Jobs -> Nat]]
  BY DEF OrderInit
<1>3. AttemptIsCounted
  BY DEF OrderInit, Init, JL!Init, AttemptIsCounted
<1> QED
  BY <1>1, <1>2, <1>3 DEF OrderInv, Overtaking

\* Only a claim starts a thread, and attempts never fall.
LEMMA AttemptStep ==
    ASSUME LeaseInv, AttemptIsCounted, [Next]_vars
    PROVE  AttemptIsCounted'
<1> USE QueueAssumption
    DEF LeaseInv, TypeOK, JL!TypeOK, AttemptIsCounted, jobVars, rowTimes
<1>1. ASSUME NEW j \in Jobs, Enqueue(j) PROVE AttemptIsCounted'
  BY <1>1 DEF Enqueue, JL!Enqueue
<1>2. ASSUME NEW w \in Workers,
             \/ Start(w) \/ NothingDue(w) \/ IterationFailed(w) \/ Wake(w)
             \/ Shutdown(w) \/ RecoverStaleJobs(w)
      PROVE  AttemptIsCounted'
  BY <1>2 DEF Start, NothingDue, IterationFailed, Wake, Shutdown, RecoverStaleJobs
<1>3. ASSUME NEW w \in Workers, ClaimNext(w) PROVE AttemptIsCounted'
  <2>1. PICK j \in Jobs : JL!Claim(w, j)
    BY <1>3 DEF ClaimNext, OldestDue, Due
  <2> QED
    BY <2>1 DEF JL!Claim, JL!TakeClaim
<1>4. ASSUME NEW w \in Workers, ClaimLost(w) PROVE AttemptIsCounted'
  <2>1. PICK j \in Jobs : JL!ClaimLost(w, j)
    BY <1>4 DEF ClaimLost, OldestDue, Due
  <2> QED
    BY <2>1 DEF JL!ClaimLost, JL!TakeClaim
<1>5. ASSUME NEW w \in Workers, Crash(w) \/ ThreadStep(w) PROVE AttemptIsCounted'
  BY <1>5 DEF Crash, ThreadStep, Completed, CompletedUnanswered, FailedOrRetried,
       HandlerFailed, JL!Complete, JL!CompleteUnanswered, JL!FailOrRetry, JL!Abandon,
       JL!Finish
<1>6. CASE Tick \/ UNCHANGED vars
  BY <1>6 DEF Tick, vars
<1> QED
  BY <1>1, <1>2, <1>3, <1>4, <1>5, <1>6 DEF Next, LoopStep

\* A step that claims nothing and counts no fault away: who may overtake k after
\* it could before it.
Calm(j, k) ==
    /\ faults' \in Nat /\ faults' >= faults
    /\ ~Claimed(j) /\ ~Claimed(k)
    /\ k \in Due /\ k \in Due' /\ MayOvertake(j, k)' =>
          MayOvertake(j, k) \/ faults' >= faults + 1

\* The claimed job's count grows by one, every other count stays or starts anew.
LEMMA CountedPair ==
    ASSUME overtook \in [Jobs -> [Jobs -> Nat]], CountsOvertaking,
           NEW j \in Jobs, NEW k \in Jobs
    PROVE  /\ overtook[j][k] \in Nat
           /\ overtook'[j][k] = IF k \notin Due \/ Claimed(k) THEN 0
                                ELSE IF Claimed(j) THEN overtook[j][k] + 1
                                ELSE overtook[j][k]
BY DEF CountsOvertaking

\* What is due stays due until it is claimed.
DueStays == \A k \in Due : k \in Due' \/ Claimed(k)

LEMMA CalmPair ==
    ASSUME TypeOK, OrderInv, CountsOvertaking, DueStays,
           NEW j \in Jobs, NEW k \in Jobs, Calm(j, k)
    PROVE  Overtaking(j, k)'
<1>1. faults \in Nat /\ faults' \in Nat /\ faults' >= faults
  BY DEF TypeOK, Calm
<1>2. overtook[j][k] \in Nat /\ Overtaking(j, k)
  BY CountedPair DEF OrderInv
<1>3. CASE k \notin Due
  <2>1. overtook'[j][k] = 0
    BY <1>3, CountedPair DEF OrderInv
  <2>2. overtook'[j][k] <= 1 + faults' /\ overtook'[j][k] <= faults'
    BY <1>1, <2>1
  <2> QED
    BY <2>1, <2>2 DEF Overtaking
<1>4. CASE k \in Due
  <2>1. overtook'[j][k] = overtook[j][k]
    BY <1>4, CountedPair DEF OrderInv, Calm
  <2>2. k \in Due'
    BY <1>4 DEF DueStays, Calm
  <2>3. overtook[j][k] <= 1 + faults
    BY <1>2 DEF Overtaking
  <2>4. MayOvertake(j, k)' => overtook[j][k] <= faults'
    <3>1. ASSUME MayOvertake(j, k)' PROVE overtook[j][k] <= faults'
      <4>1. MayOvertake(j, k) \/ faults' >= faults + 1
        BY <1>4, <2>2, <3>1 DEF Calm
      <4>2. CASE MayOvertake(j, k)
        <5>1. overtook[j][k] <= faults
          BY <1>2, <1>4, <4>2 DEF Overtaking
        <5> QED
          BY <1>1, <1>2, <5>1
      <4>3. CASE faults' >= faults + 1
        BY <1>1, <1>2, <2>3, <4>3
      <4> QED
        BY <4>1, <4>2, <4>3
    <3> QED
      BY <3>1
  <2>5. overtook'[j][k] <= 1 + faults'
    BY <1>1, <1>2, <2>1, <2>3
  <2> QED
    BY <2>1, <2>2, <2>4, <2>5 DEF Overtaking
<1> QED
  BY <1>3, <1>4

\* A claim of c, by a thread or lost.
Claims(c) ==
    /\ c \in OldestDue
    /\ JL!TakeClaim(c)
    /\ UNCHANGED <<next_attempt_at, now>>
    /\ \/ /\ faults' = faults
          /\ \E w \in Workers : working'[w] = c
       \/ /\ faults' = faults + 1
          /\ UNCHANGED working
    /\ \A w \in Workers, j \in Jobs \ {c} : working[w] = j => working'[w] = j

LEMMA ClaimedPair ==
    ASSUME TypeOK, OrderInv, CountsOvertaking, NEW c, Claims(c),
           NEW j \in Jobs, NEW k \in Jobs
    PROVE  Overtaking(j, k)'
<1>1. /\ faults \in Nat /\ faults' \in Nat
      /\ faults' = faults \/ faults' = faults + 1
  BY DEF TypeOK, Claims
<1>2. overtook[j][k] \in Nat /\ Overtaking(j, k)
  BY CountedPair DEF OrderInv
<1>3. /\ c \in Due
      /\ c \in Jobs
      /\ status[c] = "pending"
      /\ \A i \in Due : next_attempt_at[c] <= next_attempt_at[i]
  BY DEF Claims, OldestDue, Due
<1>4. status' = [status EXCEPT ![c] = "processing"] /\ status \in [Jobs -> JL!JobStatus]
  BY DEF Claims, JL!TakeClaim, TypeOK, JL!TypeOK
<1>5. \A i \in Jobs : Claimed(i) <=> i = c
  BY <1>3, <1>4 DEF Claimed
<1>6. \A i \in Jobs : i \in Due' <=> i \in Due /\ i # c
  BY <1>3, <1>4 DEF Due, Claims
<1>7. CASE k \notin Due \/ k = c
  <2>1. overtook'[j][k] = 0
    BY <1>5, <1>7, CountedPair DEF OrderInv
  <2>2. faults' \in Nat
    BY <1>1
  <2>3. \A n \in Nat : 0 <= 1 + n /\ 0 <= n
    OBVIOUS
  <2>4. overtook'[j][k] <= 1 + faults' /\ overtook'[j][k] <= faults'
    BY <2>1, <2>2, <2>3
  <2> QED
    BY <2>1, <2>4 DEF Overtaking
<1>8. CASE k \in Due /\ k # c /\ j = c
  <2>1. overtook'[j][k] = overtook[j][k] + 1
    BY <1>5, <1>8, CountedPair DEF OrderInv
  <2>2. MayOvertake(j, k)
    BY <1>3, <1>8 DEF MayOvertake
  <2>3. overtook[j][k] <= faults
    BY <1>2, <1>8, <2>2 DEF Overtaking
  <2>4. MayOvertake(j, k)' => faults' = faults + 1
    <3>1. ASSUME faults' = faults PROVE ~ MayOvertake(j, k)'
      <4>1. PICK w \in Workers : working'[w] = c
        BY <1>1, <3>1 DEF Claims
      <4>2. status'[j] = "processing"
        BY <1>3, <1>4, <1>8
      <4>3. ~ JL!Orphaned(j)'
        BY <1>8, <4>1 DEF JL!Orphaned
      <4> QED
        BY <4>2, <4>3 DEF MayOvertake
    <3> QED
      BY <1>1, <3>1
  <2>5. k \in Due'
    BY <1>6, <1>8
  <2>6. overtook'[j][k] <= 1 + faults'
    BY <1>1, <1>2, <2>1, <2>3
  <2>7. MayOvertake(j, k)' => overtook'[j][k] <= faults'
    BY <1>1, <1>2, <2>1, <2>3, <2>4
  <2> QED
    BY <2>5, <2>6, <2>7 DEF Overtaking
<1>9. CASE k \in Due /\ k # c /\ j # c
  <2>1. overtook'[j][k] = overtook[j][k]
    BY <1>5, <1>9, CountedPair DEF OrderInv
  <2>2. status'[j] = status[j] /\ UNCHANGED next_attempt_at
    BY <1>4, <1>9 DEF Claims
  <2>3. JL!Orphaned(j)' => JL!Orphaned(j)
    <3>1. \A w \in Workers : working[w] = j => working'[w] = j
      BY <1>9 DEF Claims
    <3> QED
      BY <2>2, <3>1 DEF JL!Orphaned
  <2>4. MayOvertake(j, k)' => MayOvertake(j, k)
    BY <2>2, <2>3 DEF MayOvertake
  <2>5. k \in Due'
    BY <1>6, <1>9
  <2>6. overtook[j][k] <= 1 + faults /\ (MayOvertake(j, k) => overtook[j][k] <= faults)
    BY <1>2, <1>9 DEF Overtaking
  <2>7. overtook'[j][k] <= 1 + faults' /\ (MayOvertake(j, k)' => overtook'[j][k] <= faults')
    BY <1>1, <1>2, <2>1, <2>4, <2>6
  <2> QED
    BY <2>5, <2>7 DEF Overtaking
<1> QED
  BY <1>7, <1>8, <1>9

\* A step that claims nothing.
CalmStep == DueStays /\ \A j, k \in Jobs : Calm(j, k)

LEMMA LoopIsCalm ==
    ASSUME LeaseInv,
           \/ Tick \/ UNCHANGED vars
           \/ \E w \in Workers : \/ Start(w) \/ NothingDue(w) \/ IterationFailed(w)
                                 \/ Wake(w) \/ Shutdown(w)
    PROVE  CalmStep
<1>1. /\ UNCHANGED <<status, working, next_attempt_at, faults>>
      /\ now' = now \/ now' = now + 1
  BY DEF Tick, vars, Start, NothingDue, IterationFailed, Wake, Shutdown, jobVars, rowTimes
<1>2. now \in Nat /\ faults \in Nat /\ next_attempt_at \in [Jobs -> Nat]
  BY DEF LeaseInv, TypeOK
<1>3. DueStays
  BY <1>1, <1>2 DEF DueStays, Due
<1>4. ASSUME NEW j \in Jobs, NEW k \in Jobs PROVE Calm(j, k)
  <2>1. ~Claimed(j) /\ ~Claimed(k)
    BY <1>1 DEF Claimed
  <2>2. MayOvertake(j, k)' => MayOvertake(j, k)
    BY <1>1 DEF MayOvertake, JL!Orphaned
  <2>3. faults' \in Nat /\ faults' >= faults
    BY <1>1, <1>2
  <2> QED
    BY <2>1, <2>2, <2>3 DEF Calm
<1> QED
  BY <1>3, <1>4 DEF CalmStep

LEMMA EnqueueIsCalm ==
    ASSUME LeaseInv, NEW e \in Jobs, Enqueue(e)
    PROVE  CalmStep
<1>1. /\ status[e] = "absent"
      /\ status' = [status EXCEPT ![e] = "pending"]
      /\ next_attempt_at' = [next_attempt_at EXCEPT ![e] = now]
      /\ UNCHANGED <<working, now, faults>>
  BY DEF Enqueue, JL!Enqueue
<1>2. /\ now \in Nat /\ faults \in Nat /\ next_attempt_at \in [Jobs -> Nat]
      /\ status \in [Jobs -> JL!JobStatus]
  BY DEF LeaseInv, TypeOK, JL!TypeOK
<1>3. \A i \in Jobs \ {e} : status'[i] = status[i] /\ next_attempt_at'[i] = next_attempt_at[i]
  BY <1>1, <1>2
<1>4. e \notin Due /\ status'[e] = "pending"
  BY <1>1, <1>2 DEF Due
<1>5. DueStays
  BY <1>1, <1>3, <1>4 DEF DueStays, Due
<1>6. ASSUME NEW j \in Jobs, NEW k \in Jobs PROVE Calm(j, k)
  <2>1. ~Claimed(j) /\ ~Claimed(k)
    BY <1>3, <1>4 DEF Claimed
  <2>2. ASSUME k \in Due, MayOvertake(j, k)' PROVE MayOvertake(j, k)
    <3>1. k # e
      BY <1>4, <2>2
    <3>2. CASE j = e
      BY <1>1, <3>2 DEF MayOvertake
    <3>3. CASE j # e
      <4>1. /\ status'[j] = status[j]
            /\ next_attempt_at'[j] = next_attempt_at[j]
            /\ next_attempt_at'[k] = next_attempt_at[k]
        BY <1>3, <3>1, <3>3
      <4> QED
        BY <1>1, <2>2, <4>1 DEF MayOvertake, JL!Orphaned
    <3> QED
      BY <3>2, <3>3
  <2>3. faults' \in Nat /\ faults' >= faults
    BY <1>1, <1>2
  <2> QED
    BY <2>1, <2>2, <2>3 DEF Calm
<1> QED
  BY <1>5, <1>6 DEF CalmStep

LEMMA RecoveryIsCalm ==
    ASSUME LeaseHolds, LeaseInv, NEW w \in Workers, RecoverStaleJobs(w)
    PROVE  CalmStep
<1>1. /\ loop[w] = "reap"
      /\ status' = [j \in Jobs |-> IF j \in Stale THEN "pending" ELSE status[j]]
      /\ UNCHANGED <<working, next_attempt_at, now, faults>>
  BY DEF RecoverStaleJobs
<1>2. \A j \in Stale : JL!Orphaned(j)
  BY <1>1, StaleIsOrphaned
<1>3. now \in Nat /\ faults \in Nat
  BY DEF LeaseInv, TypeOK
<1>4. \A i \in Jobs : \/ i \in Stale /\ status'[i] = "pending"
                      \/ i \notin Stale /\ status'[i] = status[i]
  BY <1>1
<1>5. DueStays
  BY <1>1, <1>4 DEF DueStays, Due
<1>6. ASSUME NEW j \in Jobs, NEW k \in Jobs PROVE Calm(j, k)
  <2>1. ~Claimed(j) /\ ~Claimed(k)
    BY <1>4 DEF Claimed
  <2>2. MayOvertake(j, k)' => MayOvertake(j, k)
    <3>1. CASE j \in Stale
      <4>1. JL!Orphaned(j) /\ status'[j] = "pending"
        BY <1>2, <1>4, <3>1
      <4> QED
        BY <1>1, <4>1 DEF MayOvertake
    <3>2. CASE j \notin Stale
      <4>1. status'[j] = status[j]
        BY <1>4, <3>2
      <4> QED
        BY <1>1, <4>1 DEF MayOvertake, JL!Orphaned
    <3> QED
      BY <3>1, <3>2
  <2>3. faults' \in Nat /\ faults' >= faults
    BY <1>1, <1>3
  <2> QED
    BY <2>1, <2>2, <2>3 DEF Calm
<1> QED
  BY <1>5, <1>6 DEF CalmStep

\* A fault that takes a thread, and a mark_completed, put nobody ahead for free.
LEMMA FaultIsCalm ==
    ASSUME LeaseInv, NEW w \in Workers,
           Crash(w) \/ HandlerFailed(w)
    PROVE  CalmStep
<1>1. UNCHANGED <<status, next_attempt_at, now>> /\ faults' = faults + 1
  BY DEF Crash, HandlerFailed, JL!Abandon, rowTimes
<1>2. now \in Nat /\ faults \in Nat
  BY DEF LeaseInv, TypeOK
<1>3. DueStays
  BY <1>1 DEF DueStays, Due
<1>4. ASSUME NEW j \in Jobs, NEW k \in Jobs PROVE Calm(j, k)
  <2>1. ~Claimed(j) /\ ~Claimed(k)
    BY <1>1 DEF Claimed
  <2>2. faults' \in Nat /\ faults' >= faults /\ faults' >= faults + 1
    BY <1>1, <1>2
  <2> QED
    BY <2>1, <2>2 DEF Calm
<1> QED
  BY <1>3, <1>4 DEF CalmStep

\* The job that a thread gives up is not due, and nobody else runs it.
LEMMA FinishedPair ==
    ASSUME LeaseInv, NEW w \in Workers, NEW outcome, JL!Finish(w, outcome)
    PROVE  /\ working[w] \in Jobs
           /\ working[w] \notin Due
           /\ status'[working[w]] = outcome
           /\ \A i \in Jobs \ {working[w]} : status'[i] = status[i]
<1>1. working[w] \in Jobs /\ status \in [Jobs -> JL!JobStatus]
  BY DEF JL!Finish, LeaseInv, TypeOK, JL!TypeOK
<1>2. status[working[w]] \in {"processing", "completed"}
  BY DEF JL!Finish, LeaseInv, ClaimIsCurrent
<1>3. status' = [status EXCEPT ![working[w]] = outcome]
  BY DEF JL!Finish
<1> QED
  BY <1>1, <1>2, <1>3 DEF Due

LEMMA CompletionIsCalm ==
    ASSUME LeaseInv, NEW w \in Workers, Completed(w) \/ CompletedUnanswered(w)
    PROVE  CalmStep
<1>1. /\ JL!Finish(w, "completed")
      /\ UNCHANGED <<next_attempt_at, now>>
      /\ faults' = faults \/ faults' = faults + 1
      /\ working' = working \/ working' = [working EXCEPT ![w] = NoJob]
  BY DEF Completed, CompletedUnanswered, JL!Complete, JL!CompleteUnanswered, rowTimes
<1>2. PICK i \in Jobs : working[w] = i
  BY <1>1, FinishedPair
<1>3. /\ i \notin Due /\ status'[i] = "completed"
      /\ \A j \in Jobs \ {i} : status'[j] = status[j]
  BY <1>1, <1>2, FinishedPair
<1>4. now \in Nat /\ faults \in Nat /\ working \in [Workers -> Jobs \cup {NoJob}]
  BY DEF LeaseInv, TypeOK, JL!TypeOK
<1>5. DueStays
  BY <1>1, <1>3 DEF DueStays, Due
<1>6. ASSUME NEW j \in Jobs, NEW k \in Jobs PROVE Calm(j, k)
  <2>1. ~Claimed(j) /\ ~Claimed(k)
    BY <1>3 DEF Claimed
  <2>2. MayOvertake(j, k)' => MayOvertake(j, k)
    <3>1. CASE j = i
      BY <1>3, <3>1 DEF MayOvertake, JL!Orphaned
    <3>2. CASE j # i
      <4>1. status'[j] = status[j]
        BY <1>3, <3>2
      <4>2. \A v \in Workers : working[v] = j => working'[v] = j
        BY <1>1, <1>2, <1>4, <3>2
      <4> QED
        BY <1>1, <4>1, <4>2 DEF MayOvertake, JL!Orphaned
    <3> QED
      BY <3>1, <3>2
  <2>3. faults' \in Nat /\ faults' >= faults
    BY <1>1, <1>4
  <2> QED
    BY <2>1, <2>2, <2>3 DEF Calm
<1> QED
  BY <1>5, <1>6 DEF CalmStep

\* A retry goes to the end: it is due later than everything that is due now.
LEMMA RetryIsCalm ==
    ASSUME LeaseInv, AttemptIsCounted, NEW w \in Workers, FailedOrRetried(w)
    PROVE  CalmStep
<1>1. /\ UNCHANGED <<now, faults>>
      /\ working' = [working EXCEPT ![w] = NoJob]
      /\ working[w] # NoJob
  BY DEF FailedOrRetried, JL!FailOrRetry, JL!Finish
<1>2. PICK outcome \in {"failed", "pending"} :
         /\ JL!Finish(w, outcome)
         /\ outcome = IF attempts[working[w]] >= MaxAttempts THEN "failed" ELSE "pending"
  BY DEF FailedOrRetried, JL!FailOrRetry
<1>3. PICK i \in Jobs : working[w] = i
  BY <1>2, FinishedPair
<1>4. /\ i \notin Due /\ status'[i] = outcome
      /\ \A j \in Jobs \ {i} : status'[j] = status[j]
  BY <1>2, <1>3, FinishedPair
<1>5. /\ now \in Nat /\ faults \in Nat /\ working \in [Workers -> Jobs \cup {NoJob}]
      /\ next_attempt_at \in [Jobs -> Nat] /\ attempts[i] \in Nat
  BY DEF LeaseInv, TypeOK, JL!TypeOK
<1>6. attempts[i] >= 1
  BY <1>1, <1>3 DEF AttemptIsCounted
<1>7. /\ \A j \in Jobs \ {i} : next_attempt_at'[j] = next_attempt_at[j]
      /\ outcome = "pending" => next_attempt_at'[i] > now
  <2>1. CASE attempts[i] >= MaxAttempts
    <3>1. UNCHANGED next_attempt_at /\ outcome = "failed"
      BY <1>2, <1>3, <2>1 DEF FailedOrRetried
    <3> QED
      BY <3>1
  <2>2. CASE ~(attempts[i] >= MaxAttempts)
    <3>1. PICK d \in Backoff(attempts[i]) :
            next_attempt_at' = [next_attempt_at EXCEPT ![i] = now + d]
      BY <1>3, <2>2 DEF FailedOrRetried
    <3>2. d \in Nat /\ d >= 1
      BY <1>5, <1>6, BackoffNat, BackoffTakesTime
    <3>3. next_attempt_at'[i] = now + d /\ now + d > now
      BY <1>5, <3>1, <3>2
    <3>4. \A j \in Jobs \ {i} : next_attempt_at'[j] = next_attempt_at[j]
      BY <1>5, <3>1
    <3> QED
      BY <3>3, <3>4
  <2> QED
    BY <2>1, <2>2
<1>8. DueStays
  BY <1>1, <1>4, <1>7 DEF DueStays, Due
<1>9. ASSUME NEW j \in Jobs, NEW k \in Jobs PROVE Calm(j, k)
  <2>1. ~Claimed(j) /\ ~Claimed(k)
    BY <1>2, <1>4 DEF Claimed
  <2>2. ASSUME k \in Due, MayOvertake(j, k)' PROVE MayOvertake(j, k)
    <3>1. k # i /\ next_attempt_at[k] <= now /\ next_attempt_at'[k] = next_attempt_at[k]
      BY <1>4, <1>7, <2>2 DEF Due
    <3>2. CASE j = i
      <4>1. ~(next_attempt_at'[j] <= next_attempt_at'[k]) \/ outcome = "failed"
        <5>1. CASE outcome = "pending"
          <6>1. next_attempt_at'[i] > now /\ next_attempt_at[k] \in Nat
            BY <1>5, <1>7, <5>1
          <6>2. next_attempt_at'[k] <= now
            BY <3>1
          <6>3. next_attempt_at'[i] \in Nat
            <7>1. TypeOK'
              BY TypeStep DEF LeaseInv, Next, ThreadStep
            <7> QED
              BY <7>1 DEF TypeOK
          <6> QED
            BY <1>5, <3>1, <3>2, <6>1, <6>2, <6>3
        <5> QED
          BY <1>2, <5>1
      <4>2. outcome = "failed" => status'[j] = "failed"
        BY <1>4, <3>2
      <4>3. status'[j] # "absent" /\ status'[j] # "processing"
        BY <1>2, <1>4, <3>2
      <4> QED
        BY <2>2, <4>1, <4>2, <4>3 DEF MayOvertake, JL!Orphaned
    <3>3. CASE j # i
      <4>1. status'[j] = status[j] /\ next_attempt_at'[j] = next_attempt_at[j]
        BY <1>4, <1>7, <3>3
      <4>2. \A v \in Workers : working[v] = j => working'[v] = j
        BY <1>1, <1>3, <1>5, <3>3
      <4> QED
        BY <2>2, <3>1, <4>1, <4>2 DEF MayOvertake, JL!Orphaned
    <3> QED
      BY <3>2, <3>3
  <2>3. faults' \in Nat /\ faults' >= faults
    BY <1>1, <1>5
  <2> QED
    BY <2>1, <2>2, <2>3 DEF Calm
<1> QED
  BY <1>8, <1>9 DEF CalmStep

LEMMA ClaimStep ==
    ASSUME LeaseInv, NEW w \in Workers, ClaimNext(w) \/ ClaimLost(w)
    PROVE  \E c \in Jobs : Claims(c)
<1>1. working \in [Workers -> Jobs \cup {NoJob}] /\ NoJob \notin Jobs
  BY QueueAssumption DEF LeaseInv, TypeOK, JL!TypeOK
<1>2. CASE ClaimNext(w)
  <2>1. PICK c \in OldestDue : JL!Claim(w, c)
    BY <1>2 DEF ClaimNext
  <2>2. UNCHANGED <<next_attempt_at, now, faults>>
    BY <1>2 DEF ClaimNext
  <2>3. /\ c \in Jobs /\ JL!TakeClaim(c)
        /\ working[w] = NoJob
        /\ working' = [working EXCEPT ![w] = c]
    BY <2>1 DEF OldestDue, Due, JL!Claim
  <2>4. /\ working'[w] = c
        /\ \A v \in Workers, j \in Jobs \ {c} : working[v] = j => working'[v] = j
    BY <1>1, <2>3
  <2> QED
    BY <2>1, <2>2, <2>3, <2>4 DEF Claims
<1>3. CASE ClaimLost(w)
  <2>1. PICK c \in OldestDue : JL!ClaimLost(w, c)
    BY <1>3 DEF ClaimLost
  <2>2. UNCHANGED <<next_attempt_at, now>> /\ faults' = faults + 1
    BY <1>3 DEF ClaimLost
  <2>3. c \in Jobs /\ JL!TakeClaim(c) /\ UNCHANGED working
    BY <2>1 DEF OldestDue, Due, JL!ClaimLost
  <2> QED
    BY <2>1, <2>2, <2>3 DEF Claims
<1> QED
  BY <1>2, <1>3

LEMMA OrderInvStep ==
    ASSUME LeaseHolds, LeaseInv, OrderInv, [OrderNext]_orderVars
    PROVE  OrderInv'
<1>1. CASE UNCHANGED orderVars
  <2>1. UNCHANGED <<status, attempts, working, next_attempt_at, now, faults, overtook>>
    BY <1>1 DEF orderVars, vars
  <2>2. Due' = Due
    BY <2>1 DEF Due
  <2>3. \A j, k \in Jobs : MayOvertake(j, k)' <=> MayOvertake(j, k)
    BY <2>1 DEF MayOvertake, JL!Orphaned
  <2>4. AttemptIsCounted'
    BY <2>1 DEF OrderInv, AttemptIsCounted
  <2>5. \A j, k \in Jobs : Overtaking(j, k)'
    BY <2>1, <2>2, <2>3 DEF OrderInv, Overtaking
  <2> QED
    BY <2>1, <2>4, <2>5 DEF OrderInv
<1>2. ASSUME Next, CountsOvertaking PROVE OrderInv'
  <2>1. AttemptIsCounted'
    BY <1>2, AttemptStep DEF OrderInv
  <2>2. overtook' \in [Jobs -> [Jobs -> Nat]]
    <3>1. ASSUME NEW j \in Jobs, NEW k \in Jobs PROVE overtook'[j][k] \in Nat
      BY <1>2, CountedPair DEF OrderInv
    <3> QED
      BY <1>2, <3>1 DEF CountsOvertaking
  <2>3. (\E c \in Jobs : Claims(c)) \/ CalmStep
    <3>1. CASE \E j \in Jobs : Enqueue(j)
      BY <3>1, EnqueueIsCalm
    <3>2. ASSUME NEW w \in Workers, LoopStep(w)
          PROVE  (\E c \in Jobs : Claims(c)) \/ CalmStep
      BY <3>2, LoopIsCalm, RecoveryIsCalm, ClaimStep, FaultIsCalm DEF LoopStep
    <3>3. ASSUME NEW w \in Workers, ThreadStep(w) PROVE CalmStep
      BY <3>3, CompletionIsCalm, RetryIsCalm, FaultIsCalm DEF ThreadStep, OrderInv
    <3>4. CASE Tick
      BY <3>4, LoopIsCalm
    <3> QED
      BY <1>2, <3>1, <3>2, <3>3, <3>4 DEF Next
  <2>4. TypeOK
    BY DEF LeaseInv
  <2>5. \A j, k \in Jobs : Overtaking(j, k)'
    <3>1. ASSUME NEW c \in Jobs, Claims(c), NEW j \in Jobs, NEW k \in Jobs
          PROVE  Overtaking(j, k)'
      BY <1>2, <2>4, <3>1, ClaimedPair
    <3>2. ASSUME CalmStep, NEW j \in Jobs, NEW k \in Jobs PROVE Overtaking(j, k)'
      BY <1>2, <2>4, <3>2, CalmPair DEF CalmStep
    <3> QED
      BY <2>3, <3>1, <3>2
  <2> QED
    BY <2>1, <2>2, <2>5 DEF OrderInv
<1> QED
  BY <1>1, <1>2 DEF OrderNext, CountsOvertaking

\* claim_next serves the oldest due row first: while a job is due, another job is
\* claimed ahead of it at most once, and once more for each fault that put the
\* other job back with its old next_attempt_at, for any number of jobs.
THEOREM QueueOvertaking == LeaseHolds => (OrderSpec => []BoundedOvertaking)
<1> SUFFICES ASSUME LeaseHolds PROVE OrderSpec => []BoundedOvertaking
  OBVIOUS
<1>1. OrderInit => LeaseInv
  BY LeaseInit DEF OrderInit
<1>2. LeaseInv /\ [OrderNext]_orderVars => LeaseInv'
  BY LeaseStep DEF OrderNext, orderVars
<1>3. LeaseInv /\ OrderInv /\ [OrderNext]_orderVars => OrderInv'
  BY OrderInvStep
<1>4. OrderInv => BoundedOvertaking
  BY DEF OrderInv, Overtaking, BoundedOvertaking
<1> QED
  BY <1>1, <1>2, <1>3, <1>4, OrderInvInit, PTL DEF OrderSpec
=============================================================================

------------------------- MODULE JobLifecycleProofs -------------------------
(***************************************************************************)
(* What JobLifecycle guarantees, for any jobs, workers and max_attempts.   *)
(* IngestionQueueProofs and DocumentPipelineProofs inherit these theorems  *)
(* through their refinement.                                               *)
(***************************************************************************)
EXTENDS JobLifecycle, TLAPS

\* The variables keep their types: rows of ingestion_jobs and worker threads.
THEOREM LifecycleTypes == Spec => []TypeOK
<1>1. Init => TypeOK
  BY DEF Init, TypeOK, JobStatus
<1>2. TypeOK /\ [Next]_jobVars => TypeOK'
  <2> SUFFICES ASSUME TypeOK, [Next]_jobVars PROVE TypeOK'
    OBVIOUS
  <2> USE DEF TypeOK, JobStatus
  <2>1. ASSUME NEW j \in Jobs, Enqueue(j) PROVE TypeOK'
    BY <2>1 DEF Enqueue
  <2>2. ASSUME NEW w \in Workers, NEW j \in Jobs, Claim(w, j) PROVE TypeOK'
    BY <2>2 DEF Claim, TakeClaim
  <2>3. ASSUME NEW w \in Workers, NEW j \in Jobs, ClaimLost(w, j) PROVE TypeOK'
    BY <2>3 DEF ClaimLost, TakeClaim
  <2>4. ASSUME NEW w \in Workers, Complete(w) PROVE TypeOK'
    BY <2>4 DEF Complete, Finish
  <2>5. ASSUME NEW w \in Workers, CompleteUnanswered(w) PROVE TypeOK'
    BY <2>5 DEF CompleteUnanswered, Finish
  <2>6. ASSUME NEW w \in Workers, FailOrRetry(w) PROVE TypeOK'
    BY <2>6 DEF FailOrRetry, Finish
  <2>7. ASSUME NEW w \in Workers, Abandon(w) PROVE TypeOK'
    BY <2>7 DEF Abandon
  <2>8. ASSUME NEW stale \in SUBSET Jobs, Recover(stale) PROVE TypeOK'
    BY <2>8 DEF Recover
  <2>9. CASE UNCHANGED jobVars
    BY <2>9 DEF jobVars
  <2> QED
    BY <2>1, <2>2, <2>3, <2>4, <2>5, <2>6, <2>7, <2>8, <2>9 DEF Next
<1> QED
  BY <1>1, <1>2, PTL DEF Spec

\* No two worker threads ever run the same job, and a running job is not up for
\* a claim: what FOR UPDATE SKIP LOCKED and the lease exist for.
THEOREM LifecycleExclusion == Spec => []ExclusiveClaim
<1>1. Init => ExclusiveClaim
  BY DEF Init, ExclusiveClaim
<1>2. TypeOK /\ ExclusiveClaim /\ [Next]_jobVars => ExclusiveClaim'
  <2> SUFFICES ASSUME TypeOK, ExclusiveClaim, [Next]_jobVars
               PROVE  ExclusiveClaim'
    OBVIOUS
  <2> USE DEF TypeOK, ExclusiveClaim
  <2>1. ASSUME NEW j \in Jobs, Enqueue(j) PROVE ExclusiveClaim'
    BY <2>1 DEF Enqueue
  <2>2. ASSUME NEW w \in Workers, NEW j \in Jobs, Claim(w, j)
        PROVE  ExclusiveClaim'
    <3>1. \A v \in Workers : working[v] = j => j = NoJob
      BY <2>2 DEF Claim, TakeClaim
    <3> QED
      BY <2>2, <3>1 DEF Claim, TakeClaim
  <2>3. ASSUME NEW w \in Workers, NEW j \in Jobs, ClaimLost(w, j)
        PROVE  ExclusiveClaim'
    BY <2>3 DEF ClaimLost, TakeClaim
  <2>4. ASSUME NEW w \in Workers, Complete(w) PROVE ExclusiveClaim'
    BY <2>4 DEF Complete, Finish
  <2>5. ASSUME NEW w \in Workers, CompleteUnanswered(w) PROVE ExclusiveClaim'
    BY <2>5 DEF CompleteUnanswered, Finish
  <2>6. ASSUME NEW w \in Workers, FailOrRetry(w) PROVE ExclusiveClaim'
    BY <2>6 DEF FailOrRetry, Finish
  <2>7. ASSUME NEW w \in Workers, Abandon(w) PROVE ExclusiveClaim'
    BY <2>7 DEF Abandon
  <2>8. ASSUME NEW stale \in SUBSET Jobs, Recover(stale) PROVE ExclusiveClaim'
    BY <2>8 DEF Recover, Orphaned
  <2>9. CASE UNCHANGED jobVars
    BY <2>9 DEF jobVars
  <2> QED
    BY <2>1, <2>2, <2>3, <2>4, <2>5, <2>6, <2>7, <2>8, <2>9 DEF Next
<1> QED
  BY <1>1, <1>2, LifecycleTypes, PTL DEF Spec

\* A "failed" job has used its attempts up: a retry is never denied early. The
\* counter only grows, and no action but FailOrRetry writes "failed".
THEOREM LifecycleExhaustion == Spec => []FailedIsExhausted
<1>1. Init => FailedIsExhausted
  BY DEF Init, FailedIsExhausted
<1>2. TypeOK /\ ExclusiveClaim /\ FailedIsExhausted /\ [Next]_jobVars
        => FailedIsExhausted'
  <2> SUFFICES ASSUME TypeOK, ExclusiveClaim, FailedIsExhausted, [Next]_jobVars
               PROVE  FailedIsExhausted'
    OBVIOUS
  <2> USE DEF TypeOK, FailedIsExhausted
  <2>1. ASSUME NEW j \in Jobs, Enqueue(j) PROVE FailedIsExhausted'
    BY <2>1 DEF Enqueue
  <2>2. ASSUME NEW j \in Jobs, TakeClaim(j) PROVE FailedIsExhausted'
    BY <2>2 DEF TakeClaim
  <2>3. ASSUME NEW w \in Workers, Finish(w, "completed")
        PROVE  FailedIsExhausted'
    BY <2>3 DEF Finish
  <2>4. ASSUME NEW w \in Workers, FailOrRetry(w) PROVE FailedIsExhausted'
    BY <2>4 DEF FailOrRetry, Finish
  <2>5. ASSUME NEW w \in Workers, Abandon(w) PROVE FailedIsExhausted'
    BY <2>5 DEF Abandon
  <2>6. ASSUME NEW stale \in SUBSET Jobs, Recover(stale)
        PROVE  FailedIsExhausted'
    BY <2>6 DEF Recover
  <2>7. CASE UNCHANGED jobVars
    BY <2>7 DEF jobVars
  <2> QED
    BY <2>1, <2>2, <2>3, <2>4, <2>5, <2>6, <2>7
    DEF Next, Claim, ClaimLost, Complete, CompleteUnanswered
<1> QED
  BY <1>1, <1>2, LifecycleTypes, LifecycleExclusion, PTL DEF Spec

\* A job that has ended and that no thread holds is never touched again.
THEOREM LifecycleFinality == Spec => OutcomeIsFinal
<1>1. TypeOK /\ [Next]_jobVars
        => [\A j \in Jobs :
              status[j] \in Terminal /\ (\A w \in Workers : working[w] # j)
                => status'[j] = status[j] /\ attempts'[j] = attempts[j]]_jobVars
  <2> SUFFICES ASSUME TypeOK, Next, NEW j \in Jobs,
                      status[j] \in Terminal,
                      \A w \in Workers : working[w] # j
               PROVE  status'[j] = status[j] /\ attempts'[j] = attempts[j]
    BY DEF jobVars
  <2> USE DEF TypeOK, Terminal
  <2>1. ASSUME NEW k \in Jobs, Enqueue(k)
        PROVE  status'[j] = status[j] /\ attempts'[j] = attempts[j]
    BY <2>1 DEF Enqueue
  <2>2. ASSUME NEW k \in Jobs, TakeClaim(k)
        PROVE  status'[j] = status[j] /\ attempts'[j] = attempts[j]
    BY <2>2 DEF TakeClaim
  <2>3. ASSUME NEW w \in Workers,
               Complete(w) \/ CompleteUnanswered(w) \/ FailOrRetry(w)
        PROVE  status'[j] = status[j] /\ attempts'[j] = attempts[j]
    BY <2>3 DEF Complete, CompleteUnanswered, FailOrRetry, Finish
  <2>4. ASSUME NEW w \in Workers, Abandon(w)
        PROVE  status'[j] = status[j] /\ attempts'[j] = attempts[j]
    BY <2>4 DEF Abandon
  <2>5. ASSUME NEW stale \in SUBSET Jobs, Recover(stale)
        PROVE  status'[j] = status[j] /\ attempts'[j] = attempts[j]
    BY <2>5 DEF Recover, Orphaned
  <2> QED
    BY <2>1, <2>2, <2>3, <2>4, <2>5 DEF Next, Claim, ClaimLost
<1> QED
  BY <1>1, LifecycleTypes, PTL DEF Spec, OutcomeIsFinal
=============================================================================

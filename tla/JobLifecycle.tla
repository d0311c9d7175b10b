---------------------------- MODULE JobLifecycle ----------------------------
(***************************************************************************)
(* What the ingestion queue promises, with no clock in it: a job waits, is *)
(* claimed by one worker thread at a time, and ends completed or failed;   *)
(* a claim whose thread died without an outcome is given back.             *)
(*                                                                         *)
(* IngestionQueue, which keeps the lease and the backoff of                *)
(* services/ingestion_queue.py, and DocumentPipeline, which keeps what the *)
(* claimed job does to the stores, both implement this specification.      *)
(***************************************************************************)
EXTENDS Naturals

CONSTANTS
    Jobs,        \* ids of rows of ingestion_jobs
    Workers,     \* backend processes; each has one worker thread at most
    MaxAttempts, \* IngestionJob.max_attempts
    NoJob        \* the worker thread is idle

VARIABLES
    status,   \* ingestion_jobs.status, "absent" before the row is inserted
    attempts, \* ingestion_jobs.attempts
    working   \* the job that the thread of a process is running _process_one on

jobVars == <<status, attempts, working>>

\* IngestionJobStatus, and "absent" for a row not inserted yet.
JobStatus == {"absent", "pending", "processing", "completed", "failed"}
Terminal == {"completed", "failed"}

TypeOK ==
    /\ status \in [Jobs -> JobStatus]
    /\ attempts \in [Jobs -> Nat]
    /\ working \in [Workers -> Jobs \cup {NoJob}]

Init ==
    /\ status = [j \in Jobs |-> "absent"]
    /\ attempts = [j \in Jobs |-> 0]
    /\ working = [w \in Workers |-> NoJob]

-----------------------------------------------------------------------------
\* No thread runs j: whoever claimed it is gone.
Orphaned(j) ==
    /\ status[j] = "processing"
    /\ \A w \in Workers : working[w] # j

\* enqueue(): the row is inserted pending with attempts = 0.
Enqueue(j) ==
    /\ status[j] = "absent"
    /\ status' = [status EXCEPT ![j] = "pending"]
    /\ UNCHANGED <<attempts, working>>

\* The row half of claim_next(): the attempt is counted when it starts.
TakeClaim(j) ==
    /\ status[j] = "pending"
    /\ status' = [status EXCEPT ![j] = "processing"]
    /\ attempts' = [attempts EXCEPT ![j] = @ + 1]

\* claim_next() followed by the hand-over to the worker thread.
Claim(w, j) ==
    /\ working[w] = NoJob
    /\ TakeClaim(j)
    /\ working' = [working EXCEPT ![w] = j]

\* claim_next() committed and the process never got to start the thread.
ClaimLost(w, j) ==
    /\ working[w] = NoJob
    /\ TakeClaim(j)
    /\ UNCHANGED working

\* The thread of w ends its attempt and writes outcome to the row.
Finish(w, outcome) ==
    /\ working[w] # NoJob
    /\ status' = [status EXCEPT ![working[w]] = outcome]
    /\ UNCHANGED attempts

\* Mutant of Complete: the document's word for it is written to the job.
CompleteAsProcessed(w) ==
    /\ Finish(w, "processed")
    /\ working' = [working EXCEPT ![w] = NoJob]

\* mark_completed()
Complete(w) ==
    /\ Finish(w, "completed")
    /\ working' = [working EXCEPT ![w] = NoJob]

\* mark_completed() committed, but its answer was lost: the thread takes it for
\* a failure and goes on to mark_failed_or_retry().
CompleteUnanswered(w) ==
    /\ Finish(w, "completed")
    /\ UNCHANGED working

\* Mutant of FailOrRetry: one attempt too many.
FailTooLate(w) ==
    /\ Finish(w, IF attempts[working[w]] > MaxAttempts THEN "failed"
                                                       ELSE "pending")
    /\ working' = [working EXCEPT ![w] = NoJob]

\* mark_failed_or_retry(): attempts left means back to pending.
FailOrRetry(w) ==
    /\ Finish(w, IF attempts[working[w]] >= MaxAttempts THEN "failed"
                                                        ELSE "pending")
    /\ working' = [working EXCEPT ![w] = NoJob]

\* The thread ends (process death, or an error in the error handler) with the
\* row still "processing".
Abandon(w) ==
    /\ working[w] # NoJob
    /\ working' = [working EXCEPT ![w] = NoJob]
    /\ UNCHANGED <<status, attempts>>

\* recover_stale_jobs(): a set of orphaned claims is given back in one UPDATE.
Recover(stale) ==
    /\ stale # {}
    /\ \A j \in stale : Orphaned(j)
    /\ status' = [j \in Jobs |-> IF j \in stale THEN "pending" ELSE status[j]]
    /\ UNCHANGED <<attempts, working>>

Next ==
    \/ \E j \in Jobs : Enqueue(j)
    \/ \E w \in Workers, j \in Jobs : Claim(w, j) \/ ClaimLost(w, j)
    \/ \E w \in Workers :
          \/ Complete(w)
          \/ CompleteUnanswered(w)
          \/ FailOrRetry(w)
          \/ Abandon(w)
    \/ \E stale \in SUBSET Jobs : Recover(stale)

Spec == Init /\ [][Next]_jobVars

-----------------------------------------------------------------------------
\* A thread runs a job that is "processing" (or that it has just completed
\* without hearing so), and no two threads run the same job: the exclusion that
\* the FOR UPDATE SKIP LOCKED and the lease of ingestion_queue.py exist for.
ExclusiveClaim ==
    \A w \in Workers :
        working[w] # NoJob =>
            /\ status[working[w]] \in {"processing", "completed"}
            /\ \A v \in Workers : working[v] = working[w] => v = w

\* A job is reported "failed" only when its attempts are used up
\* (mark_failed_or_retry of services/ingestion_queue.py).
FailedIsExhausted ==
    \A j \in Jobs : status[j] = "failed" => attempts[j] >= MaxAttempts

\* Once the thread that wrote it is done, the outcome of a job is never
\* overwritten and no further attempt is counted, although mark_completed and
\* mark_failed_or_retry of services/ingestion_queue.py write the row blindly.
OutcomeIsFinal ==
    [][\A j \in Jobs :
          status[j] \in Terminal /\ (\A w \in Workers : working[w] # j)
              => status'[j] = status[j] /\ attempts'[j] = attempts[j]]_jobVars
=============================================================================

--------------------------- MODULE IngestionQueue ---------------------------
(***************************************************************************)
(* services/ingestion_queue.py with its clock: the ingestion_jobs table,   *)
(* the worker loop of every backend process, the lease on a claimed job    *)
(* and the backoff of a failed one.                                        *)
(*                                                                         *)
(* What _process_one does to the document and to the stores is left to     *)
(* DocumentPipeline; here an attempt is a thread that runs for a while and *)
(* ends in mark_completed, in mark_failed_or_retry or in neither.          *)
(***************************************************************************)
EXTENDS Integers

CONSTANTS
    Jobs, Workers, MaxAttempts, NoJob,
    Lease,       \* LEASE_TIMEOUT_SECONDS
    BackoffBase, \* the 30 seconds of _backoff_seconds
    BackoffCap,  \* its cap of 15 minutes
    RunBound,    \* longest time from a claim to the end of its thread
    MaxFaults,   \* bound on process deaths and failures that strand a claim
    Horizon      \* bound on the clock

ASSUME QueueAssumption ==
    /\ MaxAttempts \in Nat \ {0}
    /\ NoJob \notin Jobs
    /\ Lease \in Nat
    /\ BackoffBase \in Nat \ {0}
    /\ BackoffCap \in Nat \ {0}
    /\ RunBound \in Nat
    /\ MaxFaults \in Nat
    /\ Horizon \in Nat

VARIABLES
    status, attempts, working, \* as in JobLifecycle
    claimed_at,      \* ingestion_jobs.claimed_at
    next_attempt_at, \* ingestion_jobs.next_attempt_at
    loop,            \* where run_worker_loop of a process is
    started,         \* when the thread of a process claimed its job
    now,             \* the clock of the database
    faults           \* faults so far

jobVars == <<status, attempts, working>>
rowTimes == <<claimed_at, next_attempt_at>>
vars == <<status, attempts, working, claimed_at, next_attempt_at,
          loop, started, now, faults>>

JL == INSTANCE JobLifecycle

Null == -1  \* SQL NULL in a time column

\* "reap" is the top of an iteration and "claim" the point between its two
\* statements; in "await" the loop waits for its thread; in "drain" the loop
\* was cancelled by a shutdown but its thread still runs.
LoopState == {"down", "reap", "claim", "await", "sleep", "drain"}

TypeOK ==
    /\ JL!TypeOK
    /\ claimed_at \in [Jobs -> Nat \cup {Null}]
    /\ next_attempt_at \in [Jobs -> Nat]
    /\ loop \in [Workers -> LoopState]
    /\ started \in [Workers -> Nat]
    /\ now \in Nat
    /\ faults \in Nat

Init ==
    /\ JL!Init
    /\ claimed_at = [j \in Jobs |-> Null]
    /\ next_attempt_at = [j \in Jobs |-> 0]
    /\ loop = [w \in Workers |-> "down"]
    /\ started = [w \in Workers |-> 0]
    /\ now = 0
    /\ faults = 0

-----------------------------------------------------------------------------
(***************************************************************************)
(* The table                                                               *)
(***************************************************************************)

\* WHERE status = 'pending' AND next_attempt_at <= now()
Due == {j \in Jobs : status[j] = "pending" /\ next_attempt_at[j] <= now}

\* Mutant of OldestDue: any due row, as without the ORDER BY.
AnyDue == Due

\* ORDER BY next_attempt_at ... LIMIT 1
OldestDue ==
    {j \in Due : \A k \in Due : next_attempt_at[j] <= next_attempt_at[k]}

\* Mutants of Stale: no lease at all; a lease of one tick less; the lease
\* alone, since mark_completed leaves claimed_at in the row.
Unleased ==
    {j \in Jobs : status[j] = "processing" /\ claimed_at[j] < now}
StaleAtLease ==
    {j \in Jobs : status[j] = "processing" /\ claimed_at[j] <= now - Lease}
StaleAnyStatus == {j \in Jobs : claimed_at[j] \in 0..(now - Lease - 1)}

\* WHERE status = 'processing' AND claimed_at < now() - LEASE_TIMEOUT_SECONDS
Stale ==
    {j \in Jobs : /\ status[j] = "processing"
                  /\ claimed_at[j] # Null
                  /\ claimed_at[j] < now - Lease}

\* 30s, 60s, 120s, ... up to the cap
Capped(attempt) ==
    LET base == BackoffBase * 2^(attempt - 1)
    IN  IF base < BackoffCap THEN base ELSE BackoffCap

\* _backoff_seconds(): the capped delay and up to a quarter of it as jitter
Backoff(attempt) ==
    {d \in 0..(2 * BackoffCap) : /\ Capped(attempt) <= d
                                 /\ 4 * (d - Capped(attempt)) <= Capped(attempt)}

\* enqueue(): the caller's transaction inserts the row, due at once.
Enqueue(j) ==
    /\ JL!Enqueue(j)
    /\ next_attempt_at' = [next_attempt_at EXCEPT ![j] = now]
    /\ UNCHANGED <<claimed_at, loop, started, now, faults>>

-----------------------------------------------------------------------------
(***************************************************************************)
(* run_worker_loop                                                         *)
(***************************************************************************)

Goto(w, place) == loop' = [loop EXCEPT ![w] = place]

\* lifespan() of main.py creates the loop's task when the process comes up.
Start(w) ==
    /\ loop[w] = "down"
    /\ Goto(w, "reap")
    /\ UNCHANGED <<jobVars, rowTimes, started, now, faults>>

\* Mutant of RecoverStaleJobs: a claim given back gives its attempt back.
RecoverWithAttempt(w) ==
    /\ loop[w] = "reap"
    /\ status' = [j \in Jobs |-> IF j \in Stale THEN "pending" ELSE status[j]]
    /\ claimed_at' = [j \in Jobs |-> IF j \in Stale THEN Null ELSE claimed_at[j]]
    /\ attempts' = [j \in Jobs |-> IF j \in Stale THEN attempts[j] - 1 ELSE attempts[j]]
    /\ Goto(w, "claim")
    /\ UNCHANGED <<working, next_attempt_at, started, now, faults>>

\* recover_stale_jobs(): one UPDATE over every stale row; attempts and
\* next_attempt_at stay as they are.
RecoverStaleJobs(w) ==
    /\ loop[w] = "reap"
    /\ status' = [j \in Jobs |-> IF j \in Stale THEN "pending" ELSE status[j]]
    /\ claimed_at' = [j \in Jobs |-> IF j \in Stale THEN Null ELSE claimed_at[j]]
    /\ Goto(w, "claim")
    /\ UNCHANGED <<attempts, working, next_attempt_at, started, now, faults>>

\* claim_next() found a row, and the loop awaits the thread that processes it.
ClaimNext(w) ==
    /\ loop[w] = "claim"
    /\ \E j \in OldestDue :
          /\ JL!Claim(w, j)
          /\ claimed_at' = [claimed_at EXCEPT ![j] = now]
    /\ started' = [started EXCEPT ![w] = now]
    /\ Goto(w, "await")
    /\ UNCHANGED <<next_attempt_at, now, faults>>

\* claim_next() found nothing to do.
NothingDue(w) ==
    /\ loop[w] = "claim"
    /\ Due = {}
    /\ Goto(w, "sleep")
    /\ UNCHANGED <<jobVars, rowTimes, started, now, faults>>

\* The claim committed, then reading the row back raised: the loop logs the
\* error and sleeps, and no thread runs the claimed job.
ClaimLost(w) ==
    /\ loop[w] = "claim"
    /\ faults < MaxFaults
    /\ \E j \in OldestDue :
          /\ JL!ClaimLost(w, j)
          /\ claimed_at' = [claimed_at EXCEPT ![j] = now]
    /\ faults' = faults + 1
    /\ Goto(w, "sleep")
    /\ UNCHANGED <<next_attempt_at, started, now>>

\* The database refused one of the two statements.
IterationFailed(w) ==
    /\ loop[w] \in {"reap", "claim"}
    /\ Goto(w, "sleep")
    /\ UNCHANGED <<jobVars, rowTimes, started, now, faults>>

\* asyncio.sleep(POLL_INTERVAL_SECONDS) is over.
Wake(w) ==
    /\ loop[w] = "sleep"
    /\ Goto(w, "reap")
    /\ UNCHANGED <<jobVars, rowTimes, started, now, faults>>

\* Mutant of Shutdown: the loop may start again beside its old thread.
ShutdownAtOnce(w) ==
    /\ loop[w] \in {"await", "sleep"}
    /\ Goto(w, "down")
    /\ UNCHANGED <<jobVars, rowTimes, started, now, faults>>

\* Shutdown cancels the loop at the await it is in; a running thread goes on.
Shutdown(w) ==
    /\ loop[w] \in {"await", "sleep"}
    /\ Goto(w, IF loop[w] = "await" THEN "drain" ELSE "down")
    /\ UNCHANGED <<jobVars, rowTimes, started, now, faults>>

\* Sudden death of the process, with its thread.
Crash(w) ==
    /\ loop[w] # "down"
    /\ faults < MaxFaults
    /\ faults' = faults + 1
    /\ working' = [working EXCEPT ![w] = NoJob]
    /\ Goto(w, "down")
    /\ UNCHANGED <<status, attempts, rowTimes, started, now>>

-----------------------------------------------------------------------------
(***************************************************************************)
(* The end of an attempt                                                   *)
(***************************************************************************)

\* Where the loop goes when its thread returns, and when the thread raises.
AfterThread(w) == Goto(w, IF loop[w] = "drain" THEN "down" ELSE "reap")
AfterError(w) == Goto(w, IF loop[w] = "drain" THEN "down" ELSE "sleep")

Completed(w) ==
    /\ JL!Complete(w)
    /\ AfterThread(w)
    /\ UNCHANGED <<rowTimes, started, now, faults>>

\* mark_completed() committed and raised: the thread goes to its error handler.
CompletedUnanswered(w) ==
    /\ faults < MaxFaults
    /\ JL!CompleteUnanswered(w)
    /\ faults' = faults + 1
    /\ UNCHANGED <<rowTimes, loop, started, now>>

\* mark_failed_or_retry(): a retry also moves next_attempt_at forward. What the
\* thread does next, the document's status, may raise.
FailedOrRetried(w) ==
    /\ JL!FailOrRetry(w)
    /\ LET j == working[w]
       IN  IF attempts[j] >= MaxAttempts
           THEN UNCHANGED next_attempt_at
           ELSE \E d \in Backoff(attempts[j]) :
                   next_attempt_at' = [next_attempt_at EXCEPT ![j] = now + d]
    /\ AfterThread(w) \/ AfterError(w)
    /\ UNCHANGED <<claimed_at, started, now, faults>>

\* The error handler of _process_one raised as well: the row stays as it is.
HandlerFailed(w) ==
    /\ faults < MaxFaults
    /\ JL!Abandon(w)
    /\ AfterError(w)
    /\ faults' = faults + 1
    /\ UNCHANGED <<rowTimes, started, now>>

\* Time passes; no thread outlives RunBound.
Tick ==
    /\ now < Horizon
    /\ \A w \in Workers : working[w] # NoJob => now - started[w] < RunBound
    /\ now' = now + 1
    /\ UNCHANGED <<jobVars, rowTimes, loop, started, faults>>

-----------------------------------------------------------------------------
LoopStep(w) ==
    \/ Start(w)
    \/ RecoverStaleJobs(w)
    \/ ClaimNext(w)
    \/ NothingDue(w)
    \/ ClaimLost(w)
    \/ IterationFailed(w)
    \/ Wake(w)
    \/ Shutdown(w)
    \/ Crash(w)

ThreadStep(w) ==
    \/ Completed(w)
    \/ CompletedUnanswered(w)
    \/ FailedOrRetried(w)
    \/ HandlerFailed(w)

Next ==
    \/ \E j \in Jobs : Enqueue(j)
    \/ \E w \in Workers : LoopStep(w) \/ ThreadStep(w)
    \/ Tick

Spec == Init /\ [][Next]_vars

-----------------------------------------------------------------------------
(***************************************************************************)
(* Properties                                                              *)
(***************************************************************************)

\* A running thread owns the claim its row shows: no reaper has taken the row
\* back and claimed_at is the time at which this very thread claimed it. It is
\* what lets mark_completed and mark_failed_or_retry write without looking.
ClaimIsCurrent ==
    \A w \in Workers :
        working[w] # NoJob =>
            /\ status[working[w]] \in {"processing", "completed"}
            /\ claimed_at[working[w]] = started[w]

\* No two threads run the same job (the FOR UPDATE SKIP LOCKED of claim_next
\* and the lease of recover_stale_jobs together).
ExclusiveClaim == JL!ExclusiveClaim

\* Once its last thread is done, a completed or failed job keeps its outcome and
\* is never claimed again: mark_completed and mark_failed_or_retry write the row
\* without looking, a lost answer lets the second follow the first, and the lease
\* of a finished job runs out like any other.
OutcomeIsFinal == JL!OutcomeIsFinal

\* What really bounds the attempts of a job: its max_attempts and one more for
\* every fault that stranded a claim, because neither claim_next nor
\* recover_stale_jobs looks at max_attempts.
AttemptsAccounted ==
    \A j \in Jobs : attempts[j] <= MaxAttempts + faults

\* What models/ingestion_job.py says of the counter: a crash loop is bounded
\* by max_attempts too.
CrashLoopBounded ==
    \A j \in Jobs : attempts[j] <= MaxAttempts

\* The queue keeps the promise of JobLifecycle (services/ingestion_queue.py,
\* "Job lifecycle, exactly the four states asked for").
ImplementsLifecycle == JL!Spec
=============================================================================

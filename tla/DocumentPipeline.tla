-------------------------- MODULE DocumentPipeline --------------------------
(***************************************************************************)
(* An uploaded document on its way into the knowledge base: the upload     *)
(* request, _process_one of services/ingestion_queue.py and index_document *)
(* of services/document_processing_service.py, over the three stores they  *)
(* write without a common transaction: Postgres, Qdrant and the bucket.    *)
(*                                                                         *)
(* The job table is JobLifecycle's. Two orders that IngestionQueue gets    *)
(* from its clock are guards here: a claim is only given back when its     *)
(* thread is gone (the lease outlasts an attempt), and a failed job is     *)
(* only due again when the thread that failed it has written the           *)
(* document's status (the backoff outlasts one commit).                    *)
(***************************************************************************)
EXTENDS Naturals

CONSTANTS
    Docs,        \* documents; upload_document gives each exactly one job
    Workers, MaxAttempts, NoDoc,
    Pieces,      \* the chunks extraction cuts from any of the documents; a
                 \* document without text is one with no pieces
    MaxFaults    \* bound on process deaths, stranded claims and lost answers

ASSUME PipelineAssumption ==
    /\ MaxAttempts \in Nat \ {0}
    /\ NoDoc \notin Docs
    /\ MaxFaults \in Nat

VARIABLES
    status, attempts, working, \* the job of each document, as in JobLifecycle
    docStatus, \* documents.status, "absent" before the row is inserted
    blob,      \* documents whose file is in object storage
    rows,      \* committed chunk ids of each document
    points,    \* ids of the Qdrant points with the document's payload
    serial,    \* indexing runs that have drawn chunk ids, for each document
    thread,    \* the thread of each process: where it is and what it holds
    faults     \* faults so far

jobVars == <<status, attempts, working>>
pgVars == <<docStatus, rows>>
vars == <<status, attempts, working, docStatus, blob, rows, points, serial,
          thread, faults>>

JL == INSTANCE JobLifecycle WITH Jobs <- Docs, NoJob <- NoDoc

DocStatus == {"absent", "pending", "processing", "processed", "failed"}

\* A chunk id: the run of the sequence that drew it, and the piece it is for.
ChunkId == (Nat \ {0}) \X Pieces

\* The ids that one run of index_document gives to the chunks it inserts.
Generation(n) == {n} \X Pieces

\* Places in _process_one, named by the call that comes next.
Place == {"idle", "begin", "insert", "upsert", "prune", "complete", "except",
          "settle"}

Thread == [at : Place, doc : Docs \cup {NoDoc},
           fresh : SUBSET ChunkId,  \* inserted by this run, not committed
           stale : SUBSET ChunkId,  \* rows this run supersedes
           left  : SUBSET ChunkId]  \* of those, points still to be deleted

Idle == [at |-> "idle", doc |-> NoDoc, fresh |-> {}, stale |-> {}, left |-> {}]

TypeOK ==
    /\ JL!TypeOK
    /\ docStatus \in [Docs -> DocStatus]
    /\ blob \subseteq Docs
    /\ rows \in [Docs -> SUBSET ChunkId]
    /\ points \in [Docs -> SUBSET ChunkId]
    /\ serial \in [Docs -> Nat]
    /\ thread \in [Workers -> Thread]
    /\ faults \in Nat

Init ==
    /\ JL!Init
    /\ docStatus = [d \in Docs |-> "absent"]
    /\ blob = {}
    /\ rows = [d \in Docs |-> {}]
    /\ points = [d \in Docs |-> {}]
    /\ serial = [d \in Docs |-> 0]
    /\ thread = [w \in Workers |-> Idle]
    /\ faults = 0

-----------------------------------------------------------------------------
(***************************************************************************)
(* POST /documents: upload_document                                        *)
(***************************************************************************)

\* The bytes go to object storage first. A request that ends here, because the
\* process dies or the commit is refused, leaves a blob that no row names.
PutObject(d) ==
    /\ d \notin blob
    /\ blob' = blob \cup {d}
    /\ UNCHANGED <<jobVars, pgVars, points, serial, thread, faults>>

\* Document, audit row and job in one commit.
CommitUpload(d) ==
    /\ d \in blob
    /\ docStatus[d] = "absent"
    /\ docStatus' = [docStatus EXCEPT ![d] = "pending"]
    /\ JL!Enqueue(d)
    /\ UNCHANGED <<blob, rows, points, serial, thread, faults>>

-----------------------------------------------------------------------------
(***************************************************************************)
(* The queue                                                               *)
(***************************************************************************)

Fault == faults < MaxFaults /\ faults' = faults + 1

\* next_attempt_at has come: the thread that failed d is done with it.
BackoffElapsed(d) ==
    \A w \in Workers : ~ (thread[w].at = "settle" /\ thread[w].doc = d)

Claim(w, d) ==
    /\ thread[w].at = "idle"
    /\ BackoffElapsed(d)
    /\ JL!Claim(w, d)
    /\ thread' = [thread EXCEPT ![w] = [Idle EXCEPT !.at = "begin", !.doc = d]]
    /\ UNCHANGED <<pgVars, blob, points, serial, faults>>

ClaimLost(w, d) ==
    /\ thread[w].at = "idle"
    /\ BackoffElapsed(d)
    /\ Fault
    /\ JL!ClaimLost(w, d)
    /\ UNCHANGED <<pgVars, blob, points, serial, thread>>

\* Mutants of RecoverStaleJobs: every unfinished claim is given back, as by a
\* process that takes itself for the only one; and none ever is.
RecoverProcessing(stale) ==
    /\ stale # {}
    /\ \A d \in stale : status[d] = "processing"
    /\ status' = [d \in Docs |-> IF d \in stale THEN "pending" ELSE status[d]]
    /\ UNCHANGED <<attempts, working, pgVars, blob, points, serial, thread, faults>>
RecoverNothing(stale) ==
    /\ JL!Recover(stale)
    /\ FALSE
    /\ UNCHANGED <<pgVars, blob, points, serial, thread, faults>>

\* recover_stale_jobs(), with the lease of IngestionQueue expired for all of stale.
RecoverStaleJobs(stale) ==
    /\ JL!Recover(stale)
    /\ UNCHANGED <<pgVars, blob, points, serial, thread, faults>>

\* The process dies; its open transaction, with the fresh rows, is gone.
Crash(w) ==
    /\ thread[w].at # "idle"
    /\ Fault
    /\ working' = [working EXCEPT ![w] = NoDoc]
    /\ thread' = [thread EXCEPT ![w] = Idle]
    /\ UNCHANGED <<status, attempts, pgVars, blob, points, serial>>

-----------------------------------------------------------------------------
(***************************************************************************)
(* _process_one and index_document                                         *)
(***************************************************************************)

Goto(w, place) == thread' = [thread EXCEPT ![w] = [@ EXCEPT !.at = place]]
End(w) == thread' = [thread EXCEPT ![w] = Idle]

\* document.status = PROCESSING, committed.
Begin(w) ==
    /\ thread[w].at = "begin"
    /\ docStatus' = [docStatus EXCEPT ![thread[w].doc] = "processing"]
    /\ Goto(w, "insert")
    /\ UNCHANGED <<jobVars, rows, blob, points, serial, faults>>

\* Mutants of Insert: the rows of a prior run are forgotten; the ids of the
\* chunks are always the same, as when derived from the document.
InsertForgetful(w) ==
    LET d == thread[w].doc
        n == serial[d] + 1
    IN  /\ thread[w].at = "insert"
        /\ d \in blob
        /\ serial' = [serial EXCEPT ![d] = n]
        /\ thread' = [thread EXCEPT ![w] = [@ EXCEPT !.at = "upsert",
                                                     !.fresh = Generation(n)]]
        /\ UNCHANGED <<jobVars, pgVars, blob, points, faults>>
InsertSameIds(w) ==
    LET d == thread[w].doc
    IN  /\ thread[w].at = "insert"
        /\ d \in blob
        /\ serial' = [serial EXCEPT ![d] = 1]
        /\ thread' = [thread EXCEPT ![w] = [@ EXCEPT !.at = "upsert",
                                                     !.fresh = Generation(1),
                                                     !.stale = rows[d]]]
        /\ UNCHANGED <<jobVars, pgVars, blob, points, faults>>

\* From get_object to the last embedding: read the rows of a prior run, insert
\* the new ones without committing them, embed. Nothing another process sees.
Insert(w) ==
    LET d == thread[w].doc
        n == serial[d] + 1
    IN  /\ thread[w].at = "insert"
        /\ d \in blob
        /\ serial' = [serial EXCEPT ![d] = n]
        /\ thread' = [thread EXCEPT ![w] = [@ EXCEPT !.at = "upsert",
                                                     !.fresh = Generation(n),
                                                     !.stale = rows[d]]]
        /\ UNCHANGED <<jobVars, pgVars, blob, points, faults>>

\* upsert_chunks(): visible to every search at once, whatever the transaction
\* that inserted the rows comes to.
Upsert(w) ==
    /\ thread[w].at = "upsert"
    /\ points' = [points EXCEPT ![thread[w].doc] = @ \cup thread[w].fresh]
    /\ thread' = [thread EXCEPT ![w] = [@ EXCEPT !.at = "prune",
                                                 !.left = thread[w].stale]]
    /\ UNCHANGED <<jobVars, pgVars, blob, serial, faults>>

\* delete_points(), one batch.
DeleteBatch(w) ==
    /\ thread[w].at = "prune"
    /\ \E batch \in SUBSET thread[w].left :
          /\ batch # {}
          /\ points' = [points EXCEPT ![thread[w].doc] = @ \ batch]
          /\ thread' = [thread EXCEPT
                ![w] = [@ EXCEPT !.left = thread[w].left \ batch]]
    /\ UNCHANGED <<jobVars, pgVars, blob, serial, faults>>

\* Mutants of Commit: the job's word is written to the document; the
\* document's status is left out of the commit.
CommitAsCompleted(w) ==
    LET d == thread[w].doc
    IN  /\ thread[w].at = "prune"
        /\ thread[w].left = {}
        /\ rows' = [rows EXCEPT ![d] = (@ \ thread[w].stale) \cup thread[w].fresh]
        /\ docStatus' = [docStatus EXCEPT ![d] = "completed"]
        /\ Goto(w, "complete")
        /\ UNCHANGED <<jobVars, blob, points, serial, faults>>
CommitRowsOnly(w) ==
    LET d == thread[w].doc
    IN  /\ thread[w].at = "prune"
        /\ thread[w].left = {}
        /\ rows' = [rows EXCEPT ![d] = (@ \ thread[w].stale) \cup thread[w].fresh]
        /\ Goto(w, "complete")
        /\ UNCHANGED <<jobVars, docStatus, blob, points, serial, faults>>

\* The stale rows are deleted too and document.status = PROCESSED: one commit.
Commit(w) ==
    LET d == thread[w].doc
    IN  /\ thread[w].at = "prune"
        /\ thread[w].left = {}
        /\ rows' = [rows EXCEPT ![d] = (@ \ thread[w].stale) \cup thread[w].fresh]
        /\ docStatus' = [docStatus EXCEPT ![d] = "processed"]
        /\ Goto(w, "complete")
        /\ UNCHANGED <<jobVars, blob, points, serial, faults>>

\* Mutant of Complete: the job is completed before the document is committed.
CompleteFirst(w) ==
    /\ thread[w].at \in {"prune", "complete"}
    /\ JL!Complete(w)
    /\ End(w)
    /\ UNCHANGED <<pgVars, blob, points, serial, faults>>

\* mark_completed(), a commit of its own.
Complete(w) ==
    /\ thread[w].at = "complete"
    /\ JL!Complete(w)
    /\ End(w)
    /\ UNCHANGED <<pgVars, blob, points, serial, faults>>

\* mark_completed() committed and raised all the same.
CompleteUnanswered(w) ==
    /\ thread[w].at = "complete"
    /\ Fault
    /\ JL!CompleteUnanswered(w)
    /\ Goto(w, "except")
    /\ UNCHANGED <<pgVars, blob, points, serial>>

\* Any call in the try block raises; a call that raises although it took effect
\* is the effect followed by this step. The rollback undoes the fresh rows.
Raise(w) ==
    /\ thread[w].at \in {"begin", "insert", "upsert", "prune", "complete"}
    /\ thread' = [thread EXCEPT ![w] =
                     [Idle EXCEPT !.at = "except", !.doc = thread[w].doc]]
    /\ UNCHANGED <<jobVars, pgVars, blob, points, serial, faults>>

\* mark_failed_or_retry() in the except block.
FailOrRetry(w) ==
    /\ thread[w].at = "except"
    /\ JL!FailOrRetry(w)
    /\ Goto(w, "settle")
    /\ UNCHANGED <<pgVars, blob, points, serial, faults>>

\* Mutant of Settle: every failed attempt is reported as a failed document.
SettleFailed(w) ==
    /\ thread[w].at = "settle"
    /\ docStatus' = [docStatus EXCEPT ![thread[w].doc] = "failed"]
    /\ End(w)
    /\ UNCHANGED <<jobVars, rows, blob, points, serial, faults>>

\* The last commit of the except block reads the job's status back.
Settle(w) ==
    LET d == thread[w].doc
    IN  /\ thread[w].at = "settle"
        /\ docStatus' = [docStatus EXCEPT ![d] =
                            IF status[d] = "failed" THEN "failed" ELSE "pending"]
        /\ End(w)
        /\ UNCHANGED <<jobVars, rows, blob, points, serial, faults>>

\* The thread ends with an exception. If the reads before the try block raise, or
\* the except block before its first commit, the job stays "processing"; after
\* that commit, the document's status stays as it was.
HandlerFailed(w) ==
    /\ Fault
    /\ End(w)
    /\ \/ thread[w].at \in {"begin", "except"} /\ JL!Abandon(w)
       \/ thread[w].at = "settle" /\ UNCHANGED jobVars
    /\ UNCHANGED <<pgVars, blob, points, serial>>

-----------------------------------------------------------------------------
\* What a live thread does next when no fault is left to happen.
ThreadStep(w) ==
    \/ Begin(w)
    \/ Insert(w)
    \/ Upsert(w)
    \/ DeleteBatch(w)
    \/ Commit(w)
    \/ Complete(w)
    \/ Raise(w)
    \/ FailOrRetry(w)
    \/ Settle(w)

FaultStep(w) ==
    \/ Crash(w)
    \/ CompleteUnanswered(w)
    \/ HandlerFailed(w)
    \/ \E d \in Docs : ClaimLost(w, d)

ClaimStep == \E w \in Workers, d \in Docs : Claim(w, d)
RecoverStep == \E stale \in SUBSET Docs : RecoverStaleJobs(stale)

Next ==
    \/ \E d \in Docs : PutObject(d) \/ CommitUpload(d)
    \/ ClaimStep
    \/ RecoverStep
    \/ \E w \in Workers : ThreadStep(w) \/ FaultStep(w)

Spec == Init /\ [][Next]_vars

\* The worker loop polls for ever, a thread's calls all return or time out, and
\* a lease runs out; nobody has to upload anything and no fault has to happen.
Fairness ==
    /\ WF_vars(ClaimStep)
    /\ WF_vars(RecoverStep)
    /\ \A w \in Workers : WF_vars(ThreadStep(w))

FairSpec == Spec /\ Fairness

-----------------------------------------------------------------------------
(***************************************************************************)
(* Properties                                                              *)
(***************************************************************************)

\* No duplicates: the committed chunks of a document are those of one run of
\* index_document, however many runs crashed, failed or were repeated.
OneGeneration ==
    \A d \in Docs : rows[d] # {} => \E n \in 1..serial[d] : rows[d] = Generation(n)

\* Upsert-then-prune (docstring of index_document): from the first successful
\* run on, Qdrant holds every chunk of some run, through every later failure.
NeverUnsearchable ==
    \A d \in Docs :
        rows[d] # {} => \E n \in 1..serial[d] : Generation(n) \subseteq points[d]

\* GET /documents/{id} answers "processed" only for a document with the chunks of
\* a run committed and the vectors of all of them in place, and "failed" only for
\* one whose job has failed for good (comment in the except block of _process_one).
StatusIsHonest ==
    \A d \in Docs :
        /\ docStatus[d] = "processed" =>
              /\ \E n \in 1..serial[d] : rows[d] = Generation(n)
              /\ rows[d] \subseteq points[d]
        /\ docStatus[d] = "failed" => status[d] = "failed"

\* A job is only ever "completed" while its document is processed: the order of
\* the last two commits of _process_one, across every crash between them.
CompletedIsProcessed ==
    \A d \in Docs : status[d] = "completed" => docStatus[d] = "processed"

\* The pipeline uses the job table as JobLifecycle promises.
ImplementsLifecycle == JL!Spec

\* Every job ends (ADR-012: the work survives a process death).
EveryJobEnds ==
    \A d \in Docs : status[d] = "pending" ~> status[d] \in JL!Terminal

\* What becomes of a document in work: its status arrives, or at worst its job
\* has failed for good (the except block of _process_one commits twice).
DocumentOrJobSettles ==
    \A d \in Docs :
        docStatus[d] = "processing"
            ~> docStatus[d] \in {"processed", "failed"} \/ status[d] = "failed"

\* PRODUCTION_REVIEW.md: the stuck-PROCESSING document heals itself, so what
\* GET /documents/{id} is polled for arrives.
DocumentSettles ==
    \A d \in Docs :
        docStatus[d] = "processing" ~> docStatus[d] \in {"processed", "failed"}

\* Docstring of index_document: a retry converges. Once the job is completed,
\* Qdrant holds the points of the committed chunks and no others.
RetryConverges ==
    \A d \in Docs : status[d] = "completed" => points[d] = rows[d]
=============================================================================

# CampusBrain in TLA+

CampusBrain answers students' questions from documents that an administrator
uploads. A FastAPI process (`src/backend/app`) stores the documents, indexes them in
the background and answers questions with retrieval and a language model; a React
single-page application (`src/frontend`) is its client; a command line tool
(`src/tools/ingest.py`) indexes a folder from outside. The state is in Postgres,
in Qdrant (vectors), in object storage (the uploaded files) and in the browser.

This directory holds TLA+ models of the parts whose correctness depends on the order
of steps, TLC configurations that check them on small instances, and proofs that
TLAPS checks for every instance. All definitions are translated from the source;
`PROJECT.json` maps each of them to its lines.

1. [Inventory](#inventory)
2. [Modules](#modules)
3. [Ingestion](#ingestion): `JobLifecycle`, `IngestionQueue`, `DocumentPipeline`
4. [Answering](#answering): `Citations`, `AnswerContract`, `AnswerStream`
5. [The local tool](#the-local-tool): `LocalIngest`
6. [Parts of the service](#parts-of-the-service): `RequestSessions`, `VectorCollection`,
   `AdminAccounts`, `LoginLimit`, `HybridRanking`, `AnswerCounters`, `ChatClient`
7. [Runs](#runs), bounds and fairness
8. [What the code does not keep](#what-the-code-does-not-keep)
9. [Theorems](#theorems)
10. [Not modelled](#not-modelled)
11. [Plan](#plan)

## Inventory

| Component | State it keeps | Operations | Talks to | What is hard | What makes it correct | Models |
|---|---|---|---|---|---|---|
| Ingestion queue (`ingestion_queue.py`, `main.py`) | table `ingestion_jobs`: status, attempts, `claimed_at`, `next_attempt_at`; one loop and at most one worker thread per process | enqueue, claim, complete, fail or retry, recover stale claims, start, shutdown | Postgres; indexing | several processes, leases without heartbeat, blind writes of the outcome, process death, lost answers | one thread per job, outcomes final, attempts accounted for, nobody starves | `JobLifecycle`, `IngestionQueue` |
| Document indexing (`_process_one`, `index_document`, `vector_repository.py`) | `documents.status`, `chunks`, points in Qdrant | insert, embed, upsert, prune, commit, handle the error | Postgres, Qdrant, object storage, embedding API | three stores without a common transaction; any call may fail or die | no duplicate chunks, never unsearchable, honest status, every job ends | `DocumentPipeline` |
| Upload and administration (`document_service.py`, `documents.py`) | document, audit row, blob | upload, list, read | Postgres, object storage, queue | blob before commit | a document never lacks its job; no address of a document is handed out without its audit row | `DocumentPipeline`, `RequestSessions` (partly) |
| Answer streaming (`rag_service.py`, `chat.py`, `gemini_provider.py`) | the local state of two nested generators; the record of the answer | retrieve, refuse, stream, finish, disconnect | retrieval, model API, client | suspension at every yield, retry of a connection, disconnect, whole-text renumbering | same result as the blocking endpoint, sources are the evidence, recorded once and as sent | `Citations`, `AnswerContract`, `AnswerStream` |
| Answer records (`eval_service.py`, `usage_service.py`) | `eval_traces`, `usage_logs` | record, summarise | Postgres, in sessions of their own | a second connection while the first is held; a report counted in three statements | best effort, never an error for the reader; rates that are shares | the record of `AnswerStream`, `RequestSessions`, `AnswerCounters` |
| Retrieval (`retrieval_service.py`, `reranker.py`, `cache.py`) | cached query embeddings | semantic, keyword and hybrid search | Postgres, Qdrant, Redis, embedding API | fusion, truncation, realignment of a reranker's answer | fusion ranks by both arms; evidence is not refused | `HybridRanking` (partly) |
| Vector collection (`vector_store.py`) | one Qdrant collection per organization | ensure, delete | Qdrant | check then create or drop, from indexing and search, in several processes | a collection that fits is kept; after a deployment one comes to fit | `VectorCollection` |
| Local ingestion (`ingest.py`) | none of its own; all three stores | ingest, reindex, forget | as indexing | runs beside each other; one commit at the end of a forget | a re-run repairs what a dead run left; one generation of a document | `LocalIngest` |
| Chat client (`useChat.ts`, `client.ts`) | conversations in `localStorage`; one loop and one abort controller per reply | send, stop, new, open, remove, reload | `/chat/stream` | late events, aborts, effects that run after a render | a stopped reply stays stopped; no reply waits for a loop that is gone | `ChatClient` (partly) |
| Accounts (`user_service.py`, `create_admin.py`, `dependencies.py`) | `users` | register, reset, authenticate | Postgres | check then insert, read then update | the account is the one that was reported | `AdminAccounts` (partly) |
| Sessions (`database.py`) | connection pool | open, close | Postgres | hold and wait; a session used after it was closed | requests end and give back what they hold | `RequestSessions` |
| Rate limits, counters (`rate_limit.py`, `metrics.py`) | counters in memory | count, read | - | per process, under a name the request decides | guesses are limited; rates are shares | `LoginLimit`, `AnswerCounters` (partly) |
| Observability and audit (`audit_service.py`, `observability.py`) | `audit_logs` | write, list | Postgres | in the caller's transaction | as above | `RequestSessions` (partly) |
| Upload page (`Upload.tsx`) | list of items | upload, poll | documents API | overlapping polls, names as keys | shows the document's last status | not modelled |
| Service worker (`sw.js`) | two caches | install, activate, fetch | network | two builds at once | no stale application | not modelled |
| Extraction, chunking, prompts, guardrails, storage adapters, user interface components | none | pure functions, I/O, rendering | libraries | - | - | not modelled |

The pieces meet in four places. Upload inserts document and job in one commit, and
the worker's loop finds the job by polling. Indexing publishes points that searches
read at once, whatever becomes of the transaction that inserted the rows. The
generator of `stream_answer` is driven by the HTTP response, which closes it when
the client goes away. The client turns the events of the stream into a message.

The hazards this list leads to are in `PROJECT.json`, each at its line, with the
properties that cover it or with the reason why none does.

## Modules

| Module | Role |
|---|---|
| `JobLifecycle` | abstract specification of the queue: no clock, no stores |
| `IngestionQueue` | `ingestion_queue.py` with lease, backoff and worker loops; implements `JobLifecycle` |
| `DocumentPipeline` | upload, `_process_one` and `index_document` over the three stores; implements `JobLifecycle` |
| `Citations` | `keep_cited_sources`, `_retrieved_documents`, `_grounding` as operators |
| `AnswerContract` | what `/chat/stream` promises its reader; abstract specification of the events |
| `AnswerStream` | `stream_answer` and `generate_stream`; implements `AnswerContract` |
| `LocalIngest` | `tools/ingest.py` over the same stores as `DocumentPipeline`, several runs at once |
| `RequestSessions` | what each kind of request does with its database connections |
| `VectorCollection` | `ensure_collection` in several processes during a deployment |
| `AdminAccounts` | overlapping runs of `create_admin.py` |
| `LoginLimit` | the limit of the login and the name it counts under |
| `HybridRanking` | two ranked lists fused, reranked and found to be evidence or not |
| `AnswerCounters` | counters and traces while they are read |
| `ChatClient` | the replies of the chat page and their loops |
| `MCIngestionQueue`, `MCAnswerStream`, `MCLocalIngest` | symmetry sets and token sets for TLC |
| `MCServiceParts` | the last seven, in one run, with the values of their constants |
| `MCQueueOrder` | `IngestionQueue` with a history variable: who overtook whom |
| `JobLifecycleProofs`, `DocumentPipelineProofs`, `AnswerStreamProofs`, `LocalIngestProofs`, `HybridRankingProofs`, `RequestSessionsProofs` | theorems about the module of that name |
| `IngestionQueueProofs` | theorems about `IngestionQueue` and about its history in `MCQueueOrder` |
| `ServicePartsProofs` | theorems about the other parts of the service, and about all seven together |

    JobLifecycle <---implements--- IngestionQueue <--- MCQueueOrder
         ^
         +--------implements------ DocumentPipeline
    Citations <--- AnswerContract <---implements--- AnswerStream

`IngestionQueue` and `DocumentPipeline` each contain `JobLifecycle` by `INSTANCE`:
their actions on the job table *are* its actions, with the clock or the stores
added. The first shows that the lease gives what the abstract queue promises
(a claim is recovered only when its thread is gone); the second takes exactly
that as its reaper and looks at what the claimed job does.

Definitions named as mutants in a comment are variants of an operation with a
plausible bug. Nothing in the models uses them: substituted for the operation they
make the property listed beside them in `PROJECT.json` fail, which shows that the
property says something about that operation.

## Ingestion

### The queue with its clock

| Model | Code |
|---|---|
| `status`, `attempts`, `claimed_at`, `next_attempt_at` | columns of `ingestion_jobs` |
| `loop[w]` | where `run_worker_loop` of process `w` is: `reap`, `claim`, `await` (for the thread), `sleep`; `down`; `drain` is a cancelled loop whose thread still runs |
| `working[w]`, `started[w]` | the job `asyncio.to_thread(_process_one)` runs, and since when |
| `now` | the clock of Postgres |
| `faults` | process deaths, claims whose hand-over failed, lost answers, failed error handlers |
| `Stale`, `OldestDue`, `Backoff` | the WHERE and ORDER BY clauses, `_backoff_seconds` with its jitter |
| `RecoverStaleJobs`, `ClaimNext`, `NothingDue`, `ClaimLost`, `IterationFailed`, `Wake` | one iteration of the loop, statement by statement |
| `Completed`, `CompletedUnanswered`, `FailedOrRetried`, `HandlerFailed` | the ends of an attempt |
| `Start`, `Shutdown`, `Crash` | `lifespan` of `main.py`, and sudden death |

`FOR UPDATE SKIP LOCKED` is one atomic step: a claimer that skips a locked row takes
the next one, as if the lock's owner had been first. `claim_next` therefore serves
some order of the claimers. Enqueueing is one step because the row becomes visible
with the caller's commit.

Two assumptions come from the code's comments and are stated where they are used:

* **A1, the lease.** `LEASE_TIMEOUT_SECONDS` is chosen "generously above" the longest
  attempt. In the model an attempt lasts at most `RunBound`, and A1 is
  `RunBound <= Lease`. Nothing enforces it. With one process, which is how
  `render-start.sh` starts it, it is not needed, because the only reaper waits for its
  own thread: `queue_order` lets attempts last as long as the clock runs, and the
  theorems assume `LeaseHolds`, which is A1 or that there is one process. That a
  process shut down waits for its thread before it starts again (`drain`) is how an
  interpreter exits; the mutant `ShutdownAtOnce` shows that it matters.
* **A2, the backoff.** After `mark_failed_or_retry` has committed, the thread still has
  one short commit to do (the document's status). `DocumentPipeline` assumes that it
  takes less than the 30 seconds of the first backoff (`BackoffElapsed`).

### The stores

`DocumentPipeline` has one job per document, as `upload_document` creates them, and
follows the thread of each process through `_process_one`:

| Place of the thread | Next call | Action |
|---|---|---|
| `begin` | `document.status = PROCESSING`, commit | `Begin` |
| `insert` | `get_object`, extraction, `Chunk` rows (flushed, not committed), embeddings | `Insert` |
| `upsert` | `upsert_chunks` | `Upsert` |
| `prune` | `delete_points` batch by batch; then the commit of rows, page count and `PROCESSED` | `DeleteBatch`, `Commit` |
| `complete` | `mark_completed` | `Complete`, `CompleteUnanswered` |
| `except` | rollback, `mark_failed_or_retry` | `FailOrRetry` |
| `settle` | the document's status, in a second commit | `Settle` |

`Raise` leaves any place of the try block for `except`; a call that raised although it
had taken effect is the effect and then `Raise`. `Crash` ends the thread anywhere,
`HandlerFailed` ends it with an exception where no handler is left. The stores differ
in what a failure undoes: `rows` change only at `Commit`; `points` change at once.

A chunk id is a pair of the indexing run that drew it and the piece of text it is
for: what matters about the sequence of Postgres is that a run never gets an id of
another run. Abstractions:

* one `upsert` request is atomic in Qdrant; `delete_points` splits its ids into
  batches, here any non-empty subset at a time, which includes the code's;
* `usage_service.record` during embedding is left out (own session, errors swallowed,
  nothing here reads it);
* the early UPDATE of `page_count` locks the document's row until the commit, which
  can only delay another writer;
* a job whose document is gone cannot happen for documents uploaded through the API
  (foreign key); what `--forget` does to one is in `LocalIngest`.

## Answering

A text is a sequence of tokens: plain text, or one citation marker with its numbers.
`MCTokens` has plain text, `[1]`, `[2]`, `[2, 1]` and `[2, 9]`, so that with one or two
retrieved chunks there are cited, uncited, grouped, reversed and invented numbers.
A retrieved chunk is known by its rank, and `hits[i]` is the document of chunk `i`.
Scores are reduced to what they decide: whether a non-empty result is refused.
Each fragment of the stream is one token; a marker that the model's endpoint happens to
split over two fragments would be reassembled by the `"".join(chunks)` that both the
code and `KeepCited(chunks, ...)` apply before looking for markers.

`AnswerContract` is the docstring of `stream_answer` with `answer_question` as the
reference: the only variable is the sequence of events, and the last event must carry
a result in `OneShot(hits, Streamed(out))`, what the blocking endpoint can return for the
text that was streamed and for chunks that fit the documents announced first. For an
empty text that is nothing, because `generate()` raises: such a stream may not end in
`done`. The code's does, so `Spec`, the contract itself, is what run `answer_empty`
refutes (`KeepsContract`), and `SpecAsBuilt` adds that one step, `EmptyDone`, under its
own name. `ImplementsContract` is the refinement of `SpecAsBuilt`: through every retry,
failure, disconnect and empty text, nothing but `EmptyDone` departs from the contract.

In `AnswerStream`, `at` says where the two generators are: at one of the yields
(`refusal`, `refused`, `retrieved`, `delta`, `done`, which is where a disconnect can
strike), or between them (`retrieve`, `open` and `read` of `generate_stream`), or at
an end. `Close` is `GeneratorExit`: inside the try it is recorded, in the refusal it is
not. `log` has one entry for each call of `_log_answer`, standing for the log line, the
counters, the usage row and the trace; each of those rows is written in a session of
its own whose errors are swallowed, so a row may be missing when its entry is there.

## The local tool

`LocalIngest` follows `tools/ingest.py` through the stores of `DocumentPipeline`, with
any number of runs of the tool at once. A run is one process (`tool[t]`), and its place
is the call it makes next:

| Place | Next call | Action |
|---|---|---|
| `idle`, `file` | `main`: start, next file, report | `StartIngest`, `RejectFile`, `SkipFile`, `TakeExisting`, `TakeNew`, `FinishIngest` |
| `put`, `insert`, `update` | `put_object`, the flush of a new row, the flush of `PROCESSING` on an old one | `PutObject`, `InsertDocument`, `UpdateDocument` |
| `extract`, `upsert`, `usage`, `prune`, `commit` | `index_document` and the commit of the file | `Extract`, `Upsert`, `RecordUsage`, `DeleteBatch`, `DeleteStaleRows`, `CommitFile` |
| `ids`, `unpoint`, `unrow`, `unblob`, `delete` | `forget` document by document, then its commit | `ReadChunkIds`, `DeleteBatch`, `StartRowDelete`, `DeleteRows`, `DeleteObject`, `CommitForget` |

A file's exceptions are caught and the next file is taken (`FileFailed`); those of
`forget` end the run (`ForgetFailed`, `ForgetRefused`); `Die` may end it anywhere.

What distinguishes it from the worker is the transaction, which spans a file or a whole
forget. Three things of Postgres matter and are modelled: what a transaction has written
is invisible before its commit (`fresh`, `gone`, `hit` belong to the tool until then);
an UPDATE or DELETE of a row another open transaction has changed waits for it
(`Holders`, `Waiting`), a statement seeing what was committed when it started
(`StartRowDelete`); and a foreign key without ON DELETE refuses the document's deletion
while a job, a usage row or a chunk row names it (`Referenced`). When two runs wait for
each other, Postgres ends one (`ForgetRefused`). Qdrant and the bucket take effect at
once, as in the pipeline.

The worker is not composed with the tool. It touches only documents with a job, whose
`content_hash` is NULL (`create_document` does not set it), so that the tool never finds
them by a file's hash and meets them only in a forget. They are `Uploads`, already
processed.

`AlwaysAnswerable` and `NoUnreachableVectors` are the two directions between rows and
points: what is committed can be found, and what is found can be deleted. The history
variable `stray` has the chunks for which the second is not promised: rows that went
with a transaction that failed, or that a forget deleted without having read their ids.

## Parts of the service

Seven parts of the service share no state with each other. Each has a module of its own
with its own specification; `MCServiceParts` chooses one part at the start and lets it
alone move, so that one run of TLC explores all seven one after the other (the sum of
their states, and not the product).

**`RequestSessions`.** A kind of request is the sequence of what it does with its
session: `Upload` is read, call the bucket, read, commit, read, close, reply. `main` and
`side` are the requests whose own session, or whose ledger's, holds a connection of the
one pool. What an answer's two ledgers do while the first session is still open
(`OpenLedger`, `WriteLedger`, `LedgerTimeout`) is hold-and-wait; the 30 seconds of the
pool end it. `get_db` closes before a stream's body runs, so the body's first statement
takes a connection that only the collection of the session gives back (`drop`). Such a
stream reads on it three times: in retrieval, when it names the documents found, and,
after the model, when it names the sources. An exception in the last two finds
`stream_answer` at a yield inside its try, which closes it and so records the answer
(`Unwound`).

**`VectorCollection`.** `ensure_collection` request by request (`exists`, `size`, `drop`,
`create`, then `use`), as each process makes them without a lock, and a deployment that
gives the processes a new dimension one after the other.

**`AdminAccounts`.** Runs of `create_admin.py`: find, then update or register. The update
writes the role only if it differs from the role that was read, as the ORM does.
`AdminFails` is a run whose database does not answer, before its commit or after it.

**`LoginLimit`.** `rate_limit_key` decides under which name a login is counted: the
service's key, a valid token's user, or the address. `taken` is what the limiter counts,
`attempts` what each address has tried without either; `Restart` loses the one.

**`HybridRanking`.** Any two lists may come from the arms. A chunk's score is a fraction
`<<n, d>>`; `Before` is Python's stable sort; `Fusion` is the list that this order
determines. `Rerank` takes any answer of the reranker: some of the indexes, in any order, with
scores on both sides of 0 (`test_reranker.py` has negative ones). A text that the answer
does not name keeps the 0.0 of the list it starts from, and so displaces texts that were
scored below 0; `RerankAligned` counts it so too.
`evident` is how many hits of the semantic list reach the threshold.

**`AnswerCounters`.** `_log_answer` increments `answers`, `refused` and `zero_keyword` in
this order and writes the trace last, in several threads; `trace_stats` counts the rows in
three statements, each of which sees what is committed by then (`landed` counts the rows
that came between them).

**`ChatClient`.** `phase[r]` is what reply `r` shows, `loop[r]` its `send()`: reading or
over, aborted or not, `done` seen or not. `Delta`, `Done`, `EndOfStream`, `Broken` and
`AbortNoticed` are what the loop may meet, `Stop`, `Open`, `RemoveChat`, `Send` what the
visitor does. `Open(c)` is `newChat` or `openChat` of any conversation of the list, the
one that is open included; `stranded` has the replies it has left unfinished and aborted. `Persist` is the effect that runs after a render; `Reload` reads its last
result. The conversations of one organization are modelled: their key in `localStorage`
has the organization's name, and a change of organization remounts the page, which is
`Reload` with another key.

## Runs

| Run | Module, configuration | Instance | States, time | Shows |
|---|---|---|---|---|
| `queue_lease` | `MCIngestionQueue`, `IngestionQueue_lease.cfg` | 2 jobs, 2 processes, `MaxAttempts` 2, lease 1, attempts up to 1, 2 faults, clock to 4 | 730,680, 1 min | exclusion, finality, accounting, refinement |
| `queue_order` | `MCQueueOrder` | 2 jobs, 1 process, 3 attempts, unbounded duration, 2 faults, clock to 6 | 965,710, 25 s | bounded overtaking; one process needs no A1 |
| `queue_crash_loop` | `IngestionQueue` | 1 job, 1 process, 3 faults | violation | a crash loop is not bounded |
| `pipeline_stores` | `DocumentPipeline`, `DocumentPipeline_stores.cfg` | 2 documents of 2 chunks, 2 processes, 2 attempts, 1 fault | 178,706, 1.5 min | the five store invariants, refinement; every job ends, documents settle or their job failed |
| `pipeline_settles` | `DocumentPipeline` | 1 document, 1 process, 1 fault | violation | a document may stay in processing |
| `pipeline_converges` | `DocumentPipeline` | 1 document, 1 process, no process death | violation | a retry leaves points behind |
| `answer_stream` | `MCAnswerStream` | 2 documents, up to 2 chunks, 5 tokens, 2 connections of 2 fragments | 59,059, 30 s | contract but for `EmptyDone`, evidence, record, termination |
| `answer_retry` | `MCAnswerStream` | 1 chunk, 2 connections | violation | generation restarts after text |
| `answer_empty` | `MCAnswerStream` | 1 chunk, 1 fragment | violation | an answer without text ends in `done` |
| `tool_stores` | `MCLocalIngest`, `LocalIngest_stores.cfg` | 2 tools, 1 file, 2 ids for it and 1 upload, 2 chunks a generation, 4 commands, 1 fault | 1,149,502, 1.5 min | rows, points and objects agree through every overlap of runs |
| `forget_forgets` | `LocalIngest`, `LocalIngest_forget.cfg` | 1 tool, 1 upload, no fault | violation | an upload cannot be forgotten |
| `service_parts` | `MCServiceParts` | see below | 48,753, 1 min | the properties of the seven parts |

Why the bounds are enough. Two processes make every race between a claimer and a
reaper; a third would only repeat one of the roles. Two jobs are what it takes for one
to overtake the other or to be reaped beside a live one. Two attempts give a retry and
an exhaustion, and three let a retry be followed by a retry. The lease, backoff and
run bounds are the smallest that keep the order of the code's constants
(attempt <= lease, growing backoff with a cap); the clock runs long enough for a claim
to go stale, be claimed again and go stale again. In the queue, two faults allow one
process to die while another's claim is stranded. In the pipeline one fault strikes any
step of any attempt, before or after failures that are no faults (`Raise`); that two
do no more to the stores is what the theorems say, for any number of them. Two pieces
allow a half-finished prune. `faults`,
the clock and `serial` are the only counters; the first two are bounded by constants,
the third by the attempts. Two connections is the code's own number. Symmetry (jobs,
processes, tools, chunks) is used only in runs without liveness; the refinement properties
checked with it have the form of safety properties.

In `tool_stores`, two runs of the tool make every pair of transactions, over one file
because runs over different files share no row; the file gets a second id when two runs
both find no document of its hash; four commands are an ingest, a forget and an ingest
again beside another run; one fault lets one of them die or fail.

In `service_parts`: two requests over a pool of two connections, in which a request can
wait for its ledger's and two can wait for each other's, with one statement that fails;
two processes, of which one is deployed before the other; three runs of `create_admin`,
two to overlap and one to come after; two clients with an address each, a limit of two
and one restart; three chunks in lists of up to three, scored 1, -1 or not at all, with `K` 2 (`Fetch` = `K` + 1 is
the longest for which agreement wins), two candidates and one hit, so that each
cut is felt; two threads that log two answers; two replies in one conversation or in two.

Deadlock is checked in the queue's runs, whose loops never stop, and not where
the system may be at rest: every document uploaded and every job ended, a
generator used up, every command given, every request answered.

Fairness. `pipeline_stores` assumes that the loop polls for ever (it catches every
exception of an iteration), that a thread's calls return or time out, and that a lease
runs out in the end: weak fairness of claiming, of recovering and of each thread's
next step. It does not assume that faults happen, that anyone uploads, or that an
attempt succeeds. `Raise` is part of a thread's step, so fairness never forces success.
`answer_stream` assumes that the generator's calls return, with text or an error (120 s
timeouts), and that the response either asks for the next event or closes the
generator. A client that neither reads nor disconnects would hold it, and a model that
never stops writing is cut off by `MaxFragments`. `SessionsSpec` assumes that every wait
of a request ends: that for a connection by the pool's timeout, the calls by theirs, a
stream's session by its collection. It does not say that a connection becomes free.
`CollectionSpec` assumes that every process is deployed in the end and goes on being
used (weak fairness), and, because a request may fail each time, that of infinitely many
tries to size, drop or create some are not cut off (strong fairness).

## What the code does not keep

Six statements of the repository are refuted by its code. `PROJECT.json` quotes them.

* **A crash loop is not bounded by `max_attempts`** (`CrashLoopBounded`). Neither the
  reaper nor `claim_next` looks at the counter. The true bound is
  `max_attempts` + number of faults (`AttemptsAccounted`).
* **A document can stay in `processing`** (`DocumentSettles`) if the process dies between
  the two commits of the last attempt's error handler. What holds is
  `DocumentOrJobSettles`.
* **A retry does not converge in Qdrant** (`RetryConverges`). Points that a failed attempt
  had upserted are named by no row and remain. What holds is `NeverUnsearchable`.
* **A stream is restarted after text** (`RetriedBeforeText`) when a read timeout comes in
  the middle of it. What holds even then is the contract: the last event is made of all
  the text that was streamed, both parts of it.
* **An answer without text is an answer** (`KeepsContract`). `generate_stream` looks for
  text parts and takes an empty one for text, so a model that sends nothing else leads to
  a `done` event with an empty answer, recorded as an answer. `generate()` looks at
  the text and raises, and the docstring of `stream_answer` promises the identical result.
* **An upload cannot be forgotten** (`ForgetForgets`). `--forget` deletes its vectors and
  its object, and then the foreign key of its job refuses the deletion of its row, in
  that run and in every other. Its chunk rows stay, and keyword search cites them. The
  same happens to a document of the tool once a re-index has recorded its usage.

Smaller ones met on the way, which the models have as steps and no run is spent on:

* `openChat` and `newChat` abort every reply and mark none (`useChat.ts:197-205`), while
  the comment on AbortError says that `stop()` "has already set" the phase: a reply
  stays `searching` or `revealing` in its conversation (`stranded` in `ChatClient`),
  whose composer is blocked until a stop or a reload. Neither function looks at what is
  open, and the sidebar and the command palette offer that conversation as well: to open
  it again aborts its reply before the visitor's eyes. `UnfinishedIsRead` says that this
  is the only way to such a reply.
* A connection that breaks after `done` replaces the answer that is shown with an error
  (`Broken`).
* `rerank` realigns its answer after the try (`reranker.py:67-72`); one of another shape
  raises and fails the question, where the docstring says that it never does.
* "Agreeing on a chunk beats ranking first in only one list" (`hybrid_search`) is so as
  long as an arm returns at most `RRF_K` + 1 chunks; `POST /chat` allows `top_k` up to 20,
  which fetches 80.
* Two overlapping runs of `create_admin` can leave one's password with the other's role.

## Theorems

All theorems hold for any sets of jobs, documents, processes, chunks, any tokens and
any values of the bounds; `tlapm` checks each proof to its leaves. Every safety property
that a passing run checks is stated by one of them. The assumptions are
the `...Assumption` of each module, which TLC evaluates in the runs. They are the types of
the constants and little more: that no row is `NoRow`, that a token is a list of numbers,
that the backoff's base and cap are at least a second (the code's are 30 and 900). The
one hypothesis beyond them is `LeaseHolds`, written out in each theorem of the queue that
needs it.

| Theorem | Statement | Argument |
|---|---|---|
| `LifecycleTypes`, `LifecycleExclusion`, `LifecycleExhaustion`, `LifecycleFinality` | the abstract queue keeps its own promises | directly inductive |
| `QueueTypes` | `TypeOK` | inductive |
| `QueueClaims`, `QueueExclusion` | `LeaseHolds` => `ClaimIsCurrent`, `ExclusiveClaim` | `LeaseInv` |
| `QueueRefinement` | `LeaseHolds` => the queue implements `JobLifecycle` | `LeaseInv`, `StaleIsOrphaned` |
| `QueueOutcomeIsFinal` | `LeaseHolds` => `OutcomeIsFinal` | every step is a lifecycle step or leaves the table alone |
| `QueueAttempts` | `LeaseHolds` => `AttemptsAccounted` | `Spare` |
| `QueueOvertaking` | `LeaseHolds` => `BoundedOvertaking` | `OrderInv` |
| `PipelineTypes` | `TypeOK` | inductive |
| `PipelineOneGeneration`, `PipelineNeverUnsearchable`, `PipelineStatusIsHonest`, `PipelineCompletedIsProcessed` | the four store invariants | `PipelineInv` |
| `PipelineRefinement` | the pipeline implements `JobLifecycle` | `ClaimInv` |
| `StreamImplementsContract` | the stream implements `AnswerContract`, `EmptyDone` included | `StreamInv` |
| `StreamRecordedOnce`, `StreamRecordAgrees` | the record | `StreamInv` |
| `StreamTypeCorrect` | `TypeOK` | `TypesInv`, `CountsInv`, types of the operators |
| `StreamSourcesWereAnnounced`, `StreamAnswerIsEvidenced` | `SourcesWereAnnounced`, `AnswerIsEvidenced` | `ResultsInv`, lemmas about `Citations` |
| `IngestTypeCorrect`, `DocumentsStayAnswerable`, `OneGenerationIsCommitted`, `VectorsAreReachable`, `ObjectsAreStored` | the five invariants of the local tool | `IngestInv` (`IngestInvariant`) |
| `RequestsTypeCorrect`, `OutcomesStayAccounted`, `RequestsLeaveNoConnection` | `SessionsTypeOK`, `OutcomeIsAccounted`, `DoneHoldsNothing` | `SessionsInv` (`RequestsStaySound`) |
| `CollectionIsKept` | `FittingCollectionIsKept` | of every step, from a settled state |
| `LoginIsLimited` | `UnverifiedAreLimited` | `LimitInv` |
| `AccountReported` | `AccountIsAsReported` | `AccountsInv` |
| `UnfinishedRepliesAreRead`, `StoppedRepliesStay` | `UnfinishedIsRead`, `StoppedStays` | `ClientInv` |
| `FusionOfRanksIsFair` | `FusionIsFair` | arithmetic of fractions, for any lists, `K` and `top_k` |
| `RankingTypeCorrect`, `RerankingIsAligned` | `RankingTypeOK`, `RerankAligned` | `RankedInv`, and `RankingInv` for what is refused |
| `RatesStayShares` | `RatesAreShares` | `CountersInv` |
| `PartsTypeCorrect`, `PartsStaySafe` | `PartsTypeOK`, and all safety invariants of `service_parts` together | `PartsInv` |

* `LeaseInv`. `ClaimIsCurrent` is not inductive: a reaper could take the row back. With
  `ThreadIsYoung` (a thread runs for `RunBound` at most) and `ThreadIsAwaited` (a loop that
  has a thread is not reaping), a row whose claim looks stale to a reaper has no thread
  (`StaleIsOrphaned`): the first excludes it under A1, the second with one process. So
  the reaper's step is `JobLifecycle`'s `Recover`.
* `OrderInv`. Whether `j` may still overtake a due `k` depends on where `j` is:
  while it waits in the order before `k`, it has overtaken only as often as faults have put
  it back; otherwise it has one more. A retry puts `j` behind `k`, because a backoff is
  never zero (`BackoffTakesTime`): `Backoff` is at least a second whatever the attempt.
* `Spare`. A row that may be claimed again, now or after its lease, has an attempt
  to spare below `MaxAttempts + faults`. Stranding a claim uses up a fault.
* `PipelineInv` = `ClaimInv` (what a thread holds is what the table says, one thread per
  document, its last commit included), `RunSound` (the open transaction of an indexing
  run: its fresh ids are one new generation, the superseded ones are all committed rows,
  and while pruning only superseded points are left to delete) and `DocSound`. `RunSound` is
  what makes `NeverUnsearchable` inductive: when a prune starts deleting the old
  generation, the fresh one is already there, whether or not it is ever committed.
* `StreamInv`. `EventsInv` says which events have been yielded at each place: the leading
  one and one for each chunk, so `Streamed(out) = chunks` when the result is computed,
  and that is where the contract's `Done` needs it, or `EmptyDone` if there are none. `RecordInv` adds that nothing is
  recorded before an end.
* `ResultsInv` says what the last event was made of: `KeepCited` of the chunks and hits of
  now, or the refusal. The rest is about operators. The numbers of a finite set are in one-to-one
  order with `1..n` (`Numbering`, by the pigeonhole principle). `InOrder` lists a set by that numbering, so what it does
  is shown without induction (`InOrderLists`), and with it that a marker keeps the cited
  numbers (`MarkerKeeps`), that a text keeps its tokens (`TextKeeps`), and that the new
  numbers point to the old chunks (`ShownPointsToMeant`).
* `IngestInv` = `ToolSound` of each run, `Apart` of each two, `StoreSound`. As in the
  pipeline, what a run has read as stale is what is committed (`Written`) while it holds
  the row, and the fresh points are there before the stale ones go; here the lock
  of the flushed row, not a claim, keeps two runs apart (`HeldPlace` in `Apart`), and a
  transaction may delete nothing that an open one has inserted (`NotFresh`). `Swept` is
  why `NoUnreachableVectors` holds of a forget that commits once at its end.
* `SessionsInv` is about what is left of each handler: `Closes` (after each part that takes
  a connection comes one that gives it back), `AuditsFirst`, `ModelLast` and
  `ReadsHeld` (after the model's answer no statement has to wait for a connection: the
  session has one, or has read on one since it last gave one back). The handlers
  have these (`HandlersAreOrderly`), their tails keep them (`TailKeeps`), and an exception
  leaves the handler for an end that has them (`AftermathIsOrderly`).
* `LimitInv`. What an address has tried is bounded by what its bucket counts and what
  restarts have forgotten, because an unverified login counts under its address.
* `AccountsInv`. The account's password is that of a run that is over, and what a run
  that met no other has read is what the account still says, so that the role it does
  not write is the role it wants.
* `ClientInv` relates a reply's phase, its loop and its stored phase (`ReplyFits`). A loop
  that has seen `done` shows `done`, nothing or stopped, which is why the end of the stream
  need not look at the phase; and no finished phase is stored of a reply that
  is unfinished or stopped, which is why a reload cannot finish a stopped one.
* `FusionOfRanksIsFair` rests on `SumOfShares` (1/m + 1/n > 1/d if m, n < 2d) and on
  `OnlyBothPassFirst`: only a chunk of both lists comes before the semantic arm's first.
* `RankedInv` says that, once the reranker has answered, the hits are the candidates that
  beat the others (`Best`), which fill the places there are. A refusal then means that a
  candidate which is evidence is not among them, so each of a full answer beats it. That
  the order of the realigned scores misses nobody (`OrderHasEveryone`) is again the
  pigeonhole principle: positions that differ, as many as there are candidates.
* `CountersInv` counts the threads between two increments: what they have still to add to
  `refused` and `zero_keyword` has been added to `answers`; and it relates each count of
  `trace_stats` to the rows committed by then and those that have landed since.
* `PartsInv` is the conjunction of the parts' invariants. The parts share no variable, so
  a step of one leaves the others' invariants alone.

Model-checked only: the liveness properties `EveryJobEnds`, `DocumentOrJobSettles`,
`AnswerEnds`, `EveryRequestEnds` and `TheCollectionSettles` (fairness and `ENABLED` are out
of the prover's reach), and the six statements that the code refutes. Induction over data
is out of reach too (the library's theorems about it take an operator as a parameter),
which is why `Citations` numbers and lists sets where the code loops.

## Not modelled

* Extraction, cleaning, chunking, prompts and guardrails are functions of text without
  state; the models take their result as a set of chunks, or an exception.
* How an arm ranks (Qdrant, Postgres's text search, the choice of terms) and the cached
  query embedding, whose key (namespace and text) determines its value.
* The upload page: a list of badges, polled. Its answers may overlap and its items are
  matched by file name; neither reaches a store. What it waits for is modelled.
* The service worker: its events and the life of its caches are the browser's.
* Of the chat client, the history sent along, the limit of 50 stored conversations, two
  tabs over one key, and rendering.
* `delete_collection` and `org_service`, which nothing calls; the rate limits of the other
  routes, which differ in a number; roles, which are decisions on one request.
* The pool of threads that runs the endpoints (a further limit on requests at once, which
  delays and releases no connection); latencies, logging and its context; tokens and
  passwords, which are libraries' work.

## Plan

The order follows what a wrong step would cost: documents first, answers second, the
tool and the client third, then the small parts. All modules of that plan are written.
All their safety properties are proved. What is left:

1. What the liveness properties rest on, as far as it is safety: that each step of a
   thread, of a generator and of a request lowers a measure, so that an attempt, an
   answer and a request have finitely many steps. Fairness then stays with TLC.
2. The refuted statements under the condition that makes them true:
   `CrashLoopBounded` and `RetryConverges` without faults, `DocumentSettles`'s safety part
   without a death between the two commits, `KeepsContract` without empty texts.
3. The contract's own invariants, so that `SourcesWereAnnounced` follows from the
   refinement and not from the generators.

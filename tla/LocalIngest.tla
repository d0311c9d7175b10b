---------------------------- MODULE LocalIngest ----------------------------
(***************************************************************************)
(* tools/ingest.py: a folder is preloaded into Postgres and Qdrant, and    *)
(* --forget takes documents out again. Several runs of the tool may be     *)
(* going on at once, beside documents that were uploaded through the API.  *)
(*                                                                         *)
(* A run works in one Postgres transaction per file, or per --forget; what *)
(* it has written there is visible to nobody before the commit, what it    *)
(* has written to Qdrant and to the bucket is visible at once. The row     *)
(* locks that order two transactions are Postgres's: an UPDATE or DELETE   *)
(* waits for the transaction that has changed the row before it.           *)
(*                                                                         *)
(* The worker re-indexes only documents with an ingestion job             *)
(* (DocumentPipeline); the tool never matches those by content, because    *)
(* their content_hash is NULL, so it meets them only in --forget.          *)
(***************************************************************************)
EXTENDS Naturals

CONSTANTS
    Tools,     \* processes that run the tool
    Files,     \* the files of the folder; a file stands for its bytes, its
               \* hash and its path
    Docs,      \* ids of documents rows
    Uploads,   \* those that came through POST /documents and were processed
    Pieces,    \* the chunks extraction cuts from a file
    NoDoc, NoFile, NoRow,
    MaxRuns,   \* bound on commands that are started
    MaxFaults  \* bound on process deaths and lost answers

ASSUME IngestAssumption ==
    /\ Uploads \subseteq Docs
    /\ Files \cap Uploads = {}
    /\ NoDoc \notin Docs
    /\ NoFile \notin Files \cup Uploads
    /\ MaxRuns \in Nat /\ MaxFaults \in Nat

VARIABLES
    doc,     \* committed documents rows
    used,    \* ids drawn from the documents sequence, never given again
    chunks,  \* committed chunk rows of each document: the runs of
             \* index_document whose rows they are
    points,  \* Qdrant points with the document's payload
    serial,  \* runs of index_document that have inserted rows, per document
    blobs,   \* documents whose storage_key has an object in the bucket
    usage,   \* documents named by a usage_logs row
    tool,    \* each process: where it is and what its transaction holds
    runs, faults,
    touched, \* history: documents that a --forget --yes has begun to remove
    stray    \* history: chunks whose rows vanished with a transaction, or
             \* were deleted by a --forget that had not read their ids

pgVars == <<doc, used, chunks, usage>>
history == <<touched, stray>>
vars == <<doc, used, chunks, points, serial, blobs, usage, tool, runs, faults,
          touched, stray>>

Names == Files \cup Uploads

DocumentStatus == {"pending", "processing", "processed", "failed"}

\* content_hash is NULL for an upload; key: storage_key is not NULL.
Row == [name : Names, hash : Files \cup {NoFile}, status : DocumentStatus,
        key : BOOLEAN]

ASSUME RowAssumption == NoRow \notin Row

ChunkId == (Nat \ {0}) \X Pieces
Generation(n) == {n} \X Pieces
Ids(gens) == gens \X Pieces

\* Places in ingest_file and index_document, then in forget, named by the call
\* that comes next.
IngestPlace == {"file", "put", "insert", "update", "extract", "upsert", "usage",
                "prune", "rows", "commit"}
ForgetPlace == {"ids", "unpoint", "unrow", "unblob", "delete"}

Tool == [at : {"idle"} \cup IngestPlace \cup ForgetPlace,
         reindex : BOOLEAN, keep : BOOLEAN,  \* --reindex, --upload-blobs
         files : SUBSET Files,       \* still to be ingested
         match : SUBSET Docs,        \* still to be forgotten
         hit : SUBSET Docs,          \* whose row the commit will delete
         file : Files \cup {NoFile}, doc : Docs \cup {NoDoc},
         new : BOOLEAN,              \* the document row is not committed
         fresh : SUBSET (Nat \ {0}), \* runs whose rows this transaction inserted
         stale : SUBSET (Nat \ {0}), \* runs whose rows it has read
         left : SUBSET ChunkId,      \* of those, points still to be deleted
         gone : SUBSET (Docs \X (Nat \ {0}))] \* rows it has deleted

Idle == [at |-> "idle", reindex |-> FALSE, keep |-> FALSE, files |-> {},
         match |-> {}, hit |-> {}, file |-> NoFile, doc |-> NoDoc, new |-> FALSE,
         fresh |-> {}, stale |-> {}, left |-> {}, gone |-> {}]

TypeOK ==
    /\ doc \in [Docs -> Row \cup {NoRow}]
    /\ used \subseteq Docs
    /\ chunks \in [Docs -> SUBSET (Nat \ {0})]
    /\ points \in [Docs -> SUBSET ChunkId]
    /\ serial \in [Docs -> Nat]
    /\ blobs \subseteq Docs
    /\ usage \subseteq Docs
    /\ tool \in [Tools -> Tool]
    /\ runs \in Nat /\ faults \in Nat
    /\ touched \subseteq Docs
    /\ stray \subseteq Docs \X ChunkId

\* An upload that the worker has processed: it has a job, an object and one
\* generation of chunks; its worker has recorded what the embeddings cost.
Init ==
    /\ doc = [d \in Docs |->
                 IF d \in Uploads
                 THEN [name |-> d, hash |-> NoFile, status |-> "processed",
                       key |-> TRUE]
                 ELSE NoRow]
    /\ used = Uploads
    /\ chunks = [d \in Docs |-> IF d \in Uploads THEN {1} ELSE {}]
    /\ points = [d \in Docs |-> IF d \in Uploads THEN Generation(1) ELSE {}]
    /\ serial = [d \in Docs |-> IF d \in Uploads THEN 1 ELSE 0]
    /\ blobs = Uploads
    /\ usage = Uploads
    /\ tool = [t \in Tools |-> Idle]
    /\ runs = 0 /\ faults = 0
    /\ touched = {} /\ stray = {}

Committed == {d \in Docs : doc[d] # NoRow}

\* ingestion_jobs rows: one for every upload, none for a document of the tool.
Jobs == Uploads

-----------------------------------------------------------------------------
(***************************************************************************)
(* What ends a transaction or a process                                    *)
(***************************************************************************)

Fault == faults < MaxFaults /\ faults' = faults + 1

Goto(t, place) == tool' = [tool EXCEPT ![t] = [@ EXCEPT !.at = place]]

\* The chunks whose rows go with t's transaction while their points may stay.
Abandoned(t) == {tool[t].doc} \X Ids(tool[t].fresh)

\* The exception leaves ingest_file: main rolls back, counts a failure and goes
\* on to the next file. A call that raises although it took effect is the
\* effect followed by this step.
FileFailed(t) ==
    /\ tool[t].at \in IngestPlace \ {"file"}
    /\ tool' = [tool EXCEPT ![t] =
                   [Idle EXCEPT !.at = "file", !.files = tool[t].files,
                                !.reindex = tool[t].reindex, !.keep = tool[t].keep]]
    /\ stray' = stray \cup Abandoned(t)
    /\ UNCHANGED <<pgVars, points, serial, blobs, runs, faults, touched>>

\* A store answers forget() with an error: the run ends, main only closes the
\* session.
ForgetFailed(t) ==
    /\ tool[t].at \in ForgetPlace
    /\ Fault
    /\ tool' = [tool EXCEPT ![t] = Idle]
    /\ UNCHANGED <<pgVars, points, serial, blobs, runs, history>>

Die(t) ==
    /\ tool[t].at # "idle"
    /\ Fault
    /\ tool' = [tool EXCEPT ![t] = Idle]
    /\ stray' = stray \cup Abandoned(t)
    /\ UNCHANGED <<pgVars, points, serial, blobs, runs, touched>>

-----------------------------------------------------------------------------
(***************************************************************************)
(* main() and ingest_file()                                                *)
(***************************************************************************)

\* The folder is scanned and the organization looked up once.
StartIngest(t, reindex, keep) ==
    /\ tool[t].at = "idle"
    /\ runs < MaxRuns /\ runs' = runs + 1
    /\ tool' = [tool EXCEPT ![t] = [Idle EXCEPT !.at = "file", !.files = Files,
                                        !.reindex = reindex, !.keep = keep]]
    /\ UNCHANGED <<pgVars, points, serial, blobs, faults, history>>

\* The report is printed and the session closed.
FinishIngest(t) ==
    /\ tool[t].at = "file"
    /\ tool[t].files = {}
    /\ tool' = [tool EXCEPT ![t] = Idle]
    /\ UNCHANGED <<pgVars, points, serial, blobs, runs, faults, history>>

\* Documents with the file's hash, committed by anyone.
Existing(f) == {d \in Committed : doc[d].hash = f}

NextFile(t, f) ==
    /\ tool' = [tool EXCEPT ![t] = [@ EXCEPT !.files = tool[t].files \ {f}]]
    /\ UNCHANGED <<pgVars, points, serial, blobs, runs, faults, history>>

\* Too large, or of another type than its name says: counted as failed.
RejectFile(t) == tool[t].at = "file" /\ \E f \in tool[t].files : NextFile(t, f)

SkipFile(t) ==
    /\ tool[t].at = "file"
    /\ ~ tool[t].reindex
    /\ \E f \in tool[t].files : \E d \in Existing(f) :
          doc[d].status = "processed" /\ NextFile(t, f)

\* The file's document is there and is to be indexed again.
TakeExisting(t) ==
    /\ tool[t].at = "file"
    /\ \E f \in tool[t].files : \E d \in Existing(f) :
          /\ tool[t].reindex \/ doc[d].status # "processed"
          /\ tool' = [tool EXCEPT ![t] =
                [@ EXCEPT !.at = "update", !.files = tool[t].files \ {f},
                          !.file = f, !.doc = d]]
    /\ UNCHANGED <<pgVars, points, serial, blobs, runs, faults, history>>

\* No document has the hash. The storage key is a fresh uuid, the id will come
\* from the sequence: the one name d stands for both.
TakeNew(t) ==
    /\ tool[t].at = "file"
    /\ \E f \in tool[t].files : \E d \in Docs \ used :
          /\ Existing(f) = {}
          /\ used' = used \cup {d}
          /\ tool' = [tool EXCEPT ![t] =
                [@ EXCEPT !.at = IF tool[t].keep THEN "put" ELSE "insert",
                          !.files = tool[t].files \ {f},
                          !.file = f, !.doc = d, !.new = TRUE]]
    /\ UNCHANGED <<doc, chunks, usage, points, serial, blobs, runs, faults, history>>

\* Mutant of PutObject: the object is left for later.
PutNothing(t) ==
    /\ tool[t].at = "put"
    /\ Goto(t, "insert")
    /\ UNCHANGED <<pgVars, points, serial, blobs, runs, faults, history>>

PutObject(t) ==
    /\ tool[t].at = "put"
    /\ blobs' = blobs \cup {tool[t].doc}
    /\ Goto(t, "insert")
    /\ UNCHANGED <<pgVars, points, serial, runs, faults, history>>

\* The new row is flushed, pending and then processing: nobody else sees it.
InsertDocument(t) ==
    /\ tool[t].at = "insert"
    /\ Goto(t, "extract")
    /\ UNCHANGED <<pgVars, points, serial, blobs, runs, faults, history>>

\* Transactions that have updated the document's row and not ended.
Holders(d) ==
    {t \in Tools : /\ tool[t].doc = d /\ ~ tool[t].new
                   /\ tool[t].at \in {"extract", "upsert", "usage", "prune",
                                      "rows", "commit"}}

\* Mutant of UpdateDocument: the status is set but not flushed, so no lock is taken.
UpdateUnflushed(t) ==
    /\ tool[t].at = "update"
    /\ doc[tool[t].doc] # NoRow
    /\ Goto(t, "extract")
    /\ UNCHANGED <<pgVars, points, serial, blobs, runs, faults, history>>

\* document.status = PROCESSING, flushed: waits for the row's lock. If the row
\* is gone by then, the UPDATE matches nothing and raises (FileFailed).
UpdateDocument(t) ==
    /\ tool[t].at = "update"
    /\ Holders(tool[t].doc) = {}
    /\ doc[tool[t].doc] # NoRow
    /\ Goto(t, "extract")
    /\ UNCHANGED <<pgVars, points, serial, blobs, runs, faults, history>>

-----------------------------------------------------------------------------
(***************************************************************************)
(* index_document() in the tool's transaction                              *)
(***************************************************************************)

\* Extract, read the ids of a prior run, insert and flush the rows, embed.
Extract(t) ==
    LET d == tool[t].doc
        n == serial[d] + 1
    IN  /\ tool[t].at = "extract"
        /\ serial' = [serial EXCEPT ![d] = n]
        /\ tool' = [tool EXCEPT ![t] = [@ EXCEPT !.at = "upsert", !.fresh = {n},
                                            !.stale = chunks[d]]]
        /\ UNCHANGED <<pgVars, points, blobs, runs, faults, history>>

\* Mutant of Upsert: the old points go before the new ones come.
UpsertLast(t) ==
    LET d == tool[t].doc
    IN  /\ tool[t].at = "upsert"
        /\ points' = [points EXCEPT ![d] = @ \ Ids(tool[t].stale)]
        /\ Goto(t, "usage")
        /\ UNCHANGED <<pgVars, serial, blobs, runs, faults, history>>

Upsert(t) ==
    /\ tool[t].at = "upsert"
    /\ points' = [points EXCEPT ![tool[t].doc] = @ \cup Ids(tool[t].fresh)]
    /\ Goto(t, "usage")
    /\ UNCHANGED <<pgVars, serial, blobs, runs, faults, history>>

\* usage_service.record() in a session of its own. Its foreign key fails, and the
\* error is swallowed, while the document's row is not committed; nothing is
\* recorded either when the provider gave no usage or any other error came.
RecordUsage(t) ==
    /\ tool[t].at = "usage"
    /\ \/ usage' = usage \cup ({tool[t].doc} \cap Committed)
       \/ usage' = usage
    /\ tool' = [tool EXCEPT ![t] = [@ EXCEPT !.at = "prune",
                                        !.left = Ids(tool[t].stale)]]
    /\ UNCHANGED <<doc, used, chunks, points, serial, blobs, runs, faults, history>>

\* delete_points(), one batch, from index_document or from forget.
DeleteBatch(t) ==
    /\ tool[t].at \in {"prune", "unpoint"}
    /\ \E batch \in SUBSET tool[t].left :
          /\ batch # {}
          /\ points' = [points EXCEPT ![tool[t].doc] = @ \ batch]
          /\ tool' = [tool EXCEPT ![t] = [@ EXCEPT !.left = tool[t].left \ batch]]
    /\ UNCHANGED <<pgVars, serial, blobs, runs, faults, history>>

\* Rows of these runs that another transaction has deleted and not committed.
Waiting(t, d, gens) ==
    \E u \in Tools \ {t} : tool[u].gone \cap ({d} \X gens) # {}

\* The stale rows are deleted by id, in the transaction.
DeleteStaleRows(t) ==
    LET d == tool[t].doc
    IN  /\ tool[t].at = "prune"
        /\ tool[t].left = {}
        /\ ~ Waiting(t, d, tool[t].stale)
        /\ tool' = [tool EXCEPT ![t] = [@ EXCEPT !.at = "commit",
                       !.gone = {d} \X (tool[t].stale \cap chunks[d])]]
        /\ UNCHANGED <<pgVars, points, serial, blobs, runs, faults, history>>

\* Mutant of CommitFile: the outcome is written where the status belongs.
CommitFileAsIndexed(t) ==
    LET d == tool[t].doc
    IN  /\ tool[t].at = "commit"
        /\ doc' = [doc EXCEPT ![d] = [name |-> tool[t].file, hash |-> tool[t].file,
                      status |-> "indexed", key |-> tool[t].keep]]
        /\ chunks' = [chunks EXCEPT ![d] = (@ \ tool[t].stale) \cup tool[t].fresh]
        /\ tool' = [tool EXCEPT ![t] = Idle]
        /\ UNCHANGED <<used, usage, points, serial, blobs, runs, faults, history>>

\* PROCESSED and the hash, committed with the rows.
CommitFile(t) ==
    LET d == tool[t].doc
    IN  /\ tool[t].at = "commit"
        /\ doc' = [doc EXCEPT ![d] =
                      IF tool[t].new
                      THEN [name |-> tool[t].file, hash |-> tool[t].file,
                            status |-> "processed", key |-> tool[t].keep]
                      ELSE [@ EXCEPT !.hash = tool[t].file, !.status = "processed"]]
        /\ chunks' = [chunks EXCEPT ![d] = (@ \ tool[t].stale) \cup tool[t].fresh]
        /\ tool' = [tool EXCEPT ![t] =
                       [Idle EXCEPT !.at = "file", !.files = tool[t].files,
                                    !.reindex = tool[t].reindex, !.keep = tool[t].keep]]
        /\ UNCHANGED <<used, usage, points, serial, blobs, runs, faults, history>>

-----------------------------------------------------------------------------
(***************************************************************************)
(* forget() with apply                                                     *)
(***************************************************************************)

\* The pattern selects documents by a part of their names. A run without a match,
\* and a preview, change nothing.
StartForget(t, pattern) ==
    LET match == {d \in Committed : doc[d].name \in pattern}
    IN  /\ tool[t].at = "idle"
        /\ runs < MaxRuns /\ runs' = runs + 1
        /\ match # {}
        /\ tool' = [tool EXCEPT ![t] = [Idle EXCEPT !.at = "ids", !.match = match]]
        /\ UNCHANGED <<pgVars, points, serial, blobs, faults, history>>

\* The chunk ids of the next document are read before anything is deleted.
ReadChunkIds(t) ==
    /\ tool[t].at = "ids"
    /\ \E d \in tool[t].match :
          /\ touched' = touched \cup {d}
          /\ tool' = [tool EXCEPT ![t] =
                [@ EXCEPT !.at = "unpoint", !.doc = d, !.stale = chunks[d],
                          !.match = tool[t].match \ {d},
                          !.left = Ids(chunks[d])]]
    /\ UNCHANGED <<pgVars, points, serial, blobs, runs, faults, stray>>

\* Mutant of StartRowDelete: only the first batch of points is deleted.
StartRowDeleteEarly(t) ==
    LET d == tool[t].doc
    IN  /\ tool[t].at = "unpoint"
        /\ tool' = [tool EXCEPT ![t] = [@ EXCEPT !.at = "unrow", !.left = {},
                                            !.stale = chunks[d]]]
        /\ stray' = stray \cup ({d} \X Ids(chunks[d] \ tool[t].stale))
        /\ UNCHANGED <<pgVars, points, serial, blobs, runs, faults, touched>>

\* The DELETE of the document's chunk rows starts: it sees what is committed now,
\* which another run may have replaced since the ids were read ...
StartRowDelete(t) ==
    LET d == tool[t].doc
    IN  /\ tool[t].at = "unpoint"
        /\ tool[t].left = {}
        /\ tool' = [tool EXCEPT ![t] = [@ EXCEPT !.at = "unrow",
                                            !.stale = chunks[d]]]
        /\ stray' = stray \cup ({d} \X Ids(chunks[d] \ tool[t].stale))
        /\ UNCHANGED <<pgVars, points, serial, blobs, runs, faults, touched>>

\* ... and ends once nobody else holds one of those rows.
DeleteRows(t) ==
    LET d == tool[t].doc
    IN  /\ tool[t].at = "unrow"
        /\ ~ Waiting(t, d, tool[t].stale)
        /\ tool' = [tool EXCEPT ![t] =
              [@ EXCEPT !.at = "unblob", !.hit = tool[t].hit \cup {d},
                        !.gone = tool[t].gone
                                 \cup ({d} \X (tool[t].stale \cap chunks[d]))]]
        /\ UNCHANGED <<pgVars, points, serial, blobs, runs, faults, history>>

\* The object is deleted, best effort; then the next document, or the commit.
DeleteObject(t) ==
    /\ tool[t].at = "unblob"
    /\ \/ blobs' = blobs \ {tool[t].doc}
       \/ blobs' = blobs
    /\ Goto(t, IF tool[t].match = {} THEN "delete" ELSE "ids")
    /\ UNCHANGED <<pgVars, points, serial, runs, faults, history>>

\* Rows that still name d when t's transaction has deleted what it has deleted:
\* the foreign keys of ingestion_jobs, usage_logs and chunks have no ON DELETE.
Referenced(t, d) ==
    d \in Jobs \cup usage \/ \E n \in chunks[d] : <<d, n>> \notin tool[t].gone

\* The documents are deleted at the flush and everything is committed.
CommitForget(t) ==
    LET hit == tool[t].hit
    IN  /\ tool[t].at = "delete"
        /\ \A d \in hit : Holders(d) = {} /\ ~ Referenced(t, d)
        /\ doc' = [d \in Docs |-> IF d \in hit THEN NoRow ELSE doc[d]]
        /\ chunks' = [d \in Docs |-> IF d \in hit THEN {} ELSE chunks[d]]
        /\ tool' = [tool EXCEPT ![t] = Idle]
        /\ UNCHANGED <<used, usage, points, serial, blobs, runs, faults, history>>

\* t waits for a row that u's transaction has changed.
WaitsFor(t, u) ==
    \/ /\ tool[t].at \in {"prune", "unrow"} /\ tool[t].left = {}
       /\ tool[u].gone \cap ({tool[t].doc} \X tool[t].stale) # {}
    \/ tool[t].at = "delete" /\ \E d \in tool[t].hit : u \in Holders(d)

\* The flush meets a foreign key, or Postgres breaks a deadlock at this run's
\* expense: the transaction is rolled back and the run ends.
ForgetRefused(t) ==
    /\ \/ /\ tool[t].at = "delete"
          /\ \E d \in tool[t].hit : Holders(d) = {} /\ Referenced(t, d)
       \/ /\ tool[t].at \in {"unrow", "delete"}
          /\ \E u \in Tools \ {t} : WaitsFor(t, u) /\ WaitsFor(u, t)
    /\ tool' = [tool EXCEPT ![t] = Idle]
    /\ UNCHANGED <<pgVars, points, serial, blobs, runs, faults, history>>

-----------------------------------------------------------------------------
Start(t) ==
    \/ \E reindex, keep \in BOOLEAN : StartIngest(t, reindex, keep)
    \/ \E pattern \in SUBSET Names : StartForget(t, pattern)

IngestStep(t) ==
    \/ FinishIngest(t)
    \/ RejectFile(t)
    \/ SkipFile(t)
    \/ TakeExisting(t)
    \/ TakeNew(t)
    \/ PutObject(t)
    \/ InsertDocument(t)
    \/ UpdateDocument(t)
    \/ Extract(t)
    \/ Upsert(t)
    \/ RecordUsage(t)
    \/ DeleteBatch(t)
    \/ DeleteStaleRows(t)
    \/ CommitFile(t)
    \/ FileFailed(t)

ForgetStep(t) ==
    \/ ReadChunkIds(t)
    \/ StartRowDelete(t)
    \/ DeleteRows(t)
    \/ DeleteObject(t)
    \/ CommitForget(t)
    \/ ForgetRefused(t)

Next ==
    \E t \in Tools :
        Start(t) \/ IngestStep(t) \/ ForgetStep(t) \/ ForgetFailed(t) \/ Die(t)

Spec == Init /\ [][Next]_vars

-----------------------------------------------------------------------------
(***************************************************************************)
(* Properties                                                              *)
(***************************************************************************)

\* Upsert before prune, through every failed, killed or repeated run: from its
\* first commit until a --forget takes it, every chunk of some generation of a
\* document is in Qdrant.
AlwaysAnswerable ==
    \A d \in Committed \ touched :
        \E n \in 1..serial[d] : Generation(n) \subseteq points[d]

\* Two runs with --reindex may take the same document at once. The row lock of
\* the flushed status is what keeps the second from reading the ids of a
\* generation that the first is replacing: one generation is ever committed.
OneGeneration ==
    \A d \in Committed : \E n \in 1..serial[d] : chunks[d] = {n}

\* "Drop the rows first and the vectors become unreachable" (docstring of forget):
\* every vector has a chunk row that names it, except those an ended transaction
\* has taken the rows of.
NoUnreachableVectors ==
    \A d \in Docs : \A c \in points[d] :
        \/ c[1] \in chunks[d]
        \/ \E t \in Tools : tool[t].doc = d /\ c[1] \in tool[t].fresh
        \/ <<d, c>> \in stray

\* A row that names an object in the bucket names one that is there: the object
\* is put before the row is committed and only a --forget removes it.
StoredObjectExists == \A d \in Committed \ touched : doc[d].key => d \in blobs

\* Docstring of forget: it removes matching documents "from the knowledge base
\* entirely", and "if this run dies midway a re-run is safe". Once no --forget is
\* going on, nothing is left of a document that one of them has begun to remove.
ForgetForgets ==
    (\A t \in Tools : tool[t].at \notin ForgetPlace) =>
        \A d \in touched : chunks[d] = {} /\ points[d] = {}
=============================================================================

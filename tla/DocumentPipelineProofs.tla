----------------------- MODULE DocumentPipelineProofs -----------------------
(***************************************************************************)
(* For any documents, processes, chunks and faults: the pipeline keeps the *)
(* three stores in step and uses the job table as JobLifecycle promises.   *)
(***************************************************************************)
EXTENDS DocumentPipeline, TLAPS

\* Where a thread runs the job it claimed, and where an attempt has not ended.
Attempting == {"begin", "insert", "upsert", "prune", "complete"}
Running == Attempting \cup {"except"}

\* What a thread holds is what the job table says it holds.
ThreadOwns ==
    \A w \in Workers :
        /\ working[w] = IF thread[w].at \in Running THEN thread[w].doc ELSE NoDoc
        /\ thread[w].at # "idle" => thread[w].doc \in Docs
        /\ thread[w].at = "idle" => thread[w].doc = NoDoc

\* A claimed job is "processing" until its thread has tried to complete it, and
\* stays as its thread left it until the document's status is written too.
JobIsClaimed ==
    \A w \in Workers : LET job == status[thread[w].doc] IN
        /\ thread[w].at \in Attempting => job = "processing"
        /\ thread[w].at = "except" => job \in {"processing", "completed"}
        /\ thread[w].at = "settle" => job \in {"pending", "failed"}

\* One thread for a document, the one that still has to write its status included.
OneThread ==
    \A v, w \in Workers :
        thread[v].doc = thread[w].doc /\ thread[v].doc \in Docs => v = w

ClaimInv == TypeOK /\ ThreadOwns /\ JobIsClaimed /\ OneThread

\* The open transaction of a run of index_document: what it inserted is one
\* generation, none of it is what it supersedes, and once it is upserted
\* only superseded points are left to delete.
RunSound(w) ==
    LET t == thread[w]
    IN  /\ t.at \in {"insert", "upsert", "prune"} => docStatus[t.doc] = "processing"
        /\ t.at = "complete" => docStatus[t.doc] = "processed"
        /\ t.at \in {"upsert", "prune"} =>
              /\ \E n \in 1..serial[t.doc] : t.fresh = Generation(n)
              /\ t.stale = rows[t.doc]
              /\ t.fresh \cap t.stale = {}
        /\ t.at = "prune" => t.fresh \subseteq points[t.doc] /\ t.left \subseteq t.stale

\* What the properties say of one document.
DocSound(d) ==
    /\ rows[d] # {} =>
          /\ \E n \in 1..serial[d] : rows[d] = Generation(n)
          /\ \E n \in 1..serial[d] : Generation(n) \subseteq points[d]
    /\ docStatus[d] = "processed" =>
          /\ \E n \in 1..serial[d] : rows[d] = Generation(n)
          /\ rows[d] \subseteq points[d]
    /\ docStatus[d] = "failed" => status[d] = "failed"
    /\ status[d] = "completed" => docStatus[d] = "processed"

PipelineInv ==
    /\ ClaimInv
    /\ \A w \in Workers : RunSound(w)
    /\ \A d \in Docs : DocSound(d)

-----------------------------------------------------------------------------
\* The ids that a run draws are chunk ids.
LEMMA GenerationType == \A n \in Nat \ {0} : Generation(n) \subseteq ChunkId
  BY DEF Generation, ChunkId

\* No two runs draw the same id.
LEMMA GenerationsDisjoint ==
    \A m, n \in Nat : m # n => Generation(m) \cap Generation(n) = {}
  BY DEF Generation

\* The initial state has its types.
LEMMA TypeInit == Init => TypeOK
  BY PipelineAssumption
  DEF Init, TypeOK, JL!Init, JL!TypeOK, JL!JobStatus, DocStatus, Idle, Thread,
      Place, ChunkId

\* What the steps of _process_one make of a thread is a thread.
LEMMA ThreadMoves ==
    /\ \A d \in Docs \cup {NoDoc}, p \in Place :
          [Idle EXCEPT !.at = p, !.doc = d] \in Thread
    /\ Idle \in Thread
    /\ \A t \in Thread, p \in Place : [t EXCEPT !.at = p] \in Thread
    /\ \A t \in Thread, p \in Place, f, s \in SUBSET ChunkId :
          [t EXCEPT !.at = p, !.fresh = f, !.stale = s] \in Thread
    /\ \A t \in Thread, p \in Place, l \in SUBSET ChunkId :
          [t EXCEPT !.at = p, !.left = l] \in Thread
    /\ \A t \in Thread, l \in SUBSET ChunkId : [t EXCEPT !.left = l] \in Thread
<1> USE DEF Thread
<1>0. "idle" \in Place
  BY DEF Place
<1>1. \A d \in Docs \cup {NoDoc}, p \in Place :
          [Idle EXCEPT !.at = p, !.doc = d] \in Thread
  BY DEF Idle
<1>2. Idle \in Thread
  BY <1>0 DEF Idle
<1> QED
  BY <1>1, <1>2

\* Steps of the job table keep its types.
LEMMA JobTypeStep ==
    ASSUME JL!TypeOK, NEW w \in Workers, NEW d \in Docs,
           \/ JL!Enqueue(d) \/ JL!Claim(w, d) \/ JL!ClaimLost(w, d)
           \/ JL!Complete(w) \/ JL!CompleteUnanswered(w) \/ JL!FailOrRetry(w)
           \/ JL!Abandon(w)
    PROVE  JL!TypeOK'
  BY DEF JL!TypeOK, JL!JobStatus, JL!Enqueue, JL!Claim, JL!ClaimLost,
         JL!TakeClaim, JL!Complete, JL!CompleteUnanswered, JL!FailOrRetry,
         JL!Finish, JL!Abandon

\* Every step keeps the rows, the points and the threads within their types.
LEMMA TypeStep == TypeOK /\ [Next]_vars => TypeOK'
<1> SUFFICES ASSUME TypeOK, [Next]_vars PROVE TypeOK'
  OBVIOUS
<1>0. /\ JL!TypeOK
      /\ UNCHANGED jobVars => JL!TypeOK'
      /\ \A w \in Workers : thread[w] \in Thread
      /\ \A d \in Docs : rows[d] \in SUBSET ChunkId
  BY DEF TypeOK, JL!TypeOK, jobVars
<1>a. ASSUME NEW w \in Workers, NEW t \in Thread,
             thread' = [thread EXCEPT ![w] = t]
      PROVE  thread' \in [Workers -> Thread]
  BY <1>a DEF TypeOK
<1>1. ASSUME NEW d \in Docs, PutObject(d) PROVE TypeOK'
  BY <1>1, <1>0 DEF PutObject, TypeOK, pgVars
<1>2. ASSUME NEW d \in Docs, CommitUpload(d) PROVE TypeOK'
  <2>1. JL!TypeOK'
    BY <1>2, <1>0 DEF CommitUpload, JL!Enqueue, JL!TypeOK, JL!JobStatus
  <2> QED
    BY <1>2, <2>1 DEF CommitUpload, TypeOK, DocStatus
<1>3. ASSUME NEW w \in Workers, NEW d \in Docs, Claim(w, d) PROVE TypeOK'
  <2>1. JL!TypeOK'
    BY <1>3, <1>0, JobTypeStep DEF Claim
  <2>2. thread' \in [Workers -> Thread]
    <3>1. [Idle EXCEPT !.at = "begin", !.doc = d] \in Thread
      BY ThreadMoves DEF Place
    <3> QED
      BY <1>3, <1>a, <3>1 DEF Claim
  <2> QED
    BY <1>3, <2>1, <2>2 DEF Claim, TypeOK, pgVars
<1>4. ASSUME NEW stale \in SUBSET Docs, RecoverStaleJobs(stale) PROVE TypeOK'
  <2>1. JL!TypeOK'
    BY <1>4, <1>0 DEF RecoverStaleJobs, JL!Recover, JL!TypeOK, JL!JobStatus
  <2> QED
    BY <1>4, <2>1 DEF RecoverStaleJobs, TypeOK, pgVars
<1>5. ASSUME NEW w \in Workers, NEW p \in Place, Goto(w, p)
      PROVE  thread' \in [Workers -> Thread]
  BY <1>5, <1>0, <1>a, ThreadMoves DEF Goto
<1>6. ASSUME NEW w \in Workers, End(w) PROVE thread' \in [Workers -> Thread]
  BY <1>6, <1>a, ThreadMoves DEF End
<1>7. ASSUME NEW w \in Workers, Begin(w) PROVE TypeOK'
  <2>1. Goto(w, "insert") /\ "insert" \in Place
    BY <1>7 DEF Begin, Place
  <2> QED
    BY <1>7, <1>0, <1>5, <2>1 DEF Begin, TypeOK, DocStatus, jobVars
<1>8. ASSUME NEW w \in Workers, Insert(w) PROVE TypeOK'
  <2>1. thread[w].doc \in Docs => serial[thread[w].doc] + 1 \in Nat \ {0}
    BY DEF TypeOK
  <2>2. thread[w].doc \in Docs
    BY <1>8 DEF Insert, TypeOK
  <2>3. Generation(serial[thread[w].doc] + 1) \in SUBSET ChunkId
    BY <2>1, <2>2, GenerationType
  <2>4. thread' \in [Workers -> Thread]
    <3>1. [thread[w] EXCEPT !.at = "upsert",
              !.fresh = Generation(serial[thread[w].doc] + 1),
              !.stale = rows[thread[w].doc]] \in Thread
      BY <1>0, <2>2, <2>3, ThreadMoves DEF Place
    <3> QED
      BY <1>8, <1>a, <3>1 DEF Insert
  <2>5. serial' \in [Docs -> Nat]
    BY <1>8, <2>1, <2>2 DEF Insert, TypeOK
  <2> QED
    BY <1>8, <1>0, <2>4, <2>5 DEF Insert, TypeOK, pgVars
<1>9. ASSUME NEW w \in Workers, Upsert(w) PROVE TypeOK'
  <2>1. thread' \in [Workers -> Thread]
    <3>1. thread[w].stale \in SUBSET ChunkId
      BY <1>0 DEF Thread
    <3>2. [thread[w] EXCEPT !.at = "prune", !.left = thread[w].stale] \in Thread
      BY <1>0, <3>1, ThreadMoves DEF Place
    <3> QED
      BY <1>9, <1>a, <3>2 DEF Upsert
  <2>2. points' \in [Docs -> SUBSET ChunkId]
    <3>1. thread[w].fresh \in SUBSET ChunkId
      BY <1>0 DEF Thread
    <3> QED
      BY <1>9, <3>1 DEF Upsert, TypeOK
  <2> QED
    BY <1>9, <1>0, <2>1, <2>2 DEF Upsert, TypeOK, pgVars
<1>10. ASSUME NEW w \in Workers, DeleteBatch(w) PROVE TypeOK'
  <2>1. PICK batch \in SUBSET thread[w].left :
            /\ points' = [points EXCEPT ![thread[w].doc] = @ \ batch]
            /\ thread' = [thread EXCEPT ![w] = [@ EXCEPT !.left = thread[w].left \ batch]]
    BY <1>10 DEF DeleteBatch
  <2>2. thread' \in [Workers -> Thread]
    <3>1. thread[w].left \ batch \in SUBSET ChunkId
      BY <1>0 DEF Thread
    <3>2. [thread[w] EXCEPT !.left = thread[w].left \ batch] \in Thread
      BY <1>0, <3>1, ThreadMoves
    <3> QED
      BY <2>1, <1>a, <3>2
  <2>3. points' \in [Docs -> SUBSET ChunkId]
    BY <2>1 DEF TypeOK
  <2> QED
    BY <1>10, <1>0, <2>2, <2>3 DEF DeleteBatch, TypeOK, pgVars
<1>11. ASSUME NEW w \in Workers, Commit(w) PROVE TypeOK'
  <2>1. Goto(w, "complete") /\ "complete" \in Place
    BY <1>11 DEF Commit, Place
  <2>2. rows' \in [Docs -> SUBSET ChunkId]
    <3>1. thread[w].fresh \in SUBSET ChunkId
      BY <1>0 DEF Thread
    <3> QED
      BY <1>11, <3>1 DEF Commit, TypeOK
  <2> QED
    BY <1>11, <1>0, <1>5, <2>1, <2>2 DEF Commit, TypeOK, DocStatus, jobVars
<1>12. ASSUME NEW w \in Workers, Complete(w) PROVE TypeOK'
  <2>1. JL!TypeOK'
    BY <1>12, <1>0 DEF Complete, JL!Complete, JL!Finish, JL!TypeOK, JL!JobStatus
  <2> QED
    BY <1>12, <1>6, <2>1 DEF Complete, TypeOK, pgVars
<1>13. ASSUME NEW w \in Workers, CompleteUnanswered(w) PROVE TypeOK'
  <2>1. JL!TypeOK'
    BY <1>13, <1>0
    DEF CompleteUnanswered, JL!CompleteUnanswered, JL!Finish, JL!TypeOK,
        JL!JobStatus
  <2>2. Goto(w, "except") /\ "except" \in Place
    BY <1>13 DEF CompleteUnanswered, Place
  <2> QED
    BY <1>13, <1>5, <2>1, <2>2 DEF CompleteUnanswered, Fault, TypeOK, pgVars
<1>14. ASSUME NEW w \in Workers, Raise(w) PROVE TypeOK'
  <2>1. thread[w].doc \in Docs \cup {NoDoc} /\ "except" \in Place
    BY <1>0 DEF Thread, Place
  <2>2. thread' \in [Workers -> Thread]
    BY <1>14, <1>a, <2>1, ThreadMoves DEF Raise
  <2> QED
    BY <1>14, <1>0, <2>2 DEF Raise, TypeOK, jobVars, pgVars
<1>15. ASSUME NEW w \in Workers, FailOrRetry(w) PROVE TypeOK'
  <2>1. JL!TypeOK'
    BY <1>15, <1>0
    DEF FailOrRetry, JL!FailOrRetry, JL!Finish, JL!TypeOK, JL!JobStatus
  <2>2. Goto(w, "settle") /\ "settle" \in Place
    BY <1>15 DEF FailOrRetry, Place
  <2> QED
    BY <1>15, <1>5, <2>1, <2>2 DEF FailOrRetry, TypeOK, pgVars
<1>16. ASSUME NEW w \in Workers, Settle(w) PROVE TypeOK'
  BY <1>16, <1>0, <1>6 DEF Settle, TypeOK, DocStatus, jobVars
<1>17. ASSUME NEW w \in Workers, Crash(w) PROVE TypeOK'
  <2>1. JL!TypeOK'
    BY <1>17, <1>0 DEF Crash, JL!TypeOK
  <2>2. End(w)
    BY <1>17 DEF Crash, End
  <2> QED
    BY <1>17, <1>6, <2>1, <2>2 DEF Crash, Fault, TypeOK, pgVars
<1>18. ASSUME NEW w \in Workers, HandlerFailed(w) PROVE TypeOK'
  <2>1. JL!TypeOK'
    BY <1>18, <1>0 DEF HandlerFailed, JL!Abandon, JL!TypeOK
  <2> QED
    BY <1>18, <1>6, <2>1 DEF HandlerFailed, Fault, TypeOK, pgVars
<1>19. ASSUME NEW w \in Workers, NEW d \in Docs, ClaimLost(w, d) PROVE TypeOK'
  <2>1. JL!TypeOK'
    BY <1>19, <1>0, JobTypeStep DEF ClaimLost
  <2> QED
    BY <1>19, <2>1 DEF ClaimLost, Fault, TypeOK, pgVars
<1>20. CASE UNCHANGED vars
  BY <1>20, <1>0 DEF vars, TypeOK, jobVars
<1> QED
  BY <1>1, <1>2, <1>3, <1>4, <1>7, <1>8, <1>9, <1>10, <1>11, <1>12, <1>13,
     <1>14, <1>15, <1>16, <1>17, <1>18, <1>19, <1>20
  DEF Next, ClaimStep, RecoverStep, ThreadStep, FaultStep

\* Type correctness of the pipeline's three stores and its threads.
THEOREM PipelineTypes == Spec => []TypeOK
  BY TypeInit, TypeStep, PTL DEF Spec

-----------------------------------------------------------------------------
(***************************************************************************)
(* Threads and the claims they hold                                        *)
(***************************************************************************)

\* The step moves the thread of w to p, for d, and no other thread.
Moved(w, p, d) ==
    /\ thread'[w].at = p
    /\ thread'[w].doc = d
    /\ \A v \in Workers : v # w => thread'[v] = thread[v]

\* Where each action of _process_one leaves its thread.
LEMMA MovedBy ==
    ASSUME TypeOK, NEW w \in Workers
    PROVE  /\ \A d \in Docs : Claim(w, d) => Moved(w, "begin", d)
           /\ \A p \in Place : Goto(w, p) => Moved(w, p, thread[w].doc)
           /\ End(w) => Moved(w, "idle", NoDoc)
           /\ Insert(w) => Moved(w, "upsert", thread[w].doc)
           /\ Upsert(w) => Moved(w, "prune", thread[w].doc)
           /\ DeleteBatch(w) => Moved(w, "prune", thread[w].doc)
           /\ Raise(w) => Moved(w, "except", thread[w].doc)
<1>1. thread \in [Workers -> Thread]
  BY DEF TypeOK
<1>2. \A t : thread' = [thread EXCEPT ![w] = t]
          => thread'[w] = t /\ \A v \in Workers : v # w => thread'[v] = thread[v]
  BY <1>1
<1>3. \A t \in Thread : DOMAIN t = {"at", "doc", "fresh", "stale", "left"}
  BY DEF Thread
<1>4. ASSUME NEW d \in Docs, Claim(w, d) PROVE Moved(w, "begin", d)
  <2>1. thread'[w] = [Idle EXCEPT !.at = "begin", !.doc = d]
    BY <1>4, <1>2 DEF Claim
  <2> QED
    BY <1>4, <1>2, <2>1 DEF Claim, Moved, Idle
<1>5. ASSUME NEW p \in Place, Goto(w, p) PROVE Moved(w, p, thread[w].doc)
  BY <1>5, <1>1 DEF Goto, Moved, Thread
<1>6. End(w) => Moved(w, "idle", NoDoc)
  BY <1>1 DEF End, Moved, Idle
<1>7. Insert(w) => Moved(w, "upsert", thread[w].doc)
  BY <1>1 DEF Insert, Moved, Thread
<1>8. Upsert(w) => Moved(w, "prune", thread[w].doc)
  BY <1>1 DEF Upsert, Moved, Thread
<1>9. DeleteBatch(w) => Moved(w, "prune", thread[w].doc)
  BY <1>1 DEF DeleteBatch, Moved, Thread
<1>10. Raise(w) => Moved(w, "except", thread[w].doc)
  BY <1>1 DEF Raise, Moved, Idle
<1> QED
  BY <1>4, <1>5, <1>6, <1>7, <1>8, <1>9, <1>10

\* No thread runs at the start.
LEMMA ClaimInit == Init => ClaimInv
<1> SUFFICES ASSUME Init PROVE ClaimInv
  OBVIOUS
<1>1. \A w \in Workers : thread[w].at = "idle" /\ thread[w].doc = NoDoc
  BY DEF Init, Idle
<1> QED
  BY <1>1, TypeInit, PipelineAssumption
  DEF Init, JL!Init, ClaimInv, ThreadOwns, JobIsClaimed, OneThread, Running,
      Attempting

\* Every step keeps claims and threads matched. Recovery cannot hit a running
\* thread, and a claim cannot hit a job whose last thread is still writing.
LEMMA ClaimStepKeeps == ClaimInv /\ [Next]_vars => ClaimInv'
<1> SUFFICES ASSUME ClaimInv, [Next]_vars PROVE ClaimInv'
  OBVIOUS
<1>0. TypeOK /\ TypeOK' /\ ThreadOwns /\ JobIsClaimed /\ OneThread /\ NoDoc \notin Docs
  BY TypeStep, PipelineAssumption DEF ClaimInv
<1>t. /\ status \in [Docs -> JL!JobStatus]
      /\ working \in [Workers -> Docs \cup {NoDoc}]
  BY <1>0 DEF TypeOK, JL!TypeOK
<1> DEFINE Keeps == ThreadOwns' /\ JobIsClaimed' /\ OneThread'
<1>1. ASSUME NEW w \in Workers, NEW p \in Attempting \cup {"except"},
             thread[w].at \in Attempting, Moved(w, p, thread[w].doc),
             UNCHANGED jobVars
      PROVE  Keeps
  BY <1>1, <1>0 DEF Moved, ThreadOwns, JobIsClaimed, OneThread, Running,
                    Attempting, jobVars
<1>2. ASSUME NEW w \in Workers, Moved(w, "idle", NoDoc), working'[w] = NoDoc,
             \A v \in Workers : v # w => working'[v] = working[v],
             \A v \in Workers :
                 v # w /\ thread[v].doc \in Docs
                    => status'[thread[v].doc] = status[thread[v].doc]
      PROVE  Keeps
  BY <1>2, <1>0 DEF Moved, ThreadOwns, JobIsClaimed, OneThread, Running, Attempting
<1>3. ASSUME UNCHANGED <<thread, working>>,
             \A v \in Workers :
                 thread[v].at # "idle"
                    => status'[thread[v].doc] = status[thread[v].doc]
      PROVE  Keeps
  BY <1>3, <1>0 DEF ThreadOwns, JobIsClaimed, OneThread, Running, Attempting
<1>4. ASSUME NEW d \in Docs, PutObject(d) PROVE Keeps
  BY <1>4, <1>3 DEF PutObject, jobVars
<1>5. ASSUME NEW d \in Docs, CommitUpload(d) PROVE Keeps
  <2>1. status[d] = "absent" /\ status' = [status EXCEPT ![d] = "pending"]
    BY <1>5 DEF CommitUpload, JL!Enqueue
  <2>2. \A v \in Workers : thread[v].at # "idle" => thread[v].doc # d
    BY <1>0, <2>1 DEF JobIsClaimed, TypeOK, Thread, Place, Attempting
  <2> QED
    BY <1>5, <1>t, <1>3, <2>1, <2>2 DEF CommitUpload, JL!Enqueue
<1>6. ASSUME NEW stale \in SUBSET Docs, RecoverStaleJobs(stale) PROVE Keeps
  <2>1. \A v \in Workers : thread[v].at \in Running => thread[v].doc \notin stale
    BY <1>0, <1>6 DEF RecoverStaleJobs, JL!Recover, JL!Orphaned, ThreadOwns
  <2>2. \A v \in Workers : thread[v].at = "settle" => thread[v].doc \notin stale
    BY <1>0, <1>6 DEF RecoverStaleJobs, JL!Recover, JL!Orphaned, JobIsClaimed
  <2>3. \A v \in Workers :
            thread[v].at # "idle" => thread[v].doc \notin stale /\ thread[v].doc \in Docs
    BY <1>0, <2>1, <2>2 DEF TypeOK, Thread, Place, Running, Attempting, ThreadOwns
  <2> QED
    BY <1>6, <1>3, <2>3 DEF RecoverStaleJobs, JL!Recover
<1>7. ASSUME NEW w \in Workers, NEW d \in Docs, Claim(w, d) PROVE Keeps
  <2>1. /\ Moved(w, "begin", d)
        /\ status[d] = "pending"
        /\ status' = [status EXCEPT ![d] = "processing"]
        /\ working' = [working EXCEPT ![w] = d]
    BY <1>7, <1>0, MovedBy DEF Claim, JL!Claim, JL!TakeClaim
  <2>2. \A v \in Workers : thread[v].doc # d
    <3> SUFFICES ASSUME NEW v \in Workers, thread[v].doc = d PROVE FALSE
      OBVIOUS
    <3>1. thread[v].at \in Place /\ thread[v].at # "idle"
      BY <1>0 DEF TypeOK, Thread, ThreadOwns
    <3>2. thread[v].at # "settle"
      BY <1>7 DEF Claim, BackoffElapsed
    <3> QED
      BY <1>0, <2>1, <3>1, <3>2 DEF JobIsClaimed, Place, Attempting
  <2>3. /\ \A v \in Workers : v # w => working'[v] = working[v]
        /\ working'[w] = d
        /\ status'[d] = "processing"
        /\ \A e \in Docs : e # d => status'[e] = status[e]
    BY <2>1, <1>t
  <2>4. ThreadOwns'
    BY <1>0, <2>1, <2>3 DEF Moved, ThreadOwns, Running, Attempting
  <2>5. JobIsClaimed'
    BY <1>0, <2>1, <2>2, <2>3 DEF Moved, ThreadOwns, JobIsClaimed, Attempting
  <2>6. OneThread'
    BY <1>0, <2>1, <2>2 DEF Moved, OneThread
  <2> QED
    BY <2>4, <2>5, <2>6
<1>8. ASSUME NEW w \in Workers, NEW d \in Docs, ClaimLost(w, d) PROVE Keeps
  <2>1. /\ status[d] = "pending"
        /\ status' = [status EXCEPT ![d] = "processing"]
        /\ UNCHANGED <<thread, working>>
    BY <1>8 DEF ClaimLost, JL!ClaimLost, JL!TakeClaim
  <2>2. \A v \in Workers : thread[v].at # "idle" => thread[v].doc # d
    <3> SUFFICES ASSUME NEW v \in Workers, thread[v].doc = d, thread[v].at # "idle"
                 PROVE  FALSE
      OBVIOUS
    <3>1. thread[v].at \in Place /\ thread[v].at # "settle"
      BY <1>0, <1>8 DEF TypeOK, Thread, ClaimLost, BackoffElapsed
    <3> QED
      BY <1>0, <2>1, <3>1 DEF JobIsClaimed, Place, Attempting
  <2> QED
    BY <1>t, <1>3, <2>1, <2>2
<1>9. ASSUME NEW w \in Workers, Begin(w) PROVE Keeps
  BY <1>9, <1>0, <1>1, MovedBy DEF Begin, Attempting, Place
<1>10. ASSUME NEW w \in Workers, Insert(w) PROVE Keeps
  BY <1>10, <1>0, <1>1, MovedBy DEF Insert, Attempting
<1>11. ASSUME NEW w \in Workers, Upsert(w) PROVE Keeps
  BY <1>11, <1>0, <1>1, MovedBy DEF Upsert, Attempting
<1>12. ASSUME NEW w \in Workers, DeleteBatch(w) PROVE Keeps
  BY <1>12, <1>0, <1>1, MovedBy DEF DeleteBatch, Attempting
<1>13. ASSUME NEW w \in Workers, Commit(w) PROVE Keeps
  BY <1>13, <1>0, <1>1, MovedBy DEF Commit, Attempting, Place
<1>14. ASSUME NEW w \in Workers, Raise(w) PROVE Keeps
  BY <1>14, <1>0, <1>1, MovedBy DEF Raise, Attempting
\* The job of a running thread, and that no other thread looks at it.
<1>w. ASSUME NEW w \in Workers, thread[w].at \in Running
      PROVE  /\ working[w] = thread[w].doc
             /\ thread[w].doc \in Docs
             /\ \A v \in Workers : v # w => thread[v].doc # thread[w].doc
  BY <1>w, <1>0 DEF ThreadOwns, OneThread, Running, Attempting
<1>15. ASSUME NEW w \in Workers, Complete(w) PROVE Keeps
  BY <1>15, <1>0, <1>t, <1>2, <1>w, MovedBy
  DEF Complete, JL!Complete, JL!Finish, Running, Attempting
<1>16. ASSUME NEW w \in Workers, CompleteUnanswered(w) PROVE Keeps
  <2>1. /\ Moved(w, "except", thread[w].doc)
        /\ status'[thread[w].doc] = "completed"
        /\ \A e \in Docs : e # thread[w].doc => status'[e] = status[e]
        /\ UNCHANGED working
        /\ thread[w].at = "complete"
    BY <1>16, <1>0, <1>t, <1>w, MovedBy
    DEF CompleteUnanswered, JL!CompleteUnanswered, JL!Finish, Place, Running,
        Attempting
  <2>2. thread[w].at \in Running
    BY <2>1 DEF Running, Attempting
  <2> QED
    BY <1>0, <1>w, <2>1, <2>2
    DEF Moved, ThreadOwns, JobIsClaimed, OneThread, Running, Attempting
<1>17. ASSUME NEW w \in Workers, FailOrRetry(w) PROVE Keeps
  <2>1. /\ Moved(w, "settle", thread[w].doc)
        /\ status'[thread[w].doc] \in {"pending", "failed"}
        /\ \A e \in Docs : e # thread[w].doc => status'[e] = status[e]
        /\ working' = [working EXCEPT ![w] = NoDoc]
        /\ thread[w].at = "except"
    BY <1>17, <1>0, <1>t, <1>w, MovedBy
    DEF FailOrRetry, JL!FailOrRetry, JL!Finish, Place, Running
  <2>2. thread[w].at \in Running
    BY <2>1 DEF Running
  <2>3. /\ working'[w] = NoDoc
        /\ \A v \in Workers : v # w => working'[v] = working[v]
    BY <2>1, <1>t
  <2>4. ThreadOwns'
    BY <1>0, <1>w, <2>1, <2>2, <2>3 DEF Moved, ThreadOwns, Running, Attempting
  <2>5. JobIsClaimed'
    BY <1>0, <1>w, <2>1, <2>2 DEF Moved, ThreadOwns, JobIsClaimed, Attempting
  <2>6. OneThread'
    BY <1>0, <2>1 DEF Moved, OneThread
  <2> QED
    BY <2>4, <2>5, <2>6
<1>18. ASSUME NEW w \in Workers, Settle(w) PROVE Keeps
  <2>1. Moved(w, "idle", NoDoc) /\ UNCHANGED jobVars /\ working[w] = NoDoc
    BY <1>18, <1>0, MovedBy DEF Settle, ThreadOwns, Running, Attempting
  <2> QED
    BY <1>2, <2>1 DEF jobVars
<1>19. ASSUME NEW w \in Workers, Crash(w) PROVE Keeps
  BY <1>19, <1>0, <1>t, <1>2, MovedBy DEF Crash, End
<1>20. ASSUME NEW w \in Workers, HandlerFailed(w) PROVE Keeps
  <2>1. Moved(w, "idle", NoDoc) /\ UNCHANGED status
    BY <1>20, <1>0, MovedBy DEF HandlerFailed, JL!Abandon, jobVars
  <2>2. CASE JL!Abandon(w)
    BY <1>2, <1>t, <2>1, <2>2 DEF JL!Abandon
  <2>3. CASE thread[w].at = "settle" /\ UNCHANGED jobVars
    <3>1. working[w] = NoDoc
      BY <1>0, <2>3 DEF ThreadOwns, Running, Attempting
    <3> QED
      BY <1>2, <2>1, <2>3, <3>1 DEF jobVars
  <2> QED
    BY <1>20, <2>2, <2>3 DEF HandlerFailed
<1>21. ASSUME UNCHANGED vars PROVE Keeps
  BY <1>21, <1>3 DEF vars
<1>22. Keeps
  BY <1>4, <1>5, <1>6, <1>7, <1>8, <1>9, <1>10, <1>11, <1>12, <1>13, <1>14,
     <1>15, <1>16, <1>17, <1>18, <1>19, <1>20, <1>21
  DEF Next, ClaimStep, RecoverStep, ThreadStep, FaultStep
<1> QED
  BY <1>0, <1>22 DEF ClaimInv

-----------------------------------------------------------------------------
(***************************************************************************)
(* Runs of index_document and the three stores                             *)
(***************************************************************************)

\* The step leaves what the stores and the job table hold of d alone.
Untouched(d) ==
    /\ status'[d] = status[d]
    /\ docStatus'[d] = docStatus[d]
    /\ rows'[d] = rows[d]
    /\ points'[d] = points[d]
    /\ serial'[d] = serial[d]

\* A document that a step leaves alone stays sound.
LEMMA DocFrame ==
    ASSUME NEW d \in Docs, DocSound(d), Untouched(d)
    PROVE  DocSound(d)'
  BY DEF DocSound, Untouched, Generation

\* A run whose thread and document a step leaves alone stays sound.
LEMMA RunFrame ==
    ASSUME NEW w \in Workers, RunSound(w), thread'[w] = thread[w],
           Untouched(thread[w].doc) \/ UNCHANGED <<docStatus, rows, points, serial>>
    PROVE  RunSound(w)'
  BY DEF RunSound, Untouched, Generation

\* A thread that is not in index_document or just after it promises nothing.
LEMMA RunIdle ==
    ASSUME NEW w \in Workers,
           thread'[w].at \notin {"insert", "upsert", "prune", "complete"}
    PROVE  RunSound(w)'
  BY DEF RunSound

\* Nothing is uploaded at the start.
LEMMA PipelineInit == Init => PipelineInv
<1> SUFFICES ASSUME Init PROVE PipelineInv
  OBVIOUS
<1>1. \A w \in Workers : RunSound(w)
  BY DEF Init, Idle, RunSound
<1>2. \A d \in Docs : DocSound(d)
  BY DEF Init, JL!Init, DocSound
<1> QED
  BY <1>1, <1>2, ClaimInit DEF PipelineInv

\* Upsert, then prune, then commit: at no point between two writes is a
\* document without a complete generation of chunks and points.
LEMMA PipelineStep == PipelineInv /\ [Next]_vars => PipelineInv'
<1> SUFFICES ASSUME PipelineInv, [Next]_vars PROVE PipelineInv'
  OBVIOUS
<1>0. /\ TypeOK /\ ThreadOwns /\ JobIsClaimed /\ OneThread
      /\ ClaimInv'
      /\ \A w \in Workers : RunSound(w)
      /\ \A d \in Docs : DocSound(d)
  BY ClaimStepKeeps DEF PipelineInv, ClaimInv
<1>t. /\ status \in [Docs -> JL!JobStatus]
      /\ docStatus \in [Docs -> DocStatus]
      /\ rows \in [Docs -> SUBSET ChunkId]
      /\ points \in [Docs -> SUBSET ChunkId]
      /\ serial \in [Docs -> Nat]
      /\ thread \in [Workers -> Thread]
  BY <1>0 DEF TypeOK, JL!TypeOK
<1> DEFINE Keeps == (\A w \in Workers : RunSound(w)') /\ (\A d \in Docs : DocSound(d)')
\* A step of the thread of w that touches no document but the thread's own.
<1>f. ASSUME NEW w \in Workers, NEW d \in Docs, thread[w].doc = d,
             \A v \in Workers : v # w => thread'[v] = thread[v],
             \A e \in Docs : e # d => Untouched(e),
             RunSound(w)', DocSound(d)'
      PROVE  Keeps
  <2>1. ASSUME NEW e \in Docs PROVE DocSound(e)'
    BY <1>0, <1>f, DocFrame
  <2>2. ASSUME NEW v \in Workers, v # w PROVE RunSound(v)'
    <3>1. CASE thread[v].at = "idle"
      BY <1>f, <2>2, <3>1, RunIdle
    <3>2. CASE thread[v].at # "idle"
      <4>1. thread[v].doc \in Docs /\ thread[v].doc # d
        BY <1>0, <1>f, <2>2, <3>2 DEF ThreadOwns, OneThread
      <4> QED
        BY <1>0, <1>f, <2>2, <4>1, RunFrame
    <3> QED
      BY <3>1, <3>2
  <2> QED
    BY <1>f, <2>1, <2>2
\* A step that leaves the stores alone, whatever it does to the jobs.
<1>g. ASSUME UNCHANGED <<docStatus, rows, points, serial>>,
             \A v \in Workers : \/ thread'[v] = thread[v]
                                \/ thread'[v].at \notin {"insert", "upsert", "prune", "complete"},
             \A d \in Docs : \/ status'[d] = status[d]
                             \/ status[d] # "failed" /\ status'[d] # "completed"
                             \/ status[d] # "failed" /\ docStatus[d] = "processed"
      PROVE  Keeps
  <2>1. ASSUME NEW v \in Workers PROVE RunSound(v)'
    BY <1>0, <1>g, RunFrame, RunIdle
  <2>2. ASSUME NEW d \in Docs PROVE DocSound(d)'
    BY <1>0, <1>g DEF DocSound, Generation
  <2> QED
    BY <2>1, <2>2
<1>1. ASSUME NEW d \in Docs, PutObject(d) PROVE Keeps
  BY <1>1, <1>g DEF PutObject, jobVars, pgVars
<1>2. ASSUME NEW d \in Docs, CommitUpload(d) PROVE Keeps
  <2>1. /\ docStatus' = [docStatus EXCEPT ![d] = "pending"]
        /\ docStatus[d] = "absent"
        /\ status' = [status EXCEPT ![d] = "pending"]
        /\ UNCHANGED <<rows, points, serial, thread>>
    BY <1>2 DEF CommitUpload, JL!Enqueue
  <2>2. \A e \in Docs : e # d => Untouched(e)
    BY <2>1, <1>t DEF Untouched
  <2>3. ASSUME NEW e \in Docs PROVE DocSound(e)'
    <3>1. CASE e = d
      BY <1>0, <1>t, <2>1, <3>1 DEF DocSound, Generation
    <3> QED
      BY <1>0, <2>2, <3>1, DocFrame
  <2>4. ASSUME NEW v \in Workers PROVE RunSound(v)'
    <3>1. CASE thread[v].at \in {"insert", "upsert", "prune", "complete"}
      <4>1. thread[v].doc \in Docs /\ thread[v].doc # d
        BY <1>0, <2>1, <3>1 DEF RunSound, ThreadOwns
      <4> QED
        BY <1>0, <2>1, <2>2, <4>1, RunFrame
    <3> QED
      BY <2>1, <3>1, RunIdle
  <2> QED
    BY <2>3, <2>4
<1>3. ASSUME NEW stale \in SUBSET Docs, RecoverStaleJobs(stale) PROVE Keeps
  BY <1>3, <1>t, <1>g DEF RecoverStaleJobs, JL!Recover, JL!Orphaned, pgVars
<1>4. ASSUME NEW w \in Workers, NEW d \in Docs, Claim(w, d) PROVE Keeps
  <2>1. Moved(w, "begin", d)
    BY <1>4, <1>0, MovedBy
  <2> QED
    BY <1>4, <2>1, <1>t, <1>g DEF Claim, JL!Claim, JL!TakeClaim, pgVars, Moved
<1>5. ASSUME NEW w \in Workers, NEW d \in Docs, ClaimLost(w, d) PROVE Keeps
  BY <1>5, <1>t, <1>g DEF ClaimLost, JL!ClaimLost, JL!TakeClaim, pgVars
\* The document of a thread at work, and that only this thread has it.
<1>w. ASSUME NEW w \in Workers, thread[w].at # "idle" PROVE thread[w].doc \in Docs
  BY <1>w, <1>0 DEF ThreadOwns
<1>6. ASSUME NEW w \in Workers, Begin(w) PROVE Keeps
  <2>d. PICK d \in Docs : d = thread[w].doc
    BY <1>6, <1>w DEF Begin
  <2>1. /\ Moved(w, "insert", d)
        /\ d \in Docs
        /\ status[d] = "processing"
        /\ docStatus' = [docStatus EXCEPT ![d] = "processing"]
        /\ UNCHANGED <<status, rows, points, serial>>
    BY <1>6, <1>0, <1>w, MovedBy, <2>d DEF Begin, jobVars, Place, JobIsClaimed, Attempting
  <2>2. DocSound(d)'
    BY <1>0, <1>t, <2>1 DEF DocSound, Generation
  <2>3. RunSound(w)'
    BY <2>d, <1>t, <2>1 DEF RunSound, Moved
  <2>4. \A e \in Docs : e # d => Untouched(e)
    BY <1>t, <2>1 DEF Untouched
  <2> QED
    BY <2>d, <1>f, <2>1, <2>2, <2>3, <2>4 DEF Moved
<1>7. ASSUME NEW w \in Workers, Insert(w) PROVE Keeps
  <2>d. PICK d \in Docs : d = thread[w].doc
    BY <1>7, <1>w DEF Insert
  <2> DEFINE n == serial[d] + 1
  <2>1. /\ Moved(w, "upsert", d)
        /\ d \in Docs
        /\ serial' = [serial EXCEPT ![d] = n]
        /\ UNCHANGED <<status, docStatus, rows, points>>
        /\ thread'[w].fresh = Generation(n)
        /\ thread'[w].stale = rows[d]
        /\ docStatus[d] = "processing"
    <3>1. thread'[w] = [thread[w] EXCEPT !.at = "upsert", !.fresh = Generation(n),
                                         !.stale = rows[d]]
      BY <1>7, <1>t, <2>d DEF Insert
    <3>2. thread'[w].fresh = Generation(n) /\ thread'[w].stale = rows[d]
      BY <1>t, <3>1 DEF Thread
    <3> QED
      BY <1>7, <1>0, <1>w, <2>d, <3>2, MovedBy DEF Insert, jobVars, pgVars, RunSound
  <2>2. serial[d] \in Nat /\ serial'[d] = n /\ 1..serial[d] \subseteq 1..n
        /\ n \in 1..n
    BY <1>t, <2>1
  <2>3. DocSound(d)'
    BY <1>0, <1>t, <2>1, <2>2 DEF DocSound, Generation
  <2>4. Generation(n) \cap rows[d] = {}
    <3>1. CASE rows[d] = {}
      BY <3>1
    <3>2. CASE rows[d] # {}
      <4>1. PICK m \in 1..serial[d] : rows[d] = Generation(m)
        BY <1>0, <2>1, <3>2 DEF DocSound
      <4>2. m \in Nat /\ n \in Nat /\ m # n
        BY <2>2
      <4> QED
        BY <4>1, <4>2, GenerationsDisjoint
    <3> QED
      BY <3>1, <3>2
  <2>5. \E k \in 1..serial'[d] : Generation(n) = Generation(k)
    BY <2>2
  <2>6. RunSound(w)'
    BY <2>d, <2>1, <2>4, <2>5 DEF RunSound, Moved, Generation
  <2>7. \A e \in Docs : e # d => Untouched(e)
    BY <1>t, <2>1 DEF Untouched
  <2> QED
    BY <2>d, <1>f, <2>1, <2>3, <2>6, <2>7 DEF Moved
<1>8. ASSUME NEW w \in Workers, Upsert(w) PROVE Keeps
  <2>d. PICK d \in Docs : d = thread[w].doc
    BY <1>8, <1>w DEF Upsert
  <2> DEFINE t == thread[w]
  <2>1. /\ Moved(w, "prune", d)
        /\ t.at = "upsert"
        /\ d \in Docs
        /\ points' = [points EXCEPT ![d] = @ \cup t.fresh]
        /\ UNCHANGED <<status, docStatus, rows, serial>>
    BY <1>8, <1>0, <1>w, MovedBy, <2>d DEF Upsert, jobVars, pgVars
  <2>2. thread'[w].fresh = t.fresh /\ thread'[w].stale = t.stale
        /\ thread'[w].left = t.stale
    <3>1. thread'[w] = [thread[w] EXCEPT !.at = "prune", !.left = t.stale]
      BY <1>8, <1>t DEF Upsert
    <3> QED
      BY <1>t, <3>1 DEF Thread
  <2>3. points'[d] = points[d] \cup t.fresh
    BY <1>t, <2>1
  <2>4. DocSound(d)'
    BY <1>0, <2>1, <2>3 DEF DocSound, Generation
  <2>5. RunSound(w)'
    BY <2>d, <1>0, <2>1, <2>2, <2>3 DEF RunSound, Moved, Generation
  <2>6. \A e \in Docs : e # d => Untouched(e)
    BY <1>t, <2>1 DEF Untouched
  <2> QED
    BY <2>d, <1>f, <2>1, <2>4, <2>5, <2>6 DEF Moved
<1>9. ASSUME NEW w \in Workers, DeleteBatch(w) PROVE Keeps
  <2>d. PICK d \in Docs : d = thread[w].doc
    BY <1>9, <1>w DEF DeleteBatch
  <2> DEFINE t == thread[w]
  <2>1. PICK batch \in SUBSET t.left :
            /\ points' = [points EXCEPT ![d] = @ \ batch]
            /\ thread' = [thread EXCEPT ![w] = [@ EXCEPT !.left = t.left \ batch]]
    BY <1>9, <2>d DEF DeleteBatch
  <2>2. /\ Moved(w, "prune", d)
        /\ t.at = "prune"
        /\ d \in Docs
        /\ UNCHANGED <<status, docStatus, rows, serial>>
    BY <1>9, <1>0, <1>w, MovedBy, <2>d DEF DeleteBatch, jobVars, pgVars
  <2>3. thread'[w].fresh = t.fresh /\ thread'[w].stale = t.stale
        /\ thread'[w].left = t.left \ batch
    <3>1. thread'[w] = [thread[w] EXCEPT !.left = t.left \ batch]
      BY <2>1, <1>t
    <3> QED
      BY <1>t, <3>1 DEF Thread
  <2>4. points'[d] = points[d] \ batch
    BY <1>t, <2>1, <2>2
  <2>5. /\ docStatus[d] = "processing"
        /\ \E n \in 1..serial[d] : t.fresh = Generation(n)
        /\ t.fresh \subseteq points'[d]
        /\ thread'[w].left \subseteq t.stale
    BY <2>d, <1>0, <2>2, <2>3, <2>4 DEF RunSound
  <2>6. DocSound(d)'
    <3>1. \E n \in 1..serial[d] : Generation(n) \subseteq points'[d]
      BY <2>5
    <3>2. rows[d] # {} => \E n \in 1..serial[d] : rows[d] = Generation(n)
      BY <1>0, <2>2 DEF DocSound
    <3>3. status[d] # "completed"
      BY <1>0, <2>2, <2>5 DEF DocSound
    <3> QED
      BY <2>2, <2>5, <3>1, <3>2, <3>3 DEF DocSound, Generation
  <2>7. RunSound(w)'
    BY <2>d, <1>0, <2>2, <2>3, <2>5 DEF RunSound, Moved, Generation
  <2>8. \A e \in Docs : e # d => Untouched(e)
    BY <1>t, <2>1, <2>2 DEF Untouched
  <2> QED
    BY <2>d, <1>f, <2>2, <2>6, <2>7, <2>8 DEF Moved
<1>10. ASSUME NEW w \in Workers, Commit(w) PROVE Keeps
  <2>d. PICK d \in Docs : d = thread[w].doc
    BY <1>10, <1>w DEF Commit
  <2> DEFINE t == thread[w]
  <2>1. /\ Moved(w, "complete", d)
        /\ t.at = "prune"
        /\ d \in Docs
        /\ rows' = [rows EXCEPT ![d] = (@ \ t.stale) \cup t.fresh]
        /\ docStatus' = [docStatus EXCEPT ![d] = "processed"]
        /\ UNCHANGED <<status, points, serial>>
    BY <1>10, <1>0, <1>w, MovedBy, <2>d DEF Commit, jobVars, Place
  <2>2. rows'[d] = t.fresh /\ docStatus'[d] = "processed"
    BY <2>d, <1>0, <1>t, <2>1 DEF RunSound
  <2>3. PICK n \in 1..serial[d] : t.fresh = Generation(n)
    BY <2>d, <1>0, <2>1 DEF RunSound
  <2>4. Generation(n) \subseteq points[d]
    BY <2>d, <1>0, <2>1, <2>3 DEF RunSound
  <2>5. DocSound(d)'
    BY <1>0, <2>1, <2>2, <2>3, <2>4 DEF DocSound, Generation
  <2>6. RunSound(w)'
    BY <2>d, <2>1, <2>2 DEF RunSound, Moved
  <2>7. \A e \in Docs : e # d => Untouched(e)
    BY <1>t, <2>1 DEF Untouched
  <2> QED
    BY <2>d, <1>f, <2>1, <2>5, <2>6, <2>7 DEF Moved
<1>11. ASSUME NEW w \in Workers, Complete(w) PROVE Keeps
  <2>1. /\ Moved(w, "idle", NoDoc)
        /\ docStatus[thread[w].doc] = "processed"
        /\ status[thread[w].doc] = "processing"
        /\ working[w] = thread[w].doc
    BY <1>11, <1>0, MovedBy
    DEF Complete, RunSound, JobIsClaimed, ThreadOwns, Running, Attempting
  <2>2. /\ UNCHANGED <<docStatus, rows, points, serial>>
        /\ status' = [status EXCEPT ![thread[w].doc] = "completed"]
    BY <1>11, <2>1 DEF Complete, JL!Complete, JL!Finish, pgVars
  <2> QED
    BY <1>t, <1>g, <2>1, <2>2 DEF Moved
<1>12. ASSUME NEW w \in Workers, CompleteUnanswered(w) PROVE Keeps
  <2>1. /\ Moved(w, "except", thread[w].doc)
        /\ docStatus[thread[w].doc] = "processed"
        /\ status[thread[w].doc] = "processing"
        /\ working[w] = thread[w].doc
    BY <1>12, <1>0, MovedBy
    DEF CompleteUnanswered, RunSound, JobIsClaimed, ThreadOwns, Running,
        Attempting, Place
  <2>2. /\ UNCHANGED <<docStatus, rows, points, serial>>
        /\ status' = [status EXCEPT ![thread[w].doc] = "completed"]
    BY <1>12, <2>1 DEF CompleteUnanswered, JL!CompleteUnanswered, JL!Finish, pgVars
  <2> QED
    BY <1>t, <1>g, <2>1, <2>2 DEF Moved
<1>13. ASSUME NEW w \in Workers, Raise(w) PROVE Keeps
  <2>1. Moved(w, "except", thread[w].doc)
    BY <1>13, <1>0, MovedBy
  <2> QED
    BY <1>13, <1>g, <2>1 DEF Raise, Moved, jobVars, pgVars
<1>14. ASSUME NEW w \in Workers, FailOrRetry(w) PROVE Keeps
  <2>1. /\ Moved(w, "settle", thread[w].doc)
        /\ status[thread[w].doc] \in {"processing", "completed"}
        /\ working[w] = thread[w].doc
    BY <1>14, <1>0, MovedBy
    DEF FailOrRetry, JobIsClaimed, ThreadOwns, Running, Place
  <2>2. /\ UNCHANGED <<docStatus, rows, points, serial>>
        /\ \E s \in {"pending", "failed"} :
              status' = [status EXCEPT ![thread[w].doc] = s]
    BY <1>14, <2>1 DEF FailOrRetry, JL!FailOrRetry, JL!Finish, pgVars
  <2> QED
    BY <1>t, <1>g, <2>1, <2>2 DEF Moved
<1>15. ASSUME NEW w \in Workers, Settle(w) PROVE Keeps
  <2>d. PICK d \in Docs : d = thread[w].doc
    BY <1>15, <1>w DEF Settle
  <2>1. /\ Moved(w, "idle", NoDoc)
        /\ d \in Docs
        /\ status[d] \in {"pending", "failed"}
        /\ docStatus' = [docStatus EXCEPT
                ![d] = IF status[d] = "failed" THEN "failed" ELSE "pending"]
        /\ UNCHANGED <<status, rows, points, serial>>
    BY <1>15, <1>0, <1>w, MovedBy, <2>d DEF Settle, jobVars, JobIsClaimed
  <2>2. DocSound(d)'
    BY <1>0, <1>t, <2>1 DEF DocSound, Generation
  <2>3. RunSound(w)'
    BY <2>1, RunIdle DEF Moved
  <2>4. \A e \in Docs : e # d => Untouched(e)
    BY <1>t, <2>1 DEF Untouched
  <2> QED
    BY <2>d, <1>f, <2>1, <2>2, <2>3, <2>4 DEF Moved
<1>16. ASSUME NEW w \in Workers, Crash(w) PROVE Keeps
  <2>1. Moved(w, "idle", NoDoc)
    BY <1>16, <1>0, MovedBy DEF Crash, End
  <2> QED
    BY <1>16, <1>g, <2>1 DEF Crash, Moved, pgVars
<1>17. ASSUME NEW w \in Workers, HandlerFailed(w) PROVE Keeps
  <2>1. Moved(w, "idle", NoDoc) /\ UNCHANGED status
    BY <1>17, <1>0, MovedBy DEF HandlerFailed, JL!Abandon, jobVars
  <2> QED
    BY <1>17, <1>g, <2>1 DEF HandlerFailed, Moved, pgVars
<1>18. ASSUME UNCHANGED vars PROVE Keeps
  BY <1>18, <1>g DEF vars
<1>19. Keeps
  BY <1>1, <1>2, <1>3, <1>4, <1>5, <1>6, <1>7, <1>8, <1>9, <1>10, <1>11, <1>12,
     <1>13, <1>14, <1>15, <1>16, <1>17, <1>18
  DEF Next, ClaimStep, RecoverStep, ThreadStep, FaultStep
<1> QED
  BY <1>0, <1>19 DEF PipelineInv

\* The inductive invariant of the pipeline holds in every reachable state.
LEMMA PipelineInvariant == Spec => []PipelineInv
  BY PipelineInit, PipelineStep, PTL DEF Spec

-----------------------------------------------------------------------------
(***************************************************************************)
(* Theorems                                                                *)
(***************************************************************************)

\* However many runs of index_document crash, fail or are repeated, the
\* committed chunks of a document are those of one run.
THEOREM PipelineOneGeneration == Spec => []OneGeneration
<1>1. PipelineInv => OneGeneration
  BY DEF PipelineInv, DocSound, OneGeneration
<1> QED
  BY <1>1, PipelineInvariant, PTL

\* Upsert-then-prune never leaves a document that was once processed without
\* the points of a complete run.
THEOREM PipelineNeverUnsearchable == Spec => []NeverUnsearchable
<1>1. PipelineInv => NeverUnsearchable
  BY DEF PipelineInv, DocSound, NeverUnsearchable
<1> QED
  BY <1>1, PipelineInvariant, PTL

\* The status of a document never claims more than the stores and the job table
\* hold.
THEOREM PipelineStatusIsHonest == Spec => []StatusIsHonest
<1>1. PipelineInv => StatusIsHonest
  BY DEF PipelineInv, DocSound, StatusIsHonest
<1> QED
  BY <1>1, PipelineInvariant, PTL

\* A completed job means a processed document.
THEOREM PipelineCompletedIsProcessed == Spec => []CompletedIsProcessed
<1>1. PipelineInv => CompletedIsProcessed
  BY DEF PipelineInv, DocSound, CompletedIsProcessed
<1> QED
  BY <1>1, PipelineInvariant, PTL

\* Every step of the pipeline is a step of the job lifecycle, or none.
LEMMA LifecycleStep == ClaimInv /\ [Next]_vars => [JL!Next]_(JL!jobVars)
<1> SUFFICES ASSUME ClaimInv, [Next]_vars PROVE [JL!Next]_(JL!jobVars)
  OBVIOUS
<1> USE DEF jobVars, JL!jobVars
<1>1. ASSUME NEW d \in Docs, PutObject(d) \/ CommitUpload(d)
      PROVE  [JL!Next]_(JL!jobVars)
  BY <1>1 DEF PutObject, CommitUpload, JL!Next
<1>2. ASSUME NEW w \in Workers, NEW d \in Docs, Claim(w, d) \/ ClaimLost(w, d)
      PROVE  JL!Next
  BY <1>2 DEF Claim, ClaimLost, JL!Next
<1>3. ASSUME NEW stale \in SUBSET Docs, RecoverStaleJobs(stale) PROVE JL!Next
  BY <1>3 DEF RecoverStaleJobs, JL!Next
<1>4. ASSUME NEW w \in Workers,
             \/ Begin(w) \/ Insert(w) \/ Upsert(w) \/ DeleteBatch(w)
             \/ Commit(w) \/ Raise(w) \/ Settle(w)
      PROVE  UNCHANGED JL!jobVars
  BY <1>4 DEF Begin, Insert, Upsert, DeleteBatch, Commit, Raise, Settle
<1>5. ASSUME NEW w \in Workers, Complete(w) PROVE JL!Next
  BY <1>5 DEF Complete, JL!Next
<1>6. ASSUME NEW w \in Workers, CompleteUnanswered(w) PROVE JL!Next
  BY <1>6 DEF CompleteUnanswered, JL!Next
<1>7. ASSUME NEW w \in Workers, FailOrRetry(w) PROVE JL!Next
  BY <1>7 DEF FailOrRetry, JL!Next
<1>8. ASSUME NEW w \in Workers, HandlerFailed(w) PROVE [JL!Next]_(JL!jobVars)
  BY <1>8 DEF HandlerFailed, JL!Next
\* A process that dies abandons its job, unless it only had a status to write.
<1>9. ASSUME NEW w \in Workers, Crash(w) PROVE [JL!Next]_(JL!jobVars)
  <2>1. working' = [working EXCEPT ![w] = NoDoc] /\ UNCHANGED <<status, attempts>>
    BY <1>9 DEF Crash
  <2>2. CASE working[w] = NoDoc
    BY <2>1, <2>2 DEF ClaimInv, TypeOK, JL!TypeOK
  <2>3. CASE working[w] # NoDoc
    BY <2>1, <2>3 DEF JL!Abandon, JL!Next
  <2> QED
    BY <2>2, <2>3
<1>10. CASE UNCHANGED vars
  BY <1>10 DEF vars
<1> QED
  BY <1>1, <1>2, <1>3, <1>4, <1>5, <1>6, <1>7, <1>8, <1>9, <1>10
  DEF Next, ClaimStep, RecoverStep, ThreadStep, FaultStep

\* The pipeline uses the job table as JobLifecycle promises.
THEOREM PipelineRefinement == Spec => ImplementsLifecycle
<1>1. Init => JL!Init
  BY DEF Init
<1>2. PipelineInv => ClaimInv
  BY DEF PipelineInv
<1> QED
  BY <1>1, <1>2, LifecycleStep, PipelineInvariant, PTL
  DEF Spec, ImplementsLifecycle, JL!Spec
=============================================================================

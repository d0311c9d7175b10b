-------------------------- MODULE RequestSessions --------------------------
(***************************************************************************)
(* Requests and the connections they hold. core/database.py has one pool; *)
(* a session checks a connection out at its first statement and gives it   *)
(* back at a commit or when it is closed. The two ledgers of an answer     *)
(* (usage_service.record, eval_service.record_trace) open a session of     *)
(* their own while the request's still holds its connection.               *)
(*                                                                         *)
(* get_db closes the session before the response is sent. The body of a    *)
(* stream is produced after that: its first statement takes a connection   *)
(* again, for a session nobody closes any more, and the connection returns *)
(* when the session is garbage.                                            *)
(***************************************************************************)
EXTENDS Naturals, Sequences, FiniteSets, Functions

CONSTANTS
    Requests,
    PoolSize,         \* pool_size + max_overflow
    MaxSessionFaults  \* bound on statements and commits that fail

ASSUME SessionsAssumption == PoolSize \in Nat /\ MaxSessionFaults \in Nat

VARIABLES
    todo,      \* what each request still does, in order
    main,      \* requests whose session has a connection
    side,      \* requests one of whose ledgers has a connection
    audit,     \* the audit row of each request
    answered,  \* requests whose question the model has answered
    result,    \* what the caller is told
    sessionFaults

sessionVars == <<todo, main, side, audit, answered, result, sessionFaults>>

\* read: statements on the request's session. call: Qdrant, the embedding, the
\* reranker or the bucket. model: generation. commit: the audit row and the
\* commit that makes it durable. usage, trace: the ledgers. close: get_db.
\* drop: the session of a stream is collected.
Part == {"read", "probe", "call", "model", "commit", "usage", "trace", "close",
         "drop", "reply", "error"}

Me == <<"read", "close", "reply">>
Login == <<"read", "commit", "close", "reply">>
ListDocuments == <<"read", "close", "reply">>
GetDocument == <<"read", "close", "reply">>
GetDocumentText == <<"read", "close", "reply">>
Summary == <<"read", "close", "reply">>
TraceStats == <<"read", "close", "reply">>
ListAuditLogs == <<"read", "close", "reply">>
Download == <<"read", "commit", "close", "reply">>
Upload == <<"read", "call", "read", "commit", "read", "close", "reply">>
Search == <<"read", "call", "read", "commit", "close", "reply">>
\* A service key never touches the users table, nor semantic search the chunks.
SearchByKey == <<"call", "read", "commit", "close", "reply">>
SemanticByKey == <<"call", "commit", "close", "reply">>
Readiness == <<"probe", "close", "reply">>
Chat == <<"read", "call", "read", "model", "usage", "trace", "read", "close",
          "reply">>
ChatRefused == <<"read", "call", "read", "trace", "close", "reply">>
ChatStream == <<"read", "close", "call", "read", "read", "model", "read", "reply",
                "usage", "trace", "drop">>
ChatStreamRefused == <<"read", "close", "call", "read", "reply", "trace", "drop">>

Handlers ==
    {Me, Login, ListDocuments, GetDocument, GetDocumentText, Summary, TraceStats,
     ListAuditLogs, Download, Upload, Search, SearchByKey, SemanticByKey,
     Readiness, Chat, ChatRefused, ChatStream, ChatStreamRefused}

SessionsTypeOK ==
    /\ todo \in [Requests -> Seq(Part)]
    /\ main \subseteq Requests /\ side \subseteq Requests
    /\ audit \in [Requests -> {"none", "owed", "kept"}]
    /\ answered \subseteq Requests
    /\ result \in [Requests -> {"none", "ok", "error", "broken", "left"}]
    /\ sessionFaults \in 0..MaxSessionFaults

SessionsInit ==
    /\ todo = [r \in Requests |-> <<>>]
    /\ main = {} /\ side = {}
    /\ audit = [r \in Requests |-> "none"]
    /\ answered = {}
    /\ result = [r \in Requests |-> "none"]
    /\ sessionFaults = 0

At(r, part) == todo[r] # <<>> /\ Head(todo[r]) = part
Advance(r) == todo' = [todo EXCEPT ![r] = Tail(@)]

\* QueuePool hands out at most pool_size + max_overflow connections.
Free == Cardinality(main) + Cardinality(side) < PoolSize
Connected(r) == r \in main \/ Free

Arrive(r) ==
    /\ todo[r] = <<>> /\ result[r] = "none"
    /\ \E handler \in Handlers :
          /\ todo' = [todo EXCEPT ![r] = handler]
          /\ audit' = [audit EXCEPT ![r] =
                          IF "commit" \in Range(handler) THEN "owed" ELSE "none"]
    /\ UNCHANGED <<main, side, answered, result, sessionFaults>>

\* A probe's session is closed like any other, in its finally.
Read(r) ==
    /\ At(r, "read") \/ At(r, "probe")
    /\ Connected(r)
    /\ main' = main \cup {r}
    /\ Advance(r)
    /\ UNCHANGED <<side, audit, answered, result, sessionFaults>>

Commit(r) ==
    /\ At(r, "commit")
    /\ Connected(r)
    /\ main' = main \ {r}
    /\ audit' = [audit EXCEPT ![r] = "kept"]
    /\ Advance(r)
    /\ UNCHANGED <<side, answered, result, sessionFaults>>

\* What is left of the body of a stream when it raises. While the documents found or
\* the sources of the answer are read, stream_answer stands at a yield inside its try
\* and is closed there, which records the answer.
Unwound(r) ==
    IF r \in answered THEN <<"usage", "trace", "drop">>
    ELSE IF SubSeq(todo[r], 2, 2) = <<"model">> THEN <<"trace", "drop">>
    ELSE <<"drop">>

\* An exception in an endpoint closes the session and becomes a 500; one in the
\* body of a stream only breaks it off.
Raise(r) ==
    IF "close" \in Range(todo[r])
    THEN /\ todo' = [todo EXCEPT ![r] = <<"close", "error">>]
         /\ UNCHANGED result
    ELSE /\ todo' = [todo EXCEPT ![r] = Unwound(r)]
         /\ result' = [result EXCEPT ![r] = "broken"]

\* Mutant of PoolTimeout: the audit write is best-effort, as the cache is.
PoolTimeoutSwallowed(r) ==
    /\ At(r, "read") \/ At(r, "commit")
    /\ ~Connected(r)
    /\ IF At(r, "commit") THEN Advance(r) /\ UNCHANGED result ELSE Raise(r)
    /\ UNCHANGED <<main, side, audit, answered, sessionFaults>>

\* Nobody gave a connection back for 30 seconds: sqlalchemy's TimeoutError.
PoolTimeout(r) ==
    /\ At(r, "read") \/ At(r, "commit")
    /\ ~Connected(r)
    /\ Raise(r)
    /\ UNCHANGED <<main, side, audit, answered, sessionFaults>>

\* A statement fails, or a commit does; a commit may have been made all the same.
StatementFails(r) ==
    /\ sessionFaults < MaxSessionFaults
    /\ sessionFaults' = sessionFaults + 1
    /\ Connected(r)
    /\ \/ At(r, "read") /\ UNCHANGED audit
       \/ At(r, "commit") /\ audit' \in {audit, [audit EXCEPT ![r] = "kept"]}
    /\ main' = main \cup {r}
    /\ Raise(r)
    /\ UNCHANGED <<side, answered>>

\* Readiness reports the failure instead of raising it.
ProbeFails(r) ==
    /\ At(r, "probe")
    /\ Advance(r)
    /\ UNCHANGED <<main, side, audit, answered, result, sessionFaults>>

Call(r) ==
    /\ At(r, "call") \/ At(r, "model")
    /\ answered' = IF At(r, "model") THEN answered \cup {r} ELSE answered
    /\ Advance(r)
    /\ UNCHANGED <<main, side, audit, result, sessionFaults>>

CallFails(r) ==
    /\ At(r, "call") \/ At(r, "model")
    /\ Raise(r)
    /\ UNCHANGED <<main, side, audit, answered, sessionFaults>>

\* A ledger's session waits for a connection like any other.
OpenLedger(r) ==
    /\ At(r, "usage") \/ At(r, "trace")
    /\ r \notin side
    /\ Free
    /\ side' = side \cup {r}
    /\ UNCHANGED <<todo, main, audit, answered, result, sessionFaults>>

\* The row is written or is not: both ledgers log a failure, close and return.
WriteLedger(r) ==
    /\ r \in side
    /\ side' = side \ {r}
    /\ Advance(r)
    /\ UNCHANGED <<main, audit, answered, result, sessionFaults>>

\* Mutant of LedgerTimeout: a ledger waits for as long as it takes.
LedgerWaitsForever(r) == FALSE /\ UNCHANGED sessionVars

LedgerTimeout(r) ==
    /\ At(r, "usage") \/ At(r, "trace")
    /\ r \notin side
    /\ ~Free
    /\ Advance(r)
    /\ UNCHANGED <<main, side, audit, answered, result, sessionFaults>>

Release(r) ==
    /\ At(r, "close") \/ At(r, "drop")
    /\ main' = main \ {r}
    /\ Advance(r)
    /\ UNCHANGED <<side, audit, answered, result, sessionFaults>>

Reply(r) ==
    /\ At(r, "reply") \/ At(r, "error")
    /\ result' = [result EXCEPT ![r] = IF At(r, "reply") THEN "ok" ELSE "error"]
    /\ Advance(r)
    /\ UNCHANGED <<main, side, audit, answered, sessionFaults>>

\* The client of a stream goes away at a yield. An answer is still recorded, a
\* refusal is not: its yields are outside the try.
Leave(r) ==
    /\ "drop" \in Range(todo[r])
    /\ \/ At(r, "model") /\ todo' = [todo EXCEPT ![r] = <<"trace", "drop">>]
       \/ At(r, "reply") /\ r \in answered /\ Advance(r)
       \/ At(r, "reply") /\ r \notin answered
                         /\ todo' = [todo EXCEPT ![r] = <<"drop">>]
    /\ result' = [result EXCEPT ![r] = "left"]
    /\ UNCHANGED <<main, side, audit, answered, sessionFaults>>

\* What a request does unless it fails, is refused a connection or is left.
Proceed(r) ==
    \/ Read(r) \/ Commit(r) \/ Call(r) \/ OpenLedger(r) \/ WriteLedger(r)
    \/ Release(r) \/ Reply(r)

GiveUp(r) == PoolTimeout(r) \/ LedgerTimeout(r) \/ ProbeFails(r)

SessionsNext ==
    \E r \in Requests :
        \/ Arrive(r)
        \/ Proceed(r)
        \/ GiveUp(r)
        \/ StatementFails(r)
        \/ CallFails(r)
        \/ Leave(r)

\* Every wait of a request ends: that for a connection after 30 seconds, the
\* calls at their timeouts, the collection of a session at the next one.
SessionsSpec ==
    /\ SessionsInit /\ [][SessionsNext]_sessionVars
    /\ \A r \in Requests : WF_sessionVars(Proceed(r) \/ GiveUp(r))

\* Requests that hold a connection and wait for another to be given back do not
\* wait for ever, and whatever becomes of a request, also of a stream that was
\* broken off, it holds no connection in the end (get_db, usage_service.record).
EveryRequestEnds ==
    \A r \in Requests :
        todo[r] # <<>> ~> todo[r] = <<>> /\ r \notin main \cup side

\* audit_service: nobody is given a token, an address or search results without
\* the audit row that says so.
HandedOutIsAudited ==
    \A r \in Requests : result[r] = "ok" => audit[r] # "owed"

\* usage_service: however full the pool is, an answer the model has given
\* reaches its caller; only a statement of the request's own session loses it.
AnswerOutlivesLedger ==
    sessionFaults = 0 =>
        \A r \in answered : result[r] \notin {"error", "broken"}

OutcomeIsAccounted == HandedOutIsAudited /\ AnswerOutlivesLedger

\* A request that is over holds no connection.
DoneHoldsNothing ==
    \A r \in Requests : todo[r] = <<>> => r \notin main \cup side
=============================================================================

---------------------------- MODULE AnswerStream ----------------------------
(***************************************************************************)
(* One question on its way through stream_answer of services/rag_service.py *)
(* and generate_stream of infrastructure/llm/gemini_provider.py: retrieval, *)
(* the model's connection with its retry, the events that _stream_events   *)
(* writes, and the record that _log_answer keeps.                          *)
(*                                                                         *)
(* A Python generator runs when its reader asks for the next event and is  *)
(* suspended at a yield otherwise. The reader is the response of           *)
(* api/v1/chat.py, which goes on, or closes the generator when the client  *)
(* has disconnected.                                                       *)
(***************************************************************************)
EXTENDS Naturals, Sequences

CONSTANTS
    Docs, MaxHits, Tokens, \* as in AnswerContract
    MaxTries,              \* max_attempts of generate_stream
    MaxFragments           \* bound on the fragments of one connection

ASSUME StreamAssumption ==
    /\ MaxHits \in Nat
    /\ MaxTries \in Nat \ {0}
    /\ MaxFragments \in Nat
    /\ Tokens \subseteq Seq(Nat)

VARIABLES
    at,        \* where the two generators are
    hits,      \* what hybrid_search returned
    tries,     \* connections attempted
    fragments, \* text fragments the current connection has delivered
    chunks,    \* the list of the same name in stream_answer
    usage,     \* the connection reported usageMetadata
    out,       \* events yielded
    log        \* answers recorded: log line, counters, usage row and trace

vars == <<at, hits, tries, fragments, chunks, usage, out, log>>

AC == INSTANCE AnswerContract

\* Places at which a yield suspends the generator, named by the event yielded:
\* the two of the refusal, and the three inside the try.
InRefusal == {"refusal", "refused"}
InTry == {"retrieved", "delta", "done"}
Ending == {"ended", "raised", "closed"}
Place == {"retrieve", "open", "read"} \cup InRefusal \cup InTry \cup Ending

TypeOK ==
    /\ at \in Place
    /\ hits \in AC!Hits
    /\ tries \in 0..MaxTries
    /\ fragments \in 0..MaxFragments
    /\ chunks \in Seq(Tokens)
    /\ usage \in BOOLEAN
    /\ out \in Seq(AC!Event)
    /\ log \in Seq([answer : AC!ShownText, citations : Seq(AC!Source),
                    refused : BOOLEAN, usage : BOOLEAN])

Init ==
    /\ at = "retrieve"
    /\ hits = << >>
    /\ tries = 0
    /\ fragments = 0
    /\ chunks = << >>
    /\ usage = FALSE
    /\ out = << >>
    /\ log = << >>

-----------------------------------------------------------------------------
Yield(event, place) ==
    /\ out' = Append(out, event)
    /\ at' = place

\* _log_answer(), on the way out of the generator.
LogAnswer(kept, refused) ==
    log' = Append(log, [answer |-> kept.answer, citations |-> kept.citations,
                        refused |-> refused, usage |-> usage])

Kept == AC!KeepCited(chunks, hits)

\* The payload of the last event.
Whole ==
    [answer |-> Kept.answer,
     citations |-> Kept.citations,
     grounding |-> AC!Grounding(hits, Kept.citations, FALSE)]

\* What the two endpoints return when there is no evidence.
Refusal == AC!Refusal(hits)

(***************************************************************************)
(* Retrieval and refusal                                                   *)
(***************************************************************************)

\* _retrieve() up to the first yield: whatever was found may lie below the
\* relevance threshold, and nothing found always does.
Retrieve ==
    /\ at = "retrieve"
    /\ \E found \in AC!Hits :
          /\ hits' = found
          /\ \/ Yield(AC!DeltaEvent(AC!NoEvidence), "refusal")
             \/ found # << >> /\ Yield(AC!RetrievedEvent(found), "retrieved")
    /\ UNCHANGED <<tries, fragments, chunks, usage, log>>

\* The database, the vector store or the embedding call raised.
RetrieveFailed ==
    /\ at = "retrieve"
    /\ at' = "raised"
    /\ UNCHANGED <<hits, tries, fragments, chunks, usage, out, log>>

FinishRefusal ==
    /\ at = "refusal"
    /\ Yield(AC!DoneEvent(Refusal), "refused")
    /\ UNCHANGED <<hits, tries, fragments, chunks, usage, log>>

EndRefusal ==
    /\ at = "refused"
    /\ LogAnswer(Refusal, TRUE)
    /\ at' = "ended"
    /\ UNCHANGED <<hits, tries, fragments, chunks, usage, out>>

-----------------------------------------------------------------------------
(***************************************************************************)
(* generate_stream                                                         *)
(***************************************************************************)

StartGeneration ==
    /\ at = "retrieved"
    /\ at' = "open"
    /\ tries' = 1
    /\ UNCHANGED <<hits, fragments, chunks, usage, out, log>>

\* Mutants of Retry: one connection too many; connections that are not counted.
RetryOnceMore ==
    IF tries <= MaxTries
    THEN at' = "open" /\ tries' = tries + 1
    ELSE at' = "raised" /\ UNCHANGED tries
RetryUncounted == at' = "open" /\ UNCHANGED tries

\* A retryable status, a failed connection or a timeout: another connection
\* while there is one left, an exception otherwise.
Retry ==
    IF tries < MaxTries
    THEN at' = "open" /\ tries' = tries + 1
    ELSE at' = "raised" /\ UNCHANGED tries

Connect ==
    /\ at = "open"
    /\ at' = "read"
    /\ fragments' = 0
    /\ UNCHANGED <<hits, tries, chunks, usage, out, log>>

ConnectFailed ==
    /\ at = "open"
    /\ Retry
    /\ UNCHANGED <<hits, fragments, chunks, usage, out, log>>

\* Any other status: raise_for_status() ends the answer.
Rejected ==
    /\ at = "open"
    /\ at' = "raised"
    /\ UNCHANGED <<hits, tries, fragments, chunks, usage, out, log>>

\* Mutant of Fragment: the text is shown and not kept.
FragmentUnkept ==
    /\ at = "read"
    /\ fragments < MaxFragments
    /\ fragments' = fragments + 1
    /\ \E token \in Tokens : Yield(AC!DeltaEvent(token), "delta")
    /\ UNCHANGED <<hits, tries, chunks, usage, log>>

\* A fragment of text arrives and is passed on.
Fragment ==
    /\ at = "read"
    /\ fragments < MaxFragments
    /\ fragments' = fragments + 1
    /\ \E token \in Tokens :
          /\ chunks' = Append(chunks, token)
          /\ Yield(AC!DeltaEvent(token), "delta")
    /\ UNCHANGED <<hits, tries, usage, log>>

\* An empty text counts as text for generate_stream; stream_answer skips it.
EmptyFragment ==
    /\ at = "read"
    /\ fragments < MaxFragments
    /\ fragments' = fragments + 1
    /\ UNCHANGED <<at, hits, tries, chunks, usage, out, log>>

Resume ==
    /\ at = "delta"
    /\ at' = "read"
    /\ UNCHANGED <<hits, tries, fragments, chunks, usage, out, log>>

\* No line for 120 seconds: httpx raises a TimeoutException, and the except
\* clause that retries a failed connection retries this one too.
TimedOut ==
    /\ at = "read"
    /\ Retry
    /\ UNCHANGED <<hits, fragments, chunks, usage, out, log>>

\* The connection breaks, a line is not JSON, or the stream ends without text.
Broken ==
    /\ at = "read"
    /\ at' = "raised"
    /\ UNCHANGED <<hits, tries, fragments, chunks, usage, out, log>>

\* The stream ends, with or without usage: the whole text is at hand.
Finish ==
    /\ at = "read"
    /\ fragments > 0
    /\ usage' \in BOOLEAN
    /\ Yield(AC!DoneEvent(Whole), "done")
    /\ UNCHANGED <<hits, tries, fragments, chunks, log>>

\* Mutant of End: the text is recorded as the model wrote it.
EndRaw ==
    /\ at = "done"
    /\ LogAnswer([answer |-> chunks, citations |-> Kept.citations], FALSE)
    /\ at' = "ended"
    /\ UNCHANGED <<hits, tries, fragments, chunks, usage, out>>

End ==
    /\ at = "done"
    /\ LogAnswer(Kept, FALSE)
    /\ at' = "ended"
    /\ UNCHANGED <<hits, tries, fragments, chunks, usage, out>>

-----------------------------------------------------------------------------
(***************************************************************************)
(* The client disconnects: GeneratorExit at the yield it is suspended at   *)
(***************************************************************************)

\* Mutant of Close: the leading event is yielded above the try.
CloseOutsideTry ==
    /\ at' = "closed"
    /\ \/ at \in InRefusal \cup {"retrieved"} /\ UNCHANGED log
       \/ at \in {"delta", "done"} /\ LogAnswer(Kept, FALSE)
    /\ UNCHANGED <<hits, tries, fragments, chunks, usage, out>>

\* Inside the try the partial answer is recorded; the refusal has no try.
Close ==
    /\ at' = "closed"
    /\ \/ at \in InRefusal /\ UNCHANGED log
       \/ at \in InTry /\ LogAnswer(Kept, FALSE)
    /\ UNCHANGED <<hits, tries, fragments, chunks, usage, out>>

-----------------------------------------------------------------------------
Generate ==
    \/ Retrieve
    \/ RetrieveFailed
    \/ FinishRefusal
    \/ EndRefusal
    \/ StartGeneration
    \/ Connect
    \/ ConnectFailed
    \/ Rejected
    \/ Fragment
    \/ EmptyFragment
    \/ Resume
    \/ TimedOut
    \/ Broken
    \/ Finish
    \/ End

Next == Generate \/ Close

Spec == Init /\ [][Next]_vars

\* The response asks for event after event until it closes the generator; every
\* call of the generator returns or times out. (A response that neither reads on
\* nor closes would hold the generator for ever.)
FairSpec == Spec /\ WF_vars(Next)

-----------------------------------------------------------------------------
(***************************************************************************)
(* Properties                                                              *)
(***************************************************************************)

\* The events are those of the contract, through retries and empty texts: a client
\* that reads only the last one gets what the blocking endpoint returns for the text
\* that was streamed. The one exception is an answer without any text, which the
\* blocking endpoint never returns.
ImplementsContract == AC!SpecAsBuilt

\* Docstring of stream_answer, with no exception: a client that reads only the last
\* event "gets an identical result to the non-streaming endpoint".
KeepsContract == AC!Spec

Results == {out[i].result : i \in {k \in DOMAIN out : out[k].type = "done"}}

\* In the order of the text, what is shown of the text is its plain text and the
\* markers that name a retrieved chunk, no others; of each marker it is the numbers that
\* name one, and each of them now points to the source made of that very chunk.
PointsToMeant(text, h, answer, citations) ==
    \E place \in [DOMAIN answer -> DOMAIN text] :
        /\ \A i, j \in DOMAIN answer : i < j => place[i] < place[j]
        /\ \A p \in DOMAIN text :
              (text[p] = AC!Text \/ \E k \in DOMAIN text[p] : text[p][k] \in DOMAIN h)
                  <=> \E i \in DOMAIN answer : place[i] = p
        /\ \A i \in DOMAIN answer :
              \E mark \in [DOMAIN answer[i] -> DOMAIN text[place[i]]] :
                  /\ \A k, l \in DOMAIN answer[i] : k < l => mark[k] < mark[l]
                  /\ \A q \in DOMAIN text[place[i]] :
                        text[place[i]][q] \in DOMAIN h
                            => \E k \in DOMAIN answer[i] : mark[k] = q
                  /\ \A k \in DOMAIN answer[i] :
                        /\ answer[i][k] \in DOMAIN citations
                        /\ citations[answer[i][k]].chunk = text[place[i]][mark[k]]

\* Every source is cited somewhere in what is shown; the sources are in rank order
\* and each carries the document of its chunk.
SourcesAreUsed(h, answer, citations) ==
    /\ \A s \in DOMAIN citations :
          \E i \in DOMAIN answer : \E k \in DOMAIN answer[i] : answer[i][k] = s
    /\ \A s, t \in DOMAIN citations : s < t => citations[s].chunk < citations[t].chunk
    /\ \A s \in DOMAIN citations :
          citations[s].chunk \in DOMAIN h /\ citations[s].document = h[citations[s].chunk]

\* keep_cited_sources: an answer shows the evidence that the model named, under new
\* numbers; a refusal shows none.
AnswerIsEvidenced ==
    \A result \in Results :
        IF result.grounding.refused
        THEN result.answer = <<AC!NoEvidence>> /\ result.citations = << >>
        ELSE /\ PointsToMeant(chunks, hits, result.answer, result.citations)
             /\ SourcesAreUsed(hits, result.answer, result.citations)

\* The documents announced before the answer are those its sources come from,
\* and a refusal announces and cites none.
SourcesWereAnnounced ==
    \A result \in Results :
        {result.citations[i].document : i \in DOMAIN result.citations} \subseteq
            IF out[1].type = "retrieved"
            THEN {out[1].documents[i].document : i \in DOMAIN out[1].documents}
            ELSE {}

\* An answer is recorded at most once, and it is recorded if it was read to the
\* end or abandoned after retrieval had found something (comments in the try
\* block of stream_answer).
RecordedOnce ==
    /\ Len(log) <= 1
    /\ at = "ended" => log # << >>
    /\ at = "closed" /\ out[1].type = "retrieved" => log # << >>

\* The record and the response agree (docstring of _grounding), also when the
\* client has left between the last event and the record; of an answer abandoned
\* earlier the record is what the client had been sent.
RecordAgrees ==
    log # << >> =>
        /\ \A result \in Results :
              /\ log[1].answer = result.answer
              /\ log[1].citations = result.citations
              /\ log[1].refused = result.grounding.refused
        /\ Results = {} => log[1].answer = AC!KeepCited(AC!Streamed(out), hits).answer

\* Every answer ends, whatever the model's endpoint does.
AnswerEnds == <>(at \in Ending)

\* Docstring of generate_stream: a connection is only retried before any text
\* has reached the caller.
RetriedBeforeText == at = "open" /\ tries > 1 => chunks = << >>
=============================================================================

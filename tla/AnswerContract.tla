--------------------------- MODULE AnswerContract ---------------------------
(***************************************************************************)
(* What POST /chat/stream promises to the reader of its events (docstring  *)
(* of stream_answer): nothing, a refusal, or the documents searched, the   *)
(* model's text piece by piece, and at the very end the result that the    *)
(* blocking endpoint would have returned for that text. For no text at all *)
(* it returns nothing, it raises. The stream may stop after any event.     *)
(***************************************************************************)
EXTENDS Citations

CONSTANTS
    Docs,    \* documents of the organization
    MaxHits, \* bound on top_k
    Tokens   \* what a piece of the model's text can be

VARIABLE out  \* the events so far

Hits == UNION {[1..n -> Docs] : n \in 0..MaxHits}

NoEvidence == Text  \* NO_EVIDENCE_RESPONSE

\* A text as it is shown, and an entry of its list of sources.
ShownText == Seq(Seq(Nat))
Source == [index : Nat, chunk : Nat, document : Docs]

Result == [answer : ShownText, citations : Seq(Source),
           grounding : [retrieved_chunks : Nat, cited_chunks : Nat,
                        cited_documents : Nat, refused : BOOLEAN]]

Event ==
    [type : {"retrieved"}, documents : Seq([document : Docs, chunks : Nat])]
    \cup [type : {"delta"}, text : Seq(Nat)]
    \cup [type : {"done"}, result : Result]

RetrievedEvent(hits) ==
    [type |-> "retrieved", documents |-> RetrievedDocuments(hits)]
DeltaEvent(token) == [type |-> "delta", text |-> token]
DoneEvent(result) == [type |-> "done", result |-> result]

\* answer_question() when nothing retrieved is evidence.
Refusal(hits) ==
    [answer |-> <<NoEvidence>>,
     citations |-> << >>,
     grounding |-> Grounding(hits, << >>, TRUE)]

\* What either endpoint makes of the model's text.
Composed(hits, text) ==
    LET kept == KeepCited(text, hits)
    IN  [answer |-> kept.answer,
         citations |-> kept.citations,
         grounding |-> Grounding(hits, kept.citations, FALSE)]

\* The results that answer_question() can return when text is all that the model
\* wrote: none if that is nothing, since generate() raises then.
OneShot(hits, text) == IF text = << >> THEN {} ELSE {Composed(hits, text)}

\* The text streamed after the leading event.
Streamed(events) == [i \in 1..(Len(events) - 1) |-> events[i + 1].text]

Init == out = << >>

Send(event) == out' = Append(out, event)

Refuse == out = << >> /\ Send(DeltaEvent(NoEvidence))

Retrieved ==
    /\ out = << >>
    /\ \E hits \in Hits : hits # << >> /\ Send(RetrievedEvent(hits))

RefusalDone ==
    /\ out = <<DeltaEvent(NoEvidence)>>
    /\ \E hits \in Hits : Send(DoneEvent(Refusal(hits)))

Answering ==
    /\ out # << >>
    /\ out[1].type = "retrieved"
    /\ out[Len(out)].type # "done"

Delta == Answering /\ \E token \in Tokens : Send(DeltaEvent(token))

Done ==
    /\ Answering
    /\ \E hits \in Hits :
          /\ out[1] = RetrievedEvent(hits)
          /\ \E result \in OneShot(hits, Streamed(out)) : Send(DoneEvent(result))

Next == Refuse \/ Retrieved \/ RefusalDone \/ Delta \/ Done

\* The contract.
Spec == Init /\ [][Next]_out

-----------------------------------------------------------------------------
\* What the stream does beyond the contract, and this only: it ends in an answer
\* without text when the model's endpoint sent nothing but empty texts, which
\* generate_stream takes for an answer.
EmptyDone ==
    /\ Answering
    /\ Streamed(out) = << >>
    /\ \E hits \in Hits :
          /\ out[1] = RetrievedEvent(hits)
          /\ Send(DoneEvent(Composed(hits, << >>)))

SpecAsBuilt == Init /\ [][Next \/ EmptyDone]_out
=============================================================================

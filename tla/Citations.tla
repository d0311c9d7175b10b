----------------------------- MODULE Citations -----------------------------
(***************************************************************************)
(* The functions of services/rag_service.py that turn a model's text and   *)
(* the retrieved chunks into what is shown: keep_cited_sources,            *)
(* _retrieved_documents and _grounding.                                    *)
(*                                                                         *)
(* A text is a sequence of tokens. A token is the list of numbers of one   *)
(* citation marker, "[2, 9]" being <<2, 9>>, and empty for plain text. The *)
(* retrieved chunks, in rank order, are known by the document they belong  *)
(* to: hits[i] is the document of chunk i.                                 *)
(***************************************************************************)
EXTENDS Naturals, Sequences, FiniteSets

Text == << >>

\* The numbers of all markers that name one of the retrieved chunks.
Cited(text, hits) ==
    {n \in DOMAIN hits : \E i \in DOMAIN text : \E k \in DOMAIN text[i] : text[i][k] = n}

\* Cited numbers are renumbered to 1, 2, ... in the order of the chunks.
NewNumber(cited, n) == Cardinality({m \in cited : m <= n})

\* The numbers of a set in their order.
InOrder(numbers) ==
    [k \in 1..Cardinality(numbers) |-> CHOOSE n \in numbers : NewNumber(numbers, n) = k]

\* Mutant of Rewrite: numbers that name no chunk stay in their marker.
RewriteAll(token, cited) ==
    [k \in DOMAIN token |->
        IF token[k] \in cited THEN NewNumber(cited, token[k]) ELSE token[k]]

\* A marker keeps its cited numbers only.
Rewrite(token, cited) ==
    LET kept == InOrder({k \in DOMAIN token : token[k] \in cited})
    IN  [k \in DOMAIN kept |-> NewNumber(cited, token[kept[k]])]

\* A marker none of whose numbers is cited vanishes.
Shown(text, cited) ==
    LET Survives(token) == token = Text \/ \E k \in DOMAIN token : token[k] \in cited
        rewritten == [i \in DOMAIN text |-> Rewrite(text[i], cited)]
        kept == InOrder({i \in DOMAIN text : Survives(text[i])})
    IN  [i \in DOMAIN kept |-> rewritten[kept[i]]]

Sources(cited, hits) ==
    LET old == InOrder(cited)
    IN  [new \in DOMAIN old |->
            [index |-> new, chunk |-> old[new], document |-> hits[old[new]]]]

\* keep_cited_sources()
KeepCited(text, hits) ==
    LET cited == Cited(text, hits)
    IN  [answer |-> Shown(text, cited), citations |-> Sources(cited, hits)]

\* Mutant of RetrievedDocuments: the best document only.
BestDocument(hits) ==
    [n \in DOMAIN hits \cap {1} |->
        [document |-> hits[1],
         chunks |-> Cardinality({i \in DOMAIN hits : hits[i] = hits[1]})]]

\* _retrieved_documents(): one entry per document, the best ranked first.
RetrievedDocuments(hits) ==
    LET firsts == InOrder({i \in DOMAIN hits : \A k \in 1..(i - 1) : hits[k] # hits[i]})
    IN  [n \in DOMAIN firsts |->
            LET d == hits[firsts[n]]
            IN  [document |-> d,
                 chunks |-> Cardinality({i \in DOMAIN hits : hits[i] = d})]]

\* _grounding(), without the scores
Grounding(hits, citations, refused) ==
    [retrieved_chunks |-> Len(hits),
     cited_chunks |-> Len(citations),
     cited_documents |-> Cardinality({citations[i].document : i \in DOMAIN citations}),
     refused |-> refused]
=============================================================================

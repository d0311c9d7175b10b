--------------------------- MODULE HybridRanking ---------------------------
(***************************************************************************)
(* One question's retrieval: two ranked lists are fused by reciprocal      *)
(* ranks, the best candidates may be reranked, and whether there is any    *)
(* evidence is decided on what is left (retrieval_service, reranker,       *)
(* rag_service._retrieve).                                                 *)
(*                                                                         *)
(* Scores are compared as exact fractions. The code adds floats: sums that *)
(* are equal as fractions by more than symmetry may come out in any order. *)
(***************************************************************************)
EXTENDS Integers, Sequences, FiniteSets, Functions

CONSTANTS
    Chunks,           \* chunk ids
    K,                \* RRF_K
    Fetch,            \* how many hits each arm is asked for: max(4 * top_k, 20)
    Candidates,       \* RERANK_CANDIDATES
    TopK,
    RelevanceScores   \* what the reranker says of a text, below 0 too

ASSUME RankingAssumption ==
    /\ K \in Nat \ {0} /\ TopK \in Nat \ {0}
    /\ Fetch \in Nat /\ Candidates \in Nat
    /\ RelevanceScores \subseteq Int /\ IsFiniteSet(Chunks)

VARIABLES
    stage,
    semantic, keyword,  \* the two ranked lists
    fused,              \* all their chunks, best first
    returned,           \* the scores of the reranker's answer, by index
    candidates,         \* what was passed to it, then what it made of that
    hits,
    evident,            \* semantic hits at or above RELEVANCE_THRESHOLD
    refused

rankingVars == <<stage, semantic, keyword, fused, returned, candidates, hits,
                 evident, refused>>

Least(m, n) == IF m <= n THEN m ELSE n
Upto(s, n) == SubSeq(s, 1, Least(n, Len(s)))

\* Lists without repetition of at most n chunks.
Rankings(n) ==
    UNION {{s \in [1..k -> Chunks] : IsInjective(s)} : k \in 0..Least(n, Cardinality(Chunks))}

RankingTypeOK ==
    /\ stage \in {"semantic", "keyword", "fuse", "rerank", "decide", "over", "raised"}
    /\ \A s \in {semantic, keyword, fused, candidates, hits} :
          s \in Seq(Chunks) /\ IsInjective(s)
    /\ Len(semantic) <= Fetch /\ Len(keyword) <= Fetch /\ Len(hits) <= TopK
    /\ \A i \in DOMAIN returned : i \in 1..Len(candidates)
    /\ Range(returned) \subseteq RelevanceScores
    /\ evident \in 0..Fetch
    /\ refused \in BOOLEAN

RankingInit ==
    /\ stage = "semantic"
    /\ semantic = <<>> /\ keyword = <<>> /\ fused = <<>> /\ returned = <<>>
    /\ candidates = <<>> /\ hits = <<>>
    /\ evident = 0
    /\ refused = FALSE

-----------------------------------------------------------------------------
(* Reciprocal rank fusion *)

Rank(s, c) == CHOOSE i \in DOMAIN s : s[i] = c
In(s, c) == c \in Range(s)

\* The sum of 1 / (K + rank) over the lists a chunk is in, as <<n, d>>.
Score(c) ==
    LET m == K + Rank(semantic, c)
        n == K + Rank(keyword, c)
    IN  IF In(semantic, c)
        THEN IF In(keyword, c) THEN <<m + n, m * n>> ELSE <<1, m>>
        ELSE <<1, n>>

Above(p, q) == p[1] * q[2] > q[1] * p[2]

\* Python's sort is stable, and fused's dictionary has the semantic hits first, in
\* their order, then those only the keyword arm found.
Earlier(c, d) ==
    \/ In(semantic, c) /\ In(semantic, d) /\ Rank(semantic, c) < Rank(semantic, d)
    \/ In(semantic, c) /\ ~In(semantic, d)
    \/ ~In(semantic, c) /\ ~In(semantic, d) /\ Rank(keyword, c) < Rank(keyword, d)

\* Mutant of Before: a chunk counts with its best rank, not with both.
BeforeByBestRank(c, d) ==
    LET Best(e) == IF In(semantic, e) /\ (~In(keyword, e)
                          \/ Rank(semantic, e) < Rank(keyword, e))
                   THEN Rank(semantic, e) ELSE Rank(keyword, e)
    IN  Best(c) < Best(d) \/ (Best(c) = Best(d) /\ Earlier(c, d))

Before(c, d) ==
    Above(Score(c), Score(d)) \/ (~Above(Score(d), Score(c)) /\ Earlier(c, d))

Fusion ==
    {s \in Rankings(2 * Fetch) :
        /\ Range(s) = Range(semantic) \cup Range(keyword)
        /\ \A i, j \in DOMAIN s : i < j => Before(s[i], s[j])}

-----------------------------------------------------------------------------

SemanticSearch ==
    /\ stage = "semantic"
    /\ stage' = "keyword"
    /\ semantic' \in Rankings(Fetch)
    /\ UNCHANGED <<keyword, fused, returned, candidates, hits, evident, refused>>

\* No term, or none that matches, gives the empty list.
KeywordSearch ==
    /\ stage = "keyword"
    /\ stage' = "fuse"
    /\ keyword' \in Rankings(Fetch)
    /\ UNCHANGED <<semantic, fused, returned, candidates, hits, evident, refused>>

Fuse ==
    /\ stage = "fuse"
    /\ stage' = "rerank"
    /\ fused' \in Fusion
    /\ candidates' = Upto(fused', Candidates)
    /\ UNCHANGED <<semantic, keyword, returned, hits, evident, refused>>

\* No key, nothing to rank, or no usable answer: the fused order stands.
WithoutReranker ==
    /\ stage = "rerank"
    /\ stage' = "decide"
    /\ hits' = Upto(fused, TopK)
    /\ UNCHANGED <<semantic, keyword, fused, returned, candidates, evident, refused>>

\* Mutant of Aligned: the answer is read in the order it comes in, best first.
Positional(answer, i) ==
    IF i > Cardinality(DOMAIN answer) THEN 0
    ELSE CHOOSE x \in Range(answer) \cup {0} :
            Cardinality({j \in DOMAIN answer : answer[j] > x}) < i
            /\ i <= Cardinality({j \in DOMAIN answer : answer[j] >= x})

\* The answer names texts by index, in any order and not always all of them. A text
\* it does not name has the 0.0 that the list of scores starts with, and so comes
\* before one that was scored below 0.
Aligned(answer, i) == IF i \in DOMAIN answer THEN answer[i] ELSE 0

Rerank ==
    /\ stage = "rerank"
    /\ candidates # <<>>
    /\ stage' = "decide"
    /\ \E scored \in SUBSET DOMAIN candidates :
          \E answer \in [scored -> RelevanceScores] :
             /\ returned' = answer
             /\ \E p \in [DOMAIN candidates -> DOMAIN candidates] :
                   /\ IsInjective(p)
                   /\ \A i, j \in DOMAIN p : i < j =>
                         \/ Aligned(answer, p[i]) > Aligned(answer, p[j])
                         \/ Aligned(answer, p[i]) = Aligned(answer, p[j]) /\ p[i] < p[j]
                   /\ hits' = Upto([i \in DOMAIN candidates |-> candidates[p[i]]], TopK)
    /\ UNCHANGED <<semantic, keyword, fused, candidates, evident, refused>>

\* An answer of another shape raises where it is read, outside the try: so does
\* the question.
RerankRaises ==
    /\ stage = "rerank"
    /\ candidates # <<>>
    /\ stage' = "raised"
    /\ UNCHANGED <<semantic, keyword, fused, returned, candidates, hits, evident, refused>>

\* Cosine similarity falls along the semantic list: its first hits are those at or
\* above the threshold. A chunk only the keyword arm found has the score 0.
Decide ==
    /\ stage = "decide"
    /\ stage' = "over"
    /\ evident' \in 0..Len(semantic)
    /\ refused' = \A i \in DOMAIN hits : ~In(Upto(semantic, evident'), hits[i])
    /\ UNCHANGED <<semantic, keyword, fused, returned, candidates, hits>>

Retrieve == SemanticSearch \/ KeywordSearch \/ Fuse
Finish == WithoutReranker \/ Rerank \/ RerankRaises \/ Decide

RankingNext == Retrieve \/ Finish

RankingSpec == RankingInit /\ [][RankingNext]_rankingVars

-----------------------------------------------------------------------------

Both(c) == In(semantic, c) /\ In(keyword, c)

\* hybrid_search: "agreeing on a chunk beats ranking first in only one list". That
\* is so of lists of at most K + 1; a question that asks for more than 15 chunks
\* fetches longer ones.
AgreementWins ==
    Fetch <= K + 1 =>
        \A i, j \in DOMAIN fused : Both(fused[j]) /\ ~Both(fused[i]) => j < i

\* _retrieve refuses on the hits that are left, though the semantic arm may have
\* found a chunk above the threshold. Where the fused order stands, that happens
\* only if every chunk of a full answer was found by both arms.
EvidenceIsOnlyOutvoted ==
    stage = "over" /\ refused /\ evident > 0 /\ hits = Upto(fused, TopK) =>
        Len(hits) = TopK /\ \A i \in DOMAIN hits : Both(hits[i])

FusionIsFair == AgreementWins /\ EvidenceIsOnlyOutvoted

\* What the reranker said of a candidate. The fused order decides between equals.
Said(i) == IF i \in DOMAIN returned THEN returned[i] ELSE 0
Outranks(j, i) == Said(j) > Said(i) \/ (Said(j) = Said(i) /\ j < i)

\* rerank: "aligned to the order texts were passed in", not to that of the answer,
\* whatever the answer leaves out and however low it scores. No candidate is passed
\* over for one that it outranks, and no place is left empty; and where the
\* question is refused although a candidate is evidence, a full answer of
\* candidates that outrank it has displaced it.
RerankAligned ==
    stage = "over" /\ returned # <<>> =>
        /\ Len(hits) = Least(TopK, Len(candidates))
        /\ \A i, j \in DOMAIN candidates :
              Outranks(j, i) /\ In(hits, candidates[i]) =>
                  /\ In(hits, candidates[j])
                  /\ Rank(hits, candidates[j]) < Rank(hits, candidates[i])
        /\ \A i \in DOMAIN candidates :
              refused /\ In(Upto(semantic, evident), candidates[i]) =>
                  /\ Len(hits) = TopK
                  /\ \A j \in DOMAIN candidates :
                        In(hits, candidates[j]) => Outranks(j, i)
=============================================================================

------------------------ MODULE HybridRankingProofs ------------------------
(***************************************************************************)
(* What reciprocal rank fusion does, for any two lists of any length, any  *)
(* K and any top_k. Ranks become fractions, and the proofs compare them.   *)
(***************************************************************************)
EXTENDS HybridRanking, FiniteSetTheorems, TLAPS

\* The lists an arm may return.
LEMMA RankingShape ==
    ASSUME NEW n \in Nat, NEW s \in Rankings(n)
    PROVE  /\ s \in Seq(Chunks) /\ Len(s) \in 0..n
           /\ DOMAIN s = 1..Len(s)
<1>1. Cardinality(Chunks) \in Nat
    BY RankingAssumption, FS_CardinalityType
<1>2. Least(n, Cardinality(Chunks)) \in 0..n
    BY <1>1 DEF Least
<1>3. PICK k \in 0..Least(n, Cardinality(Chunks)) : s \in [1..k -> Chunks]
    BY DEF Rankings
<1>4. k \in 0..n
    BY <1>2, <1>3
<1>5. s \in Seq(Chunks) /\ Len(s) = k /\ DOMAIN s = 1..k
    BY <1>3, <1>4
<1> QED BY <1>4, <1>5

LEMMA UptoShape ==
    ASSUME NEW s \in Seq(Chunks), NEW n \in Nat
    PROVE  /\ Upto(s, n) \in Seq(Chunks)
           /\ Len(Upto(s, n)) = Least(n, Len(s))
           /\ \A i \in 1..Least(n, Len(s)) : Upto(s, n)[i] = s[i]
           /\ DOMAIN Upto(s, n) = 1..Least(n, Len(s))
<1>1. Len(s) \in Nat /\ Least(n, Len(s)) \in 0..Len(s)
    BY DEF Least
<1>2. \A i \in 1..Least(n, Len(s)) : s[i] \in Chunks
    BY <1>1
<1>3. /\ SubSeq(s, 1, Least(n, Len(s))) \in Seq(Chunks)
      /\ Len(SubSeq(s, 1, Least(n, Len(s)))) = Least(n, Len(s))
      /\ \A i \in 1..Least(n, Len(s)) : SubSeq(s, 1, Least(n, Len(s)))[i] = s[i]
    BY <1>1, <1>2
<1> QED BY <1>1, <1>3 DEF Upto

\* The two arms' lists, and the fused one once there is one.
Lists ==
    /\ semantic \in Seq(Chunks) /\ Len(semantic) \in 0..Fetch
    /\ keyword \in Seq(Chunks) /\ Len(keyword) \in 0..Fetch

LEMMA RankFits ==
    ASSUME NEW s \in Seq(Chunks), NEW c, In(s, c)
    PROVE  Rank(s, c) \in 1..Len(s) /\ s[Rank(s, c)] = c
<1>1. \E i \in DOMAIN s : s[i] = c
    BY DEF In, Range
<1>2. Rank(s, c) \in DOMAIN s /\ s[Rank(s, c)] = c
    BY <1>1 DEF Rank
<1> QED BY <1>2

\* What one list gives a chunk, and what two give it.
LEMMA OneScore ==
    ASSUME Lists, NEW c, ~Both(c), In(semantic, c) \/ In(keyword, c)
    PROVE  \E d \in Nat : /\ d >= K + 1 /\ Score(c) = <<1, d>>
                          /\ In(semantic, c) => d = K + Rank(semantic, c)
<1>1. CASE In(semantic, c)
    <2>1. Rank(semantic, c) \in 1..Len(semantic) /\ Len(semantic) \in Nat
        BY <1>1, RankFits DEF Lists
    <2>2. Score(c) = <<1, K + Rank(semantic, c)>>
        BY <1>1 DEF Score, Both
    <2>3. K + Rank(semantic, c) \in Nat /\ K + Rank(semantic, c) >= K + 1
        BY <2>1, RankingAssumption
    <2> QED BY <2>2, <2>3
<1>2. CASE ~In(semantic, c)
    <2>1. Rank(keyword, c) \in 1..Len(keyword) /\ Len(keyword) \in Nat
        BY <1>2, RankFits DEF Lists
    <2>2. Score(c) = <<1, K + Rank(keyword, c)>>
        BY <1>2 DEF Score
    <2>3. K + Rank(keyword, c) \in Nat /\ K + Rank(keyword, c) >= K + 1
        BY <2>1, RankingAssumption
    <2> QED BY <1>2, <2>2, <2>3
<1> QED BY <1>1, <1>2

LEMMA TwoScores ==
    ASSUME Lists, NEW c, Both(c)
    PROVE  \E m, n \in Nat : /\ m >= K + 1 /\ n >= K + 1
                             /\ m <= K + Fetch /\ n <= K + Fetch
                             /\ m = K + Rank(semantic, c)
                             /\ Score(c) = <<m + n, m * n>>
<1>1. /\ Rank(semantic, c) \in 1..Len(semantic) /\ Len(semantic) \in 0..Fetch
      /\ Rank(keyword, c) \in 1..Len(keyword) /\ Len(keyword) \in 0..Fetch
    BY RankFits DEF Lists, Both
<1> DEFINE m == K + Rank(semantic, c)
           n == K + Rank(keyword, c)
<1>2. /\ m \in Nat /\ n \in Nat /\ m >= K + 1 /\ n >= K + 1
      /\ m <= K + Fetch /\ n <= K + Fetch
    BY <1>1, RankingAssumption
<1>3. Score(c) = <<m + n, m * n>>
    BY DEF Score, Both
<1>4. m = K + Rank(semantic, c)
    OBVIOUS
<1> HIDE DEF m, n
<1> QED BY <1>2, <1>3, <1>4

\* 1/m + 1/n > 1/d while neither m nor n is twice d.
LEMMA SumOfShares ==
    ASSUME NEW m \in Nat, NEW n \in Nat, NEW d \in Nat, m > 0, n > 0,
           m < 2 * d, n < 2 * d
    PROVE  (m + n) * d > m * n
<1>1. m * n < (2 * d) * n
    BY SMTT(30)
<1>2. m * n < (2 * d) * m
    BY SMTT(30)
<1>3. (2 * d) * n + (2 * d) * m = 2 * ((m + n) * d)
    BY SMTT(30)
<1>4. m * n \in Nat /\ (m + n) * d \in Nat /\ (2 * d) * n \in Nat /\ (2 * d) * m \in Nat
    BY SMTT(30)
<1> QED BY <1>1, <1>2, <1>3, <1>4

\* 1/m + 1/n > 1/d if one of them is at most d.
LEMMA SumOfShare ==
    ASSUME NEW m \in Nat, NEW n \in Nat, NEW d \in Nat, m > 0, n > 0, m <= d
    PROVE  (m + n) * d > m * n
<1>1. (m + n) * d = m * d + n * d
    BY SMTT(30)
<1>2. n * d >= n * m /\ n * m = m * n
    BY SMTT(30)
<1>3. m * d > 0
    BY SMTT(30)
<1>4. m * n \in Nat /\ m * d \in Nat /\ n * d \in Nat /\ (m + n) * d \in Nat
    BY SMTT(30)
<1> QED BY <1>1, <1>2, <1>3, <1>4

-----------------------------------------------------------------------------
(* The fused list *)

LEMMA FusionShape ==
    ASSUME fused \in Fusion
    PROVE  /\ fused \in Seq(Chunks) /\ Len(fused) \in Nat /\ DOMAIN fused = 1..Len(fused)
           /\ Range(fused) = Range(semantic) \cup Range(keyword)
           /\ \A i, j \in DOMAIN fused : i < j => Before(fused[i], fused[j])
<1>1. fused \in Rankings(2 * Fetch) /\ 2 * Fetch \in Nat
    BY RankingAssumption DEF Fusion
<1>2. /\ Range(fused) = Range(semantic) \cup Range(keyword)
      /\ \A i, j \in DOMAIN fused : i < j => Before(fused[i], fused[j])
    BY DEF Fusion
<1>3. fused \in Seq(Chunks) /\ Len(fused) \in 0..(2 * Fetch) /\ DOMAIN fused = 1..Len(fused)
    BY <1>1, RankingShape
<1> QED BY <1>1, <1>2, <1>3

LEMMA FusedIsFound ==
    ASSUME fused \in Fusion, NEW i \in DOMAIN fused
    PROVE  In(semantic, fused[i]) \/ In(keyword, fused[i])
<1>1. fused[i] \in Range(fused)
    BY DEF Range
<1> QED BY <1>1, FusionShape DEF In

LEMMA AgreementLemma == Lists /\ fused \in Fusion => AgreementWins
<1> SUFFICES ASSUME Lists, fused \in Fusion, Fetch <= K + 1,
                    NEW i \in DOMAIN fused, NEW j \in DOMAIN fused,
                    Both(fused[j]), ~Both(fused[i])
             PROVE  j < i
    BY DEF AgreementWins
<1>1. DOMAIN fused = 1..Len(fused) /\ Len(fused) \in Nat /\ i # j
    BY FusionShape
<1>2. PICK d \in Nat : d >= K + 1 /\ Score(fused[i]) = <<1, d>>
    BY FusedIsFound, OneScore
<1>3. PICK m, n \in Nat : /\ m >= K + 1 /\ n >= K + 1
                          /\ m <= K + Fetch /\ n <= K + Fetch
                          /\ Score(fused[j]) = <<m + n, m * n>>
    BY TwoScores
<1>4. m > 0 /\ n > 0 /\ m < 2 * d /\ n < 2 * d
    BY <1>2, <1>3, RankingAssumption
<1>5. (m + n) * d > m * n
    BY <1>4, SumOfShares
<1>6. 1 * (m * n) = m * n /\ m * n \in Nat /\ (m + n) * d \in Nat
    BY SMTT(30)
<1>7. Above(Score(fused[j]), Score(fused[i]))
    BY <1>2, <1>3, <1>5, <1>6 DEF Above
<1>8. ~Above(Score(fused[i]), Score(fused[j]))
    BY <1>2, <1>3, <1>5, <1>6 DEF Above
<1>9. ~Before(fused[i], fused[j])
    BY <1>7, <1>8 DEF Before
<1>10. ~(i < j)
    BY <1>9, FusionShape
<1> QED BY <1>1, <1>10

\* A chunk that is placed before the semantic arm's first was found by both arms.
LEMMA OnlyBothPassFirst ==
    ASSUME Lists, Len(semantic) > 0, NEW a, In(semantic, a) \/ In(keyword, a),
           NEW c, c = semantic[1], IsInjective(semantic), Before(a, c)
    PROVE  Both(a)
<1> SUFFICES ASSUME ~Both(a) PROVE FALSE
    OBVIOUS
<1>0. Len(semantic) \in Nat /\ DOMAIN semantic = 1..Len(semantic) /\ 1 \in DOMAIN semantic
    BY DEF Lists
<1>1. In(semantic, c)
    BY <1>0 DEF In, Range
<1>2. Rank(semantic, c) = 1
    <2>1. Rank(semantic, c) \in DOMAIN semantic /\ semantic[Rank(semantic, c)] = semantic[1]
        BY <1>0, <1>1, RankFits DEF Lists
    <2> QED BY <1>0, <2>1 DEF IsInjective
<1>3. PICK d \in Nat : /\ d >= K + 1 /\ Score(a) = <<1, d>>
                       /\ In(semantic, a) => d = K + Rank(semantic, a)
    BY OneScore
<1>4. CASE Both(c)
    <2>1. PICK m, n \in Nat : /\ m >= K + 1 /\ n >= K + 1 /\ m = K + Rank(semantic, c)
                              /\ Score(c) = <<m + n, m * n>>
        BY <1>4, TwoScores
    <2>2. m > 0 /\ n > 0 /\ m <= d
        BY <1>2, <1>3, <2>1, RankingAssumption
    <2>3. (m + n) * d > m * n
        BY <2>2, SumOfShare
    <2>4. 1 * (m * n) = m * n /\ m * n \in Nat /\ (m + n) * d \in Nat
        BY SMTT(30)
    <2>5. Above(Score(c), Score(a)) /\ ~Above(Score(a), Score(c))
        BY <1>3, <2>1, <2>3, <2>4 DEF Above
    <2> QED BY <2>5 DEF Before
<1>5. CASE ~Both(c)
    <2>1. Score(c) = <<1, K + 1>>
        BY <1>1, <1>2, <1>5 DEF Score, Both
    <2>2. ~Above(Score(a), Score(c)) /\ (Above(Score(c), Score(a)) \/ d = K + 1)
        BY <1>3, <2>1, RankingAssumption DEF Above
    <2>3. Earlier(a, c) /\ d = K + 1
        BY <2>2 DEF Before
    <2>4. In(semantic, a) /\ Rank(semantic, a) < 1
        BY <1>1, <1>2, <2>3 DEF Earlier
    <2>5. Rank(semantic, a) \in 1..Len(semantic)
        BY <2>4, RankFits DEF Lists
    <2> QED BY <1>0, <2>4, <2>5
<1> QED BY <1>4, <1>5

LEMMA OutvotedLemma ==
    ASSUME Lists, IsInjective(semantic), fused \in Fusion,
           evident \in 0..Len(semantic), evident > 0, hits = Upto(fused, TopK),
           \A i \in DOMAIN hits : ~In(Upto(semantic, evident), hits[i])
    PROVE  Len(hits) = TopK /\ \A i \in DOMAIN hits : Both(hits[i])
<1>1. /\ Len(semantic) \in Nat /\ Len(semantic) > 0 /\ evident \in Nat
      /\ semantic \in Seq(Chunks) /\ TopK \in Nat
    BY RankingAssumption DEF Lists
<1> DEFINE c == semantic[1]
<1>2. In(Upto(semantic, evident), c)
    <2>1. Least(evident, Len(semantic)) >= 1 /\ Least(evident, Len(semantic)) \in Nat
        BY <1>1 DEF Least
    <2>2. /\ DOMAIN Upto(semantic, evident) = 1..Least(evident, Len(semantic))
          /\ \A i \in 1..Least(evident, Len(semantic)) :
                 Upto(semantic, evident)[i] = semantic[i]
        BY <1>1, UptoShape
    <2>3. 1 \in 1..Least(evident, Len(semantic))
        BY <2>1
    <2>4. 1 \in DOMAIN Upto(semantic, evident) /\ Upto(semantic, evident)[1] = c
        BY <2>2, <2>3
    <2> QED BY <2>4 DEF In, Range
<1>3. c \in Range(fused)
    <2>1. 1 \in DOMAIN semantic
        BY <1>1
    <2>2. c \in Range(semantic)
        BY <2>1 DEF Range
    <2> QED BY <2>2, FusionShape
<1>4. PICK p \in DOMAIN fused : fused[p] = c
    BY <1>3 DEF Range
<1>5. /\ fused \in Seq(Chunks) /\ Len(fused) \in Nat /\ DOMAIN fused = 1..Len(fused)
      /\ \A i, j \in DOMAIN fused : i < j => Before(fused[i], fused[j])
    BY FusionShape
<1>6. /\ Len(hits) = Least(TopK, Len(fused)) /\ DOMAIN hits = 1..Least(TopK, Len(fused))
      /\ \A i \in 1..Least(TopK, Len(fused)) : hits[i] = fused[i]
    BY <1>1, <1>5, UptoShape
<1>7. p \notin 1..Least(TopK, Len(fused))
    BY <1>2, <1>4, <1>6
<1>8. Least(TopK, Len(fused)) = TopK /\ p > TopK
    <2> DEFINE n == Len(fused)
    <2>1. n \in Nat /\ p \in 1..n /\ p \notin 1..Least(TopK, n)
        BY <1>5, <1>7
    <2> HIDE DEF n
    <2>2. Least(TopK, n) = TopK /\ p > TopK
        BY <1>1, <2>1 DEF Least
    <2> QED BY <2>2 DEF n
<1>9. ASSUME NEW i \in DOMAIN hits PROVE Both(hits[i])
    <2>1. i \in DOMAIN fused /\ i < p /\ hits[i] = fused[i]
        BY <1>1, <1>4, <1>5, <1>6, <1>8
    <2>2. Before(fused[i], c)
        BY <1>4, <1>5, <2>1
    <2>3. In(semantic, fused[i]) \/ In(keyword, fused[i])
        BY <2>1, FusedIsFound
    <2> QED BY <1>1, <2>1, <2>2, <2>3, OnlyBothPassFirst
<1> QED BY <1>6, <1>8, <1>9

-----------------------------------------------------------------------------
(* The question *)

RankingInv ==
    /\ Lists /\ IsInjective(semantic)
    /\ stage \in {"semantic", "keyword", "fuse", "rerank", "decide", "over", "raised"}
    /\ stage \in {"semantic", "keyword", "fuse"} => fused = <<>>
    /\ stage \notin {"semantic", "keyword", "fuse"} => fused \in Fusion
    /\ stage = "over" =>
          /\ evident \in 0..Len(semantic)
          /\ refused => \A i \in DOMAIN hits : ~In(Upto(semantic, evident), hits[i])

LEMMA RankingInvInit == RankingInit => RankingInv
<1> SUFFICES ASSUME RankingInit PROVE RankingInv
    OBVIOUS
<1>1. semantic = <<>> /\ keyword = <<>> /\ fused = <<>> /\ stage = "semantic"
    BY DEF RankingInit
<1>2. Lists
    BY <1>1, RankingAssumption DEF Lists
<1>3. IsInjective(semantic)
    BY <1>1 DEF IsInjective
<1> QED BY <1>1, <1>2, <1>3 DEF RankingInv

\* The fused list stays that of the two lists while neither changes.
LEMMA FusionStays ==
    ASSUME UNCHANGED <<semantic, keyword>> PROVE Fusion' = Fusion
BY DEF Fusion, Before, Above, Score, Earlier, Rank, In

LEMMA RankingInvStep == RankingInv /\ [RankingNext]_rankingVars => RankingInv'
<1> SUFFICES ASSUME RankingInv, [RankingNext]_rankingVars PROVE RankingInv'
    OBVIOUS
<1>1. ASSUME UNCHANGED <<semantic, keyword, fused>>,
             stage \notin {"semantic", "keyword", "fuse"},
             stage' \in {"decide", "raised"}
      PROVE  RankingInv'
    BY <1>1, FusionStays DEF RankingInv, Lists
<1>2. CASE UNCHANGED rankingVars
    <2>1. UNCHANGED <<semantic, keyword, fused, stage, evident, refused, hits>>
        BY <1>2 DEF rankingVars
    <2> QED BY <2>1, FusionStays DEF RankingInv, Lists
<1>3. CASE SemanticSearch
    <2>1. /\ stage' = "keyword" /\ semantic' \in Rankings(Fetch)
          /\ UNCHANGED <<keyword, fused>> /\ stage = "semantic"
        BY <1>3 DEF SemanticSearch
    <2>2. semantic' \in Seq(Chunks) /\ Len(semantic') \in 0..Fetch
        BY <2>1, RankingShape, RankingAssumption
    <2>3. IsInjective(semantic')
        BY <2>1 DEF Rankings
    <2> QED BY <2>1, <2>2, <2>3 DEF RankingInv, Lists, IsInjective
<1>4. CASE KeywordSearch
    <2>1. /\ stage' = "fuse" /\ keyword' \in Rankings(Fetch)
          /\ UNCHANGED <<semantic, fused>> /\ stage = "keyword"
        BY <1>4 DEF KeywordSearch
    <2>2. keyword' \in Seq(Chunks) /\ Len(keyword') \in 0..Fetch
        BY <2>1, RankingShape, RankingAssumption
    <2> QED BY <2>1, <2>2 DEF RankingInv, Lists
<1>5. CASE Fuse
    <2>1. stage' = "rerank" /\ fused' \in Fusion /\ UNCHANGED <<semantic, keyword>>
        BY <1>5 DEF Fuse
    <2> QED BY <2>1, FusionStays DEF RankingInv, Lists
<1>6. CASE WithoutReranker
    BY <1>1, <1>6 DEF WithoutReranker
<1>7. CASE Rerank
    BY <1>1, <1>7 DEF Rerank
<1>8. CASE RerankRaises
    BY <1>1, <1>8 DEF RerankRaises
<1>9. CASE Decide
    <2>1. /\ stage = "decide" /\ stage' = "over" /\ evident' \in 0..Len(semantic)
          /\ refused' = \A i \in DOMAIN hits : ~In(Upto(semantic, evident'), hits[i])
          /\ UNCHANGED <<semantic, keyword, fused, hits>>
        BY <1>9 DEF Decide
    <2>2. refused' => \A i \in (DOMAIN hits)' : ~In(Upto(semantic, evident), hits[i])'
        BY <2>1 DEF In, Upto
    <2> QED BY <2>1, <2>2, FusionStays DEF RankingInv, Lists
<1> QED BY <1>2, <1>3, <1>4, <1>5, <1>6, <1>7, <1>8, <1>9 DEF RankingNext, Retrieve, Finish

LEMMA RankingInvIsFair == RankingInv => FusionIsFair
<1> SUFFICES ASSUME RankingInv PROVE FusionIsFair
    OBVIOUS
<1>1. AgreementWins
    <2>1. CASE fused = <<>>
        BY <2>1 DEF AgreementWins
    <2>2. CASE fused \in Fusion
        BY <2>2, AgreementLemma DEF RankingInv
    <2> QED BY <2>1, <2>2 DEF RankingInv
<1>2. EvidenceIsOnlyOutvoted
    <2> SUFFICES ASSUME stage = "over", refused, evident > 0, hits = Upto(fused, TopK)
                 PROVE  Len(hits) = TopK /\ \A i \in DOMAIN hits : Both(hits[i])
        BY DEF EvidenceIsOnlyOutvoted
    <2> QED BY OutvotedLemma DEF RankingInv
<1> QED BY <1>1, <1>2 DEF FusionIsFair

\* hybrid_search, _retrieve: for any lists, K and top_k, a chunk that both arms found
\* comes before any that one arm found, as long as the arms are asked for at most
\* K + 1 chunks, and a question the semantic arm has evidence for is refused only
\* if every chunk of a full answer was found by both.
THEOREM FusionOfRanksIsFair == RankingSpec => []FusionIsFair
<1>1. RankingInv => FusionIsFair
    BY RankingInvIsFair
<1> QED BY RankingInvInit, RankingInvStep, <1>1, PTL DEF RankingSpec

-----------------------------------------------------------------------------
(* The reranked list *)

LEMMA LeastIs ==
    ASSUME NEW m \in Nat, NEW n \in Nat
    PROVE  Least(m, n) \in Nat /\ Least(m, n) <= m /\ Least(m, n) <= n
           /\ (Least(m, n) = m \/ Least(m, n) = n)
BY DEF Least

LEMMA UptoIsInjective ==
    ASSUME NEW s \in Seq(Chunks), IsInjective(s), NEW n \in Nat
    PROVE  /\ Upto(s, n) \in Seq(Chunks) /\ IsInjective(Upto(s, n))
           /\ Len(Upto(s, n)) \in Nat /\ Len(Upto(s, n)) <= n
<1>1. Len(s) \in Nat /\ DOMAIN s = 1..Len(s)
    OBVIOUS
<1>2. Least(n, Len(s)) \in Nat /\ Least(n, Len(s)) <= n /\ Least(n, Len(s)) <= Len(s)
    BY <1>1, LeastIs
<1>3. \A i \in 1..Least(n, Len(s)) : i \in DOMAIN s
    BY <1>1, <1>2
<1>4. IsInjective(Upto(s, n))
    <2> DEFINE u == Upto(s, n)
    <2>1. /\ DOMAIN u = 1..Least(n, Len(s))
          /\ \A i \in 1..Least(n, Len(s)) : u[i] = s[i]
        BY UptoShape
    <2> HIDE DEF u
    <2>2. IsInjective(u)
        BY <1>3, <2>1 DEF IsInjective
    <2> QED BY <2>2 DEF u
<1> QED BY <1>2, <1>4, UptoShape

\* An order without repetition of all positions has every position.
LEMMA OrderHasEveryone ==
    ASSUME NEW n \in Nat, NEW p \in [1..n -> 1..n], IsInjective(p), NEW i \in 1..n
    PROVE  \E m \in 1..n : p[m] = i
<1>1. IsFiniteSet(1..n) /\ Cardinality(1..n) = n
    BY FS_Interval
<1>2. p \in Injection(1..n, Range(p)) /\ p \in Surjection(1..n, Range(p))
    BY DEF Injection, Surjection, Range, IsInjective
<1>3. IsFiniteSet(Range(p)) /\ Cardinality(Range(p)) = n
    BY <1>1, <1>2, FS_Surjection
<1>4. Range(p) \in SUBSET (1..n)
    BY DEF Range
<1>5. Range(p) = 1..n
    BY <1>1, <1>3, <1>4, FS_Subset
<1> QED BY <1>5 DEF Range

\* One candidate comes before another: it scores more, or as much and was earlier.
Beats(answer, j, i) ==
    \/ Aligned(answer, j) > Aligned(answer, i)
    \/ Aligned(answer, j) = Aligned(answer, i) /\ j < i

\* At most top of the candidates c are kept: as many as there are, best first, and
\* none without those that beat it.
Best(kept, c, answer, top) ==
    /\ Len(kept) = Least(top, Len(c))
    /\ Len(kept) = top \/ \A i \in DOMAIN c : In(kept, c[i])
    /\ \A i, j \in DOMAIN c :
          Beats(answer, j, i) /\ In(kept, c[i]) =>
              In(kept, c[j]) /\ Rank(kept, c[j]) < Rank(kept, c[i])

\* A sorted order of candidates keeps, at the top, those that beat the others.
LEMMA TopBeatsTheRest ==
    ASSUME NEW c \in Seq(Chunks), IsInjective(c), NEW answer, NEW top \in Nat,
           NEW p \in [DOMAIN c -> DOMAIN c], IsInjective(p),
           \A i, j \in DOMAIN p : i < j => Beats(answer, p[i], p[j]),
           \A i \in DOMAIN c : Aligned(answer, i) \in Int,
           NEW kept, kept = Upto([i \in DOMAIN c |-> c[p[i]]], top)
    PROVE  /\ kept \in Seq(Chunks) /\ IsInjective(kept) /\ Len(kept) <= top
           /\ Best(kept, c, answer, top)
<1> DEFINE n == Len(c)
           s == [i \in DOMAIN c |-> c[p[i]]]
<1>1. n \in Nat /\ DOMAIN c = 1..n /\ \A i \in 1..n : c[i] \in Chunks
    OBVIOUS
<1>2. p \in [1..n -> 1..n]
    BY <1>1
<1>3. s \in [1..n -> Chunks] /\ \A i \in 1..n : s[i] = c[p[i]]
    BY <1>1, <1>2
<1>4. s \in Seq(Chunks) /\ Len(s) = n
    BY <1>1, <1>3
<1>5. IsInjective(s)
    BY <1>1, <1>2, <1>3 DEF IsInjective
<1>6. kept = Upto(s, top)
    OBVIOUS
<1> HIDE DEF n, s
<1>7. kept \in Seq(Chunks) /\ IsInjective(kept) /\ Len(kept) <= top
    BY <1>4, <1>5, <1>6, UptoIsInjective
<1>8. /\ DOMAIN kept = 1..Least(top, n) /\ Len(kept) = Least(top, n)
      /\ \A i \in 1..Least(top, n) : kept[i] = s[i]
    BY <1>4, <1>6, UptoShape
<1>9. /\ Least(top, n) \in Nat /\ Least(top, n) <= n
      /\ Least(top, n) = top \/ Least(top, n) = n
    BY <1>1, LeastIs
<1>10. ASSUME NEW k \in 1..Least(top, n) PROVE k \in 1..n /\ kept[k] = c[p[k]]
    <2>1. k \in 1..n
        BY <1>1, <1>9
    <2>2. kept[k] = s[k] /\ s[k] = c[p[k]]
        BY <1>3, <1>8, <2>1
    <2> QED BY <2>1, <2>2
<1>11. ASSUME Len(kept) # top, NEW i \in 1..n PROVE In(kept, c[i])
    <2>1. PICK m \in 1..n : p[m] = i
        BY <1>1, <1>2, OrderHasEveryone
    <2>2. m \in DOMAIN kept /\ kept[m] = c[i]
        BY <1>8, <1>9, <1>10, <1>11, <2>1
    <2> QED BY <2>2 DEF In, Range
<1>12. ASSUME NEW i \in 1..n, NEW j \in 1..n, Beats(answer, j, i), In(kept, c[i])
       PROVE  In(kept, c[j]) /\ Rank(kept, c[j]) < Rank(kept, c[i])
    <2>1. PICK k \in 1..Least(top, n) : kept[k] = c[i]
        BY <1>8, <1>12 DEF In, Range
    <2>2. k \in 1..n /\ p[k] = i
        <3>1. k \in 1..n /\ c[p[k]] = c[i]
            BY <1>10, <2>1
        <3>2. p[k] \in DOMAIN c /\ i \in DOMAIN c
            BY <1>1, <1>2, <3>1
        <3> QED BY <3>1, <3>2 DEF IsInjective
    <2>3. PICK m \in 1..n : p[m] = j
        BY <1>1, <1>2, OrderHasEveryone
    <2>4. Aligned(answer, j) \in Int /\ Aligned(answer, i) \in Int /\ i \in Int /\ j \in Int
        <3>1. i \in DOMAIN c /\ j \in DOMAIN c
            BY <1>1
        <3>2. i \in Int /\ j \in Int
            BY <1>1
        <3> QED BY <3>1, <3>2
    <2>5. m # k
        BY <1>12, <2>2, <2>3, <2>4 DEF Beats
    <2>6. ~(k < m)
        <3> SUFFICES ASSUME k < m PROVE FALSE
            OBVIOUS
        <3>1. Beats(answer, i, j)
            BY <1>2, <2>2, <2>3
        <3> QED BY <1>12, <2>4, <3>1 DEF Beats
    <2>7. m < k /\ m \in 1..Least(top, n)
        BY <1>1, <1>9, <2>1, <2>2, <2>3, <2>5, <2>6
    <2>8. m \in DOMAIN kept /\ k \in DOMAIN kept /\ kept[m] = c[j]
        BY <1>8, <1>10, <2>1, <2>3, <2>7
    <2>9. In(kept, c[j])
        BY <2>8 DEF In, Range
    <2>10. /\ Rank(kept, c[j]) \in DOMAIN kept /\ kept[Rank(kept, c[j])] = c[j]
           /\ Rank(kept, c[i]) \in DOMAIN kept /\ kept[Rank(kept, c[i])] = c[i]
        BY <2>1, <2>8 DEF Rank
    <2>11. Rank(kept, c[j]) = m /\ Rank(kept, c[i]) = k
        BY <1>7, <2>1, <2>8, <2>10 DEF IsInjective
    <2> QED BY <2>7, <2>9, <2>11
<1> QED BY <1>1, <1>7, <1>8, <1>11, <1>12 DEF n, Best

KeptIsBest == Best(hits, candidates, returned, TopK)

\* The reranker's answer is there with the hits that were made of it, or not at all.
RankedInv ==
    /\ RankingTypeOK
    /\ stage \notin {"decide", "over"} => returned = <<>>
    /\ returned # <<>> => KeptIsBest

LEMMA NoListIsInjective == <<>> \in Seq(Chunks) /\ IsInjective(<<>>) /\ Len(<<>>) = 0
BY DEF IsInjective

LEMMA RankedInvInit == RankingInit => RankedInv
<1> SUFFICES ASSUME RankingInit PROVE RankedInv
    OBVIOUS
<1>1. Range(returned) \subseteq RelevanceScores /\ DOMAIN returned = {}
    BY DEF RankingInit, Range
<1>2. RankingTypeOK
    <2>1. \A s \in {semantic, keyword, fused, candidates, hits} : s = <<>>
        BY DEF RankingInit
    <2>2. \A s \in {semantic, keyword, fused, candidates, hits} :
             s \in Seq(Chunks) /\ IsInjective(s)
        BY <2>1, NoListIsInjective
    <2>3. Len(semantic) <= Fetch /\ Len(keyword) <= Fetch /\ Len(hits) <= TopK
        BY NoListIsInjective, RankingAssumption DEF RankingInit
    <2>4. refused = FALSE /\ stage = "semantic" /\ evident = 0
        BY DEF RankingInit
    <2>5. evident \in 0..Fetch
        BY <2>4, RankingAssumption
    <2> QED BY <1>1, <2>2, <2>3, <2>4, <2>5 DEF RankingTypeOK
<1> QED BY <1>2 DEF RankedInv, RankingInit

LEMMA RankedInvStep == RankedInv /\ [RankingNext]_rankingVars => RankedInv'
<1> SUFFICES ASSUME RankedInv, [RankingNext]_rankingVars PROVE RankedInv'
    OBVIOUS
<1>0. /\ RankingTypeOK
      /\ Fetch \in Nat /\ TopK \in Nat /\ Candidates \in Nat
      /\ RelevanceScores \subseteq Int
    BY RankingAssumption DEF RankedInv
<1>1. CASE UNCHANGED rankingVars
    <2>1. UNCHANGED <<stage, semantic, keyword, fused, returned, candidates, hits,
                      evident, refused>>
        BY <1>1 DEF rankingVars
    <2>2. RankingTypeOK'
        BY <1>0, <2>1 DEF RankingTypeOK
    <2>3. KeptIsBest => KeptIsBest'
        BY <2>1 DEF KeptIsBest
    <2> QED BY <2>1, <2>2, <2>3 DEF RankedInv
<1>2. CASE SemanticSearch
    <2>1. /\ semantic' \in Seq(Chunks) /\ IsInjective(semantic')
          /\ Len(semantic') <= Fetch
        <3>1. semantic' \in Rankings(Fetch)
            BY <1>2 DEF SemanticSearch
        <3>2. PICK s \in Rankings(Fetch) : s = semantic'
            BY <3>1
        <3>3. s \in Seq(Chunks) /\ Len(s) <= Fetch
            BY <1>0, RankingShape
        <3>4. IsInjective(s)
            BY DEF Rankings
        <3> QED BY <3>2, <3>3, <3>4
    <2>2. returned = <<>>
        BY <1>2 DEF SemanticSearch, RankedInv
    <2> QED BY <1>0, <1>2, <2>1, <2>2 DEF SemanticSearch, RankedInv, RankingTypeOK
<1>3. CASE KeywordSearch
    <2>1. /\ keyword' \in Seq(Chunks) /\ IsInjective(keyword')
          /\ Len(keyword') <= Fetch
        <3>1. keyword' \in Rankings(Fetch)
            BY <1>3 DEF KeywordSearch
        <3>2. PICK s \in Rankings(Fetch) : s = keyword'
            BY <3>1
        <3>3. s \in Seq(Chunks) /\ Len(s) <= Fetch
            BY <1>0, RankingShape
        <3>4. IsInjective(s)
            BY DEF Rankings
        <3> QED BY <3>2, <3>3, <3>4
    <2>2. returned = <<>>
        BY <1>3 DEF KeywordSearch, RankedInv
    <2> QED BY <1>0, <1>3, <2>1, <2>2 DEF KeywordSearch, RankedInv, RankingTypeOK
<1>4. CASE Fuse
    <2>1. PICK s \in Rankings(2 * Fetch) :
             s = fused' /\ candidates' = Upto(s, Candidates)
        BY <1>4 DEF Fuse, Fusion
    <2>2. s \in Seq(Chunks) /\ IsInjective(s)
        BY <1>0, RankingShape DEF Rankings
    <2>3. candidates' \in Seq(Chunks) /\ IsInjective(candidates')
        <3>1. PICK c : c = Upto(s, Candidates)
            OBVIOUS
        <3>2. c \in Seq(Chunks) /\ IsInjective(c)
            BY <1>0, <2>2, <3>1, UptoIsInjective
        <3> QED BY <2>1, <3>1, <3>2
    <2>4. fused' \in Seq(Chunks) /\ IsInjective(fused')
        BY <2>1, <2>2
    <2>5. returned = <<>> /\ returned' = <<>>
        BY <1>4 DEF Fuse, RankedInv
    <2>6. (DOMAIN returned)' = {}
        BY <2>5
    <2> QED BY <1>0, <1>4, <2>3, <2>4, <2>5, <2>6 DEF Fuse, RankedInv, RankingTypeOK
<1>5. CASE WithoutReranker
    <2>1. hits' \in Seq(Chunks) /\ IsInjective(hits') /\ Len(hits') <= TopK
        <3>1. PICK h : h = Upto(fused, TopK)
            OBVIOUS
        <3>2. h \in Seq(Chunks) /\ IsInjective(h) /\ Len(h) <= TopK
            BY <1>0, <3>1, UptoIsInjective DEF RankingTypeOK
        <3> QED BY <1>5, <3>1, <3>2 DEF WithoutReranker
    <2>2. returned = <<>> /\ returned' = <<>>
        BY <1>5 DEF WithoutReranker, RankedInv
    <2> QED BY <1>0, <1>5, <2>1, <2>2 DEF WithoutReranker, RankedInv, RankingTypeOK
<1>6. CASE Rerank
    <2>1. PICK scored \in SUBSET DOMAIN candidates :
             \E answer \in [scored -> RelevanceScores] :
                /\ returned' = answer
                /\ \E p \in [DOMAIN candidates -> DOMAIN candidates] :
                      /\ IsInjective(p)
                      /\ \A i, j \in DOMAIN p : i < j =>
                            \/ Aligned(answer, p[i]) > Aligned(answer, p[j])
                            \/ Aligned(answer, p[i]) = Aligned(answer, p[j]) /\ p[i] < p[j]
                      /\ hits' = Upto([i \in DOMAIN candidates |-> candidates[p[i]]], TopK)
        BY <1>6 DEF Rerank
    <2>2. PICK answer \in [scored -> RelevanceScores] :
             /\ returned' = answer
             /\ \E p \in [DOMAIN candidates -> DOMAIN candidates] :
                   /\ IsInjective(p)
                   /\ \A i, j \in DOMAIN p : i < j =>
                         \/ Aligned(answer, p[i]) > Aligned(answer, p[j])
                         \/ Aligned(answer, p[i]) = Aligned(answer, p[j]) /\ p[i] < p[j]
                   /\ hits' = Upto([i \in DOMAIN candidates |-> candidates[p[i]]], TopK)
        BY <2>1
    <2>3. PICK p \in [DOMAIN candidates -> DOMAIN candidates] :
             /\ IsInjective(p)
             /\ \A i, j \in DOMAIN p : i < j =>
                   \/ Aligned(answer, p[i]) > Aligned(answer, p[j])
                   \/ Aligned(answer, p[i]) = Aligned(answer, p[j]) /\ p[i] < p[j]
             /\ hits' = Upto([i \in DOMAIN candidates |-> candidates[p[i]]], TopK)
        BY <2>2
    <2>4. PICK c, kept : c = candidates /\ kept = hits'
        OBVIOUS
    <2>5. c \in Seq(Chunks) /\ IsInjective(c)
        BY <1>0, <2>4 DEF RankingTypeOK
    <2>6. \A i \in DOMAIN c : Aligned(answer, i) \in Int
        <3>1. \A i \in scored : answer[i] \in Int
            BY <1>0, <2>2
        <3>2. DOMAIN answer = scored
            BY <2>2
        <3> QED BY <3>1, <3>2 DEF Aligned
    <2>7. kept = Upto([i \in DOMAIN c |-> c[p[i]]], TopK)
        BY <2>3, <2>4
    <2>8. p \in [DOMAIN c -> DOMAIN c]
        BY <2>3, <2>4
    <2>9. \A i, j \in DOMAIN p : i < j => Beats(answer, p[i], p[j])
        BY <2>3 DEF Beats
    <2>10. /\ kept \in Seq(Chunks) /\ IsInjective(kept) /\ Len(kept) <= TopK
           /\ Best(kept, c, answer, TopK)
        <3>1. TopK \in Nat /\ IsInjective(p)
            BY <1>0, <2>3
        <3> QED BY <2>5, <2>6, <2>7, <2>8, <2>9, <3>1, TopBeatsTheRest
    <2>11. candidates' = c /\ hits' = kept /\ returned' = answer
        BY <1>6, <2>2, <2>4 DEF Rerank
    <2>12. KeptIsBest'
        BY <2>10, <2>11 DEF KeptIsBest
    <2>13. /\ \A i \in DOMAIN answer : i \in 1..Len(c)
           /\ Range(answer) \subseteq RelevanceScores
        <3>1. DOMAIN answer \subseteq DOMAIN c /\ DOMAIN c = 1..Len(c)
            BY <2>2, <2>4, <2>5
        <3>2. \A i \in DOMAIN answer : answer[i] \in RelevanceScores
            BY <2>2
        <3> QED BY <3>1, <3>2 DEF Range
    <2>14. RankingTypeOK'
        <3>1. /\ Range(returned') \subseteq RelevanceScores
              /\ \A i \in DOMAIN returned' : i \in 1..Len(candidates')
            BY <2>11, <2>13
        <3> QED BY <1>0, <1>6, <2>10, <2>11, <3>1 DEF Rerank, RankingTypeOK
    <2> QED BY <1>6, <2>12, <2>14 DEF Rerank, RankedInv
<1>7. CASE RerankRaises
    BY <1>0, <1>7 DEF RerankRaises, RankedInv, RankingTypeOK
<1>8. CASE Decide
    <2>1. evident' \in 0..Fetch
        <3>1. Len(semantic) \in Nat /\ Len(semantic) <= Fetch
            BY <1>0 DEF RankingTypeOK
        <3> QED BY <1>0, <1>8, <3>1 DEF Decide
    <2>2. refused' \in BOOLEAN
        BY <1>8 DEF Decide
    <2>3. KeptIsBest => KeptIsBest'
        BY <1>8 DEF Decide, KeptIsBest
    <2> QED BY <1>0, <1>8, <2>1, <2>2, <2>3 DEF Decide, RankedInv, RankingTypeOK
<1> QED BY <1>1, <1>2, <1>3, <1>4, <1>5, <1>6, <1>7, <1>8
        DEF RankingNext, Retrieve, Finish

\* The lists are lists of chunks without repetition, within the limits asked for.
THEOREM RankingTypeCorrect == RankingSpec => []RankingTypeOK
<1>1. RankedInv => RankingTypeOK
    BY DEF RankedInv
<1> QED BY <1>1, RankedInvInit, RankedInvStep, PTL DEF RankingSpec

\* What the reranked hits are, and what a refusal says of them.
LEMMA RankedInvIsAligned == RankingInv /\ RankedInv => RerankAligned
<1> SUFFICES ASSUME RankingInv, RankedInv, stage = "over", returned # <<>>
             PROVE  /\ Len(hits) = Least(TopK, Len(candidates))
                    /\ \A i, j \in DOMAIN candidates :
                          Outranks(j, i) /\ In(hits, candidates[i]) =>
                              /\ In(hits, candidates[j])
                              /\ Rank(hits, candidates[j]) < Rank(hits, candidates[i])
                    /\ \A i \in DOMAIN candidates :
                          refused /\ In(Upto(semantic, evident), candidates[i]) =>
                              /\ Len(hits) = TopK
                              /\ \A j \in DOMAIN candidates :
                                    In(hits, candidates[j]) => Outranks(j, i)
    BY DEF RerankAligned
<1>1. KeptIsBest
    BY DEF RankedInv
<1>2. \A i, j : Outranks(j, i) <=> Beats(returned, j, i)
    BY DEF Outranks, Said, Beats, Aligned
<1>3. \A i, j \in DOMAIN candidates :
         Outranks(j, i) /\ In(hits, candidates[i]) =>
             /\ In(hits, candidates[j])
             /\ Rank(hits, candidates[j]) < Rank(hits, candidates[i])
    BY <1>1, <1>2 DEF KeptIsBest, Best
<1>4. ASSUME NEW i \in DOMAIN candidates, refused,
             In(Upto(semantic, evident), candidates[i])
      PROVE  /\ Len(hits) = TopK
             /\ \A j \in DOMAIN candidates : In(hits, candidates[j]) => Outranks(j, i)
    <2>1. ~In(hits, candidates[i])
        <3>1. \A k \in DOMAIN hits : ~In(Upto(semantic, evident), hits[k])
            BY <1>4 DEF RankingInv
        <3> QED BY <1>4, <3>1 DEF In, Range
    <2>2. Len(hits) = TopK
        BY <1>1, <2>1 DEF KeptIsBest, Best
    <2>3. ASSUME NEW j \in DOMAIN candidates, In(hits, candidates[j])
          PROVE  Outranks(j, i)
        <3>1. ~Outranks(i, j) /\ i # j
            BY <1>3, <2>1, <2>3
        <3>2. i \in Int /\ j \in Int
            BY DEF RankedInv, RankingTypeOK
        <3>3. \A k : Said(k) \in Int
            <4>1. \A k \in DOMAIN returned : returned[k] \in RelevanceScores
                BY DEF RankedInv, RankingTypeOK, Range
            <4>2. \A k \in DOMAIN returned : returned[k] \in Int
                BY <4>1, RankingAssumption
            <4> QED BY <4>2 DEF Said
        <3> QED BY <3>1, <3>2, <3>3 DEF Outranks
    <2> QED BY <2>2, <2>3
<1> QED BY <1>1, <1>3, <1>4 DEF KeptIsBest, Best

\* rerank, hybrid_search: for any candidates and any scores, whatever order the
\* reranker's answer comes in and whichever texts it leaves out, the hits are the
\* candidates that outrank the others, best first, and evidence is refused only where
\* a full answer outranks it.
THEOREM RerankingIsAligned == RankingSpec => []RerankAligned
<1>1. RankingInv /\ RankedInv => RerankAligned
    BY RankedInvIsAligned
<1> QED BY <1>1, RankingInvInit, RankingInvStep, RankedInvInit, RankedInvStep, PTL
        DEF RankingSpec

=============================================================================

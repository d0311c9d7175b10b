------------------------- MODULE AnswerStreamProofs -------------------------
(***************************************************************************)
(* Proofs about AnswerStream, for any documents, tokens and bounds.        *)
(***************************************************************************)
EXTENDS AnswerStream, Functions, FiniteSetTheorems, TLAPS

\* Every event the generator can yield; what is in it does not matter here.
AnyResult ==
    {AC!Refusal(h) : h \in AC!Hits}
    \cup {AC!Composed(h, text) : h \in AC!Hits, text \in Seq(Tokens)}

AnyEvent ==
    {AC!RetrievedEvent(h) : h \in AC!Hits}
    \cup {AC!DeltaEvent(token) : token \in Tokens \cup {AC!NoEvidence}}
    \cup {AC!DoneEvent(result) : result \in AnyResult}

TypesInv ==
    /\ at \in Place
    /\ hits \in AC!Hits
    /\ chunks \in Seq(Tokens)
    /\ out \in Seq(AnyEvent)

\* The events are the leading one and one for each of the chunks, so far.
Told ==
    /\ hits # << >>
    /\ Len(out) >= Len(chunks) + 1
    /\ out[1] = AC!RetrievedEvent(hits)
    /\ \A i \in 1..Len(chunks) : out[i + 1] = AC!DeltaEvent(chunks[i])

\* Where the generator is tells which events it has yielded.
EventsInv ==
    /\ at = "retrieve" => out = << >> /\ chunks = << >>
    /\ at = "refusal" => out = <<AC!DeltaEvent(AC!NoEvidence)>>
    /\ at = "refused" =>
          /\ Len(out) = 2
          /\ out[1] = AC!DeltaEvent(AC!NoEvidence)
          /\ out[2] = AC!DoneEvent(AC!Refusal(hits))
    /\ at \in {"retrieved", "open", "read", "delta"} =>
          Told /\ Len(out) = Len(chunks) + 1
    /\ at = "retrieved" => chunks = << >>
    /\ at = "done" =>
          /\ Told
          /\ Len(out) = Len(chunks) + 2
          /\ out[Len(out)] = AC!DoneEvent(AC!Composed(hits, chunks))

RecordInv ==
    /\ at \notin Ending => log = << >>
    /\ RecordedOnce
    /\ RecordAgrees

StreamInv == TypesInv /\ EventsInv /\ RecordInv

-----------------------------------------------------------------------------
\* The three kinds of events are told apart by their type.
LEMMA EventTypes ==
    /\ \A h \in AC!Hits : AC!RetrievedEvent(h).type = "retrieved"
    /\ \A token \in Tokens \cup {AC!NoEvidence} :
          /\ AC!DeltaEvent(token).type = "delta"
          /\ AC!DeltaEvent(token).text = token
    /\ \A result : AC!DoneEvent(result).type = "done" /\ AC!DoneEvent(result).result = result
BY DEF AC!RetrievedEvent, AC!DeltaEvent, AC!DoneEvent

\* What has been streamed after the leading event are the chunks.
LEMMA StreamedIsChunks ==
    ASSUME chunks \in Seq(Tokens), out \in Seq(AnyEvent), Told,
           Len(out) = Len(chunks) + 1
    PROVE  AC!Streamed(out) = chunks
<1>1. \A i \in 1..Len(chunks) : chunks[i] \in Tokens
  OBVIOUS
<1>2. \A i \in 1..Len(chunks) : out[i + 1].text = chunks[i]
  BY <1>1, EventTypes DEF Told
<1>3. Len(out) - 1 = Len(chunks) /\ Len(chunks) \in Nat
  OBVIOUS
<1>4. AC!Streamed(out) = [i \in 1..Len(chunks) |-> chunks[i]]
  BY <1>2, <1>3 DEF AC!Streamed
<1> QED
  BY <1>4

-----------------------------------------------------------------------------
(***************************************************************************)
(* The operators of keep_cited_sources and _retrieved_documents            *)
(***************************************************************************)

LEMMA ListIsSequence ==
    ASSUME NEW T, NEW n \in Nat, NEW list \in [1..n -> T]
    PROVE  list \in Seq(T) /\ Len(list) = n /\ DOMAIN list = 1..n
OBVIOUS

\* The size of a set is the same there and here.
LEMMA SameSize == \A S : AC!Cardinality(S) = Cardinality(S)
BY DEF AC!Cardinality, Cardinality

\* The numbers of a finite set are numbered 1, 2, ... without gap or repetition,
\* in their order.
LEMMA Numbering ==
    ASSUME NEW S \in SUBSET Nat, IsFiniteSet(S)
    PROVE  /\ Cardinality(S) \in Nat
           /\ \A n \in S : AC!NewNumber(S, n) \in 1..Cardinality(S)
           /\ \A m, n \in S : m < n => AC!NewNumber(S, m) < AC!NewNumber(S, n)
           /\ \A k \in 1..Cardinality(S) : \E n \in S : AC!NewNumber(S, n) = k
<1> DEFINE Below(n) == {m \in S : m <= n}
           size == Cardinality(S)
<1>1. size \in Nat
  BY FS_CardinalityType
<1>2. \A n \in S : /\ IsFiniteSet(Below(n))
                   /\ Cardinality(Below(n)) \in Nat
                   /\ Cardinality(Below(n)) <= size
  <2>1. TAKE n \in S
  <2>2. Below(n) \in SUBSET S
    OBVIOUS
  <2>3. IsFiniteSet(Below(n)) /\ Cardinality(Below(n)) <= size
    BY <2>2, FS_Subset
  <2> QED
    BY <2>3, FS_CardinalityType
<1>3. \A n \in S : Cardinality(Below(n)) # 0
  <2>1. TAKE n \in S
  <2>2. n \in Below(n)
    OBVIOUS
  <2> QED
    BY <1>2, <2>2, FS_EmptySet
<1>4. \A m, n \in S : m < n => Cardinality(Below(m)) < Cardinality(Below(n))
  <2>1. SUFFICES ASSUME NEW m \in S, NEW n \in S, m < n
                 PROVE  Cardinality(Below(m)) < Cardinality(Below(n))
    OBVIOUS
  <2>2. m \in Nat /\ n \in Nat
    OBVIOUS
  <2>3. Below(m) \in SUBSET Below(n)
    <3>1. ASSUME NEW x \in Below(m) PROVE x \in Below(n)
      <4>1. x \in S /\ x <= m
        OBVIOUS
      <4>2. x \in Nat
        BY <4>1
      <4> QED
        BY <2>1, <2>2, <4>1, <4>2
    <3> QED
      BY <3>1
  <2>4. n \in Below(n) /\ n \notin Below(m)
    BY <2>1, <2>2
  <2>5. Below(m) # Below(n)
    BY <2>4
  <2>6. /\ Cardinality(Below(m)) <= Cardinality(Below(n))
        /\ Cardinality(Below(m)) # Cardinality(Below(n))
    BY <1>2, <2>3, <2>5, FS_Subset
  <2> QED
    BY <1>2, <2>6
<1>5. \A n \in S : AC!NewNumber(S, n) = Cardinality(Below(n))
  BY SameSize DEF AC!NewNumber
<1> HIDE DEF Below
<1>6. \A n \in S : AC!NewNumber(S, n) \in 1..size
  BY <1>1, <1>2, <1>3, <1>5
<1>7. \A m, n \in S : m < n => AC!NewNumber(S, m) < AC!NewNumber(S, n)
  BY <1>4, <1>5
<1> DEFINE number == [n \in S |-> AC!NewNumber(S, n)]
<1>8. number \in [S -> 1..size]
  BY <1>6
<1>9. \A m, n \in S : number[m] = number[n] => m = n
  <2>1. SUFFICES ASSUME NEW m \in S, NEW n \in S, m # n
                 PROVE  number[m] # number[n]
    OBVIOUS
  <2>2. m < n \/ n < m
    BY <2>1
  <2>3. number[m] \in Int /\ number[n] \in Int
    BY <1>8
  <2>4. number[m] < number[n] \/ number[n] < number[m]
    BY <1>7, <2>2
  <2> QED
    BY <2>3, <2>4
<1>10. number \in Injection(S, 1..size)
  BY <1>8, <1>9 DEF Injection, IsInjective
<1>11. IsFiniteSet(1..size) /\ Cardinality(1..size) = size
  BY <1>1, FS_Interval
<1>12. number \in Surjection(S, 1..size)
  BY <1>10, <1>11, FS_Injection
<1>13. \A k \in 1..size : \E n \in S : number[n] = k
  BY <1>12 DEF Surjection
<1> QED
  BY <1>1, <1>6, <1>7, <1>13

\* InOrder is an increasing list of exactly the numbers of the set, and the place
\* of a number in it is its new number.
LEMMA InOrderLists ==
    ASSUME NEW S \in SUBSET Nat, IsFiniteSet(S), NEW list, list = AC!InOrder(S)
    PROVE  /\ Cardinality(S) \in Nat
           /\ list \in [1..Cardinality(S) -> S]
           /\ \A i, k \in 1..Cardinality(S) : i < k => list[i] < list[k]
           /\ \A n \in S : /\ AC!NewNumber(S, n) \in 1..Cardinality(S)
                           /\ list[AC!NewNumber(S, n)] = n
<1>1. /\ Cardinality(S) \in Nat
      /\ \A n \in S : AC!NewNumber(S, n) \in 1..Cardinality(S)
      /\ \A m, n \in S : m < n => AC!NewNumber(S, m) < AC!NewNumber(S, n)
      /\ \A k \in 1..Cardinality(S) : \E n \in S : AC!NewNumber(S, n) = k
  BY Numbering
<1>2. list = [k \in 1..Cardinality(S) |-> CHOOSE n \in S : AC!NewNumber(S, n) = k]
  BY SameSize DEF AC!InOrder
<1>3. \A k \in 1..Cardinality(S) : list[k] \in S /\ AC!NewNumber(S, list[k]) = k
  <2>1. TAKE k \in 1..Cardinality(S)
  <2>2. \E n \in S : AC!NewNumber(S, n) = k
    BY <1>1
  <2>3. list[k] = CHOOSE n \in S : AC!NewNumber(S, n) = k
    BY <1>2
  <2> QED
    BY <2>2, <2>3
<1>4. list \in [1..Cardinality(S) -> S]
  BY <1>2, <1>3
<1>5. \A n \in S : list[AC!NewNumber(S, n)] = n
  <2>1. TAKE n \in S
  <2> DEFINE k == AC!NewNumber(S, n)
             m == list[k]
  <2>2. k \in 1..Cardinality(S)
    BY <1>1
  <2>3. m \in S /\ AC!NewNumber(S, m) = k
    BY <1>3, <2>2
  <2>4. m \in Nat /\ n \in Nat
    BY <2>3
  <2>5. k \in Nat
    BY <2>2
  <2>6. m \in Nat /\ n \in Nat /\ k \in Nat
    BY <2>4, <2>5
  <2>7. AC!NewNumber(S, n) = k
    OBVIOUS
  <2> HIDE DEF m, k
  <2>8. ~(m < n) /\ ~(n < m)
    BY <1>1, <2>3, <2>6, <2>7
  <2>9. m = n
    BY <2>6, <2>8
  <2> QED
    BY <2>9 DEF m, k
<1>6. ASSUME NEW i \in 1..Cardinality(S), NEW k \in 1..Cardinality(S), i < k
      PROVE  list[i] < list[k]
  <2>1. /\ list[i] \in S /\ AC!NewNumber(S, list[i]) = i
        /\ list[k] \in S /\ AC!NewNumber(S, list[k]) = k
    BY <1>3
  <2>2. list[i] \in Nat /\ list[k] \in Nat
    BY <2>1
  <2>3. list[i] # list[k]
    BY <1>6, <2>1
  <2>4. ~(list[k] < list[i])
    <3>1. list[k] < list[i] => k < i
      BY <1>1, <2>1
    <3> QED
      BY <1>1, <1>6, <3>1
  <2> QED
    BY <2>2, <2>3, <2>4
<1> QED
  BY <1>1, <1>4, <1>5, <1>6

\* Retrieved chunks are a finite list; so are those that a text cites.
LEMMA HitsAreListed ==
    ASSUME NEW h \in AC!Hits
    PROVE  /\ h \in Seq(Docs)
           /\ DOMAIN h \in SUBSET Nat
           /\ IsFiniteSet(DOMAIN h)
           /\ DOMAIN h = 1..Len(h)
<1>1. PICK n \in 0..MaxHits : h \in [1..n -> Docs]
  BY DEF AC!Hits
<1>2. n \in Nat
  BY <1>1, StreamAssumption
<1>3. DOMAIN h = 1..n
  BY <1>1
<1>4. IsFiniteSet(1..n)
  BY <1>2, FS_Interval
<1>5. h \in Seq(Docs)
  BY <1>1, <1>2
<1> QED
  BY <1>2, <1>3, <1>4, <1>5

LEMMA CitedAreChunks ==
    ASSUME NEW h \in AC!Hits, NEW text
    PROVE  /\ AC!Cited(text, h) \in SUBSET DOMAIN h
           /\ AC!Cited(text, h) \in SUBSET Nat
           /\ IsFiniteSet(AC!Cited(text, h))
<1>1. AC!Cited(text, h) \in SUBSET DOMAIN h
  BY DEF AC!Cited
<1>2. IsFiniteSet(AC!Cited(text, h))
  BY <1>1, HitsAreListed, FS_Subset
<1> QED
  BY <1>1, <1>2, HitsAreListed

\* The sources are the cited chunks in rank order, each under its document, and
\* a chunk's new number is the place of its source.
LEMMA SourcesAreCited ==
    ASSUME NEW h \in AC!Hits, NEW text,
           NEW cited, cited = AC!Cited(text, h),
           NEW sources, sources = AC!Sources(cited, h)
    PROVE  /\ sources \in Seq(AC!Source)
           /\ DOMAIN sources = 1..Cardinality(cited)
           /\ \A i \in DOMAIN sources :
                 /\ sources[i].chunk \in cited
                 /\ sources[i].document = h[sources[i].chunk]
           /\ \A i, k \in DOMAIN sources : i < k => sources[i].chunk < sources[k].chunk
           /\ \A n \in cited :
                 /\ AC!NewNumber(cited, n) \in DOMAIN sources
                 /\ sources[AC!NewNumber(cited, n)].chunk = n
<1> DEFINE size == Cardinality(cited)
           old == AC!InOrder(cited)
<1>1. cited \in SUBSET DOMAIN h /\ cited \in SUBSET Nat /\ IsFiniteSet(cited)
  BY CitedAreChunks
<1>2. /\ size \in Nat
      /\ old \in [1..size -> cited]
      /\ \A i, k \in 1..size : i < k => old[i] < old[k]
      /\ \A n \in cited : AC!NewNumber(cited, n) \in 1..size /\ old[AC!NewNumber(cited, n)] = n
  BY <1>1, InOrderLists
<1>3. sources = [new \in DOMAIN old |->
                   [index |-> new, chunk |-> old[new], document |-> h[old[new]]]]
  BY DEF AC!Sources
<1> HIDE DEF old, size
<1>4. DOMAIN sources = 1..size
  BY <1>2, <1>3
<1>5. ASSUME NEW i \in 1..size
      PROVE  sources[i] = [index |-> i, chunk |-> old[i], document |-> h[old[i]]]
  BY <1>2, <1>3, <1>5
<1>6. ASSUME NEW i \in 1..size
      PROVE  /\ sources[i] \in AC!Source
             /\ sources[i].chunk = old[i]
             /\ sources[i].chunk \in cited
             /\ sources[i].document = h[old[i]]
  <2>1. old[i] \in cited /\ old[i] \in Nat /\ old[i] \in DOMAIN h
    BY <1>1, <1>2, <1>6
  <2>2. h[old[i]] \in Docs
    BY <2>1, HitsAreListed
  <2>3. i \in Nat
    BY <1>2
  <2>4. [index |-> i, chunk |-> old[i], document |-> h[old[i]]] \in AC!Source
    BY <2>1, <2>2, <2>3 DEF AC!Source
  <2>5. sources[i] = [index |-> i, chunk |-> old[i], document |-> h[old[i]]]
    BY <1>5, <1>6
  <2>6. sources[i] \in AC!Source
    BY <2>4, <2>5
  <2>7. sources[i].chunk = old[i] /\ sources[i].document = h[old[i]]
    BY <2>5
  <2> QED
    BY <2>1, <2>6, <2>7
<1>7. sources = [i \in 1..size |-> sources[i]]
  BY <1>2, <1>3
<1>8. sources \in [1..size -> AC!Source]
  BY <1>6, <1>7
<1>9. sources \in Seq(AC!Source)
  BY <1>2, <1>8
<1> QED
  BY <1>2, <1>4, <1>6, <1>9 DEF size

\* Every retrieved chunk's document is announced, once for each document, with a
\* number of chunks.
LEMMA DocumentsAreAnnounced ==
    ASSUME NEW h \in AC!Hits, NEW announced, announced = AC!RetrievedDocuments(h)
    PROVE  /\ announced \in Seq([document : Docs, chunks : Nat])
           /\ \A i \in DOMAIN h : \E k \in DOMAIN announced : announced[k].document = h[i]
<1> DEFINE F == {i \in DOMAIN h : \A k \in 1..(i - 1) : h[k] # h[i]}
           size == Cardinality(F)
           firsts == AC!InOrder(F)
           Of(d) == {i \in DOMAIN h : h[i] = d}
<1>1. /\ h \in Seq(Docs) /\ DOMAIN h \in SUBSET Nat /\ IsFiniteSet(DOMAIN h)
      /\ DOMAIN h = 1..Len(h)
  BY HitsAreListed
<1>2. F \in SUBSET Nat /\ IsFiniteSet(F) /\ F \in SUBSET DOMAIN h
  <2>1. F \in SUBSET DOMAIN h
    OBVIOUS
  <2>2. IsFiniteSet(F)
    BY <1>1, <2>1, FS_Subset
  <2> QED
    BY <1>1, <2>1, <2>2
<1>3. /\ size \in Nat
      /\ firsts \in [1..size -> F]
      /\ \A n \in F : AC!NewNumber(F, n) \in 1..size /\ firsts[AC!NewNumber(F, n)] = n
  BY <1>2, InOrderLists
<1>4. announced = [n \in DOMAIN firsts |->
                     [document |-> h[firsts[n]], chunks |-> Cardinality(Of(h[firsts[n]]))]]
  BY SameSize DEF AC!RetrievedDocuments
<1>5. \A d : IsFiniteSet(Of(d)) /\ Cardinality(Of(d)) \in Nat
  <2>1. TAKE d
  <2>2. Of(d) \in SUBSET DOMAIN h
    OBVIOUS
  <2> QED
    BY <1>1, <2>2, FS_Subset, FS_CardinalityType
<1>6. \A i \in DOMAIN h : \E n \in F : h[n] = h[i]
  <2>1. TAKE i \in DOMAIN h
  <2> DEFINE same == Of(h[i])
  <2>2. same \in SUBSET Nat /\ IsFiniteSet(same) /\ i \in same
    BY <1>1, <1>5
  <2>3. Cardinality(same) # 0 /\ Cardinality(same) \in Nat
    BY <1>5, <2>2, FS_EmptySet
  <2>4. 1 \in 1..Cardinality(same)
    BY <2>3
  <2>5. PICK n \in same : AC!NewNumber(same, n) = 1
    BY <2>2, <2>4, Numbering
  <2>6. n \in DOMAIN h /\ h[n] = h[i] /\ n \in Nat
    BY <1>1, <2>5
  <2>7. ASSUME NEW k \in 1..(n - 1), h[k] = h[n] PROVE FALSE
    <3>1. k \in DOMAIN h /\ k < n /\ k \in Nat
      BY <1>1, <2>6, <2>7
    <3>2. k \in same
      BY <2>6, <2>7, <3>1
    <3>3. AC!NewNumber(same, k) < AC!NewNumber(same, n)
      BY <2>2, <3>1, <3>2, Numbering
    <3>4. AC!NewNumber(same, k) \in 1..Cardinality(same)
      BY <2>2, <3>2, Numbering
    <3> QED
      BY <2>3, <2>5, <3>3, <3>4
  <2>8. n \in F
    BY <2>6, <2>7
  <2> QED
    BY <2>6, <2>8
<1> HIDE DEF F, size, firsts, Of
<1>7. DOMAIN announced = 1..size
  BY <1>3, <1>4
<1>8. ASSUME NEW k \in 1..size
      PROVE  /\ announced[k] \in [document : Docs, chunks : Nat]
             /\ announced[k].document = h[firsts[k]]
  <2>1. announced[k] = [document |-> h[firsts[k]], chunks |-> Cardinality(Of(h[firsts[k]]))]
    BY <1>3, <1>4, <1>8
  <2>2. firsts[k] \in DOMAIN h
    BY <1>2, <1>3, <1>8
  <2>3. h[firsts[k]] \in Docs
    BY <1>1, <2>2
  <2> QED
    BY <1>5, <2>1, <2>3
<1>9. announced \in Seq([document : Docs, chunks : Nat])
  <2>1. announced = [k \in 1..size |-> announced[k]]
    BY <1>3, <1>4
  <2>2. announced \in [1..size -> [document : Docs, chunks : Nat]]
    BY <1>8, <2>1
  <2> QED
    BY <1>3, <2>2, ListIsSequence
<1>10. ASSUME NEW i \in DOMAIN h
       PROVE  \E k \in DOMAIN announced : announced[k].document = h[i]
  <2>1. PICK n \in F : h[n] = h[i]
    BY <1>6
  <2>2. AC!NewNumber(F, n) \in 1..size /\ firsts[AC!NewNumber(F, n)] = n
    BY <1>3
  <2> QED
    BY <1>7, <1>8, <2>1, <2>2
<1> QED
  BY <1>9, <1>10

\* What a marker keeps: the numbers that are cited, in their order, each renumbered.
MarkerKept(token, cited, shown) ==
    \E place \in [DOMAIN shown -> DOMAIN token] :
        /\ \A k, l \in DOMAIN shown : k < l => place[k] < place[l]
        /\ \A k \in DOMAIN shown :
              /\ token[place[k]] \in cited
              /\ shown[k] = AC!NewNumber(cited, token[place[k]])
        /\ \A p \in DOMAIN token : token[p] \in cited =>
              \E k \in DOMAIN shown : place[k] = p

LEMMA MarkerKeeps ==
    ASSUME NEW token \in Seq(Nat), NEW cited \in SUBSET Nat, IsFiniteSet(cited),
           NEW shown, shown = AC!Rewrite(token, cited)
    PROVE  /\ shown \in Seq(Nat)
           /\ MarkerKept(token, cited, shown)
<1> DEFINE P == {k \in DOMAIN token : token[k] \in cited}
           size == Cardinality(P)
           place == AC!InOrder(P)
<1>1. DOMAIN token = 1..Len(token) /\ Len(token) \in Nat /\ IsFiniteSet(1..Len(token))
  BY FS_Interval
<1>2. P \in SUBSET DOMAIN token /\ P \in SUBSET Nat
  BY <1>1
<1>3. IsFiniteSet(P)
  BY <1>1, <1>2, FS_Subset
<1>4. /\ size \in Nat
      /\ place \in [1..size -> P]
      /\ \A k, l \in 1..size : k < l => place[k] < place[l]
      /\ \A p \in P : AC!NewNumber(P, p) \in 1..size /\ place[AC!NewNumber(P, p)] = p
  BY <1>2, <1>3, InOrderLists
<1>5. \A k \in 1..size : place[k] \in DOMAIN token /\ token[place[k]] \in cited
  BY <1>4
<1>6. shown = [k \in DOMAIN place |-> AC!NewNumber(cited, token[place[k]])]
  BY DEF AC!Rewrite
<1>7. \A p \in DOMAIN token : token[p] \in cited => p \in P
  OBVIOUS
<1> HIDE DEF P, size, place
<1>8. DOMAIN shown = 1..size /\ place \in [DOMAIN shown -> DOMAIN token]
  BY <1>2, <1>4, <1>6
<1>9. \A k \in 1..size : shown[k] = AC!NewNumber(cited, token[place[k]])
  BY <1>4, <1>6
<1>10. ASSUME NEW k \in 1..size PROVE shown[k] \in Nat
  <2>1. AC!NewNumber(cited, token[place[k]]) \in 1..Cardinality(cited)
    BY <1>5, Numbering
  <2> QED
    BY <1>9, <2>1
<1>11. shown \in [1..size -> Nat]
  BY <1>4, <1>6, <1>8, <1>10
<1>12. shown \in Seq(Nat)
  BY <1>4, <1>11, ListIsSequence
<1>13. \A p \in DOMAIN token : token[p] \in cited => \E k \in DOMAIN shown : place[k] = p
  BY <1>4, <1>7, <1>8
<1> QED
  BY <1>4, <1>5, <1>8, <1>9, <1>12, <1>13 DEF MarkerKept

Survives(token, cited) ==
    token = AC!Text \/ \E k \in DOMAIN token : token[k] \in cited

\* What a text keeps: the plain text and the markers that name a cited chunk, in
\* their order, each marker rewritten.
TextKept(text, cited, shown) ==
    \E place \in [DOMAIN shown -> DOMAIN text] :
        /\ \A i, j \in DOMAIN shown : i < j => place[i] < place[j]
        /\ \A i \in DOMAIN shown : shown[i] = AC!Rewrite(text[place[i]], cited)
        /\ \A p \in DOMAIN text : Survives(text[p], cited) <=>
              \E i \in DOMAIN shown : place[i] = p

LEMMA TextKeeps ==
    ASSUME NEW text \in Seq(Seq(Nat)), NEW cited \in SUBSET Nat, IsFiniteSet(cited),
           NEW shown, shown = AC!Shown(text, cited)
    PROVE  /\ shown \in AC!ShownText
           /\ TextKept(text, cited, shown)
<1> DEFINE P == {i \in DOMAIN text : Survives(text[i], cited)}
           size == Cardinality(P)
           place == AC!InOrder(P)
           rewritten == [i \in DOMAIN text |-> AC!Rewrite(text[i], cited)]
<1>1. DOMAIN text = 1..Len(text) /\ Len(text) \in Nat /\ IsFiniteSet(1..Len(text))
  BY FS_Interval
<1>2. P \in SUBSET DOMAIN text /\ P \in SUBSET Nat
  BY <1>1
<1>3. IsFiniteSet(P)
  BY <1>1, <1>2, FS_Subset
<1>4. /\ size \in Nat
      /\ place \in [1..size -> P]
      /\ \A i, j \in 1..size : i < j => place[i] < place[j]
      /\ \A p \in P : AC!NewNumber(P, p) \in 1..size /\ place[AC!NewNumber(P, p)] = p
  BY <1>2, <1>3, InOrderLists
<1>5. shown = [i \in DOMAIN place |-> rewritten[place[i]]]
  BY DEF AC!Shown, Survives
<1>6. \A p \in DOMAIN text : rewritten[p] = AC!Rewrite(text[p], cited)
  OBVIOUS
<1>7. \A p \in DOMAIN text : Survives(text[p], cited) => p \in P
  OBVIOUS
<1>8. \A p \in P : Survives(text[p], cited)
  OBVIOUS
<1>9. \A p \in DOMAIN text : AC!Rewrite(text[p], cited) \in Seq(Nat)
  <2>1. TAKE p \in DOMAIN text
  <2>2. text[p] \in Seq(Nat)
    OBVIOUS
  <2> QED
    BY <2>2, MarkerKeeps
<1> HIDE DEF P, size, place, rewritten
<1>10. DOMAIN shown = 1..size /\ place \in [DOMAIN shown -> DOMAIN text]
  BY <1>2, <1>4, <1>5
<1>11. \A i \in 1..size : shown[i] = AC!Rewrite(text[place[i]], cited)
  BY <1>4, <1>5, <1>6, <1>10
<1>12. shown \in [1..size -> Seq(Nat)]
  BY <1>4, <1>5, <1>9, <1>10, <1>11
<1>13. shown \in AC!ShownText
  BY <1>4, <1>12, ListIsSequence DEF AC!ShownText
<1>14. \A p \in DOMAIN text : Survives(text[p], cited) <=> \E i \in DOMAIN shown : place[i] = p
  BY <1>4, <1>7, <1>8, <1>10
<1> QED
  BY <1>4, <1>10, <1>11, <1>13, <1>14 DEF TextKept

LEMMA TextIsNumbers ==
    ASSUME NEW text \in Seq(Tokens)
    PROVE  text \in Seq(Seq(Nat))
<1>1. text \in [1..Len(text) -> Seq(Nat)] /\ Len(text) \in Nat
  BY StreamAssumption
<1> QED
  BY <1>1, ListIsSequence

\* What keep_cited_sources returns for a text.
LEMMA KeptParts ==
    ASSUME NEW h \in AC!Hits, NEW text \in Seq(Tokens),
           NEW cited, cited = AC!Cited(text, h)
    PROVE  /\ AC!KeepCited(text, h).answer = AC!Shown(text, cited)
           /\ AC!KeepCited(text, h).citations = AC!Sources(cited, h)
           /\ AC!Shown(text, cited) \in AC!ShownText
           /\ AC!Sources(cited, h) \in Seq(AC!Source)
<1>1. text \in Seq(Seq(Nat))
  BY TextIsNumbers
<1>2. cited \in SUBSET Nat /\ IsFiniteSet(cited)
  BY CitedAreChunks
<1>3. AC!Shown(text, cited) \in AC!ShownText
  BY <1>1, <1>2, TextKeeps
<1>4. AC!Sources(cited, h) \in Seq(AC!Source)
  BY SourcesAreCited
<1>5. AC!KeepCited(text, h) = [answer |-> AC!Shown(text, cited),
                               citations |-> AC!Sources(cited, h)]
  BY DEF AC!KeepCited
<1> QED
  BY <1>3, <1>4, <1>5

LEMMA GroundingType ==
    ASSUME NEW h \in AC!Hits, NEW citations \in Seq(AC!Source), NEW refused \in BOOLEAN
    PROVE  AC!Grounding(h, citations, refused) \in
               [retrieved_chunks : Nat, cited_chunks : Nat, cited_documents : Nat,
                refused : BOOLEAN]
<1> DEFINE D == {citations[i].document : i \in DOMAIN citations}
           document == [i \in DOMAIN citations |-> citations[i].document]
<1>1. /\ DOMAIN citations = 1..Len(citations) /\ Len(citations) \in Nat
      /\ IsFiniteSet(DOMAIN citations)
  BY FS_Interval
<1>2. document \in Surjection(DOMAIN citations, D)
  BY DEF Surjection
<1>3. IsFiniteSet(D)
  BY <1>1, <1>2, FS_Surjection
<1>4. Cardinality(D) \in Nat
  BY <1>3, FS_CardinalityType
<1>5. Len(h) \in Nat
  BY HitsAreListed
<1>6. AC!Grounding(h, citations, refused) =
        [retrieved_chunks |-> Len(h), cited_chunks |-> Len(citations),
         cited_documents |-> Cardinality(D), refused |-> refused]
  BY SameSize DEF AC!Grounding
<1> HIDE DEF D, document
<1> QED
  BY <1>1, <1>4, <1>5, <1>6

\* Every event that the generator can yield is one of those documented.
LEMMA EventsAreTyped == AnyEvent \subseteq AC!Event
<1>1. ASSUME NEW h \in AC!Hits PROVE AC!RetrievedEvent(h) \in AC!Event
  <2>1. AC!RetrievedDocuments(h) \in Seq([document : Docs, chunks : Nat])
    BY DocumentsAreAnnounced
  <2> QED
    BY <2>1 DEF AC!RetrievedEvent, AC!Event
<1>2. << >> \in Seq(Nat)
  OBVIOUS
<1>3. ASSUME NEW token \in Tokens \cup {AC!NoEvidence}
      PROVE  AC!DeltaEvent(token) \in AC!Event
  <2>1. token \in Seq(Nat)
    BY <1>2, StreamAssumption DEF AC!NoEvidence, AC!Text
  <2> QED
    BY <2>1 DEF AC!DeltaEvent, AC!Event
<1>4. ASSUME NEW result \in AnyResult PROVE result \in AC!Result
  <2>1. ASSUME NEW h \in AC!Hits, result = AC!Refusal(h) PROVE result \in AC!Result
    <3>1. << >> \in Seq(AC!Source)
      OBVIOUS
    <3>2. <<AC!NoEvidence>> \in AC!ShownText
      BY <1>2 DEF AC!NoEvidence, AC!Text, AC!ShownText
    <3>3. AC!Grounding(h, << >>, TRUE) \in
            [retrieved_chunks : Nat, cited_chunks : Nat, cited_documents : Nat,
             refused : BOOLEAN]
      BY <3>1, GroundingType
    <3> QED
      BY <2>1, <3>1, <3>2, <3>3 DEF AC!Refusal, AC!Result
  <2>2. ASSUME NEW h \in AC!Hits, NEW text \in Seq(Tokens), result = AC!Composed(h, text)
        PROVE  result \in AC!Result
    <3> DEFINE kept == AC!KeepCited(text, h)
    <3>1. kept.answer \in AC!ShownText /\ kept.citations \in Seq(AC!Source)
      BY KeptParts
    <3>2. AC!Grounding(h, kept.citations, FALSE) \in
            [retrieved_chunks : Nat, cited_chunks : Nat, cited_documents : Nat,
             refused : BOOLEAN]
      BY <3>1, GroundingType
    <3>3. result = [answer |-> kept.answer, citations |-> kept.citations,
                    grounding |-> AC!Grounding(h, kept.citations, FALSE)]
      BY <2>2 DEF AC!Composed
    <3> HIDE DEF kept
    <3> QED
      BY <3>1, <3>2, <3>3 DEF AC!Result
  <2> QED
    BY <2>1, <2>2 DEF AnyResult
<1>5. ASSUME NEW result \in AnyResult PROVE AC!DoneEvent(result) \in AC!Event
  <2>1. result \in AC!Result
    BY <1>4
  <2> QED
    BY <2>1 DEF AC!DoneEvent, AC!Event
<1> QED
  BY <1>1, <1>3, <1>5 DEF AnyEvent

-----------------------------------------------------------------------------
(***************************************************************************)
(* The evidence of an answer                                               *)
(***************************************************************************)

LEMMA ShownPointsToMeant ==
    ASSUME NEW h \in AC!Hits, NEW text \in Seq(Tokens),
           NEW cited, cited = AC!Cited(text, h),
           NEW answer, answer = AC!Shown(text, cited),
           NEW citations, citations = AC!Sources(cited, h)
    PROVE  PointsToMeant(text, h, answer, citations) /\ SourcesAreUsed(h, answer, citations)
<1>1. /\ cited \in SUBSET DOMAIN h /\ cited \in SUBSET Nat /\ IsFiniteSet(cited)
      /\ text \in Seq(Seq(Nat))
  BY CitedAreChunks, TextIsNumbers
<1>2. \A p \in DOMAIN text : \A q \in DOMAIN text[p] :
        text[p][q] \in DOMAIN h <=> text[p][q] \in cited
  BY <1>1 DEF AC!Cited
<1>3. TextKept(text, cited, answer)
  BY <1>1, TextKeeps
<1>4. PICK place \in [DOMAIN answer -> DOMAIN text] :
        /\ \A i, j \in DOMAIN answer : i < j => place[i] < place[j]
        /\ \A i \in DOMAIN answer : answer[i] = AC!Rewrite(text[place[i]], cited)
        /\ \A p \in DOMAIN text : Survives(text[p], cited) <=>
              \E i \in DOMAIN answer : place[i] = p
  BY <1>3 DEF TextKept
<1>5. /\ DOMAIN citations = 1..Cardinality(cited)
      /\ \A s \in DOMAIN citations :
            citations[s].chunk \in cited /\ citations[s].document = h[citations[s].chunk]
      /\ \A s, t \in DOMAIN citations : s < t => citations[s].chunk < citations[t].chunk
      /\ \A n \in cited :
            /\ AC!NewNumber(cited, n) \in DOMAIN citations
            /\ citations[AC!NewNumber(cited, n)].chunk = n
  BY SourcesAreCited
<1>6. ASSUME NEW i \in DOMAIN answer
      PROVE  MarkerKept(text[place[i]], cited, answer[i])
  <2>1. text[place[i]] \in Seq(Nat) /\ answer[i] = AC!Rewrite(text[place[i]], cited)
    BY <1>1, <1>4
  <2> QED
    BY <1>1, <2>1, MarkerKeeps
<1>7. PointsToMeant(text, h, answer, citations)
  <2>1. ASSUME NEW p \in DOMAIN text
        PROVE  (text[p] = AC!Text \/ \E k \in DOMAIN text[p] : text[p][k] \in DOMAIN h)
                   <=> \E i \in DOMAIN answer : place[i] = p
    <3>1. (text[p] = AC!Text \/ \E k \in DOMAIN text[p] : text[p][k] \in DOMAIN h)
             <=> Survives(text[p], cited)
      BY <1>2 DEF Survives
    <3> QED
      BY <1>4, <3>1
  <2>2. ASSUME NEW i \in DOMAIN answer
        PROVE  \E mark \in [DOMAIN answer[i] -> DOMAIN text[place[i]]] :
                  /\ \A k, l \in DOMAIN answer[i] : k < l => mark[k] < mark[l]
                  /\ \A q \in DOMAIN text[place[i]] :
                        text[place[i]][q] \in DOMAIN h
                            => \E k \in DOMAIN answer[i] : mark[k] = q
                  /\ \A k \in DOMAIN answer[i] :
                        /\ answer[i][k] \in DOMAIN citations
                        /\ citations[answer[i][k]].chunk = text[place[i]][mark[k]]
    <3>1. PICK mark \in [DOMAIN answer[i] -> DOMAIN text[place[i]]] :
                /\ \A k, l \in DOMAIN answer[i] : k < l => mark[k] < mark[l]
                /\ \A k \in DOMAIN answer[i] :
                      /\ text[place[i]][mark[k]] \in cited
                      /\ answer[i][k] = AC!NewNumber(cited, text[place[i]][mark[k]])
                /\ \A q \in DOMAIN text[place[i]] : text[place[i]][q] \in cited =>
                      \E k \in DOMAIN answer[i] : mark[k] = q
      BY <1>6 DEF MarkerKept
    <3>2. place[i] \in DOMAIN text
      BY <1>4
    <3>3. \A q \in DOMAIN text[place[i]] :
            text[place[i]][q] \in DOMAIN h => \E k \in DOMAIN answer[i] : mark[k] = q
      BY <1>2, <3>1, <3>2
    <3>4. \A k \in DOMAIN answer[i] :
            /\ answer[i][k] \in DOMAIN citations
            /\ citations[answer[i][k]].chunk = text[place[i]][mark[k]]
      BY <1>5, <3>1
    <3> QED
      BY <3>1, <3>3, <3>4
  <2> QED
    BY <1>4, <2>1, <2>2 DEF PointsToMeant
<1>8. SourcesAreUsed(h, answer, citations)
  <2>1. ASSUME NEW s \in DOMAIN citations
        PROVE  \E i \in DOMAIN answer : \E k \in DOMAIN answer[i] : answer[i][k] = s
    <3> DEFINE n == citations[s].chunk
    <3>1. n \in cited /\ n \in DOMAIN h
      BY <1>1, <1>5
    <3>2. AC!NewNumber(cited, n) = s
      <4> DEFINE t == AC!NewNumber(cited, n)
      <4>1. t \in DOMAIN citations /\ citations[t].chunk = n
        BY <1>5, <3>1
      <4>2. s \in Int /\ t \in Int /\ n \in Nat
        BY <1>1, <1>5, <3>1, <4>1
      <4>3. s < t => citations[s].chunk < citations[t].chunk
        BY <1>5, <4>1
      <4>4. t < s => citations[t].chunk < citations[s].chunk
        BY <1>5, <4>1
      <4> HIDE DEF t
      <4>5. ~(s < t) /\ ~(t < s)
        BY <4>1, <4>2, <4>3, <4>4
      <4>6. t = s
        BY <4>2, <4>5
      <4> QED
        BY <4>6 DEF t
    <3>3. PICK p \in DOMAIN text : \E q \in DOMAIN text[p] : text[p][q] = n
      BY <3>1 DEF AC!Cited
    <3>4. PICK q \in DOMAIN text[p] : text[p][q] = n
      BY <3>3
    <3>5. Survives(text[p], cited)
      BY <3>1, <3>4 DEF Survives
    <3>6. PICK i \in DOMAIN answer : place[i] = p
      BY <1>4, <3>5
    <3>7. PICK k \in DOMAIN answer[i] : answer[i][k] = AC!NewNumber(cited, n)
      BY <1>6, <3>1, <3>4, <3>6 DEF MarkerKept
    <3> QED
      BY <3>2, <3>7
  <2> QED
    BY <1>1, <1>5, <2>1 DEF SourcesAreUsed
<1> QED
  BY <1>7, <1>8

-----------------------------------------------------------------------------
LEMMA NoHits == << >> \in AC!Hits
<1>1. << >> \in [1..0 -> Docs]
  OBVIOUS
<1>2. 0 \in 0..MaxHits
  BY StreamAssumption
<1> QED
  BY <1>1, <1>2 DEF AC!Hits

LEMMA StreamInit == Init => StreamInv
<1> SUFFICES ASSUME Init PROVE StreamInv
  OBVIOUS
<1>1. TypesInv
  BY NoHits DEF Init, TypesInv, Place
<1>2. EventsInv
  BY DEF Init, EventsInv
<1>3. RecordInv
  BY DEF Init, RecordInv, RecordedOnce, RecordAgrees, Ending
<1> QED
  BY <1>1, <1>2, <1>3 DEF StreamInv

\* The result that a finished generation yields is what either endpoint makes of its text.
LEMMA WholeIsComposed == Whole = AC!Composed(hits, chunks)
BY DEF Whole, Kept, AC!Composed

\* Types: the only steps that matter are those that yield or receive something.
LEMMA TypesStep ==
    ASSUME StreamInv, [Next]_vars
    PROVE  TypesInv'
<1> USE DEF TypesInv, StreamInv, Place
<1>1. CASE Retrieve
  <2>1. PICK found \in AC!Hits :
           /\ hits' = found
           /\ \/ Yield(AC!DeltaEvent(AC!NoEvidence), "refusal")
              \/ found # << >> /\ Yield(AC!RetrievedEvent(found), "retrieved")
    BY <1>1 DEF Retrieve
  <2>2. AC!DeltaEvent(AC!NoEvidence) \in AnyEvent /\ AC!RetrievedEvent(found) \in AnyEvent
    BY DEF AnyEvent
  <2>3. chunks' = chunks
    BY <1>1 DEF Retrieve
  <2> QED
    BY <2>1, <2>2, <2>3 DEF Yield, InRefusal, InTry
<1>2. CASE FinishRefusal
  <2>1. AC!DoneEvent(Refusal) \in AnyEvent
    BY DEF AnyEvent, AnyResult, Refusal
  <2> QED
    BY <1>2, <2>1 DEF FinishRefusal, Yield, InRefusal
<1>3. CASE Fragment
  <2>1. PICK token \in Tokens : /\ chunks' = Append(chunks, token)
                                /\ Yield(AC!DeltaEvent(token), "delta")
    BY <1>3 DEF Fragment
  <2>2. AC!DeltaEvent(token) \in AnyEvent
    BY DEF AnyEvent
  <2> QED
    BY <1>3, <2>1, <2>2 DEF Fragment, Yield, InTry
<1>4. CASE Finish
  <2>1. AC!DoneEvent(Whole) \in AnyEvent
    BY WholeIsComposed DEF AnyEvent, AnyResult
  <2>2. /\ out' = Append(out, AC!DoneEvent(Whole))
        /\ at' = "done"
        /\ hits' = hits
        /\ chunks' = chunks
    BY <1>4 DEF Finish, Yield
  <2> QED
    BY <2>1, <2>2 DEF InTry
<1>5. ASSUME \/ RetrieveFailed \/ EndRefusal \/ StartGeneration \/ Connect
             \/ ConnectFailed \/ Rejected \/ EmptyFragment \/ Resume
             \/ TimedOut \/ Broken \/ End \/ Close \/ UNCHANGED vars
      PROVE  TypesInv'
  <2>1. hits' = hits /\ chunks' = chunks /\ out' = out
    BY <1>5 DEF RetrieveFailed, EndRefusal, StartGeneration, Connect,
         ConnectFailed, Rejected, EmptyFragment, Resume, TimedOut, Broken, End,
         Close, vars
  <2>2. at' \in Place
    BY <1>5 DEF RetrieveFailed, EndRefusal, StartGeneration, Connect,
         ConnectFailed, Rejected, EmptyFragment, Resume, TimedOut, Broken, End,
         Close, vars, Retry, Ending
  <2> QED
    BY <2>1, <2>2
<1> QED
  BY <1>1, <1>2, <1>3, <1>4, <1>5 DEF Next, Generate

\* Events: a step that yields adds one event and, inside the try, one chunk.
LEMMA EventsStep ==
    ASSUME StreamInv, [Next]_vars
    PROVE  EventsInv'
<1> USE DEF StreamInv, EventsInv
<1>1. CASE Retrieve
  <2>1. PICK found \in AC!Hits :
           /\ hits' = found
           /\ \/ Yield(AC!DeltaEvent(AC!NoEvidence), "refusal")
              \/ found # << >> /\ Yield(AC!RetrievedEvent(found), "retrieved")
    BY <1>1 DEF Retrieve
  <2>2. out = << >> /\ chunks = << >> /\ chunks' = << >>
    BY <1>1 DEF Retrieve
  <2>3. ASSUME Yield(AC!DeltaEvent(AC!NoEvidence), "refusal")
        PROVE  EventsInv'
    BY <2>2, <2>3 DEF Yield
  <2>4. ASSUME found # << >>, Yield(AC!RetrievedEvent(found), "retrieved")
        PROVE  EventsInv'
    <3>1. out' = <<AC!RetrievedEvent(found)>> /\ at' = "retrieved"
      BY <2>2, <2>4 DEF Yield
    <3>2. Told'
      BY <2>1, <2>2, <2>4, <3>1 DEF Told
    <3> QED
      BY <2>2, <3>1, <3>2
  <2> QED
    BY <2>1, <2>3, <2>4
<1>2. CASE FinishRefusal
  <2>1. /\ out = <<AC!DeltaEvent(AC!NoEvidence)>>
        /\ out' = Append(out, AC!DoneEvent(AC!Refusal(hits)))
        /\ hits' = hits
        /\ at' = "refused"
    BY <1>2 DEF FinishRefusal, Yield, Refusal
  <2>2. /\ Len(out') = 2
        /\ out'[1] = AC!DeltaEvent(AC!NoEvidence)
        /\ out'[2] = AC!DoneEvent(AC!Refusal(hits))
    BY <2>1 DEF TypesInv
  <2> QED
    BY <2>1, <2>2
<1>3. CASE Fragment
  <2>1. PICK token \in Tokens : /\ chunks' = Append(chunks, token)
                                /\ out' = Append(out, AC!DeltaEvent(token))
                                /\ at' = "delta"
    BY <1>3 DEF Fragment, Yield
  <2>2. hits' = hits /\ Told /\ Len(out) = Len(chunks) + 1
    BY <1>3 DEF Fragment
  <2>3. Len(chunks') = Len(chunks) + 1 /\ Len(out') = Len(out) + 1
    BY <2>1 DEF TypesInv
  <2>4. out'[1] = out[1]
    BY <2>1, <2>2 DEF TypesInv
  <2>5. \A i \in 1..Len(chunks') : out'[i + 1] = AC!DeltaEvent(chunks'[i])
    <3>1. TAKE i \in 1..Len(chunks')
    <3>2. CASE i = Len(chunks')
      BY <2>1, <2>2, <2>3, <3>2 DEF TypesInv
    <3>3. CASE i \in 1..Len(chunks)
      <4>1. out'[i + 1] = out[i + 1] /\ chunks'[i] = chunks[i]
        BY <2>1, <2>2, <3>3 DEF TypesInv
      <4> QED
        BY <2>2, <3>3, <4>1 DEF Told
    <3> QED
      BY <2>3, <3>1, <3>2, <3>3 DEF TypesInv
  <2>6. Told'
    BY <2>2, <2>3, <2>4, <2>5 DEF Told
  <2> QED
    BY <2>1, <2>2, <2>3, <2>6
<1>4. CASE Finish
  <2>1. /\ out' = Append(out, AC!DoneEvent(AC!Composed(hits, chunks)))
        /\ at' = "done"
        /\ hits' = hits
        /\ chunks' = chunks
    BY <1>4, WholeIsComposed DEF Finish, Yield
  <2>2. Told /\ Len(out) = Len(chunks) + 1
    BY <1>4 DEF Finish
  <2>3. Len(out') = Len(chunks) + 2 /\ Len(chunks) \in Nat
    BY <2>1, <2>2 DEF TypesInv
  <2>4. \A i \in 1..(Len(chunks) + 1) : out'[i] = out[i]
    BY <2>1, <2>2 DEF TypesInv
  <2>5. out'[Len(out')] = AC!DoneEvent(AC!Composed(hits, chunks))
    BY <2>1, <2>2, <2>3 DEF TypesInv
  <2>6. Told'
    BY <2>1, <2>2, <2>3, <2>4 DEF Told
  <2> QED
    BY <2>1, <2>3, <2>5, <2>6
<1>5. CASE StartGeneration
  <2>1. UNCHANGED <<hits, chunks, out>> /\ at' = "open"
    BY <1>5 DEF StartGeneration
  <2> QED
    BY <1>5, <2>1 DEF StartGeneration, Told
<1>6. ASSUME \/ Connect \/ ConnectFailed \/ EmptyFragment \/ Resume \/ TimedOut
      PROVE  EventsInv'
  <2>1. UNCHANGED <<hits, chunks, out>> /\ at \in {"open", "read", "delta"}
    BY <1>6 DEF Connect, ConnectFailed, EmptyFragment, Resume, TimedOut
  <2>2. at' \in {"open", "read", "raised"}
    BY <1>6 DEF Connect, ConnectFailed, EmptyFragment, Resume, TimedOut, Retry
  <2> QED
    BY <2>1, <2>2 DEF Told
<1>7. ASSUME RetrieveFailed \/ EndRefusal \/ Rejected \/ Broken \/ End \/ Close
      PROVE  EventsInv'
  <2>1. at' \in Ending
    BY <1>7 DEF RetrieveFailed, EndRefusal, Rejected, Broken, End, Close, Ending
  <2> QED
    BY <2>1 DEF Ending
<1>8. CASE UNCHANGED vars
  BY <1>8 DEF vars, Told
<1> QED
  BY <1>1, <1>2, <1>3, <1>4, <1>5, <1>6, <1>7, <1>8 DEF Next, Generate

-----------------------------------------------------------------------------
\* Before the last event no result has been sent.
LEMMA NoResults ==
    ASSUME TypesInv, Told, Len(out) = Len(chunks) + 1
    PROVE  Results = {}
<1>1. \A i \in 1..Len(chunks) : out[i + 1].type = "delta"
  BY EventTypes DEF Told, TypesInv
<1>2. out[1].type = "retrieved"
  BY EventTypes DEF Told, TypesInv
<1>3. ASSUME NEW i \in DOMAIN out PROVE out[i].type # "done"
  <2>1. CASE i = 1
    BY <1>2, <2>1
  <2>2. CASE i # 1
    <3>1. i - 1 \in 1..Len(chunks) /\ (i - 1) + 1 = i
      BY <2>2 DEF TypesInv
    <3> QED
      BY <1>1, <3>1
  <2> QED
    BY <2>1, <2>2
<1> QED
  BY <1>3 DEF Results

\* After it there is exactly one.
LEMMA OneResult ==
    ASSUME TypesInv, EventsInv, at = "done"
    PROVE  Results = {Whole}
<1>1. Told /\ Len(out) = Len(chunks) + 2
  BY DEF EventsInv
<1>2. out[Len(out)] = AC!DoneEvent(Whole)
  BY WholeIsComposed DEF EventsInv
<1>3. \A i \in 1..Len(chunks) : out[i + 1].type = "delta"
  BY <1>1, EventTypes DEF Told, TypesInv
<1>4. out[1].type = "retrieved"
  BY <1>1, EventTypes DEF Told, TypesInv
<1>5. ASSUME NEW i \in DOMAIN out, i # Len(out) PROVE out[i].type # "done"
  <2>1. CASE i = 1
    BY <1>4, <2>1
  <2>2. CASE i # 1
    <3>1. i - 1 \in 1..Len(chunks) /\ (i - 1) + 1 = i
      BY <1>1, <1>5, <2>2 DEF TypesInv
    <3> QED
      BY <1>3, <3>1
  <2> QED
    BY <2>1, <2>2
<1>6. Len(out) \in DOMAIN out
  BY <1>1 DEF TypesInv
<1>7. out[Len(out)].type = "done" /\ out[Len(out)].result = Whole
  BY <1>2, EventTypes
<1> QED
  BY <1>5, <1>6, <1>7 DEF Results

LEMMA RefusedResult ==
    ASSUME TypesInv, EventsInv, at = "refused"
    PROVE  Results = {Refusal}
<1>1. Len(out) = 2 /\ out[1] = AC!DeltaEvent(AC!NoEvidence) /\ out[2] = AC!DoneEvent(Refusal)
  BY DEF EventsInv, Refusal
<1>2. out[1].type = "delta" /\ out[2].type = "done" /\ out[2].result = Refusal
  BY <1>1, EventTypes
<1>3. DOMAIN out = {1, 2}
  BY <1>1 DEF TypesInv
<1> QED
  BY <1>2, <1>3 DEF Results

\* A record written inside the try holds what keep_cited_sources makes of the
\* chunks: the same as the last event, or as what the client was sent.
LEMMA TryRecord ==
    ASSUME StreamInv, at \in InTry, LogAnswer(Kept, FALSE), UNCHANGED <<hits, chunks, out>>
    PROVE  /\ log' # << >>
           /\ Len(log') = 1
           /\ RecordAgrees'
<1>1. log = << >>
  BY DEF StreamInv, RecordInv, InTry, Ending
<1> DEFINE record == [answer |-> Kept.answer, citations |-> Kept.citations,
                      refused |-> FALSE, usage |-> usage]
<1>2. log' = Append(log, record)
  BY DEF LogAnswer
<1>3. record.answer = Kept.answer /\ record.citations = Kept.citations /\ record.refused = FALSE
  OBVIOUS
<1> HIDE DEF record
<1>4. log' = <<record>>
  BY <1>1, <1>2
<1>5. Len(log') = 1 /\ log'[1] = record /\ log' # << >>
  BY <1>4
<1>6. Results' = Results
  BY DEF Results
<1>7. CASE at = "done"
  <2>1. Results = {Whole}
    BY <1>7, OneResult DEF StreamInv
  <2>2. /\ Whole.answer = Kept.answer
        /\ Whole.citations = Kept.citations
        /\ Whole.grounding.refused = FALSE
    BY DEF Whole, AC!Grounding
  <2> QED
    BY <1>5, <1>6, <1>3, <2>1, <2>2 DEF RecordAgrees
<1>8. CASE at # "done"
  <2>1. Told /\ Len(out) = Len(chunks) + 1 /\ TypesInv
    BY <1>8 DEF StreamInv, EventsInv, InTry
  <2>2. Results = {}
    BY <2>1, NoResults
  <2>3. AC!Streamed(out) = chunks
    BY <2>1, StreamedIsChunks DEF TypesInv
  <2>4. AC!KeepCited(AC!Streamed(out'), hits') = Kept
    BY <2>3 DEF Kept
  <2> QED
    BY <1>5, <1>6, <1>3, <2>2, <2>4 DEF RecordAgrees
<1> QED
  BY <1>5, <1>7, <1>8

\* The record of a refusal.
LEMMA RefusalRecord ==
    ASSUME StreamInv, EndRefusal
    PROVE  RecordInv'
<1>1. log = << >> /\ at = "refused" /\ at' = "ended" /\ UNCHANGED <<hits, out>>
  BY DEF StreamInv, RecordInv, EndRefusal, Ending
<1> DEFINE record == [answer |-> Refusal.answer, citations |-> Refusal.citations,
                      refused |-> TRUE, usage |-> usage]
<1>2. log' = Append(log, record)
  BY DEF EndRefusal, LogAnswer
<1>3. /\ record.answer = Refusal.answer
      /\ record.citations = Refusal.citations
      /\ record.refused = TRUE
  OBVIOUS
<1> HIDE DEF record
<1>4. log' = <<record>>
  BY <1>1, <1>2
<1>5. Len(log') = 1 /\ log'[1] = record /\ log' # << >>
  BY <1>4
<1>6. Results' = {Refusal}
  BY <1>1, RefusedResult DEF Results, StreamInv
<1>7. Refusal.grounding.refused = TRUE
  BY DEF Refusal, AC!Refusal, AC!Grounding
<1>8. RecordAgrees'
  BY <1>3, <1>5, <1>6, <1>7 DEF RecordAgrees
<1> QED
  BY <1>1, <1>5, <1>8 DEF RecordInv, RecordedOnce, Ending

\* A refusal does not begin with the documents searched.
LEMMA RefusalBegins ==
    ASSUME StreamInv, at \in InRefusal
    PROVE  out[1].type = "delta"
<1>1. out[1] = AC!DeltaEvent(AC!NoEvidence)
  BY DEF StreamInv, EventsInv, InRefusal
<1> QED
  BY <1>1, EventTypes

LEMMA RecordStep ==
    ASSUME StreamInv, [Next]_vars
    PROVE  RecordInv'
<1> USE DEF Ending
<1>1. CASE EndRefusal
  BY <1>1, RefusalRecord
<1>2. CASE End
  <2>1. /\ at = "done" /\ at' = "ended"
        /\ UNCHANGED <<hits, chunks, out>>
        /\ LogAnswer(Kept, FALSE)
    BY <1>2 DEF End
  <2>2. log' # << >> /\ Len(log') = 1 /\ RecordAgrees'
    BY <2>1, TryRecord DEF InTry
  <2> QED
    BY <2>1, <2>2 DEF RecordInv, RecordedOnce
<1>3. CASE Close
  <2>1. at' = "closed" /\ UNCHANGED <<hits, chunks, out>>
    BY <1>3 DEF Close
  <2>2. ASSUME at \in InRefusal, UNCHANGED log PROVE RecordInv'
    <3>1. out[1].type = "delta" /\ log = << >>
      BY <2>2, RefusalBegins DEF StreamInv, RecordInv, InRefusal
    <3> QED
      BY <2>1, <2>2, <3>1 DEF RecordInv, RecordedOnce, RecordAgrees
  <2>3. ASSUME at \in InTry, LogAnswer(Kept, FALSE) PROVE RecordInv'
    <3>1. log' # << >> /\ Len(log') = 1 /\ RecordAgrees'
      BY <2>1, <2>3, TryRecord
    <3> QED
      BY <2>1, <3>1 DEF RecordInv, RecordedOnce
  <2> QED
    BY <1>3, <2>2, <2>3 DEF Close
<1>4. ASSUME \/ Retrieve \/ RetrieveFailed \/ FinishRefusal \/ StartGeneration
             \/ Connect \/ ConnectFailed \/ Rejected \/ Fragment \/ EmptyFragment
             \/ Resume \/ TimedOut \/ Broken \/ Finish
      PROVE  RecordInv'
  <2> USE DEF Retrieve, RetrieveFailed, FinishRefusal, StartGeneration, Connect,
        ConnectFailed, Rejected, Fragment, EmptyFragment, Resume, TimedOut,
        Broken, Finish, Yield, Retry
  <2>1. at \notin Ending
    BY <1>4
  <2>2. log' = << >>
    BY <1>4, <2>1 DEF StreamInv, RecordInv
  <2>3. at' \notin {"ended", "closed"}
    BY <1>4
  <2> QED
    BY <2>2, <2>3 DEF RecordInv, RecordedOnce, RecordAgrees
<1>5. CASE UNCHANGED vars
  <2>1. RecordInv /\ UNCHANGED <<at, log, out, hits>> /\ Results' = Results
    BY <1>5 DEF StreamInv, vars, Results
  <2> QED
    BY <2>1 DEF RecordInv, RecordedOnce, RecordAgrees
<1> QED
  BY <1>1, <1>2, <1>3, <1>4, <1>5 DEF Next, Generate

\* The inductive invariant.
LEMMA StreamInvariance == Spec => []StreamInv
<1>1. StreamInv /\ [Next]_vars => StreamInv'
  BY TypesStep, EventsStep, RecordStep DEF StreamInv
<1> QED
  BY <1>1, StreamInit, PTL DEF Spec

\* Whatever the client, the model's endpoint and the number of retries do, an
\* answer is recorded at most once, and is recorded whenever it was read to its
\* end or abandoned after retrieval had found something (_log_answer).
THEOREM StreamRecordedOnce == Spec => []RecordedOnce
<1>1. StreamInv => RecordedOnce
  BY DEF StreamInv, RecordInv
<1> QED
  BY <1>1, StreamInvariance, PTL

\* What is recorded of an answer is what its last event said or, if it was
\* abandoned, what the client had been sent (stream_answer and _log_answer).
THEOREM StreamRecordAgrees == Spec => []RecordAgrees
<1>1. StreamInv => RecordAgrees
  BY DEF StreamInv, RecordInv
<1> QED
  BY <1>1, StreamInvariance, PTL

-----------------------------------------------------------------------------
(***************************************************************************)
(* Types, sources and evidence in every state                              *)
(***************************************************************************)

Over == at \in Ending

\* The only results are the refusal and, after the documents of its hits, what
\* keep_cited_sources makes of the whole text.
ResultsInv ==
    \A result \in Results :
        \/ result = Refusal
        \/ result = Whole /\ out[1] = AC!RetrievedEvent(hits)

LEMMA ResultsBeforeTheEnd == StreamInv /\ ~Over => ResultsInv
<1> SUFFICES ASSUME StreamInv, ~Over PROVE ResultsInv
  OBVIOUS
<1> USE DEF ResultsInv
<1>1. TypesInv /\ EventsInv /\ at \in Place
  BY DEF StreamInv, TypesInv
<1>2. CASE at = "retrieve"
  <2>1. out = << >>
    BY <1>1, <1>2 DEF EventsInv
  <2> QED
    BY <2>1 DEF Results
<1>3. CASE at = "refusal"
  <2>1. out = <<AC!DeltaEvent(AC!NoEvidence)>>
    BY <1>1, <1>3 DEF EventsInv
  <2>2. DOMAIN out = {1} /\ out[1].type = "delta"
    BY <2>1, EventTypes
  <2> QED
    BY <2>2 DEF Results
<1>4. CASE at = "refused"
  BY <1>1, <1>4, RefusedResult
<1>5. CASE at \in {"retrieved", "open", "read", "delta"}
  <2>1. Told /\ Len(out) = Len(chunks) + 1
    BY <1>1, <1>5 DEF EventsInv
  <2> QED
    BY <1>1, <2>1, NoResults
<1>6. CASE at = "done"
  <2>1. Told
    BY <1>1, <1>6 DEF EventsInv
  <2>2. out[1] = AC!RetrievedEvent(hits)
    BY <2>1 DEF Told
  <2> QED
    BY <1>1, <1>6, <2>2, OneResult
<1> QED
  BY <1>1, <1>2, <1>3, <1>4, <1>5, <1>6 DEF Place, InRefusal, InTry, Over

LEMMA TheEndChangesNothing ==
    ASSUME [Next]_vars, Over'
    PROVE  UNCHANGED <<hits, chunks, out>>
<1> USE DEF Over, Ending
<1>1. ASSUME \/ Retrieve \/ FinishRefusal \/ Fragment \/ Finish PROVE FALSE
  BY <1>1 DEF Retrieve, FinishRefusal, Fragment, Finish, Yield
<1>2. CASE \/ RetrieveFailed \/ EndRefusal \/ StartGeneration \/ Connect
           \/ ConnectFailed \/ Rejected \/ EmptyFragment \/ Resume
           \/ TimedOut \/ Broken \/ End \/ Close \/ UNCHANGED vars
  BY <1>2 DEF RetrieveFailed, EndRefusal, StartGeneration, Connect,
       ConnectFailed, Rejected, EmptyFragment, Resume, TimedOut, Broken, End,
       Close, vars
<1> QED
  BY <1>1, <1>2 DEF Next, Generate

LEMMA ResultsInvariance == Spec => []ResultsInv
<1>1. Init => ResultsInv
  BY DEF Init, ResultsInv, Results
<1>2. ResultsInv /\ [Next]_vars /\ Over' => ResultsInv'
  <2> SUFFICES ASSUME ResultsInv, [Next]_vars, Over' PROVE ResultsInv'
    OBVIOUS
  <2>1. UNCHANGED <<hits, chunks, out>>
    BY TheEndChangesNothing
  <2>2. Results' = Results /\ Refusal' = Refusal /\ Whole' = Whole
    BY <2>1 DEF Results, Refusal, Whole, Kept
  <2> QED
    BY <2>1, <2>2 DEF ResultsInv
<1> QED
  BY <1>1, <1>2, ResultsBeforeTheEnd, StreamInvariance, PTL DEF Spec

LEMMA RefusalCitesNothing ==
    /\ Refusal.answer = <<AC!NoEvidence>>
    /\ Refusal.citations = << >>
    /\ Refusal.grounding.refused = TRUE
BY DEF Refusal, AC!Refusal, AC!Grounding

LEMMA WholeIsKept ==
    LET cited == AC!Cited(chunks, hits)
    IN  StreamInv => /\ Whole.answer = AC!Shown(chunks, cited)
                     /\ Whole.citations = AC!Sources(cited, hits)
<1> SUFFICES ASSUME StreamInv
             PROVE  /\ Whole.answer = AC!Shown(chunks, AC!Cited(chunks, hits))
                    /\ Whole.citations = AC!Sources(AC!Cited(chunks, hits), hits)
  OBVIOUS
<1>1. hits \in AC!Hits /\ chunks \in Seq(Tokens)
  BY DEF StreamInv, TypesInv
<1>2. Whole.answer = Kept.answer /\ Whole.citations = Kept.citations
  BY DEF Whole
<1> QED
  BY <1>1, <1>2, KeptParts DEF Kept

\* The documents that the leading event names are those that the answer's sources
\* come from, whichever documents were found and whatever the model wrote; a
\* refusal names and cites none (_retrieved_documents against keep_cited_sources).
THEOREM StreamSourcesWereAnnounced == Spec => []SourcesWereAnnounced
<1>1. StreamInv /\ ResultsInv => SourcesWereAnnounced
  <2> SUFFICES ASSUME StreamInv, ResultsInv, NEW result \in Results
               PROVE  {result.citations[i].document : i \in DOMAIN result.citations} \subseteq
                          IF out[1].type = "retrieved"
                          THEN {out[1].documents[i].document : i \in DOMAIN out[1].documents}
                          ELSE {}
    BY DEF SourcesWereAnnounced
  <2>1. CASE result = Refusal
    <3>1. result.citations = << >>
      BY <2>1, RefusalCitesNothing
    <3> QED
      BY <3>1
  <2>2. CASE result = Whole /\ out[1] = AC!RetrievedEvent(hits)
    <3> DEFINE cited == AC!Cited(chunks, hits)
               sources == AC!Sources(cited, hits)
               announced == AC!RetrievedDocuments(hits)
    <3>1. hits \in AC!Hits
      BY DEF StreamInv, TypesInv
    <3>2. result.citations = sources
      BY <2>2, WholeIsKept
    <3>3. out[1].type = "retrieved" /\ out[1].documents = announced
      BY <2>2 DEF AC!RetrievedEvent
    <3>4. \A i \in DOMAIN sources : /\ sources[i].chunk \in DOMAIN hits
                                   /\ sources[i].document = hits[sources[i].chunk]
      BY <3>1, SourcesAreCited, CitedAreChunks
    <3>5. \A i \in DOMAIN hits : \E k \in DOMAIN announced : announced[k].document = hits[i]
      BY <3>1, DocumentsAreAnnounced
    <3> HIDE DEF sources, announced
    <3>6. ASSUME NEW i \in DOMAIN sources
          PROVE  sources[i].document \in {announced[k].document : k \in DOMAIN announced}
      BY <3>4, <3>5
    <3> QED
      BY <3>2, <3>3, <3>6
  <2> QED
    BY <2>1, <2>2 DEF ResultsInv
<1> QED
  BY <1>1, StreamInvariance, ResultsInvariance, PTL

\* Whatever the model wrote and whatever was retrieved, the numbers shown point, in
\* the order of the text, to the very chunks the model meant, and every source shown
\* is cited (keep_cited_sources).
THEOREM StreamAnswerIsEvidenced == Spec => []AnswerIsEvidenced
<1>1. StreamInv /\ ResultsInv => AnswerIsEvidenced
  <2> SUFFICES ASSUME StreamInv, ResultsInv, NEW result \in Results
               PROVE  IF result.grounding.refused
                      THEN result.answer = <<AC!NoEvidence>> /\ result.citations = << >>
                      ELSE /\ PointsToMeant(chunks, hits, result.answer, result.citations)
                           /\ SourcesAreUsed(hits, result.answer, result.citations)
    BY DEF AnswerIsEvidenced
  <2>1. CASE result = Refusal
    BY <2>1, RefusalCitesNothing
  <2>2. CASE result = Whole
    <3>1. hits \in AC!Hits /\ chunks \in Seq(Tokens)
      BY DEF StreamInv, TypesInv
    <3>2. /\ result.answer = AC!Shown(chunks, AC!Cited(chunks, hits))
          /\ result.citations = AC!Sources(AC!Cited(chunks, hits), hits)
      BY <2>2, WholeIsKept
    <3>3. result.grounding.refused = FALSE
      BY <2>2 DEF Whole, AC!Grounding
    <3> QED
      BY <3>1, <3>2, <3>3, ShownPointsToMeant
  <2> QED
    BY <2>1, <2>2 DEF ResultsInv
<1> QED
  BY <1>1, StreamInvariance, ResultsInvariance, PTL

-----------------------------------------------------------------------------
Recorded ==
    [answer : AC!ShownText, citations : Seq(AC!Source), refused : BOOLEAN, usage : BOOLEAN]

CountsInv ==
    /\ tries \in 0..MaxTries
    /\ fragments \in 0..MaxFragments
    /\ usage \in BOOLEAN
    /\ log \in Seq(Recorded)

LEMMA RecordIsTyped ==
    ASSUME CountsInv, NEW kept, NEW refused \in BOOLEAN, LogAnswer(kept, refused),
           kept.answer \in AC!ShownText, kept.citations \in Seq(AC!Source)
    PROVE  log' \in Seq(Recorded)
<1> DEFINE record == [answer |-> kept.answer, citations |-> kept.citations,
                      refused |-> refused, usage |-> usage]
<1>1. record \in Recorded
  BY DEF Recorded, CountsInv
<1>2. log' = Append(log, record)
  BY DEF LogAnswer
<1> HIDE DEF record
<1> QED
  BY <1>1, <1>2 DEF CountsInv

LEMMA KeptIsTyped ==
    StreamInv => Kept.answer \in AC!ShownText /\ Kept.citations \in Seq(AC!Source)
BY KeptParts DEF Kept, StreamInv, TypesInv

LEMMA RefusalIsTyped ==
    Refusal.answer \in AC!ShownText /\ Refusal.citations \in Seq(AC!Source)
<1>1. Refusal.answer = <<AC!NoEvidence>> /\ Refusal.citations = << >>
  BY DEF Refusal, AC!Refusal
<1>2. << >> \in Seq(Nat) /\ << >> \in Seq(AC!Source)
  OBVIOUS
<1> QED
  BY <1>1, <1>2 DEF AC!NoEvidence, AC!Text, AC!ShownText

LEMMA CountsInit == Init => CountsInv
<1> SUFFICES ASSUME Init PROVE CountsInv
  OBVIOUS
<1>1. log \in Seq(Recorded)
  BY DEF Init
<1>2. MaxTries \in Nat /\ MaxFragments \in Nat
  BY StreamAssumption
<1>3. tries = 0 /\ fragments = 0 /\ usage = FALSE
  BY DEF Init
<1>4. tries \in 0..MaxTries /\ fragments \in 0..MaxFragments
  BY <1>2, <1>3
<1> QED
  BY <1>1, <1>3, <1>4 DEF CountsInv

LEMMA CountsStep ==
    ASSUME StreamInv, CountsInv, [Next]_vars
    PROVE  CountsInv'
<1>1. tries \in 0..MaxTries /\ fragments \in 0..MaxFragments /\ usage \in BOOLEAN
  BY DEF CountsInv
<1>2. tries' \in 0..MaxTries
  <2>1. CASE StartGeneration
    BY <2>1, StreamAssumption DEF StartGeneration
  <2>2. ASSUME Retry PROVE tries' \in 0..MaxTries
    BY <1>1, <2>2, StreamAssumption DEF Retry
  <2>3. CASE ConnectFailed \/ TimedOut
    BY <2>2, <2>3 DEF ConnectFailed, TimedOut
  <2>4. ASSUME \/ Retrieve \/ RetrieveFailed \/ FinishRefusal \/ EndRefusal \/ Connect
               \/ Rejected \/ Fragment \/ EmptyFragment \/ Resume \/ Broken \/ Finish
               \/ End \/ Close \/ UNCHANGED vars
        PROVE  tries' = tries
    BY <2>4 DEF Retrieve, RetrieveFailed, FinishRefusal, EndRefusal, Connect, Rejected,
         Fragment, EmptyFragment, Resume, Broken, Finish, End, Close, vars
  <2> QED
    BY <1>1, <2>1, <2>3, <2>4 DEF Next, Generate
<1>3. fragments' \in 0..MaxFragments
  <2>1. CASE Connect
    BY <2>1, StreamAssumption DEF Connect
  <2>2. CASE Fragment \/ EmptyFragment
    BY <1>1, <2>2, StreamAssumption DEF Fragment, EmptyFragment
  <2>3. ASSUME \/ Retrieve \/ RetrieveFailed \/ FinishRefusal \/ EndRefusal \/ StartGeneration
               \/ ConnectFailed \/ Rejected \/ Resume \/ TimedOut \/ Broken \/ Finish
               \/ End \/ Close \/ UNCHANGED vars
        PROVE  fragments' = fragments
    BY <2>3 DEF Retrieve, RetrieveFailed, FinishRefusal, EndRefusal, StartGeneration,
         ConnectFailed, Rejected, Resume, TimedOut, Broken, Finish, End, Close, vars
  <2> QED
    BY <1>1, <2>1, <2>2, <2>3 DEF Next, Generate
<1>4. usage' \in BOOLEAN
  <2>1. CASE Finish
    BY <2>1 DEF Finish
  <2>2. ASSUME \/ Retrieve \/ RetrieveFailed \/ FinishRefusal \/ EndRefusal \/ StartGeneration
               \/ Connect \/ ConnectFailed \/ Rejected \/ Fragment \/ EmptyFragment \/ Resume
               \/ TimedOut \/ Broken \/ End \/ Close \/ UNCHANGED vars
        PROVE  usage' = usage
    BY <2>2 DEF Retrieve, RetrieveFailed, FinishRefusal, EndRefusal, StartGeneration,
         Connect, ConnectFailed, Rejected, Fragment, EmptyFragment, Resume, TimedOut,
         Broken, End, Close, vars
  <2> QED
    BY <1>1, <2>1, <2>2 DEF Next, Generate
<1>5. log' \in Seq(Recorded)
  <2>1. CASE EndRefusal
    <3>1. LogAnswer(Refusal, TRUE)
      BY <2>1 DEF EndRefusal
    <3> QED
      BY <3>1, RefusalIsTyped, RecordIsTyped
  <2>2. ASSUME LogAnswer(Kept, FALSE) PROVE log' \in Seq(Recorded)
    BY <2>2, KeptIsTyped, RecordIsTyped
  <2>3. ASSUME UNCHANGED log PROVE log' \in Seq(Recorded)
    BY <2>3 DEF CountsInv
  <2>4. CASE End
    BY <2>2, <2>4 DEF End
  <2>5. CASE Close
    BY <2>2, <2>3, <2>5 DEF Close
  <2>6. ASSUME \/ Retrieve \/ RetrieveFailed \/ FinishRefusal \/ StartGeneration
               \/ Connect \/ ConnectFailed \/ Rejected \/ Fragment \/ EmptyFragment
               \/ Resume \/ TimedOut \/ Broken \/ Finish \/ UNCHANGED vars
        PROVE  UNCHANGED log
    BY <2>6 DEF Retrieve, RetrieveFailed, FinishRefusal, StartGeneration, Connect,
         ConnectFailed, Rejected, Fragment, EmptyFragment, Resume, TimedOut, Broken,
         Finish, vars
  <2> QED
    BY <2>1, <2>3, <2>4, <2>5, <2>6 DEF Next, Generate
<1> QED
  BY <1>2, <1>3, <1>4, <1>5 DEF CountsInv

\* Every variable of an answer keeps its type: the connections and fragments stay
\* within their limits, every event is one of those documented, and every record
\* is complete (generate_stream, _stream_events, _log_answer).
THEOREM StreamTypeCorrect == Spec => []TypeOK
<1>1. StreamInv /\ CountsInv => TypeOK
  <2> SUFFICES ASSUME StreamInv, CountsInv PROVE TypeOK
    OBVIOUS
  <2>1. at \in Place /\ hits \in AC!Hits
    BY DEF StreamInv, TypesInv
  <2>2. chunks \in Seq(Tokens) /\ out \in Seq(AnyEvent)
    BY DEF StreamInv, TypesInv
  <2>3. out \in Seq(AC!Event)
    BY <2>2, EventsAreTyped
  <2>4. tries \in 0..MaxTries /\ fragments \in 0..MaxFragments /\ usage \in BOOLEAN
    BY DEF CountsInv
  <2>5. log \in Seq(Recorded)
    BY DEF CountsInv
  <2> QED
    BY <2>1, <2>2, <2>3, <2>4, <2>5 DEF TypeOK, Recorded
<1>2. StreamInv /\ CountsInv /\ [Next]_vars => CountsInv'
  BY CountsStep
<1> QED
  BY <1>1, <1>2, CountsInit, StreamInvariance, PTL DEF Spec

-----------------------------------------------------------------------------
\* A generator about to yield text or the result is answering, for the contract.
LEMMA GeneratorIsAnswering ==
    ASSUME TypesInv, Told, Len(out) = Len(chunks) + 1
    PROVE  AC!Answering
<1>1. out # << >> /\ out[1].type = "retrieved"
  BY EventTypes DEF Told, TypesInv
<1>2. out[Len(out)].type # "done"
  <2>1. CASE Len(chunks) = 0
    BY <1>1, <2>1
  <2>2. CASE Len(chunks) # 0
    <3>1. /\ Len(chunks) \in 1..Len(chunks)
          /\ chunks[Len(chunks)] \in Tokens
      BY <2>2 DEF TypesInv
    <3>2. out[Len(out)] = AC!DeltaEvent(chunks[Len(chunks)])
      BY <3>1 DEF Told
    <3> QED
      BY <3>1, <3>2, EventTypes
  <2> QED
    BY <2>1, <2>2
<1> QED
  BY <1>1, <1>2 DEF AC!Answering

LEMMA ContractStep ==
    ASSUME StreamInv, [Next]_vars
    PROVE  [AC!Next \/ AC!EmptyDone]_out
<1>1. CASE Retrieve
  <2>1. PICK found \in AC!Hits :
           \/ Yield(AC!DeltaEvent(AC!NoEvidence), "refusal")
           \/ found # << >> /\ Yield(AC!RetrievedEvent(found), "retrieved")
    BY <1>1 DEF Retrieve
  <2>2. out = << >>
    BY <1>1 DEF Retrieve, StreamInv, EventsInv
  <2>3. AC!Refuse \/ AC!Retrieved
    BY <2>1, <2>2 DEF Yield, AC!Refuse, AC!Retrieved, AC!Send
  <2> QED
    BY <2>3 DEF AC!Next
<1>2. CASE FinishRefusal
  <2>1. /\ out = <<AC!DeltaEvent(AC!NoEvidence)>>
        /\ out' = Append(out, AC!DoneEvent(AC!Refusal(hits)))
        /\ hits \in AC!Hits
    BY <1>2 DEF FinishRefusal, Yield, Refusal, StreamInv, EventsInv, TypesInv
  <2> QED
    BY <2>1 DEF AC!Next, AC!RefusalDone, AC!Send
<1>3. CASE Fragment
  <2>1. PICK token \in Tokens : out' = Append(out, AC!DeltaEvent(token))
    BY <1>3 DEF Fragment, Yield
  <2>2. AC!Answering
    BY <1>3, GeneratorIsAnswering DEF Fragment, StreamInv, EventsInv
  <2> QED
    BY <2>1, <2>2 DEF AC!Next, AC!Delta, AC!Send
<1>4. CASE Finish
  <2>1. Told /\ Len(out) = Len(chunks) + 1 /\ TypesInv
    BY <1>4 DEF Finish, StreamInv, EventsInv
  <2>2. AC!Answering
    BY <2>1, GeneratorIsAnswering
  <2>3. AC!Streamed(out) = chunks
    BY <2>1, StreamedIsChunks DEF TypesInv
  <2>4. out' = Append(out, AC!DoneEvent(AC!Composed(hits, AC!Streamed(out))))
    BY <1>4, <2>3, WholeIsComposed DEF Finish, Yield
  <2>5. hits \in AC!Hits /\ out[1] = AC!RetrievedEvent(hits)
    BY <2>1 DEF TypesInv, Told
  <2>6. CASE chunks = << >>
    BY <2>2, <2>3, <2>4, <2>5, <2>6 DEF AC!EmptyDone, AC!Send
  <2>7. CASE chunks # << >>
    <3>1. AC!Composed(hits, AC!Streamed(out)) \in AC!OneShot(hits, AC!Streamed(out))
      BY <2>3, <2>7 DEF AC!OneShot
    <3> QED
      BY <2>2, <2>4, <2>5, <3>1 DEF AC!Next, AC!Done, AC!Send
  <2> QED
    BY <2>6, <2>7
<1>5. ASSUME \/ RetrieveFailed \/ EndRefusal \/ StartGeneration \/ Connect
             \/ ConnectFailed \/ Rejected \/ EmptyFragment \/ Resume
             \/ TimedOut \/ Broken \/ End \/ Close \/ UNCHANGED vars
      PROVE  [AC!Next \/ AC!EmptyDone]_out
  BY <1>5 DEF RetrieveFailed, EndRefusal, StartGeneration, Connect,
       ConnectFailed, Rejected, EmptyFragment, Resume, TimedOut, Broken, End,
       Close, vars
<1> QED
  BY <1>1, <1>2, <1>3, <1>4, <1>5 DEF Next, Generate

\* The events of stream_answer are those its docstring promises, and the last of
\* them carries what answer_question would have returned for the same text, for
\* any documents, any text and any number of retries; only an answer without any
\* text, for which answer_question raises, is more than it promises.
THEOREM StreamImplementsContract == Spec => ImplementsContract
<1>1. Init => AC!Init
  BY DEF Init, AC!Init
<1>2. StreamInv /\ [Next]_vars => [AC!Next \/ AC!EmptyDone]_out
  BY ContractStep
<1> QED
  BY <1>1, <1>2, StreamInvariance, PTL DEF Spec, ImplementsContract, AC!SpecAsBuilt
=============================================================================

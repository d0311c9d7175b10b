----------------------- MODULE RequestSessionsProofs -----------------------
(***************************************************************************)
(* For any requests, pool and failures: what a caller is told agrees with  *)
(* the audit log and with what the model has answered, and a request that  *)
(* is over holds no connection.                                            *)
(*                                                                         *)
(* What a request still does is a suffix of its handler, or what follows an*)
(* exception. The properties are kept by the order of the handler's parts: *)
(* Closes, AuditsFirst, ModelLast and ReadsHeld say what is needed of that *)
(* order, hold of every handler, and pass from a sequence to its tail.     *)
(***************************************************************************)
EXTENDS RequestSessions, SequenceTheorems, TLAPS

Ends == {"close", "drop"}
Releasing == Ends \cup {"commit"}
Ledger == {"usage", "trace"}

\* After each part that takes a connection comes one that gives it back.
Closes(s) ==
    \A j \in 1..Len(s) : s[j] \in {"read", "probe", "commit"} =>
        \E i \in (j + 1)..Len(s) : s[i] \in Ends

\* The audit row is committed before the caller gets what it is about.
AuditsFirst(s) ==
    \A j \in 1..Len(s) :
        s[j] = "reply" => \E i \in 1..(j - 1) : s[i] = "commit"

\* Nobody is answered before the model has; then nothing is called and nothing is
\* committed any more, and a reply comes.
ModelLast(s) ==
    \A i \in 1..Len(s) : s[i] = "model" =>
        /\ \A j \in 1..(i - 1) : s[j] \notin {"reply", "error"}
        /\ \A j \in (i + 1)..Len(s) : s[j] \notin {"call", "model", "commit", "error"}
        /\ \E j \in (i + 1)..Len(s) : s[j] = "reply"

\* A statement after the model's answer finds its connection held: it was taken
\* before the answer and not given back.
ReadsHeld(s, held) ==
    \A i \in 1..Len(s) : \A j \in (i + 1)..Len(s) :
        s[i] = "model" /\ s[j] = "read" =>
            \/ held /\ \A k \in 1..j : s[k] \notin Releasing
            \/ \E m \in 1..i : s[m] = "read" /\ \A k \in m..j : s[k] \notin Releasing

\* What is still done of a request that the model has answered: nothing that can
\* lose the answer.
Answering(s, held) ==
    \A j \in 1..Len(s) :
        /\ s[j] \notin {"call", "model", "commit", "error"}
        /\ s[j] = "read" => held /\ \A k \in 1..j : s[k] \notin Releasing

Has(s, parts) == \E i \in 1..Len(s) : s[i] \in parts

RequestSound(r) ==
    /\ Closes(todo[r]) /\ ModelLast(todo[r]) /\ ReadsHeld(todo[r], r \in main)
    /\ result[r] # "none" => ~ Has(todo[r], {"model"})
    /\ audit[r] = "owed" => AuditsFirst(todo[r]) /\ result[r] # "ok"
    /\ r \in answered =>
          /\ result[r] = "none" => Has(todo[r], {"reply", "error"})
          /\ sessionFaults = 0 =>
                Answering(todo[r], r \in main) /\ result[r] \notin {"error", "broken"}
    /\ r \in main => Has(todo[r], Ends)
    /\ r \in side => todo[r] # <<>> /\ todo[r][1] \in Ledger

SessionsInv == SessionsTypeOK /\ \A r \in Requests : RequestSound(r)

\* A step of r says nothing of the other requests.
Only(r) ==
    \A q \in Requests \ {r} :
        /\ todo'[q] = todo[q] /\ audit'[q] = audit[q] /\ result'[q] = result[q]
        /\ q \in main' <=> q \in main
        /\ q \in side' <=> q \in side
        /\ q \in answered' <=> q \in answered

-----------------------------------------------------------------------------
(* The handlers *)

\* What is needed of the order of a handler's parts.
Orderly(s) ==
    /\ s \in Seq(Part)
    /\ Closes(s) /\ ModelLast(s) /\ ReadsHeld(s, FALSE)
    /\ "commit" \in Range(s) => AuditsFirst(s)

\* The parts of every handler are in that order.
LEMMA HandlersAreOrderly == \A handler \in Handlers : Orderly(handler)
<1>1. Orderly(Me)
  <2>1. Me \in Seq(Part)
    BY DEF Me, Part
  <2>2. Closes(Me) /\ ModelLast(Me)
    BY DEF Me, Closes, ModelLast, Ends
  <2>3. ReadsHeld(Me, FALSE)
    BY DEF Me, ReadsHeld, Releasing, Ends
  <2>4. "commit" \in Range(Me) => AuditsFirst(Me)
    BY DEF Me, AuditsFirst, Range
  <2> QED BY <2>1, <2>2, <2>3, <2>4 DEF Orderly
<1>2. Orderly(Login)
  <2>1. Login \in Seq(Part)
    BY DEF Login, Part
  <2>2. Closes(Login) /\ ModelLast(Login)
    BY DEF Login, Closes, ModelLast, Ends
  <2>3. ReadsHeld(Login, FALSE)
    BY DEF Login, ReadsHeld, Releasing, Ends
  <2>4. "commit" \in Range(Login) => AuditsFirst(Login)
    BY DEF Login, AuditsFirst, Range
  <2> QED BY <2>1, <2>2, <2>3, <2>4 DEF Orderly
<1>3. Orderly(Upload)
  <2>1. Upload \in Seq(Part)
    BY DEF Upload, Part
  <2>2. Closes(Upload) /\ ModelLast(Upload)
    BY DEF Upload, Closes, ModelLast, Ends
  <2>3. ReadsHeld(Upload, FALSE)
    BY DEF Upload, ReadsHeld, Releasing, Ends
  <2>4. "commit" \in Range(Upload) => AuditsFirst(Upload)
    BY DEF Upload, AuditsFirst, Range
  <2> QED BY <2>1, <2>2, <2>3, <2>4 DEF Orderly
<1>4. Orderly(Search)
  <2>1. Search \in Seq(Part)
    BY DEF Search, Part
  <2>2. Closes(Search) /\ ModelLast(Search)
    BY DEF Search, Closes, ModelLast, Ends
  <2>3. ReadsHeld(Search, FALSE)
    BY DEF Search, ReadsHeld, Releasing, Ends
  <2>4. "commit" \in Range(Search) => AuditsFirst(Search)
    BY DEF Search, AuditsFirst, Range
  <2> QED BY <2>1, <2>2, <2>3, <2>4 DEF Orderly
<1>5. Orderly(SearchByKey)
  <2>1. SearchByKey \in Seq(Part)
    BY DEF SearchByKey, Part
  <2>2. Closes(SearchByKey) /\ ModelLast(SearchByKey)
    BY DEF SearchByKey, Closes, ModelLast, Ends
  <2>3. ReadsHeld(SearchByKey, FALSE)
    BY DEF SearchByKey, ReadsHeld, Releasing, Ends
  <2>4. "commit" \in Range(SearchByKey) => AuditsFirst(SearchByKey)
    BY DEF SearchByKey, AuditsFirst, Range
  <2> QED BY <2>1, <2>2, <2>3, <2>4 DEF Orderly
<1>6. Orderly(SemanticByKey)
  <2>1. SemanticByKey \in Seq(Part)
    BY DEF SemanticByKey, Part
  <2>2. Closes(SemanticByKey) /\ ModelLast(SemanticByKey)
    BY DEF SemanticByKey, Closes, ModelLast, Ends
  <2>3. ReadsHeld(SemanticByKey, FALSE)
    BY DEF SemanticByKey, ReadsHeld, Releasing, Ends
  <2>4. "commit" \in Range(SemanticByKey) => AuditsFirst(SemanticByKey)
    BY DEF SemanticByKey, AuditsFirst, Range
  <2> QED BY <2>1, <2>2, <2>3, <2>4 DEF Orderly
<1>7. Orderly(Readiness)
  <2>1. Readiness \in Seq(Part)
    BY DEF Readiness, Part
  <2>2. Closes(Readiness) /\ ModelLast(Readiness)
    BY DEF Readiness, Closes, ModelLast, Ends
  <2>3. ReadsHeld(Readiness, FALSE)
    BY DEF Readiness, ReadsHeld, Releasing, Ends
  <2>4. "commit" \in Range(Readiness) => AuditsFirst(Readiness)
    BY DEF Readiness, AuditsFirst, Range
  <2> QED BY <2>1, <2>2, <2>3, <2>4 DEF Orderly
<1>8. Orderly(Chat)
  <2>1. Chat \in Seq(Part)
    BY DEF Chat, Part
  <2>2. Closes(Chat) /\ ModelLast(Chat)
    BY DEF Chat, Closes, ModelLast, Ends
  <2>3. ReadsHeld(Chat, FALSE)
    BY DEF Chat, ReadsHeld, Releasing, Ends
  <2>4. "commit" \in Range(Chat) => AuditsFirst(Chat)
    BY DEF Chat, AuditsFirst, Range
  <2> QED BY <2>1, <2>2, <2>3, <2>4 DEF Orderly
<1>9. Orderly(ChatRefused)
  <2>1. ChatRefused \in Seq(Part)
    BY DEF ChatRefused, Part
  <2>2. Closes(ChatRefused) /\ ModelLast(ChatRefused)
    BY DEF ChatRefused, Closes, ModelLast, Ends
  <2>3. ReadsHeld(ChatRefused, FALSE)
    BY DEF ChatRefused, ReadsHeld, Releasing, Ends
  <2>4. "commit" \in Range(ChatRefused) => AuditsFirst(ChatRefused)
    BY DEF ChatRefused, AuditsFirst, Range
  <2> QED BY <2>1, <2>2, <2>3, <2>4 DEF Orderly
<1>10. Orderly(ChatStream)
  <2>1. ChatStream \in Seq(Part)
    BY DEF ChatStream, Part
  <2>2. Closes(ChatStream) /\ ModelLast(ChatStream)
    BY DEF ChatStream, Closes, ModelLast, Ends
  <2>3. ReadsHeld(ChatStream, FALSE)
    BY DEF ChatStream, ReadsHeld, Releasing, Ends
  <2>4. "commit" \in Range(ChatStream) => AuditsFirst(ChatStream)
    BY DEF ChatStream, AuditsFirst, Range
  <2> QED BY <2>1, <2>2, <2>3, <2>4 DEF Orderly
<1>11. Orderly(ChatStreamRefused)
  <2>1. ChatStreamRefused \in Seq(Part)
    BY DEF ChatStreamRefused, Part
  <2>2. Closes(ChatStreamRefused) /\ ModelLast(ChatStreamRefused)
    BY DEF ChatStreamRefused, Closes, ModelLast, Ends
  <2>3. ReadsHeld(ChatStreamRefused, FALSE)
    BY DEF ChatStreamRefused, ReadsHeld, Releasing, Ends
  <2>4. "commit" \in Range(ChatStreamRefused) => AuditsFirst(ChatStreamRefused)
    BY DEF ChatStreamRefused, AuditsFirst, Range
  <2> QED BY <2>1, <2>2, <2>3, <2>4 DEF Orderly
<1> QED
  BY <1>1, <1>2, <1>3, <1>4, <1>5, <1>6, <1>7, <1>8, <1>9, <1>10, <1>11
  DEF Handlers, Me, ListDocuments, GetDocument, GetDocumentText, Summary, TraceStats,
      ListAuditLogs, Login, Download

\* What is left to do after an exception, or when the client has left.
Aftermath ==
    {<<"close", "error">>, <<"drop">>, <<"trace", "drop">>, <<"usage", "trace", "drop">>}

LEMMA AftermathIsOrderly ==
    ASSUME NEW s \in Aftermath, NEW held
    PROVE  /\ s \in Seq(Part) /\ Closes(s) /\ ModelLast(s) /\ ReadsHeld(s, held)
           /\ AuditsFirst(s) /\ Has(s, Ends) /\ ~ Has(s, {"model"})
           /\ s = <<"close", "error">> => Has(s, {"reply", "error"})
           /\ s # <<"close", "error">> => Answering(s, held)
<1> USE DEF Closes, ModelLast, ReadsHeld, AuditsFirst, Answering, Has, Ends,
            Releasing, Part
<1>1. CASE s = <<"close", "error">>
  BY <1>1
<1>2. CASE s = <<"drop">>
  BY <1>2
<1>3. CASE s = <<"trace", "drop">>
  BY <1>3
<1>4. CASE s = <<"usage", "trace", "drop">>
  <2>1. s \in Seq(Part) /\ s # <<"close", "error">> /\ Has(s, Ends) /\ ~ Has(s, {"model"})
    BY <1>4
  <2>2. Closes(s) /\ AuditsFirst(s)
    BY <1>4
  <2>3. ModelLast(s) /\ ReadsHeld(s, held)
    BY <1>4
  <2>4. Answering(s, held)
    BY <1>4
  <2> QED BY <2>1, <2>2, <2>3, <2>4
<1> QED
  BY <1>1, <1>2, <1>3, <1>4 DEF Aftermath

-----------------------------------------------------------------------------
(* One step of a handler *)

\* The tail of a sequence of parts is its own first part less.
LEMMA TailOf ==
    ASSUME NEW s \in Seq(Part), s # <<>>
    PROVE  /\ Tail(s) \in Seq(Part) /\ Head(s) = s[1]
           /\ Len(s) \in Nat /\ Len(s) >= 1 /\ Len(Tail(s)) = Len(s) - 1
           /\ \A i \in 1..(Len(s) - 1) : Tail(s)[i] = s[i + 1]
BY HeadTailProperties

\* What is asked of a sequence of parts is asked of its tail; held and next say
\* whether the session has its connection before and after the first part.
LEMMA TailKeeps ==
    ASSUME NEW s \in Seq(Part), s # <<>>, NEW held \in BOOLEAN, NEW next \in BOOLEAN,
           held /\ s[1] \notin Releasing => next,
           s[1] = "read" => next
    PROVE  /\ Closes(s) => Closes(Tail(s))
           /\ ModelLast(s) => ModelLast(Tail(s))
           /\ ReadsHeld(s, held) => ReadsHeld(Tail(s), next)
           /\ Answering(s, held) => Answering(Tail(s), next)
           /\ AuditsFirst(s) /\ s[1] # "commit" => AuditsFirst(Tail(s))
<1> DEFINE t == Tail(s)
<1>1. /\ Len(s) \in Nat /\ Len(t) = Len(s) - 1
      /\ \A i \in 1..(Len(s) - 1) : t[i] = s[i + 1]
  BY TailOf
<1> HIDE DEF t
<1>2. \A i \in 1..Len(t) : i \in Nat /\ i + 1 \in 2..Len(s) /\ t[i] = s[i + 1]
  BY <1>1
<1>3. \A i \in 2..Len(s) : i - 1 \in 1..Len(t) /\ t[i - 1] = s[i]
  BY <1>1
<1>4. ASSUME Closes(s) PROVE Closes(t)
  <2> SUFFICES ASSUME NEW j \in 1..Len(t), t[j] \in {"read", "probe", "commit"}
               PROVE  \E i \in (j + 1)..Len(t) : t[i] \in Ends
    BY DEF Closes
  <2>1. PICK i \in (j + 2)..Len(s) : s[i] \in Ends
    BY <1>1, <1>2, <1>4 DEF Closes
  <2> QED BY <1>1, <1>3, <2>1
<1>5. ASSUME ModelLast(s) PROVE ModelLast(t)
  <2> SUFFICES ASSUME NEW i \in 1..Len(t), t[i] = "model"
               PROVE  /\ \A j \in 1..(i - 1) : t[j] \notin {"reply", "error"}
                      /\ \A j \in (i + 1)..Len(t) :
                            t[j] \notin {"call", "model", "commit", "error"}
                      /\ \E j \in (i + 1)..Len(t) : t[j] = "reply"
    BY DEF ModelLast
  <2>1. i + 1 \in 1..Len(s) /\ s[i + 1] = "model"
    BY <1>1, <1>2
  <2>2. ASSUME NEW j \in 1..(i - 1) PROVE t[j] \notin {"reply", "error"}
    <3>1. j \in 1..Len(t) /\ j + 1 \in 1..((i + 1) - 1)
      BY <1>1
    <3> QED BY <1>2, <1>5, <2>1, <3>1 DEF ModelLast
  <2>3. ASSUME NEW j \in (i + 1)..Len(t)
        PROVE  t[j] \notin {"call", "model", "commit", "error"}
    <3>1. j \in 1..Len(t) /\ j + 1 \in ((i + 1) + 1)..Len(s)
      BY <1>1
    <3> QED BY <1>2, <1>5, <2>1, <3>1 DEF ModelLast
  <2>4. PICK j \in ((i + 1) + 1)..Len(s) : s[j] = "reply"
    BY <1>5, <2>1 DEF ModelLast
  <2>5. j - 1 \in (i + 1)..Len(t) /\ t[j - 1] = "reply"
    BY <1>1, <1>3, <2>4
  <2> QED BY <2>2, <2>3, <2>5
<1>6. ASSUME ReadsHeld(s, held) PROVE ReadsHeld(t, next)
  <2> SUFFICES ASSUME NEW i \in 1..Len(t), NEW j \in (i + 1)..Len(t),
                      t[i] = "model", t[j] = "read"
               PROVE  \/ next /\ \A k \in 1..j : t[k] \notin Releasing
                      \/ \E m \in 1..i :
                            t[m] = "read" /\ \A k \in m..j : t[k] \notin Releasing
    BY DEF ReadsHeld
  <2>1. /\ i + 1 \in 1..Len(s) /\ j + 1 \in ((i + 1) + 1)..Len(s)
        /\ s[i + 1] = "model" /\ s[j + 1] = "read"
    BY <1>1, <1>2
  <2>2. \/ held /\ \A k \in 1..(j + 1) : s[k] \notin Releasing
        \/ \E m \in 1..(i + 1) :
              s[m] = "read" /\ \A k \in m..(j + 1) : s[k] \notin Releasing
    BY <1>6, <2>1 DEF ReadsHeld
  <2>3. CASE held /\ \A k \in 1..(j + 1) : s[k] \notin Releasing
    <3>1. s[1] \notin Releasing /\ next
      BY <2>3
    <3>2. ASSUME NEW k \in 1..j PROVE t[k] \notin Releasing
      <4>1. k \in 1..Len(t) /\ k + 1 \in 1..(j + 1)
        BY <1>1
      <4> QED BY <1>2, <2>3, <4>1
    <3> QED BY <3>1, <3>2
  <2>4. ASSUME NEW m \in 1..(i + 1), s[m] = "read",
               \A k \in m..(j + 1) : s[k] \notin Releasing
        PROVE  \/ next /\ \A k \in 1..j : t[k] \notin Releasing
               \/ \E n \in 1..i : t[n] = "read" /\ \A k \in n..j : t[k] \notin Releasing
    <3>1. CASE m = 1
      <4>1. next
        BY <2>4, <3>1
      <4>2. ASSUME NEW k \in 1..j PROVE t[k] \notin Releasing
        <5>1. k \in 1..Len(t) /\ k + 1 \in m..(j + 1)
          BY <1>1, <3>1
        <5> QED BY <1>2, <2>4, <5>1
      <4> QED BY <4>1, <4>2
    <3>2. CASE m # 1
      <4>1. m - 1 \in 1..i /\ t[m - 1] = "read"
        BY <1>1, <1>3, <2>1, <2>4, <3>2
      <4>2. ASSUME NEW k \in (m - 1)..j PROVE t[k] \notin Releasing
        <5>1. k \in 1..Len(t) /\ k + 1 \in m..(j + 1)
          BY <1>1, <4>1
        <5> QED BY <1>2, <2>4, <5>1
      <4> QED BY <4>1, <4>2
    <3> QED BY <3>1, <3>2
  <2> QED BY <2>2, <2>3, <2>4
<1>7. ASSUME Answering(s, held) PROVE Answering(t, next)
  <2> SUFFICES ASSUME NEW j \in 1..Len(t)
               PROVE  /\ t[j] \notin {"call", "model", "commit", "error"}
                      /\ t[j] = "read" => next /\ \A k \in 1..j : t[k] \notin Releasing
    BY DEF Answering
  <2>1. j + 1 \in 1..Len(s) /\ t[j] = s[j + 1]
    BY <1>1, <1>2
  <2>2. /\ s[j + 1] \notin {"call", "model", "commit", "error"}
        /\ s[j + 1] = "read" => held /\ \A k \in 1..(j + 1) : s[k] \notin Releasing
    BY <1>7, <2>1 DEF Answering
  <2>3. ASSUME t[j] = "read" PROVE next /\ \A k \in 1..j : t[k] \notin Releasing
    <3>1. held /\ \A k \in 1..(j + 1) : s[k] \notin Releasing
      BY <2>1, <2>2, <2>3
    <3>2. s[1] \notin Releasing
      BY <3>1
    <3> QED BY <1>1, <1>2, <3>1, <3>2
  <2> QED BY <2>1, <2>2, <2>3
<1>8. ASSUME AuditsFirst(s), s[1] # "commit" PROVE AuditsFirst(t)
  <2> SUFFICES ASSUME NEW j \in 1..Len(t), t[j] = "reply"
               PROVE  \E i \in 1..(j - 1) : t[i] = "commit"
    BY DEF AuditsFirst
  <2>1. PICK i \in 1..((j + 1) - 1) : s[i] = "commit"
    BY <1>1, <1>2, <1>8 DEF AuditsFirst
  <2>2. i - 1 \in 1..(j - 1) /\ t[i - 1] = "commit"
    BY <1>1, <1>3, <1>8, <2>1
  <2> QED BY <2>2
<1> QED
  BY <1>4, <1>5, <1>6, <1>7, <1>8 DEF t

\* Which parts are still to come.
LEMMA TailHas ==
    ASSUME NEW s \in Seq(Part), s # <<>>, NEW parts
    PROVE  /\ Has(s, parts) /\ s[1] \notin parts => Has(Tail(s), parts)
           /\ Has(Tail(s), parts) => Has(s, parts)
<1>1. /\ Len(s) \in Nat /\ Len(Tail(s)) = Len(s) - 1
      /\ \A i \in 1..(Len(s) - 1) : Tail(s)[i] = s[i + 1]
  BY TailOf
<1>2. ASSUME NEW i \in 1..Len(s), s[i] \in parts, s[1] \notin parts
      PROVE  Has(Tail(s), parts)
  <2>1. i - 1 \in 1..Len(Tail(s)) /\ Tail(s)[i - 1] = s[i]
    BY <1>1, <1>2
  <2> QED BY <1>2, <2>1 DEF Has
<1>3. ASSUME NEW i \in 1..Len(Tail(s)), Tail(s)[i] \in parts
      PROVE  Has(s, parts)
  <2>1. i + 1 \in 1..Len(s) /\ s[i + 1] = Tail(s)[i]
    BY <1>1
  <2> QED BY <1>3, <2>1 DEF Has
<1> QED BY <1>2, <1>3 DEF Has


-----------------------------------------------------------------------------
(* The steps *)

\* A step of r leaves the other requests sound.
LEMMA OneRequest ==
    ASSUME SessionsInv, NEW r \in Requests, Only(r), SessionsTypeOK', RequestSound(r)',
           sessionFaults' >= sessionFaults
    PROVE  SessionsInv'
<1> SUFFICES ASSUME NEW q \in Requests \ {r} PROVE RequestSound(q)'
  BY DEF SessionsInv
<1>1. RequestSound(q)
  BY DEF SessionsInv
<1>2. PICK s : s = todo[q]
  OBVIOUS
<1>3. PICK held \in BOOLEAN : held <=> q \in main
  OBVIOUS
<1>4. /\ todo'[q] = s /\ audit'[q] = audit[q] /\ result'[q] = result[q]
      /\ q \in main' <=> held
      /\ q \in side' <=> q \in side
      /\ q \in answered' <=> q \in answered
  BY <1>2, <1>3 DEF Only
<1>5. sessionFaults' = 0 => sessionFaults = 0
  BY DEF SessionsInv, SessionsTypeOK
<1> QED
  BY <1>1, <1>2, <1>3, <1>4, <1>5 DEF RequestSound

\* A request goes on to its next part: what its answer and its outcome need is left
\* to the step, the rest is kept.
LEMMA AdvanceKeeps ==
    ASSUME SessionsInv, NEW r \in Requests, todo[r] # <<>>, Advance(r), r \notin side',
           r \in main /\ todo[r][1] \notin Releasing => r \in main',
           todo[r][1] = "read" => r \in main',
           r \in main' => /\ todo[r][1] \notin Releasing
                          /\ r \in main \/ todo[r][1] \in {"read", "probe"},
           audit'[r] = "owed" => /\ audit[r] = "owed" /\ todo[r][1] # "commit"
                                 /\ result'[r] # "ok",
           result'[r] # "none" => ~ Has(Tail(todo[r]), {"model"}),
           r \in answered' =>
              /\ result'[r] = "none" => Has(Tail(todo[r]), {"reply", "error"})
              /\ sessionFaults' = 0 => /\ Answering(Tail(todo[r]), r \in main')
                                       /\ result'[r] \notin {"error", "broken"}
    PROVE  RequestSound(r)'
<1>1. PICK s \in Seq(Part), t \in Seq(Part) : s = todo[r] /\ t = Tail(s) /\ s # <<>>
  BY TailOf DEF SessionsInv, SessionsTypeOK
<1>2. PICK held \in BOOLEAN, next \in BOOLEAN :
         (held <=> r \in main) /\ (next <=> r \in main')
  OBVIOUS
<1>3. todo'[r] = t
  BY <1>1 DEF Advance, SessionsInv, SessionsTypeOK
<1>4. /\ Closes(s) /\ ModelLast(s) /\ ReadsHeld(s, held)
      /\ audit[r] = "owed" => AuditsFirst(s)
      /\ held => Has(s, Ends)
  BY <1>1, <1>2 DEF SessionsInv, RequestSound
<1>5. /\ Closes(t) /\ ModelLast(t) /\ ReadsHeld(t, next)
      /\ audit[r] = "owed" /\ s[1] # "commit" => AuditsFirst(t)
  BY <1>1, <1>2, <1>4, TailKeeps
<1>6. next => Has(t, Ends)
  <2> SUFFICES ASSUME next PROVE Has(t, Ends)
    OBVIOUS
  <2>1. s[1] \notin Ends
    BY <1>1, <1>2 DEF Releasing
  <2>2. CASE held
    BY <1>1, <1>4, <2>1, <2>2, TailHas
  <2>3. CASE s[1] \in {"read", "probe"}
    <3>1. Len(s) \in Nat /\ Len(s) >= 1
      BY <1>1, TailOf
    <3>2. PICK i \in 2..Len(s) : s[i] \in Ends
      BY <1>4, <2>3, <3>1 DEF Closes
    <3>3. Has(s, Ends)
      BY <3>2 DEF Has
    <3> QED BY <1>1, <2>1, <3>3, TailHas
  <2> QED BY <1>1, <1>2, <2>2, <2>3
<1> QED
  BY <1>1, <1>2, <1>3, <1>5, <1>6 DEF RequestSound


\* ... and when the step says nothing to the caller nor asks the model.
LEMMA QuietAdvance ==
    ASSUME SessionsInv, NEW r \in Requests, todo[r] # <<>>, Advance(r), r \notin side',
           r \in main /\ todo[r][1] \notin Releasing => r \in main',
           todo[r][1] = "read" => r \in main',
           r \in main' => /\ todo[r][1] \notin Releasing
                          /\ r \in main \/ todo[r][1] \in {"read", "probe"},
           audit'[r] = "owed" => audit[r] = "owed" /\ todo[r][1] # "commit",
           todo[r][1] \notin {"reply", "error"},
           UNCHANGED <<answered, result, sessionFaults>>
    PROVE  RequestSound(r)'
<1>1. todo[r] \in Seq(Part)
  BY DEF SessionsInv, SessionsTypeOK
<1>2. RequestSound(r)
  BY DEF SessionsInv
<1>3. result'[r] # "none" => ~ Has(Tail(todo[r]), {"model"})
  BY <1>1, <1>2, TailHas DEF RequestSound
<1>4. r \in answered /\ result[r] = "none" => Has(Tail(todo[r]), {"reply", "error"})
  BY <1>1, <1>2, TailHas DEF RequestSound
<1>5. ASSUME r \in answered, sessionFaults = 0
      PROVE  /\ Answering(Tail(todo[r]), r \in main')
             /\ result[r] \notin {"error", "broken"}
  <2>1. PICK held \in BOOLEAN, next \in BOOLEAN :
           (held <=> r \in main) /\ (next <=> r \in main')
    OBVIOUS
  <2>2. Answering(todo[r], held) /\ result[r] \notin {"error", "broken"}
    BY <1>2, <1>5, <2>1 DEF RequestSound
  <2>3. Answering(Tail(todo[r]), next)
    BY <1>1, <2>1, <2>2, TailKeeps
  <2> QED BY <2>1, <2>2, <2>3
<1>6. audit'[r] = "owed" => /\ audit[r] = "owed" /\ todo[r][1] # "commit"
                            /\ result'[r] # "ok"
  BY <1>2 DEF RequestSound
<1> QED
  BY <1>3, <1>4, <1>5, <1>6, AdvanceKeeps

\* What a stream leaves when it raises is one of the ends.
LEMMA UnwoundIsAftermath == \A r : Unwound(r) \in Aftermath
BY DEF Unwound, Aftermath

\* An exception leaves a request sound, unless it loses an answer of the model that
\* nothing but a failed statement may lose.
LEMMA RaiseKeeps ==
    ASSUME SessionsInv, NEW r \in Requests, Raise(r), r \notin side',
           audit'[r] = "owed" => audit[r] = "owed",
           r \in answered' => r \in answered /\ sessionFaults' # 0
    PROVE  RequestSound(r)'
<1>1. RequestSound(r) /\ todo \in [Requests -> Seq(Part)]
      /\ result \in [Requests -> {"none", "ok", "error", "broken", "left"}]
  BY DEF SessionsInv, SessionsTypeOK
<1>2. PICK s \in Aftermath, next \in BOOLEAN :
         s = todo'[r] /\ (next <=> r \in main')
  BY <1>1, UnwoundIsAftermath DEF Raise, Aftermath
<1>3. /\ Closes(s) /\ ModelLast(s) /\ ReadsHeld(s, next) /\ AuditsFirst(s)
      /\ Has(s, Ends) /\ ~ Has(s, {"model"})
      /\ s = <<"close", "error">> => Has(s, {"reply", "error"})
  BY <1>2, AftermathIsOrderly
<1>4. \/ s = <<"close", "error">> /\ result'[r] = result[r]
      \/ result'[r] = "broken"
  BY <1>1, <1>2 DEF Raise
<1>5. audit'[r] = "owed" => result'[r] # "ok"
  BY <1>1, <1>4 DEF RequestSound
<1> QED
  BY <1>2, <1>3, <1>4, <1>5 DEF RequestSound

\* The sequences stay sequences of parts.
LEMMA TodoTypes ==
    ASSUME SessionsTypeOK, NEW r \in Requests
    PROVE  /\ todo[r] # <<>> /\ Advance(r) => todo' \in [Requests -> Seq(Part)]
           /\ Raise(r) => /\ todo' \in [Requests -> Seq(Part)]
                          /\ result' \in [Requests ->
                                 {"none", "ok", "error", "broken", "left"}]
<1>1. todo \in [Requests -> Seq(Part)] /\ todo[r] \in Seq(Part)
  BY DEF SessionsTypeOK
<1>2. todo[r] # <<>> => Tail(todo[r]) \in Seq(Part)
  BY <1>1, TailOf
<1>3. <<"close", "error">> \in Seq(Part) /\ Unwound(r) \in Seq(Part)
  <2>1. \A s \in Aftermath : s \in Seq(Part)
    BY AftermathIsOrderly
  <2> QED BY <2>1, UnwoundIsAftermath DEF Aftermath
<1>4. todo[r] # <<>> /\ Advance(r) => todo' \in [Requests -> Seq(Part)]
  BY <1>1, <1>2 DEF Advance
<1>5. Raise(r) => /\ todo' \in [Requests -> Seq(Part)]
                  /\ result' \in [Requests -> {"none", "ok", "error", "broken", "left"}]
  BY <1>1, <1>3 DEF Raise, SessionsTypeOK
<1> QED BY <1>4, <1>5

\* The first part, as the steps ask for it.
LEMMA AtIsFirst ==
    ASSUME SessionsTypeOK, NEW r \in Requests, NEW part
    PROVE  At(r, part) => todo[r] # <<>> /\ todo[r][1] = part
<1>1. todo[r] \in Seq(Part)
  BY DEF SessionsTypeOK
<1> QED BY <1>1, TailOf DEF At

\* A request whose ledger has a connection does nothing else meanwhile.
LEMMA LedgerFirst ==
    ASSUME SessionsInv, NEW r \in Requests, NEW part, At(r, part), part \notin Ledger
    PROVE  r \notin side
<1>1. todo[r][1] = part
  BY AtIsFirst DEF SessionsInv
<1> QED BY <1>1 DEF SessionsInv, RequestSound


LEMMA ReadKeeps ==
    ASSUME SessionsInv, NEW r \in Requests, Read(r)
    PROVE  SessionsInv'
<1>1. todo[r] # <<>> /\ todo[r][1] \in {"read", "probe"} /\ r \notin side
  BY AtIsFirst, LedgerFirst DEF SessionsInv, Read, Ledger
<1>2. SessionsTypeOK'
  BY <1>1, TodoTypes DEF SessionsInv, SessionsTypeOK, Read
<1>3. Only(r)
  BY DEF SessionsInv, SessionsTypeOK, Read, Advance, Only
<1>4. RequestSound(r)'
  BY <1>1, QuietAdvance DEF Read, Releasing, Ends
<1>5. sessionFaults' >= sessionFaults
  BY DEF SessionsInv, SessionsTypeOK, Read
<1> QED BY <1>2, <1>3, <1>4, <1>5, OneRequest

LEMMA CommitKeeps ==
    ASSUME SessionsInv, NEW r \in Requests, Commit(r)
    PROVE  SessionsInv'
<1>1. todo[r] # <<>> /\ todo[r][1] = "commit" /\ r \notin side
  BY AtIsFirst, LedgerFirst DEF SessionsInv, Commit, Ledger
<1>2. SessionsTypeOK'
  BY <1>1, TodoTypes DEF SessionsInv, SessionsTypeOK, Commit
<1>3. Only(r)
  BY DEF SessionsInv, SessionsTypeOK, Commit, Advance, Only
<1>4. audit'[r] = "kept"
  BY DEF SessionsInv, SessionsTypeOK, Commit
<1>5. RequestSound(r)'
  BY <1>1, <1>4, QuietAdvance DEF Commit, Releasing
<1>6. sessionFaults' >= sessionFaults
  BY DEF SessionsInv, SessionsTypeOK, Commit
<1> QED BY <1>2, <1>3, <1>5, <1>6, OneRequest

LEMMA ProbeFailsKeeps ==
    ASSUME SessionsInv, NEW r \in Requests, ProbeFails(r)
    PROVE  SessionsInv'
<1>1. todo[r] # <<>> /\ todo[r][1] = "probe" /\ r \notin side
  BY AtIsFirst, LedgerFirst DEF SessionsInv, ProbeFails, Ledger
<1>2. SessionsTypeOK'
  BY <1>1, TodoTypes DEF SessionsInv, SessionsTypeOK, ProbeFails
<1>3. Only(r)
  BY DEF SessionsInv, SessionsTypeOK, ProbeFails, Advance, Only
<1>4. RequestSound(r)'
  BY <1>1, QuietAdvance DEF ProbeFails, Releasing, Ends
<1>5. sessionFaults' >= sessionFaults
  BY DEF SessionsInv, SessionsTypeOK, ProbeFails
<1> QED BY <1>2, <1>3, <1>4, <1>5, OneRequest

\* With the model's answer nothing is left that could lose it.
LEMMA CallKeeps ==
    ASSUME SessionsInv, NEW r \in Requests, Call(r)
    PROVE  SessionsInv'
<1>1. todo[r] # <<>> /\ todo[r][1] \in {"call", "model"} /\ r \notin side
  BY AtIsFirst, LedgerFirst DEF SessionsInv, Call, Ledger
<1>2. SessionsTypeOK'
  BY <1>1, TodoTypes DEF SessionsInv, SessionsTypeOK, Call
<1>3. Only(r)
  BY DEF SessionsInv, SessionsTypeOK, Call, Advance, Only
<1>4. sessionFaults' >= sessionFaults
  BY DEF SessionsInv, SessionsTypeOK, Call
<1>5. CASE answered' = answered
  <2>1. RequestSound(r)'
    BY <1>1, <1>5, QuietAdvance DEF Call, Releasing, Ends
  <2> QED BY <1>2, <1>3, <1>4, <2>1, OneRequest
<1>6. CASE At(r, "model")
  <2>1. todo[r][1] = "model" /\ todo[r] \in Seq(Part) /\ RequestSound(r)
    BY <1>6, AtIsFirst DEF SessionsInv, SessionsTypeOK
  <2>2. /\ Len(todo[r]) \in Nat /\ Len(todo[r]) >= 1
        /\ Len(Tail(todo[r])) = Len(todo[r]) - 1
        /\ \A i \in 1..(Len(todo[r]) - 1) : Tail(todo[r])[i] = todo[r][i + 1]
    BY <1>1, <2>1, TailOf
  <2>3. Has(todo[r], {"model"})
    BY <2>1, <2>2 DEF Has
  <2>4. result'[r] = "none"
    BY <2>1, <2>3 DEF Call, RequestSound
  <2>5. /\ \A j \in 2..Len(todo[r]) :
              todo[r][j] \notin {"call", "model", "commit", "error"}
        /\ \E j \in 2..Len(todo[r]) : todo[r][j] = "reply"
    BY <2>1, <2>2 DEF RequestSound, ModelLast
  <2>6. Has(Tail(todo[r]), {"reply", "error"})
    <3>1. PICK j \in 2..Len(todo[r]) : todo[r][j] = "reply"
      BY <2>5
    <3>2. j - 1 \in 1..Len(Tail(todo[r])) /\ Tail(todo[r])[j - 1] = "reply"
      BY <2>2, <3>1
    <3> QED BY <3>2 DEF Has
  <2>7. Answering(Tail(todo[r]), r \in main')
    <3>1. r \in main' <=> r \in main
      BY DEF Call
    <3>2. ASSUME NEW j \in 1..Len(Tail(todo[r]))
          PROVE  /\ Tail(todo[r])[j] \notin {"call", "model", "commit", "error"}
                 /\ Tail(todo[r])[j] = "read" =>
                       /\ r \in main
                       /\ \A k \in 1..j : Tail(todo[r])[k] \notin Releasing
      <4>1. j + 1 \in 2..Len(todo[r]) /\ Tail(todo[r])[j] = todo[r][j + 1]
        BY <2>2
      <4>2. ASSUME todo[r][j + 1] = "read"
            PROVE  /\ \A k \in 1..(j + 1) : todo[r][k] \notin Releasing
                   /\ r \in main
        BY <2>1, <2>2, <4>1, <4>2 DEF RequestSound, ReadsHeld
      <4>3. \A k \in 1..j : k + 1 \in 1..(j + 1) /\ Tail(todo[r])[k] = todo[r][k + 1]
        BY <2>2
      <4> QED BY <2>5, <4>1, <4>2, <4>3
    <3> QED BY <3>1, <3>2 DEF Answering
  <2>8. audit'[r] = "owed" => audit[r] = "owed" /\ result'[r] # "ok"
    BY <2>4 DEF Call
  <2>9. RequestSound(r)'
    BY <1>1, <2>1, <2>4, <2>6, <2>7, <2>8, AdvanceKeeps DEF Call, Releasing, Ends
  <2> QED BY <1>2, <1>3, <1>4, <2>9, OneRequest
<1> QED BY <1>5, <1>6 DEF Call

LEMMA WriteLedgerKeeps ==
    ASSUME SessionsInv, NEW r \in Requests, WriteLedger(r)
    PROVE  SessionsInv'
<1>1. todo[r] # <<>> /\ todo[r][1] \in Ledger /\ r \notin side'
  BY DEF SessionsInv, RequestSound, WriteLedger
<1>2. SessionsTypeOK'
  BY <1>1, TodoTypes DEF SessionsInv, SessionsTypeOK, WriteLedger
<1>3. Only(r)
  BY DEF SessionsInv, SessionsTypeOK, WriteLedger, Advance, Only
<1>4. RequestSound(r)'
  BY <1>1, QuietAdvance DEF WriteLedger, Releasing, Ends, Ledger
<1>5. sessionFaults' >= sessionFaults
  BY DEF SessionsInv, SessionsTypeOK, WriteLedger
<1> QED BY <1>2, <1>3, <1>4, <1>5, OneRequest

LEMMA LedgerTimeoutKeeps ==
    ASSUME SessionsInv, NEW r \in Requests, LedgerTimeout(r)
    PROVE  SessionsInv'
<1>1. todo[r] # <<>> /\ todo[r][1] \in Ledger /\ r \notin side'
  BY AtIsFirst DEF SessionsInv, LedgerTimeout, Ledger
<1>2. SessionsTypeOK'
  BY <1>1, TodoTypes DEF SessionsInv, SessionsTypeOK, LedgerTimeout
<1>3. Only(r)
  BY DEF SessionsInv, SessionsTypeOK, LedgerTimeout, Advance, Only
<1>4. RequestSound(r)'
  BY <1>1, QuietAdvance DEF LedgerTimeout, Releasing, Ends, Ledger
<1>5. sessionFaults' >= sessionFaults
  BY DEF SessionsInv, SessionsTypeOK, LedgerTimeout
<1> QED BY <1>2, <1>3, <1>4, <1>5, OneRequest

LEMMA ReleaseKeeps ==
    ASSUME SessionsInv, NEW r \in Requests, Release(r)
    PROVE  SessionsInv'
<1>1. todo[r] # <<>> /\ todo[r][1] \in Ends /\ r \notin side
  BY AtIsFirst, LedgerFirst DEF SessionsInv, Release, Ledger, Ends
<1>2. SessionsTypeOK'
  BY <1>1, TodoTypes DEF SessionsInv, SessionsTypeOK, Release
<1>3. Only(r)
  BY DEF SessionsInv, SessionsTypeOK, Release, Advance, Only
<1>4. RequestSound(r)'
  BY <1>1, QuietAdvance DEF Release, Releasing, Ends
<1>5. sessionFaults' >= sessionFaults
  BY DEF SessionsInv, SessionsTypeOK, Release
<1> QED BY <1>2, <1>3, <1>4, <1>5, OneRequest


\* Nobody is refused a connection for a statement whose answer the model has given,
\* for that session has its own; and nothing is called then.
LEMMA AnsweredNeverRaises ==
    ASSUME SessionsInv, NEW r \in Requests, r \in answered, sessionFaults = 0,
           todo[r] # <<>>
    PROVE  /\ todo[r][1] \notin {"call", "model", "commit", "error"}
           /\ todo[r][1] = "read" => r \in main
<1>1. RequestSound(r) /\ todo[r] \in Seq(Part)
  BY DEF SessionsInv, SessionsTypeOK
<1>2. Len(todo[r]) \in Nat /\ Len(todo[r]) >= 1
  BY <1>1, TailOf
<1> QED BY <1>1, <1>2 DEF RequestSound, Answering

\* The model is not asked once something has been replied, and the answer it has
\* given stays on its way.
LEMMA ReplyLeavesNoQuestion ==
    ASSUME SessionsInv, NEW r \in Requests, todo[r] # <<>>,
           todo[r][1] \in {"reply", "error"}
    PROVE  /\ ~ Has(Tail(todo[r]), {"model"})
           /\ r \in answered /\ sessionFaults = 0 => Answering(Tail(todo[r]), r \in main)
<1>1. todo[r] \in Seq(Part) /\ RequestSound(r)
  BY DEF SessionsInv, SessionsTypeOK
<1>2. /\ Len(todo[r]) \in Nat /\ Len(todo[r]) >= 1
      /\ Len(Tail(todo[r])) = Len(todo[r]) - 1
      /\ \A i \in 1..(Len(todo[r]) - 1) : Tail(todo[r])[i] = todo[r][i + 1]
  BY <1>1, TailOf
<1>3. ~ Has(Tail(todo[r]), {"model"})
  <2> SUFFICES ASSUME NEW i \in 1..Len(Tail(todo[r])), Tail(todo[r])[i] = "model"
               PROVE  FALSE
    BY DEF Has
  <2>1. i + 1 \in 1..Len(todo[r]) /\ todo[r][i + 1] = "model"
    BY <1>2
  <2> QED BY <1>1, <1>2, <2>1 DEF RequestSound, ModelLast
<1>4. ASSUME r \in answered, sessionFaults = 0
      PROVE  Answering(Tail(todo[r]), r \in main)
  <2>1. PICK held \in BOOLEAN : held <=> r \in main
    OBVIOUS
  <2>2. Answering(todo[r], held)
    BY <1>1, <1>4, <2>1 DEF RequestSound
  <2>3. Answering(Tail(todo[r]), held)
    BY <1>1, <2>2, TailKeeps
  <2> QED BY <2>1, <2>3
<1> QED BY <1>3, <1>4

\* The audit row of what is replied has been committed, and an answer of the model
\* leaves as one.
LEMMA ReplyKeeps ==
    ASSUME SessionsInv, NEW r \in Requests, Reply(r)
    PROVE  SessionsInv'
<1>1. todo[r] # <<>> /\ todo[r][1] \in {"reply", "error"} /\ r \notin side
  BY AtIsFirst, LedgerFirst DEF SessionsInv, Reply, Ledger
<1>2. SessionsTypeOK'
  <2>1. result' \in [Requests -> {"none", "ok", "error", "broken", "left"}]
    BY DEF SessionsInv, SessionsTypeOK, Reply
  <2> QED BY <1>1, <2>1, TodoTypes DEF SessionsInv, SessionsTypeOK, Reply
<1>3. Only(r)
  BY DEF SessionsInv, SessionsTypeOK, Reply, Advance, Only
<1>4. todo[r] \in Seq(Part) /\ RequestSound(r)
  BY DEF SessionsInv, SessionsTypeOK
<1>5. /\ Len(todo[r]) \in Nat /\ Len(todo[r]) >= 1
      /\ Len(Tail(todo[r])) = Len(todo[r]) - 1
      /\ \A i \in 1..(Len(todo[r]) - 1) : Tail(todo[r])[i] = todo[r][i + 1]
  BY <1>1, <1>4, TailOf
<1>6. /\ result'[r] \in {"ok", "error"}
      /\ result'[r] = "ok" <=> todo[r][1] = "reply"
  <2>1. At(r, "reply") <=> todo[r][1] = "reply"
    BY <1>1, <1>4, TailOf DEF At
  <2> QED BY <2>1 DEF SessionsInv, SessionsTypeOK, Reply
<1>7. ~ Has(Tail(todo[r]), {"model"})
  BY <1>1, ReplyLeavesNoQuestion
<1>8. audit[r] = "owed" => result'[r] # "ok" /\ todo[r][1] # "commit"
  BY <1>1, <1>4, <1>5, <1>6 DEF RequestSound, AuditsFirst
<1>9. ASSUME r \in answered, sessionFaults = 0
      PROVE  /\ Answering(Tail(todo[r]), r \in main')
             /\ result'[r] \notin {"error", "broken"}
  <2>1. Answering(Tail(todo[r]), r \in main')
    BY <1>1, <1>9, ReplyLeavesNoQuestion DEF Reply
  <2>2. todo[r][1] # "error"
    BY <1>1, <1>9, AnsweredNeverRaises
  <2> QED BY <1>1, <1>6, <2>1, <2>2
<1>10. RequestSound(r)'
  BY <1>1, <1>6, <1>7, <1>8, <1>9, AdvanceKeeps DEF Reply, Releasing, Ends
<1>11. sessionFaults' >= sessionFaults
  BY DEF SessionsInv, SessionsTypeOK, Reply
<1> QED BY <1>2, <1>3, <1>10, <1>11, OneRequest

LEMMA PoolTimeoutKeeps ==
    ASSUME SessionsInv, NEW r \in Requests, PoolTimeout(r)
    PROVE  SessionsInv'
<1>1. todo[r] # <<>> /\ todo[r][1] \in {"read", "commit"} /\ r \notin side
  BY AtIsFirst, LedgerFirst DEF SessionsInv, PoolTimeout, Ledger
<1>2. SessionsTypeOK'
  BY <1>1, TodoTypes DEF SessionsInv, SessionsTypeOK, PoolTimeout
<1>3. Only(r)
  BY DEF SessionsInv, SessionsTypeOK, PoolTimeout, Raise, Only
<1>4. r \in answered => sessionFaults # 0
  BY <1>1, AnsweredNeverRaises DEF PoolTimeout, Connected
<1>5. RequestSound(r)'
  BY <1>1, <1>4, RaiseKeeps DEF PoolTimeout
<1>6. sessionFaults' >= sessionFaults
  BY DEF SessionsInv, SessionsTypeOK, PoolTimeout
<1> QED BY <1>2, <1>3, <1>5, <1>6, OneRequest

LEMMA StatementFailsKeeps ==
    ASSUME SessionsInv, NEW r \in Requests, StatementFails(r)
    PROVE  SessionsInv'
<1>1. r \notin side
  BY LedgerFirst DEF StatementFails, Ledger
<1>2. \/ audit' = audit
      \/ audit' = [audit EXCEPT ![r] = "kept"]
  BY DEF StatementFails
<1>3. SessionsTypeOK'
  <2>1. sessionFaults' \in 0..MaxSessionFaults
    BY SessionsAssumption DEF SessionsInv, SessionsTypeOK, StatementFails
  <2>2. audit' \in [Requests -> {"none", "owed", "kept"}]
    BY <1>2 DEF SessionsInv, SessionsTypeOK
  <2> QED BY <2>1, <2>2, TodoTypes DEF SessionsInv, SessionsTypeOK, StatementFails
<1>4. Only(r)
  BY <1>2 DEF SessionsInv, SessionsTypeOK, StatementFails, Raise, Only
<1>5. sessionFaults' >= sessionFaults /\ sessionFaults' # 0
  BY DEF SessionsInv, SessionsTypeOK, StatementFails
<1>6. audit'[r] = "owed" => audit[r] = "owed"
  BY <1>2 DEF SessionsInv, SessionsTypeOK
<1>7. RequestSound(r)'
  BY <1>1, <1>5, <1>6, RaiseKeeps DEF StatementFails
<1> QED BY <1>3, <1>4, <1>5, <1>7, OneRequest

LEMMA CallFailsKeeps ==
    ASSUME SessionsInv, NEW r \in Requests, CallFails(r)
    PROVE  SessionsInv'
<1>1. todo[r] # <<>> /\ todo[r][1] \in {"call", "model"} /\ r \notin side
  BY AtIsFirst, LedgerFirst DEF SessionsInv, CallFails, Ledger
<1>2. SessionsTypeOK'
  BY <1>1, TodoTypes DEF SessionsInv, SessionsTypeOK, CallFails
<1>3. Only(r)
  BY DEF SessionsInv, SessionsTypeOK, CallFails, Raise, Only
<1>4. r \in answered => sessionFaults # 0
  BY <1>1, AnsweredNeverRaises
<1>5. RequestSound(r)'
  BY <1>1, <1>4, RaiseKeeps DEF CallFails
<1>6. sessionFaults' >= sessionFaults
  BY DEF SessionsInv, SessionsTypeOK, CallFails
<1> QED BY <1>2, <1>3, <1>5, <1>6, OneRequest

LEMMA OpenLedgerKeeps ==
    ASSUME SessionsInv, NEW r \in Requests, OpenLedger(r)
    PROVE  SessionsInv'
<1>1. todo[r] # <<>> /\ todo[r][1] \in Ledger
  BY AtIsFirst DEF SessionsInv, OpenLedger, Ledger
<1>2. SessionsTypeOK'
  BY DEF SessionsInv, SessionsTypeOK, OpenLedger
<1>3. Only(r)
  BY DEF OpenLedger, Only
<1>4. RequestSound(r)'
  BY <1>1 DEF SessionsInv, OpenLedger, RequestSound
<1>5. sessionFaults' >= sessionFaults
  BY DEF SessionsInv, SessionsTypeOK, OpenLedger
<1> QED BY <1>2, <1>3, <1>4, <1>5, OneRequest


\* A client that leaves leaves its request without a reply, and never short of the
\* part that gives its connection back.
LEMMA LeaveKeeps ==
    ASSUME SessionsInv, NEW r \in Requests, Leave(r)
    PROVE  SessionsInv'
<1>1. todo[r] # <<>> /\ todo[r][1] \in {"model", "reply"} /\ r \notin side
  BY AtIsFirst, LedgerFirst DEF SessionsInv, Leave, Ledger
<1>2. result' \in [Requests -> {"none", "ok", "error", "broken", "left"}]
      /\ result'[r] = "left"
  BY DEF SessionsInv, SessionsTypeOK, Leave
<1>3. Only(r)
  BY DEF SessionsInv, SessionsTypeOK, Leave, Advance, Only
<1>4. sessionFaults' >= sessionFaults
  BY DEF SessionsInv, SessionsTypeOK, Leave
<1>5. CASE At(r, "reply") /\ Advance(r)
  <2>1. todo[r][1] = "reply"
    BY <1>5, AtIsFirst DEF SessionsInv
  <2>2. SessionsTypeOK'
    BY <1>1, <1>2, <1>5, TodoTypes DEF SessionsInv, SessionsTypeOK, Leave
  <2>3. /\ ~ Has(Tail(todo[r]), {"model"})
        /\ r \in answered /\ sessionFaults = 0 => Answering(Tail(todo[r]), r \in main')
    BY <1>1, <2>1, ReplyLeavesNoQuestion DEF Leave
  <2>4. RequestSound(r)'
    BY <1>1, <1>2, <1>5, <2>1, <2>3, AdvanceKeeps DEF Leave, Releasing, Ends
  <2> QED BY <1>3, <1>4, <2>2, <2>4, OneRequest
<1>6. ASSUME NEW s \in {<<"drop">>, <<"trace", "drop">>},
             todo' = [todo EXCEPT ![r] = s]
      PROVE  SessionsInv'
  <2>1. PICK held \in BOOLEAN : held <=> r \in main'
    OBVIOUS
  <2>2. s # <<"close", "error">>
    <3>1. s[1] # "close" /\ <<"close", "error">>[1] = "close"
      OBVIOUS
    <3> QED BY <3>1
  <2>3. /\ s \in Seq(Part) /\ Closes(s) /\ ModelLast(s) /\ ReadsHeld(s, held)
        /\ AuditsFirst(s) /\ Has(s, Ends) /\ ~ Has(s, {"model"}) /\ Answering(s, held)
    <3>1. s \in Aftermath
      BY DEF Aftermath
    <3> QED BY <2>2, <3>1, AftermathIsOrderly
  <2>4. todo'[r] = s /\ todo' \in [Requests -> Seq(Part)]
    BY <1>6, <2>3 DEF SessionsInv, SessionsTypeOK
  <2>5. SessionsTypeOK'
    BY <1>2, <2>4 DEF SessionsInv, SessionsTypeOK, Leave
  <2>6. UNCHANGED <<main, side, audit, answered, sessionFaults>>
    BY DEF Leave
  <2>7. RequestSound(r)'
    BY <1>1, <1>2, <2>1, <2>3, <2>4, <2>6 DEF RequestSound
  <2> QED BY <1>3, <1>4, <2>5, <2>7, OneRequest
<1> QED BY <1>5, <1>6 DEF Leave

\* A new request begins at the first part of its handler and has nothing yet.
LEMMA ArriveKeeps ==
    ASSUME SessionsInv, NEW r \in Requests, Arrive(r)
    PROVE  SessionsInv'
<1>1. PICK handler \in Handlers :
         /\ todo' = [todo EXCEPT ![r] = handler]
         /\ audit' = [audit EXCEPT ![r] =
                         IF "commit" \in Range(handler) THEN "owed" ELSE "none"]
  BY DEF Arrive
<1>2. handler \in Seq(Part) /\ Orderly(handler)
  BY HandlersAreOrderly DEF Orderly
<1>3. todo' \in [Requests -> Seq(Part)] /\ todo'[r] = handler
  BY <1>1, <1>2 DEF SessionsInv, SessionsTypeOK
<1>4. /\ audit' \in [Requests -> {"none", "owed", "kept"}]
      /\ audit'[r] = "owed" => "commit" \in Range(handler)
  BY <1>1 DEF SessionsInv, SessionsTypeOK
<1>5. r \notin answered /\ r \notin main /\ r \notin side
  <2>1. todo[r] = <<>> /\ result[r] = "none" /\ RequestSound(r)
    BY DEF Arrive, SessionsInv
  <2>2. \A parts : ~ Has(<<>>, parts)
    BY DEF Has
  <2> QED BY <2>1, <2>2 DEF RequestSound
<1>6. Only(r)
  BY <1>1 DEF SessionsInv, SessionsTypeOK, Arrive, Only
<1>7. SessionsTypeOK'
  BY <1>3, <1>4 DEF SessionsInv, SessionsTypeOK, Arrive
<1>8. /\ result'[r] = "none" /\ r \notin answered' /\ r \notin main' /\ r \notin side'
      /\ sessionFaults' = sessionFaults
  BY <1>5 DEF Arrive
<1>9. PICK held \in BOOLEAN : held = FALSE /\ (held <=> r \in main')
  BY <1>8
<1>10. /\ Closes(handler) /\ ModelLast(handler) /\ ReadsHeld(handler, held)
       /\ audit'[r] = "owed" => AuditsFirst(handler)
  BY <1>2, <1>4, <1>9 DEF Orderly
<1>11. RequestSound(r)'
  BY <1>3, <1>8, <1>9, <1>10 DEF RequestSound
<1>12. sessionFaults' >= sessionFaults
  BY <1>8 DEF SessionsInv, SessionsTypeOK
<1> QED BY <1>6, <1>7, <1>11, <1>12, OneRequest

LEMMA SessionsInvInit == SessionsInit => SessionsInv
<1> SUFFICES ASSUME SessionsInit PROVE SessionsInv
  OBVIOUS
<1>1. SessionsTypeOK
  BY SessionsAssumption DEF SessionsInit, SessionsTypeOK
<1>2. ASSUME NEW r \in Requests PROVE RequestSound(r)
  <2>1. todo[r] = <<>> /\ audit[r] = "none" /\ result[r] = "none"
    BY DEF SessionsInit
  <2>2. r \notin main /\ r \notin side /\ r \notin answered
    BY DEF SessionsInit
  <2>3. /\ Closes(<<>>) /\ ModelLast(<<>>) /\ ReadsHeld(<<>>, r \in main)
    BY DEF Closes, ModelLast, ReadsHeld
  <2> QED BY <2>1, <2>2, <2>3 DEF RequestSound
<1> QED BY <1>1, <1>2 DEF SessionsInv

LEMMA SessionsInvStep ==
    SessionsInv /\ [SessionsNext]_sessionVars => SessionsInv'
<1> SUFFICES ASSUME SessionsInv, [SessionsNext]_sessionVars PROVE SessionsInv'
  OBVIOUS
<1>1. CASE UNCHANGED sessionVars
  BY <1>1 DEF sessionVars, SessionsInv, SessionsTypeOK, RequestSound
<1>2. ASSUME NEW r \in Requests,
             \/ Arrive(r) \/ Proceed(r) \/ GiveUp(r)
             \/ StatementFails(r) \/ CallFails(r) \/ Leave(r)
      PROVE  SessionsInv'
  <2>1. CASE Arrive(r)
    BY <2>1, ArriveKeeps
  <2>2. CASE Proceed(r)
    BY <2>2, ReadKeeps, CommitKeeps, CallKeeps, OpenLedgerKeeps, WriteLedgerKeeps,
       ReleaseKeeps, ReplyKeeps DEF Proceed
  <2>3. CASE GiveUp(r)
    BY <2>3, PoolTimeoutKeeps, LedgerTimeoutKeeps, ProbeFailsKeeps DEF GiveUp
  <2>4. CASE StatementFails(r)
    BY <2>4, StatementFailsKeeps
  <2>5. CASE CallFails(r)
    BY <2>5, CallFailsKeeps
  <2>6. CASE Leave(r)
    BY <2>6, LeaveKeeps
  <2> QED BY <1>2, <2>1, <2>2, <2>3, <2>4, <2>5, <2>6
<1> QED BY <1>1, <1>2 DEF SessionsNext

-----------------------------------------------------------------------------
(* The theorems *)

\* Whatever fails, times out or is left, what a request still does is what its
\* handler's order asks of it.
THEOREM RequestsStaySound == SessionsSpec => []SessionsInv
BY SessionsInvInit, SessionsInvStep, PTL DEF SessionsSpec

\* The state of the requests is of its type.
THEOREM RequestsTypeCorrect == SessionsSpec => []SessionsTypeOK
<1>1. SessionsInv => SessionsTypeOK
  BY DEF SessionsInv
<1> QED BY <1>1, RequestsStaySound, PTL

LEMMA SessionsInvAccounts == SessionsInv => OutcomeIsAccounted
<1> SUFFICES ASSUME SessionsInv PROVE HandedOutIsAudited /\ AnswerOutlivesLedger
  BY DEF OutcomeIsAccounted
<1>1. HandedOutIsAudited
  BY DEF SessionsInv, RequestSound, HandedOutIsAudited
<1>2. AnswerOutlivesLedger
  BY DEF SessionsInv, SessionsTypeOK, RequestSound, AnswerOutlivesLedger
<1> QED BY <1>1, <1>2

\* Nobody is handed a token, an address or search results without the audit row that
\* says so (audit_service), and for as long as no statement fails an answer of the
\* model is never lost to the ledgers or to a full pool (usage_service, eval_service).
THEOREM OutcomesStayAccounted == SessionsSpec => []OutcomeIsAccounted
<1>1. SessionsInv => OutcomeIsAccounted
  BY SessionsInvAccounts
<1> QED BY <1>1, RequestsStaySound, PTL

\* However a request ended, a stream that was broken off included, its sessions have
\* given their connections back (get_db, usage_service.record): no leak of the pool.
THEOREM RequestsLeaveNoConnection == SessionsSpec => []DoneHoldsNothing
<1>1. SessionsInv => DoneHoldsNothing
  <2> SUFFICES ASSUME SessionsInv, NEW r \in Requests, todo[r] = <<>>
               PROVE  r \notin main \cup side
    BY DEF DoneHoldsNothing
  <2>1. ~ Has(<<>>, Ends)
    BY DEF Has
  <2> QED BY <2>1 DEF SessionsInv, RequestSound
<1> QED BY <1>1, RequestsStaySound, PTL

=============================================================================

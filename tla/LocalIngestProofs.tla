------------------------- MODULE LocalIngestProofs -------------------------
(***************************************************************************)
(* For any folder, any number of processes that run the tool at once, any  *)
(* failures and deaths: what ingest_file() and forget() keep of the stores.*)
(*                                                                         *)
(* The invariant has one part for each thing that a transaction of the tool*)
(* holds (ToolSound), one for what two transactions may not both hold      *)
(* (Apart), and one for what is committed (StoreSound). A step moves one   *)
(* tool; each of its lemmas shows the part of that tool, then what the     *)
(* other tools see of it.                                                  *)
(***************************************************************************)
EXTENDS LocalIngest, TLAPS

\* Where a tool holds the row lock of its document, and where it has inserted
\* the rows of a new generation.
HeldPlace == {"extract", "upsert", "usage", "prune", "rows", "commit"}
IndexedPlace == HeldPlace \ {"extract"}

\* What a record holds at each place.
Shape(r) ==
    /\ r.at # "rows"
    /\ r.left \subseteq Ids(r.stale)
    /\ r.at \in {"idle", "file"} =>
          /\ r.doc = NoDoc /\ ~ r.new /\ r.fresh = {} /\ r.stale = {}
          /\ r.gone = {} /\ r.match = {} /\ r.hit = {}
    /\ r.at \in IngestPlace \ {"file"} =>
          /\ r.doc \in Docs /\ r.file \in Files /\ r.match = {} /\ r.hit = {}
          /\ r.at # "commit" => r.gone = {}
    /\ r.at \in {"put", "insert"} => r.new
    /\ r.at = "update" => ~ r.new
    /\ r.at \in {"put", "insert", "update", "extract"} =>
          r.stale = {} /\ r.fresh = {}
    /\ r.at \in IndexedPlace => \E n \in r.fresh : r.fresh = {n}
    /\ r.at \in ForgetPlace =>
          ~ r.new /\ r.fresh = {} /\ (r.at # "ids" => r.doc \in Docs)

\* A tool names only documents and generations that have been given out.
Known(r) ==
    /\ r.doc # NoDoc =>
          r.doc \in used /\ r.stale \cup r.fresh \subseteq 1..serial[r.doc]
    /\ r.match \cup r.hit \subseteq used
    /\ \A e \in r.gone : e[2] \in 1..serial[e[1]]

\* Nobody has seen the row of a document that is not committed.
Unseen(r) == r.new => doc[r.doc] = NoRow /\ r.doc \notin touched

\* The row whose lock is held is there.
Locked(r) == r.at \in HeldPlace /\ ~ r.new => doc[r.doc] # NoRow

\* What a run supersedes is what is committed, until it commits; its own
\* points are there once they are upserted.
Written(r) ==
    r.at \in IndexedPlace =>
        /\ r.stale = chunks[r.doc]
        /\ r.at # "upsert" => Ids(r.fresh) \subseteq points[r.doc]

\* Whose rows a transaction is about to delete, or has deleted, has no points but
\* those still to be deleted and the strays.
Swept(r) ==
    /\ r.at \in {"prune", "unpoint"} =>
          \A c \in points[r.doc] :
              c[1] \in r.stale => c \in r.left \/ <<r.doc, c>> \in stray
    /\ r.at \in {"commit", "unrow"} =>
          \A c \in points[r.doc] : c[1] \in r.stale => <<r.doc, c>> \in stray
    /\ r.at \in ForgetPlace =>
          \A e \in r.gone : \A c \in points[e[1]] :
              c[1] = e[2] => <<e[1], c>> \in stray

\* The object is put before the row that names it is inserted.
Kept(r) == r.new /\ r.keep /\ r.at # "put" => r.doc \in blobs

\* A --forget removes only what it has begun to remove.
Doomed(r) == r.at \in ForgetPlace \ {"ids"} => r.doc \in touched

\* Nothing that r deletes has been inserted by s in an open transaction.
NotFresh(r, s) ==
    \A n \in s.fresh :
        (r.doc = s.doc => n \notin r.stale) /\ <<s.doc, n>> \notin r.gone

ToolSound(r) ==
    /\ Shape(r) /\ Known(r)
    /\ Unseen(r) /\ Locked(r) /\ Written(r) /\ Swept(r) /\ Kept(r) /\ Doomed(r)
    /\ NotFresh(r, r)

\* Two tools: a new document is the business of one, and so is a row lock.
Apart(r, s) ==
    /\ r.new => s.doc # r.doc /\ r.doc \notin s.match \cup s.hit
    /\ r.at \in HeldPlace /\ s.at \in HeldPlace => r.doc # s.doc
    /\ NotFresh(r, s)

\* A committed document has one generation of chunks.
DocSound ==
    \A d \in Docs :
        /\ d \in Committed \cup touched => d \in used
        /\ doc[d] = NoRow => chunks[d] = {}
        /\ doc[d] # NoRow => \E n \in 1..serial[d] : chunks[d] = {n}

StoreSound ==
    /\ DocSound
    /\ AlwaysAnswerable /\ NoUnreachableVectors /\ StoredObjectExists

IngestInv ==
    /\ TypeOK
    /\ \A t \in Tools : ToolSound(tool[t])
    /\ \A t, u \in Tools : t # u => Apart(tool[t], tool[u])
    /\ StoreSound

\* A tool between two files, or between two commands, holds nothing.
Clear(r) ==
    /\ r.at \in {"idle", "file"}
    /\ r.doc = NoDoc /\ ~ r.new /\ r.match = {} /\ r.hit = {}
    /\ r.fresh = {} /\ r.stale = {} /\ r.left = {} /\ r.gone = {}

\* When t's record changes from old to r, every other tool that was apart from
\* old is apart from r; and it stays sound.
OthersApart(t, old, r) ==
    \A u \in Tools \ {t} : \A s \in Tool :
        s = tool[u] /\ ToolSound(s) /\ Apart(old, s) /\ Apart(s, old) =>
            Apart(r, s) /\ Apart(s, r)

OthersSound(t, old) ==
    \A u \in Tools \ {t} : \A s \in Tool :
        s = tool[u] /\ ToolSound(s) /\ Apart(old, s) /\ Apart(s, old) =>
            ToolSound(s)'

-----------------------------------------------------------------------------
\* The chunk ids of a generation.
LEMMA IdsOfGenerations ==
    /\ \A n : Generation(n) = Ids({n})
    /\ \A gens \in SUBSET (Nat \ {0}) : Ids(gens) \subseteq ChunkId
    /\ \A gens, c : c \in ChunkId => (c \in Ids(gens) <=> c[1] \in gens)
    /\ \A gens, c : c \in Ids(gens) => c[1] \in gens
  BY DEF Generation, Ids, ChunkId

\* The initial state has its types.
LEMMA TypeInit == Init => TypeOK
<1> SUFFICES ASSUME Init PROVE TypeOK
  OBVIOUS
<1>1. Idle \in Tool
  BY DEF Idle, Tool
<1>2. tool \in [Tools -> Tool]
  BY <1>1 DEF Init
<1>3. doc \in [Docs -> Row \cup {NoRow}]
  BY DEF Init, Row, Names, DocumentStatus
<1>4. points \in [Docs -> SUBSET ChunkId]
  BY IdsOfGenerations DEF Init, Generation, ChunkId
<1> QED
  BY <1>2, <1>3, <1>4, IngestAssumption DEF Init, TypeOK

-----------------------------------------------------------------------------
(***************************************************************************)
(* What all steps share                                                    *)
(***************************************************************************)

\* What the invariant says of one tool.
LEMMA ToolFacts ==
    ASSUME IngestInv, NEW t \in Tools
    PROVE  tool[t] \in Tool /\ ToolSound(tool[t])
  BY DEF IngestInv, TypeOK

\* The step of one tool keeps the invariant, if it keeps the types and what is
\* committed, leaves its tool sound, and leaves every other tool sound and
\* apart from it.
LEMMA OneTool ==
    ASSUME IngestInv, NEW t \in Tools, NEW old, old = tool[t],
           NEW r \in Tool, tool' = [tool EXCEPT ![t] = r],
           TypeOK', ToolSound(r)', StoreSound',
           OthersApart(t, old, r), OthersSound(t, old)
    PROVE  IngestInv'
<1>1. tool \in [Tools -> Tool]
  BY DEF IngestInv, TypeOK
<1>2. tool'[t] = r /\ \A u \in Tools \ {t} : tool'[u] = tool[u]
  BY <1>1
<1>3. ASSUME NEW u \in Tools PROVE ToolSound(tool[u])'
  <2>1. CASE u = t
    BY <1>2, <2>1
  <2>2. CASE u # t
    <3>1. PICK s \in Tool : s = tool[u]
      BY <1>1
    <3>2. ToolSound(s) /\ Apart(old, s) /\ Apart(s, old)
      BY <2>2, <3>1 DEF IngestInv
    <3>3. ToolSound(s)'
      BY <2>2, <3>1, <3>2 DEF OthersSound
    <3> QED
      BY <1>2, <2>2, <3>1, <3>3
  <2> QED
    BY <2>1, <2>2
<1>4. ASSUME NEW u \in Tools, NEW v \in Tools, u # v
      PROVE  Apart(tool[u], tool[v])'
  <2>1. PICK p \in Tool, q \in Tool : p = tool[u] /\ q = tool[v]
    BY <1>1
  <2>2. Apart(p, q) /\ Apart(q, p) /\ ToolSound(p) /\ ToolSound(q)
    BY <1>4, <2>1 DEF IngestInv
  <2>3. CASE u = t
    <3>1. Apart(r, q)
      BY <1>4, <2>1, <2>2, <2>3 DEF OthersApart
    <3> QED
      BY <1>2, <1>4, <2>1, <2>3, <3>1 DEF Apart, NotFresh
  <2>4. CASE v = t
    <3>1. Apart(p, r)
      BY <1>4, <2>1, <2>2, <2>4 DEF OthersApart
    <3> QED
      BY <1>2, <1>4, <2>1, <2>4, <3>1 DEF Apart, NotFresh
  <2>5. CASE u # t /\ v # t
    BY <1>2, <2>1, <2>2, <2>5 DEF Apart, NotFresh
  <2> QED
    BY <2>3, <2>4, <2>5
<1> QED
  BY <1>3, <1>4 DEF IngestInv

\* On what each part of a sound tool depends.
LEMMA Frame ==
    ASSUME NEW s
    PROVE  /\ Shape(s) => Shape(s)'
           /\ NotFresh(s, s) => NotFresh(s, s)'
           /\ UNCHANGED <<used, serial>> /\ Known(s) => Known(s)'
           /\ UNCHANGED <<doc, touched>> /\ Unseen(s) => Unseen(s)'
           /\ UNCHANGED doc /\ Locked(s) => Locked(s)'
           /\ UNCHANGED <<chunks, points>> /\ Written(s) => Written(s)'
           /\ UNCHANGED <<points, stray>> /\ Swept(s) => Swept(s)'
           /\ UNCHANGED blobs /\ Kept(s) => Kept(s)'
           /\ UNCHANGED touched /\ Doomed(s) => Doomed(s)'
<1>1. Shape(s) => Shape(s)'
  BY DEF Shape
<1>2. NotFresh(s, s) => NotFresh(s, s)'
  BY DEF NotFresh
<1>3. UNCHANGED <<used, serial>> /\ Known(s) => Known(s)'
  BY DEF Known
<1>4. /\ UNCHANGED <<doc, touched>> /\ Unseen(s) => Unseen(s)'
      /\ UNCHANGED doc /\ Locked(s) => Locked(s)'
      /\ UNCHANGED blobs /\ Kept(s) => Kept(s)'
      /\ UNCHANGED touched /\ Doomed(s) => Doomed(s)'
  BY DEF Unseen, Locked, Kept, Doomed
<1>5. UNCHANGED <<chunks, points>> /\ Written(s) => Written(s)'
  BY DEF Written
<1>6. UNCHANGED <<points, stray>> /\ Swept(s) => Swept(s)'
  BY DEF Swept
<1> QED
  BY <1>1, <1>2, <1>3, <1>4, <1>5, <1>6

\* A step that writes to no store leaves a sound tool sound.
LEMMA StoresUnchanged ==
    ASSUME NEW s, ToolSound(s),
           UNCHANGED <<doc, used, chunks, points, serial, blobs, touched, stray>>
    PROVE  ToolSound(s)'
  BY Frame DEF ToolSound

\* Moving a tool that keeps its document and the rows it has inserted, or had
\* inserted none, makes no vector unreachable.
LEMMA ReachKept ==
    ASSUME TypeOK, NoUnreachableVectors, NEW t \in Tools, NEW r \in Tool,
           tool' = [tool EXCEPT ![t] = r],
           \/ tool[t].fresh = {}
           \/ tool[t].doc = r.doc /\ tool[t].fresh \subseteq r.fresh,
           \A d \in Docs : points'[d] \subseteq points[d],
           UNCHANGED chunks, stray \subseteq stray'
    PROVE  NoUnreachableVectors'
<1>1. tool'[t] = r /\ \A u \in Tools \ {t} : tool'[u] = tool[u]
  BY DEF TypeOK
<1>2. SUFFICES ASSUME NEW d \in Docs, NEW c \in points'[d]
      PROVE  \/ c[1] \in chunks'[d]
             \/ \E u \in Tools : tool'[u].doc = d /\ c[1] \in tool'[u].fresh
             \/ <<d, c>> \in stray'
  BY DEF NoUnreachableVectors
<1>3. \/ c[1] \in chunks[d]
      \/ \E u \in Tools : tool[u].doc = d /\ c[1] \in tool[u].fresh
      \/ <<d, c>> \in stray
  BY <1>2 DEF NoUnreachableVectors
<1> QED
  BY <1>1, <1>3

\* The other properties say nothing of the tools.
LEMMA StoresKept ==
    ASSUME StoreSound, NoUnreachableVectors',
           UNCHANGED <<doc, used, chunks, points, serial, blobs, touched>>
    PROVE  StoreSound'
<1>1. DocSound'
  BY DEF StoreSound, DocSound, Committed
<1>2. AlwaysAnswerable'
  BY DEF StoreSound, AlwaysAnswerable, Committed
<1>3. StoredObjectExists'
  BY DEF StoreSound, StoredObjectExists, Committed
<1> QED
  BY <1>1, <1>2, <1>3 DEF StoreSound

\* A tool that holds nothing is sound whatever the stores hold, and apart from
\* every other.
LEMMA ClearSound ==
    ASSUME IngestAssumption, NEW r \in Tool, Clear(r)
    PROVE  /\ ToolSound(r)'
           /\ \A s \in Tool : Shape(s) => Apart(r, s) /\ Apart(s, r)
<1> USE DEF Clear
<1>1. Shape(r)'
  BY DEF Shape, IngestPlace, ForgetPlace, IndexedPlace, HeldPlace
<1>2. Known(r)' /\ Unseen(r)' /\ Kept(r)' /\ NotFresh(r, r)'
  BY DEF Known, Unseen, Kept, NotFresh
<1>3. Locked(r)' /\ Written(r)' /\ Swept(r)' /\ Doomed(r)'
  BY DEF Locked, Written, Swept, Doomed, HeldPlace, IndexedPlace, ForgetPlace
<1>4. ASSUME NEW s \in Tool, Shape(s)
      PROVE  Apart(r, s) /\ Apart(s, r)
  <2>1. s.new => s.doc # NoDoc
    BY <1>4, IngestAssumption DEF Shape, Tool, IngestPlace, ForgetPlace
  <2>2. r.at \notin HeldPlace
    BY DEF HeldPlace
  <2> QED
    BY <2>1, <2>2 DEF Apart, NotFresh
<1> QED
  BY <1>1, <1>2, <1>3, <1>4 DEF ToolSound

\* A step that only lets go of what a tool held: the chunks whose rows it had not
\* committed are stray from then on.
LEMMA ClearStep ==
    ASSUME IngestInv, NEW t \in Tools, NEW r \in Tool, Clear(r),
           tool' = [tool EXCEPT ![t] = r],
           UNCHANGED <<pgVars, points, serial, blobs, touched>>,
           runs' \in Nat, faults' \in Nat,
           stray' \in {stray, stray \cup Abandoned(t)},
           Abandoned(t) \subseteq stray'
    PROVE  IngestInv'
<1>0. PICK old \in Tool : old = tool[t]
  BY ToolFacts
<1>1. TypeOK /\ ToolSound(old) /\ StoreSound
  BY <1>0 DEF IngestInv
<1>2. Abandoned(t) \subseteq Docs \X ChunkId
  <2>1. old.fresh # {} => old.doc \in Docs
    BY <1>1 DEF ToolSound, Shape, Tool, IngestPlace, ForgetPlace
  <2>2. Ids(old.fresh) \subseteq ChunkId
    BY IdsOfGenerations DEF Tool
  <2> QED
    BY <1>0, <2>1, <2>2 DEF Abandoned, Ids
<1>3. TypeOK'
  BY <1>1, <1>2 DEF TypeOK, pgVars
<1>4. tool'[t] = r /\ \A u \in Tools \ {t} : tool'[u] = tool[u]
  BY <1>1 DEF TypeOK
<1>5. NoUnreachableVectors'
  <2>1. SUFFICES ASSUME NEW d \in Docs, NEW c \in points[d]
        PROVE  \/ c[1] \in chunks[d]
               \/ \E u \in Tools : tool'[u].doc = d /\ c[1] \in tool'[u].fresh
               \/ <<d, c>> \in stray'
    BY DEF NoUnreachableVectors, pgVars
  <2>2. \/ c[1] \in chunks[d]
        \/ \E u \in Tools : tool[u].doc = d /\ c[1] \in tool[u].fresh
        \/ <<d, c>> \in stray
    BY <1>1 DEF StoreSound, NoUnreachableVectors
  <2>3. old.doc = d /\ c[1] \in old.fresh => <<d, c>> \in stray'
    <3>1. c \in ChunkId
      BY <1>1 DEF TypeOK
    <3>2. c[1] \in old.fresh => c \in Ids(old.fresh)
      BY <3>1 DEF Ids, ChunkId
    <3> QED
      BY <1>0, <3>2 DEF Abandoned
  <2> QED
    BY <1>0, <1>4, <2>2, <2>3
<1>6. StoreSound'
  BY <1>1, <1>5, StoresKept DEF pgVars
<1>7. ASSUME NEW s \in Tool, ToolSound(s)
      PROVE  ToolSound(s)' /\ Apart(r, s) /\ Apart(s, r)
  <2>1. Swept(s)'
    BY <1>7 DEF ToolSound, Swept
  <2>2. ToolSound(s)'
    BY <1>7, <2>1, Frame DEF ToolSound, pgVars
  <2> QED
    BY <1>7, <2>2, ClearSound, IngestAssumption DEF ToolSound
<1>8. OthersSound(t, old) /\ OthersApart(t, old, r)
  BY <1>7 DEF OthersSound, OthersApart
<1> QED
  BY <1>0, <1>3, <1>6, <1>8, ClearSound, IngestAssumption, OneTool

\* A tool that is nowhere, and one between two files.
LEMMA ClearRecords ==
    /\ Idle \in Tool /\ Clear(Idle)
    /\ \A files \in SUBSET Files, reindex, keep \in BOOLEAN :
          LET r == [Idle EXCEPT !.at = "file", !.files = files,
                                !.reindex = reindex, !.keep = keep]
          IN  r \in Tool /\ Clear(r)
    /\ \A r \in Tool, files \in SUBSET Files : Clear(r) =>
          [r EXCEPT !.files = files] \in Tool /\ Clear([r EXCEPT !.files = files])
<1>1. Idle \in Tool /\ Clear(Idle)
  BY DEF Idle, Tool, Clear
<1>2. ASSUME NEW files \in SUBSET Files, NEW reindex \in BOOLEAN, NEW keep \in BOOLEAN
      PROVE  LET r == [Idle EXCEPT !.at = "file", !.files = files,
                                   !.reindex = reindex, !.keep = keep]
             IN  r \in Tool /\ Clear(r)
  BY DEF Idle, Tool, Clear, IngestPlace
<1>3. ASSUME NEW r \in Tool, NEW files \in SUBSET Files, Clear(r)
      PROVE  [r EXCEPT !.files = files] \in Tool /\ Clear([r EXCEPT !.files = files])
  BY <1>3 DEF Tool, Clear
<1> QED
  BY <1>1, <1>2, <1>3

\* At "idle" and "file", a sound tool is clear; in forget() it has inserted nothing.
LEMMA WhereClear ==
    ASSUME NEW r \in Tool, ToolSound(r)
    PROVE  /\ r.at \in {"idle", "file"} => Clear(r)
           /\ r.at \in ForgetPlace \cup {"idle", "file"} => r.fresh = {}
<1>1. Shape(r)
  BY DEF ToolSound
<1>2. r.at \in {"idle", "file"} => r.left = {}
  BY <1>1 DEF Shape, Ids
<1> QED
  BY <1>1, <1>2 DEF Shape, Clear

\* The steps after which a tool holds nothing.
LEMMA LetGo ==
    ASSUME IngestInv, NEW t \in Tools,
           \/ \E reindex, keep \in BOOLEAN : StartIngest(t, reindex, keep)
           \/ FinishIngest(t)
           \/ RejectFile(t)
           \/ SkipFile(t)
           \/ FileFailed(t)
           \/ ForgetFailed(t)
           \/ ForgetRefused(t)
           \/ Die(t)
    PROVE  IngestInv'
<1>0. PICK old \in Tool : old = tool[t]
  BY ToolFacts
<1>1. TypeOK /\ ToolSound(old)
  BY <1>0 DEF IngestInv
<1>2. runs \in Nat /\ faults \in Nat
  BY <1>1 DEF TypeOK
<1>3. old.files \in SUBSET Files /\ old.reindex \in BOOLEAN /\ old.keep \in BOOLEAN
  BY DEF Tool
<1>4. ASSUME old.fresh = {}, NEW r \in Tool, Clear(r),
             tool' = [tool EXCEPT ![t] = r], runs' \in Nat, faults' \in Nat,
             UNCHANGED <<pgVars, points, serial, blobs, history>>
      PROVE  IngestInv'
  <2>1. Abandoned(t) = {}
    BY <1>0, <1>4 DEF Abandoned, Ids
  <2> QED
    BY <1>4, <2>1, ClearStep DEF history
<1>5. ASSUME NEW f, NextFile(t, f), old.at = "file" PROVE IngestInv'
  <2>1. Clear(old) /\ old.fresh = {}
    BY <1>1, <1>5, WhereClear
  <2>2. PICK r \in Tool : r = [old EXCEPT !.files = old.files \ {f}] /\ Clear(r)
    BY <1>3, <2>1, ClearRecords
  <2>3. tool' = [tool EXCEPT ![t] = r]
    BY <1>0, <1>5, <2>2 DEF NextFile
  <2> QED
    BY <1>2, <1>4, <1>5, <2>1, <2>2, <2>3 DEF NextFile
<1>6. CASE \E reindex, keep \in BOOLEAN : StartIngest(t, reindex, keep)
  <2>1. PICK reindex \in BOOLEAN, keep \in BOOLEAN : StartIngest(t, reindex, keep)
    BY <1>6
  <2>2. PICK r \in Tool : /\ Clear(r)
                          /\ r = [Idle EXCEPT !.at = "file", !.files = Files,
                                              !.reindex = reindex, !.keep = keep]
    BY ClearRecords
  <2>3. old.fresh = {}
    BY <1>0, <1>1, <2>1, WhereClear DEF StartIngest
  <2>4. runs' \in Nat /\ faults' \in Nat
    <3>1. runs' = runs + 1 /\ faults' = faults
      BY <2>1 DEF StartIngest
    <3> QED
      BY <1>2, <3>1
  <2>5. tool' = [tool EXCEPT ![t] = r]
    BY <2>1, <2>2 DEF StartIngest
  <2>6. UNCHANGED <<pgVars, points, serial, blobs, history>>
    BY <2>1 DEF StartIngest
  <2> QED
    BY <1>4, <2>2, <2>3, <2>4, <2>5, <2>6
<1>7. CASE FinishIngest(t)
  BY <1>0, <1>1, <1>2, <1>4, <1>7, WhereClear, ClearRecords DEF FinishIngest
<1>8. CASE RejectFile(t) \/ SkipFile(t)
  BY <1>0, <1>5, <1>8 DEF RejectFile, SkipFile
<1>9. CASE FileFailed(t)
  <2>1. PICK r \in Tool : /\ Clear(r)
                          /\ r = [Idle EXCEPT !.at = "file", !.files = old.files,
                                              !.reindex = old.reindex, !.keep = old.keep]
    BY <1>3, ClearRecords
  <2>2. tool' = [tool EXCEPT ![t] = r]
    BY <1>0, <1>9, <2>1 DEF FileFailed
  <2> QED
    BY <1>2, <1>9, <2>1, <2>2, ClearStep DEF FileFailed
<1>10. CASE ForgetFailed(t)
  <2>1. runs' \in Nat /\ faults' \in Nat
    BY <1>2, <1>10 DEF ForgetFailed, Fault
  <2> QED
    BY <1>0, <1>1, <1>4, <1>10, <2>1, WhereClear, ClearRecords DEF ForgetFailed
<1>11. CASE ForgetRefused(t)
  BY <1>0, <1>1, <1>2, <1>4, <1>11, WhereClear, ClearRecords
  DEF ForgetRefused, ForgetPlace
<1>12. CASE Die(t)
  <2>1. runs' \in Nat /\ faults' \in Nat
    BY <1>2, <1>12 DEF Die, Fault
  <2>2. Abandoned(t) \subseteq stray'
    BY <1>12 DEF Die
  <2> QED
    BY <1>12, <2>1, <2>2, ClearRecords, ClearStep DEF Die
<1> QED
  BY <1>6, <1>7, <1>8, <1>9, <1>10, <1>11, <1>12

\* A step that writes to no store and keeps what its tool has inserted.
LEMMA PrivateStep ==
    ASSUME IngestInv, NEW t \in Tools, NEW old, old = tool[t],
           NEW r \in Tool, tool' = [tool EXCEPT ![t] = r],
           UNCHANGED <<pgVars, points, serial, blobs, faults, history>>,
           runs' \in Nat,
           old.fresh = {} \/ (old.doc = r.doc /\ old.fresh = r.fresh),
           ToolSound(r), OthersApart(t, old, r)
    PROVE  IngestInv'
<1>1. TypeOK /\ StoreSound
  BY DEF IngestInv
<1>2. UNCHANGED <<doc, used, chunks, points, serial, blobs, usage, faults,
                  touched, stray>>
  BY DEF pgVars, history
<1>3. TypeOK'
  BY <1>1, <1>2 DEF TypeOK
<1>4. NoUnreachableVectors'
  BY <1>1, <1>2, ReachKept DEF StoreSound
<1>5. StoreSound'
  BY <1>1, <1>2, <1>4, StoresKept
<1>6. ToolSound(r)'
  BY <1>2, StoresUnchanged
<1>7. OthersSound(t, old)
  BY <1>2, StoresUnchanged DEF OthersSound
<1> QED
  BY <1>3, <1>5, <1>6, <1>7, OneTool

-----------------------------------------------------------------------------
(***************************************************************************)
(* ingest_file()                                                           *)
(***************************************************************************)

\* The file's document is there: another tool's new one has another id.
LEMMA TakeExistingKeeps ==
    ASSUME IngestInv, NEW t \in Tools, TakeExisting(t)
    PROVE  IngestInv'
<1>0. PICK old \in Tool : old = tool[t]
  BY ToolFacts
<1>1. TypeOK /\ ToolSound(old) /\ DocSound
  BY <1>0 DEF IngestInv, StoreSound
<1>2. PICK f \in old.files, d \in Docs :
         /\ d \in Existing(f)
         /\ tool' = [tool EXCEPT ![t] =
                [old EXCEPT !.at = "update", !.files = old.files \ {f},
                            !.file = f, !.doc = d]]
  BY <1>0 DEF TakeExisting, Existing, Committed
<1>3. PICK r : r = [old EXCEPT !.at = "update", !.files = old.files \ {f},
                               !.file = f, !.doc = d]
  OBVIOUS
<1>4. f \in Files /\ d \in Docs /\ doc[d] # NoRow /\ d \in used
  BY <1>1, <1>2 DEF Tool, Existing, Committed, DocSound
<1>5. r \in Tool /\ tool' = [tool EXCEPT ![t] = r]
  BY <1>2, <1>3, <1>4 DEF Tool, IngestPlace
<1>6. Clear(old)
  BY <1>0, <1>1, WhereClear DEF TakeExisting
<1>7. /\ r.at = "update" /\ r.doc = d /\ r.file = f /\ ~ r.new
      /\ r.match = {} /\ r.hit = {} /\ r.fresh = {} /\ r.stale = {}
      /\ r.left = {} /\ r.gone = {}
  BY <1>3, <1>6 DEF Tool, Clear
<1>8. ToolSound(r)
  <2>1. Shape(r)
    BY <1>4, <1>7 DEF Shape, IngestPlace, ForgetPlace, IndexedPlace, HeldPlace
  <2>2. Known(r) /\ Unseen(r) /\ Kept(r) /\ NotFresh(r, r)
    BY <1>4, <1>7 DEF Known, Unseen, Kept, NotFresh
  <2>3. Locked(r) /\ Written(r) /\ Swept(r) /\ Doomed(r)
    BY <1>7 DEF Locked, Written, Swept, Doomed, HeldPlace, IndexedPlace, ForgetPlace
  <2> QED
    BY <2>1, <2>2, <2>3 DEF ToolSound
<1>9. ASSUME NEW s \in Tool, ToolSound(s) PROVE Apart(r, s) /\ Apart(s, r)
  <2>1. s.new => s.doc # d
    BY <1>4, <1>9 DEF ToolSound, Unseen
  <2> QED
    BY <1>7, <2>1 DEF Apart, NotFresh, HeldPlace
<1>10. UNCHANGED <<pgVars, points, serial, blobs, faults, history>> /\ runs' \in Nat
  BY <1>1 DEF TakeExisting, TypeOK
<1>11. OthersApart(t, old, r)
  BY <1>9 DEF OthersApart
<1> QED
  BY <1>0, <1>5, <1>6, <1>8, <1>10, <1>11, PrivateStep DEF Clear

\* The id is drawn for good: no tool names it, nothing committed has it.
LEMMA TakeNewKeeps ==
    ASSUME IngestInv, NEW t \in Tools, TakeNew(t)
    PROVE  IngestInv'
<1>0. PICK old \in Tool : old = tool[t]
  BY ToolFacts
<1>1. TypeOK /\ ToolSound(old) /\ StoreSound /\ DocSound
  BY <1>0 DEF IngestInv, StoreSound
<1>2. PICK f \in old.files, d \in Docs \ used :
         /\ used' = used \cup {d}
         /\ tool' = [tool EXCEPT ![t] =
                [old EXCEPT !.at = IF old.keep THEN "put" ELSE "insert",
                            !.files = old.files \ {f},
                            !.file = f, !.doc = d, !.new = TRUE]]
  BY <1>0 DEF TakeNew
<1>3. PICK r : r = [old EXCEPT !.at = IF old.keep THEN "put" ELSE "insert",
                               !.files = old.files \ {f},
                               !.file = f, !.doc = d, !.new = TRUE]
  OBVIOUS
<1>4. f \in Files /\ doc[d] = NoRow /\ d \notin touched
  BY <1>1 DEF Tool, Committed, DocSound
<1>5. r \in Tool /\ tool' = [tool EXCEPT ![t] = r]
  BY <1>2, <1>3, <1>4 DEF Tool, IngestPlace
<1>6. Clear(old)
  BY <1>0, <1>1, WhereClear DEF TakeNew
<1>7. /\ r.at \in {"put", "insert"} /\ (r.keep => r.at = "put")
      /\ r.doc = d /\ r.file = f /\ r.new
      /\ r.match = {} /\ r.hit = {} /\ r.fresh = {} /\ r.stale = {}
      /\ r.left = {} /\ r.gone = {}
  BY <1>3, <1>6 DEF Tool, Clear
<1>8. UNCHANGED <<doc, chunks, usage, points, serial, blobs, runs, faults,
                  touched, stray>>
  BY DEF TakeNew, history
<1>9. ToolSound(r)'
  <2>1. Shape(r)'
    BY <1>4, <1>7 DEF Shape, IngestPlace, ForgetPlace, IndexedPlace, HeldPlace
  <2>2. Known(r)' /\ Unseen(r)' /\ Kept(r)' /\ NotFresh(r, r)'
    BY <1>2, <1>4, <1>7, <1>8 DEF Known, Unseen, Kept, NotFresh
  <2>3. Locked(r)' /\ Written(r)' /\ Swept(r)' /\ Doomed(r)'
    BY <1>7 DEF Locked, Written, Swept, Doomed, HeldPlace, IndexedPlace, ForgetPlace
  <2> QED
    BY <2>1, <2>2, <2>3 DEF ToolSound
<1>10. ASSUME NEW s \in Tool, ToolSound(s)
       PROVE  ToolSound(s)' /\ Apart(r, s) /\ Apart(s, r)
  <2>1. Known(s)'
    BY <1>2, <1>8, <1>10 DEF ToolSound, Known
  <2>2. ToolSound(s)'
    BY <1>8, <1>10, <2>1, Frame DEF ToolSound
  <2>3. s.doc # d /\ d \notin s.match \cup s.hit
    BY <1>4, <1>10, IngestAssumption DEF ToolSound, Known
  <2> QED
    BY <1>7, <2>2, <2>3 DEF Apart, NotFresh, HeldPlace
<1>11. TypeOK'
  BY <1>1, <1>2, <1>3, <1>5, <1>8 DEF TypeOK
<1>12. StoreSound'
  <2>1. NoUnreachableVectors'
    BY <1>0, <1>1, <1>2, <1>3, <1>5, <1>6, <1>8, ReachKept DEF StoreSound, Clear
  <2>2. DocSound'
    BY <1>1, <1>2, <1>8 DEF DocSound, Committed
  <2>3. AlwaysAnswerable' /\ StoredObjectExists'
    BY <1>1, <1>8 DEF StoreSound, AlwaysAnswerable, StoredObjectExists, Committed
  <2> QED
    BY <2>1, <2>2, <2>3 DEF StoreSound
<1>13. OthersSound(t, old) /\ OthersApart(t, old, r)
  BY <1>10 DEF OthersSound, OthersApart
<1> QED
  BY <1>0, <1>5, <1>9, <1>11, <1>12, <1>13, OneTool

\* The object is there before the row that names it.
LEMMA PutObjectKeeps ==
    ASSUME IngestInv, NEW t \in Tools, PutObject(t)
    PROVE  IngestInv'
<1>0. PICK old \in Tool : old = tool[t]
  BY ToolFacts
<1>1. TypeOK /\ ToolSound(old) /\ StoreSound /\ DocSound /\ old.at = "put"
  BY <1>0 DEF IngestInv, StoreSound, PutObject
<1>2. PICK r : r = [old EXCEPT !.at = "insert"]
  OBVIOUS
<1>3. r \in Tool /\ tool' = [tool EXCEPT ![t] = r]
  BY <1>0, <1>2 DEF Tool, IngestPlace, PutObject, Goto
<1>4. /\ r.at = "insert" /\ r.doc = old.doc /\ r.file = old.file
      /\ r.new = old.new /\ r.keep = old.keep
      /\ r.match = old.match /\ r.hit = old.hit /\ r.fresh = old.fresh
      /\ r.stale = old.stale /\ r.left = old.left /\ r.gone = old.gone
  BY <1>2 DEF Tool
<1>5. /\ old.new /\ old.doc \in Docs /\ old.file \in Files
      /\ old.match = {} /\ old.hit = {} /\ old.fresh = {}
      /\ old.stale = {} /\ old.left = {} /\ old.gone = {}
  BY <1>1 DEF ToolSound, Shape, IngestPlace, Ids
<1>6. /\ blobs' = blobs \cup {old.doc}
      /\ UNCHANGED <<doc, used, chunks, usage, points, serial, runs, faults,
                     touched, stray>>
  BY <1>0 DEF PutObject, pgVars, history
<1>7. ToolSound(r)'
  <2>1. Shape(r)'
    BY <1>4, <1>5 DEF Shape, IngestPlace, ForgetPlace, IndexedPlace, HeldPlace
  <2>2. Known(r)' /\ Unseen(r)' /\ Kept(r)' /\ NotFresh(r, r)'
    BY <1>1, <1>4, <1>5, <1>6 DEF ToolSound, Known, Unseen, Kept, NotFresh
  <2>3. Locked(r)' /\ Written(r)' /\ Swept(r)' /\ Doomed(r)'
    BY <1>4 DEF Locked, Written, Swept, Doomed, HeldPlace, IndexedPlace, ForgetPlace
  <2> QED
    BY <2>1, <2>2, <2>3 DEF ToolSound
<1>8. ASSUME NEW s \in Tool, ToolSound(s), Apart(old, s), Apart(s, old)
      PROVE  ToolSound(s)' /\ Apart(r, s) /\ Apart(s, r)
  <2>1. Kept(s)'
    BY <1>6, <1>8 DEF ToolSound, Kept
  <2>2. ToolSound(s)'
    BY <1>6, <1>8, <2>1, Frame DEF ToolSound
  <2> QED
    BY <1>4, <1>8, <2>2 DEF Apart, NotFresh, HeldPlace
<1>9. TypeOK'
  BY <1>1, <1>3, <1>5, <1>6 DEF TypeOK
<1>10. StoreSound'
  <2>1. NoUnreachableVectors'
    BY <1>0, <1>1, <1>3, <1>5, <1>6, ReachKept DEF StoreSound
  <2>2. DocSound'
    BY <1>1, <1>6 DEF DocSound, Committed
  <2>3. AlwaysAnswerable' /\ StoredObjectExists'
    BY <1>1, <1>6 DEF StoreSound, AlwaysAnswerable, StoredObjectExists, Committed
  <2> QED
    BY <2>1, <2>2, <2>3 DEF StoreSound
<1>11. OthersSound(t, old) /\ OthersApart(t, old, r)
  BY <1>8 DEF OthersSound, OthersApart
<1> QED
  BY <1>0, <1>3, <1>7, <1>9, <1>10, <1>11, OneTool

\* The row lock: a document is held by one tool at a time. An existing one is
\* taken when nobody holds it, a new one nobody else knows.
LEMMA LockDocumentKeeps ==
    ASSUME IngestInv, NEW t \in Tools, InsertDocument(t) \/ UpdateDocument(t)
    PROVE  IngestInv'
<1>0. PICK old \in Tool : old = tool[t]
  BY ToolFacts
<1>1. TypeOK /\ ToolSound(old) /\ old.at \in {"insert", "update"}
  BY <1>0 DEF IngestInv, InsertDocument, UpdateDocument
<1>2. PICK r : r = [old EXCEPT !.at = "extract"]
  OBVIOUS
<1>3. r \in Tool /\ tool' = [tool EXCEPT ![t] = r]
  BY <1>0, <1>2 DEF Tool, IngestPlace, InsertDocument, UpdateDocument, Goto
<1>4. /\ r.at = "extract" /\ r.doc = old.doc /\ r.file = old.file
      /\ r.new = old.new /\ r.keep = old.keep
      /\ r.match = old.match /\ r.hit = old.hit /\ r.fresh = old.fresh
      /\ r.stale = old.stale /\ r.left = old.left /\ r.gone = old.gone
  BY <1>2 DEF Tool
<1>5. /\ old.doc \in Docs /\ old.file \in Files
      /\ old.match = {} /\ old.hit = {} /\ old.fresh = {}
      /\ old.stale = {} /\ old.left = {} /\ old.gone = {}
  BY <1>1 DEF ToolSound, Shape, IngestPlace, Ids
<1>6. /\ old.at = "insert" => old.new
      /\ ~ old.new => Holders(old.doc) = {} /\ doc[old.doc] # NoRow
  <2>1. (old.at = "insert" => old.new) /\ (old.at = "update" => ~ old.new)
    BY <1>1 DEF ToolSound, Shape
  <2>2. old.at = "update" => Holders(old.doc) = {} /\ doc[old.doc] # NoRow
    BY <1>0 DEF InsertDocument, UpdateDocument
  <2> QED
    BY <1>1, <2>1, <2>2
<1>7. ToolSound(r)
  <2>1. Shape(r)
    BY <1>4, <1>5 DEF Shape, IngestPlace, ForgetPlace, IndexedPlace, HeldPlace
  <2>2. Known(r) /\ Unseen(r) /\ NotFresh(r, r)
    BY <1>1, <1>4, <1>5 DEF ToolSound, Known, Unseen, NotFresh
  <2>3. Kept(r)
    BY <1>1, <1>4, <1>5 DEF ToolSound, Kept
  <2>4. Locked(r) /\ Written(r) /\ Swept(r) /\ Doomed(r)
    BY <1>4, <1>6 DEF Locked, Written, Swept, Doomed, HeldPlace, IndexedPlace, ForgetPlace
  <2> QED
    BY <2>1, <2>2, <2>3, <2>4 DEF ToolSound
<1>8. ASSUME NEW u \in Tools \ {t}, NEW s \in Tool, s = tool[u],
             ToolSound(s), Apart(old, s), Apart(s, old)
      PROVE  Apart(r, s) /\ Apart(s, r)
  <2>1. ~ old.new /\ ~ s.new /\ s.at \in HeldPlace => s.doc # old.doc
    BY <1>6, <1>8 DEF Holders, HeldPlace
  <2>2. s.at \in HeldPlace => s.doc # old.doc
    BY <1>8, <2>1 DEF Apart
  <2> QED
    BY <1>4, <1>5, <1>8, <2>2 DEF Apart, NotFresh
<1>9. UNCHANGED <<pgVars, points, serial, blobs, faults, history>> /\ runs' \in Nat
  BY <1>1 DEF InsertDocument, UpdateDocument, TypeOK
<1>10. OthersApart(t, old, r)
  BY <1>8 DEF OthersApart
<1> QED
  BY <1>0, <1>3, <1>5, <1>7, <1>9, <1>10, PrivateStep


-----------------------------------------------------------------------------
(***************************************************************************)
(* index_document()                                                        *)
(***************************************************************************)

\* Past the extraction a run has one new generation, and holds its document.
LEMMA IndexedFacts ==
    ASSUME NEW r \in Tool, ToolSound(r), r.at \in IndexedPlace
    PROVE  /\ r.doc \in Docs /\ r.file \in Files /\ r.doc \in used
           /\ r.match = {} /\ r.hit = {} /\ (r.at # "commit" => r.gone = {})
           /\ r.stale = chunks[r.doc] /\ r.left \subseteq Ids(r.stale)
           /\ r.stale \cup r.fresh \subseteq 1..serial[r.doc]
           /\ \E n \in r.fresh : r.fresh = {n}
           /\ r.fresh \cap r.stale = {}
           /\ r.at # "upsert" => Ids(r.fresh) \subseteq points[r.doc]
<1>1. Shape(r) /\ Known(r) /\ Written(r) /\ NotFresh(r, r)
  BY DEF ToolSound
<1>2. /\ r.doc \in Docs /\ r.file \in Files
      /\ r.match = {} /\ r.hit = {} /\ (r.at # "commit" => r.gone = {})
      /\ r.left \subseteq Ids(r.stale)
      /\ \E n \in r.fresh : r.fresh = {n}
  BY <1>1 DEF Shape, IndexedPlace, HeldPlace, IngestPlace
<1>3. r.doc \in used /\ r.stale \cup r.fresh \subseteq 1..serial[r.doc]
  BY <1>1, <1>2, IngestAssumption DEF Known
<1>4. r.fresh \cap r.stale = {}
  BY <1>1 DEF NotFresh
<1> QED
  BY <1>1, <1>2, <1>3, <1>4 DEF Written

\* The new generation's number has never been given for this document: it is no
\* part of what any tool has read, deleted or inserted.
LEMMA ExtractKeeps ==
    ASSUME IngestInv, NEW t \in Tools, Extract(t)
    PROVE  IngestInv'
<1>0. PICK old \in Tool : old = tool[t]
  BY ToolFacts
<1>1. TypeOK /\ ToolSound(old) /\ StoreSound /\ DocSound /\ old.at = "extract"
  BY <1>0 DEF IngestInv, StoreSound, Extract
<1>2. /\ old.doc \in Docs /\ old.file \in Files /\ old.doc \in used
      /\ old.match = {} /\ old.hit = {} /\ old.fresh = {}
      /\ old.stale = {} /\ old.left = {} /\ old.gone = {}
  BY <1>1, IngestAssumption DEF ToolSound, Shape, Known, IngestPlace, Ids
<1>3. PICK d \in Docs, n \in Nat \ {0}, g \in SUBSET (Nat \ {0}) :
          d = old.doc /\ n = serial[d] + 1 /\ g = chunks[d]
  <2>1. chunks[old.doc] \in SUBSET (Nat \ {0}) /\ serial[old.doc] + 1 \in Nat \ {0}
    BY <1>1, <1>2 DEF TypeOK
  <2> QED
    BY <1>2, <2>1
<1>4. PICK r : r = [old EXCEPT !.at = "upsert", !.fresh = {n}, !.stale = g]
  OBVIOUS
<1>5. r \in Tool /\ tool' = [tool EXCEPT ![t] = r]
  <2>1. r \in Tool
    BY <1>4 DEF Tool, IngestPlace
  <2>2. tool' = [tool EXCEPT ![t] = r]
    BY <1>0, <1>3, <1>4 DEF Extract
  <2> QED
    BY <2>1, <2>2
<1>6. /\ r.at = "upsert" /\ r.doc = d /\ r.file = old.file
      /\ r.new = old.new /\ r.keep = old.keep
      /\ r.match = old.match /\ r.hit = old.hit /\ r.fresh = {n}
      /\ r.stale = g /\ r.left = old.left /\ r.gone = old.gone
  BY <1>3, <1>4 DEF Tool
<1>7. /\ serial' = [serial EXCEPT ![d] = n]
      /\ UNCHANGED <<doc, used, chunks, usage, points, blobs, runs, faults,
                     touched, stray>>
  BY <1>0, <1>3 DEF Extract, pgVars, history
<1>8. \A e \in Docs : serial[e] \in Nat /\ serial'[e] \in Nat /\ serial[e] =< serial'[e]
  BY <1>1, <1>3, <1>7 DEF TypeOK
<1>9. g \subseteq 1..serial[d] /\ n \notin 1..serial[d] /\ serial'[d] = n
  BY <1>1, <1>3, <1>7 DEF DocSound, TypeOK
<1>10. ToolSound(r)'
  <2>1. Shape(r)'
    BY <1>2, <1>3, <1>6 DEF Shape, IngestPlace, ForgetPlace, IndexedPlace, HeldPlace
  <2>2. g \cup {n} \subseteq 1..serial'[d]
    BY <1>3, <1>8, <1>9
  <2>3. Known(r)'
    BY <1>2, <1>3, <1>6, <1>7, <2>2 DEF Known
  <2>4. Unseen(r)' /\ Locked(r)' /\ Kept(r)'
    BY <1>1, <1>3, <1>6, <1>7
    DEF ToolSound, Unseen, Locked, Kept, HeldPlace
  <2>5. Written(r)' /\ Swept(r)' /\ Doomed(r)'
    BY <1>3, <1>6, <1>7 DEF Written, Swept, Doomed, IndexedPlace, HeldPlace, ForgetPlace
  <2>6. NotFresh(r, r)'
    BY <1>2, <1>6, <1>9 DEF NotFresh
  <2> QED
    BY <2>1, <2>3, <2>4, <2>5, <2>6 DEF ToolSound
<1>11. ASSUME NEW s \in Tool, ToolSound(s), Apart(old, s), Apart(s, old)
       PROVE  ToolSound(s)' /\ Apart(r, s) /\ Apart(s, r)
  <2>1. Shape(s) /\ Known(s)
    BY <1>11 DEF ToolSound
  <2>2. s.doc \in Docs \cup {NoDoc} /\ s.gone \subseteq Docs \X (Nat \ {0})
    BY DEF Tool
  <2>3. Known(s)'
    <3>1. s.doc # NoDoc => s.stale \cup s.fresh \subseteq 1..serial'[s.doc]
      BY <1>8, <2>1, <2>2 DEF Known
    <3>2. \A e \in s.gone : e[2] \in 1..serial'[e[1]]
      <4>1. SUFFICES ASSUME NEW e \in s.gone PROVE e[2] \in 1..serial'[e[1]]
        OBVIOUS
      <4>2. e[1] \in Docs /\ e[2] \in 1..serial[e[1]]
        BY <2>1, <2>2 DEF Known
      <4> QED
        BY <1>8, <4>2
    <3> QED
      BY <1>7, <2>1, <3>1, <3>2 DEF Known
  <2>4. ToolSound(s)'
    BY <1>7, <1>11, <2>3, Frame DEF ToolSound
  <2>5. s.fresh # {} => s.at \in HeldPlace
    BY <2>1 DEF Shape, Tool, HeldPlace, IngestPlace, ForgetPlace
  <2>6. s.fresh # {} => s.doc # d
    BY <1>1, <1>3, <1>11, <2>5 DEF Apart, HeldPlace
  <2>7. s.doc = d => n \notin s.stale
    BY <1>3, <1>9, <2>1, IngestAssumption DEF Known
  <2>8. <<d, n>> \notin s.gone
    BY <1>9, <2>1 DEF Known
  <2>9. NotFresh(r, s) /\ NotFresh(s, r)
    BY <1>2, <1>6, <2>6, <2>7, <2>8 DEF NotFresh
  <2> QED
    BY <1>1, <1>2, <1>3, <1>6, <1>11, <2>4, <2>9 DEF Apart, HeldPlace
<1>12. OthersSound(t, old) /\ OthersApart(t, old, r)
  BY <1>11 DEF OthersSound, OthersApart
<1>13. TypeOK'
  BY <1>1, <1>3, <1>5, <1>7 DEF TypeOK
<1>14. StoreSound'
  <2>1. NoUnreachableVectors'
    BY <1>0, <1>1, <1>2, <1>5, <1>7, ReachKept DEF StoreSound
  <2>2. \A e \in Docs : 1..serial[e] \subseteq 1..serial'[e]
    BY <1>8
  <2>3. DocSound'
    BY <1>1, <1>7, <2>2 DEF DocSound, Committed
  <2>4. AlwaysAnswerable'
    BY <1>1, <1>7, <2>2 DEF StoreSound, AlwaysAnswerable, Committed
  <2>5. StoredObjectExists'
    BY <1>1, <1>7 DEF StoreSound, StoredObjectExists, Committed
  <2> QED
    BY <2>1, <2>3, <2>4, <2>5 DEF StoreSound
<1> QED
  BY <1>0, <1>5, <1>10, <1>12, <1>13, <1>14, OneTool

\* The new points belong to rows that nobody else has read.
LEMMA UpsertKeeps ==
    ASSUME IngestInv, NEW t \in Tools, Upsert(t)
    PROVE  IngestInv'
<1>0. PICK old \in Tool : old = tool[t]
  BY ToolFacts
<1>1. TypeOK /\ ToolSound(old) /\ StoreSound /\ old.at = "upsert"
  BY <1>0 DEF IngestInv, Upsert
<1>2. /\ old.doc \in Docs /\ old.file \in Files /\ old.match = {} /\ old.hit = {}
      /\ old.gone = {} /\ old.stale = chunks[old.doc]
  BY <1>1, IndexedFacts DEF IndexedPlace, HeldPlace
<1>3. PICK d \in Docs : d = old.doc
  BY <1>2
<1>4. PICK r : r = [old EXCEPT !.at = "usage"]
  OBVIOUS
<1>5. r \in Tool /\ tool' = [tool EXCEPT ![t] = r]
  BY <1>0, <1>4 DEF Tool, IngestPlace, Upsert, Goto
<1>6. /\ r.at = "usage" /\ r.doc = d /\ r.file = old.file
      /\ r.new = old.new /\ r.keep = old.keep
      /\ r.match = old.match /\ r.hit = old.hit /\ r.fresh = old.fresh
      /\ r.stale = old.stale /\ r.left = old.left /\ r.gone = old.gone
  BY <1>3, <1>4 DEF Tool
<1>7. /\ points' = [points EXCEPT ![d] = points[d] \cup Ids(old.fresh)]
      /\ UNCHANGED <<doc, used, chunks, usage, serial, blobs, runs, faults,
                     touched, stray>>
  BY <1>0, <1>3 DEF Upsert, pgVars, history
<1>8. /\ points'[d] = points[d] \cup Ids(old.fresh)
      /\ \A e \in Docs \ {d} : points'[e] = points[e]
  BY <1>1, <1>7 DEF TypeOK
<1>9. ToolSound(r)'
  <2>1. Shape(r)'
    BY <1>1, <1>2, <1>3, <1>6
    DEF ToolSound, Shape, IngestPlace, ForgetPlace, IndexedPlace, HeldPlace
  <2>2. Known(r)' /\ NotFresh(r, r)'
    BY <1>1, <1>2, <1>3, <1>6, <1>7 DEF ToolSound, Known, NotFresh
  <2>3. Unseen(r)' /\ Locked(r)' /\ Kept(r)'
    BY <1>1, <1>3, <1>6, <1>7
    DEF ToolSound, Unseen, Locked, Kept, HeldPlace
  <2>4. Written(r)'
    BY <1>2, <1>3, <1>6, <1>7, <1>8 DEF Written
  <2>5. Swept(r)' /\ Doomed(r)'
    BY <1>6 DEF Swept, Doomed, ForgetPlace
  <2> QED
    BY <2>1, <2>2, <2>3, <2>4, <2>5 DEF ToolSound
<1>10. ASSUME NEW s \in Tool, ToolSound(s), Apart(old, s), Apart(s, old)
       PROVE  ToolSound(s)' /\ Apart(r, s) /\ Apart(s, r)
  <2>1. Shape(s) /\ Known(s) /\ Written(s) /\ Swept(s) /\ NotFresh(s, old)
    BY <1>10 DEF ToolSound, Apart
  <2>2. s.doc \in Docs \cup {NoDoc} /\ s.gone \subseteq Docs \X (Nat \ {0})
    BY DEF Tool
  <2>3. \A c \in Ids(old.fresh) : c[1] \in old.fresh
    BY IdsOfGenerations
  <2>4. Written(s)'
    <3>1. s.at \in IndexedPlace => s.doc \in Docs
      BY <2>1 DEF Shape, IndexedPlace, HeldPlace, IngestPlace
    <3> QED
      BY <1>7, <1>8, <2>1, <3>1 DEF Written
  <2>5. \A c \in points'[s.doc] :
           s.doc \in Docs /\ c[1] \in s.stale => c \in points[s.doc]
    BY <1>3, <1>8, <2>1, <2>3 DEF NotFresh
  <2>6. s.at \in {"prune", "unpoint", "commit", "unrow"} => s.doc \in Docs
    BY <2>1 DEF Shape, IngestPlace, ForgetPlace
  <2>7. \A e \in s.gone : \A c \in points'[e[1]] :
           c[1] = e[2] => c \in points[e[1]]
    <3>1. SUFFICES ASSUME NEW e \in s.gone, NEW c \in points'[e[1]], c[1] = e[2],
                          c \notin points[e[1]]
          PROVE  FALSE
      OBVIOUS
    <3>2. e[1] \in Docs /\ e = <<e[1], e[2]>>
      BY <2>2
    <3>3. e[1] = d /\ c \in Ids(old.fresh)
      BY <1>8, <3>1, <3>2
    <3>4. <<old.doc, c[1]>> \notin s.gone
      BY <2>1, <2>3, <3>3 DEF NotFresh
    <3> QED
      BY <1>3, <3>1, <3>2, <3>3, <3>4
  <2>8. Swept(s)'
    BY <1>7, <2>1, <2>5, <2>6, <2>7 DEF Swept
  <2>9. ToolSound(s)'
    BY <1>7, <1>10, <2>4, <2>8, Frame DEF ToolSound
  <2> QED
    BY <1>1, <1>3, <1>6, <1>10, <2>9 DEF Apart, NotFresh, HeldPlace
<1>11. OthersSound(t, old) /\ OthersApart(t, old, r)
  BY <1>10 DEF OthersSound, OthersApart
<1>12. TypeOK'
  <2>1. Ids(old.fresh) \subseteq ChunkId
    BY IdsOfGenerations DEF Tool
  <2> QED
    BY <1>1, <1>5, <1>7, <2>1 DEF TypeOK
<1>13. StoreSound'
  <2>1. tool'[t] = r /\ \A u \in Tools \ {t} : tool'[u] = tool[u]
    BY <1>1, <1>5 DEF TypeOK
  <2>2. NoUnreachableVectors'
    <3>1. SUFFICES ASSUME NEW e \in Docs, NEW c \in points'[e]
          PROVE  \/ c[1] \in chunks[e]
                 \/ \E u \in Tools : tool'[u].doc = e /\ c[1] \in tool'[u].fresh
                 \/ <<e, c>> \in stray
      BY <1>7 DEF NoUnreachableVectors
    <3>2. c \in points[e] => \/ c[1] \in chunks[e]
                             \/ \E u \in Tools : tool[u].doc = e /\ c[1] \in tool[u].fresh
                             \/ <<e, c>> \in stray
      BY <1>1 DEF StoreSound, NoUnreachableVectors
    <3>3. c \notin points[e] => e = d /\ c[1] \in old.fresh
      BY <1>8, IdsOfGenerations
    <3> QED
      BY <1>0, <1>3, <1>6, <2>1, <3>2, <3>3
  <2>3. DocSound' /\ StoredObjectExists'
    BY <1>1, <1>7 DEF StoreSound, DocSound, StoredObjectExists, Committed
  <2>4. AlwaysAnswerable'
    BY <1>1, <1>7, <1>8 DEF StoreSound, AlwaysAnswerable, Committed
  <2> QED
    BY <2>2, <2>3, <2>4 DEF StoreSound
<1> QED
  BY <1>0, <1>5, <1>9, <1>11, <1>12, <1>13, OneTool


\* What has been superseded is what is still to be deleted from the collection.
LEMMA RecordUsageKeeps ==
    ASSUME IngestInv, NEW t \in Tools, RecordUsage(t)
    PROVE  IngestInv'
<1>0. PICK old \in Tool : old = tool[t]
  BY ToolFacts
<1>1. TypeOK /\ ToolSound(old) /\ StoreSound /\ DocSound /\ old.at = "usage"
  BY <1>0 DEF IngestInv, StoreSound, RecordUsage
<1>2. /\ old.doc \in Docs /\ old.file \in Files /\ old.match = {} /\ old.hit = {}
      /\ old.gone = {} /\ old.stale = chunks[old.doc]
      /\ Ids(old.fresh) \subseteq points[old.doc]
  BY <1>1, IndexedFacts DEF IndexedPlace, HeldPlace
<1>3. PICK left \in SUBSET ChunkId : left = Ids(old.stale)
  BY IdsOfGenerations DEF Tool
<1>4. PICK r : r = [old EXCEPT !.at = "prune", !.left = left]
  OBVIOUS
<1>5. r \in Tool /\ tool' = [tool EXCEPT ![t] = r]
  <2>1. r \in Tool
    BY <1>4 DEF Tool, IngestPlace
  <2>2. tool' = [tool EXCEPT ![t] = r]
    BY <1>0, <1>3, <1>4 DEF RecordUsage
  <2> QED
    BY <2>1, <2>2
<1>6. /\ r.at = "prune" /\ r.doc = old.doc /\ r.file = old.file
      /\ r.new = old.new /\ r.keep = old.keep
      /\ r.match = old.match /\ r.hit = old.hit /\ r.fresh = old.fresh
      /\ r.stale = old.stale /\ r.left = Ids(r.stale) /\ r.gone = old.gone
  BY <1>3, <1>4 DEF Tool
<1>7. UNCHANGED <<doc, used, chunks, points, serial, blobs, runs, faults,
                  touched, stray>>
  BY DEF RecordUsage, history
<1>8. ToolSound(r)'
  <2>1. Shape(r)'
    BY <1>1, <1>2, <1>6
    DEF ToolSound, Shape, IngestPlace, ForgetPlace, IndexedPlace, HeldPlace
  <2>2. Known(r)' /\ NotFresh(r, r)'
    BY <1>1, <1>2, <1>6, <1>7 DEF ToolSound, Known, NotFresh
  <2>3. Unseen(r)' /\ Locked(r)' /\ Kept(r)'
    BY <1>1, <1>6, <1>7 DEF ToolSound, Unseen, Locked, Kept, HeldPlace
  <2>4. Written(r)'
    BY <1>2, <1>6, <1>7 DEF Written
  <2>5. \A c \in points[r.doc] : c[1] \in r.stale => c \in r.left
    <3>1. points[r.doc] \subseteq ChunkId
      BY <1>1, <1>2, <1>6 DEF TypeOK
    <3> QED
      BY <1>6, <3>1, IdsOfGenerations
  <2>6. Swept(r)' /\ Doomed(r)'
    BY <1>6, <1>7, <2>5 DEF Swept, Doomed, ForgetPlace
  <2> QED
    BY <2>1, <2>2, <2>3, <2>4, <2>6 DEF ToolSound
<1>9. ASSUME NEW s \in Tool, ToolSound(s), Apart(old, s), Apart(s, old)
      PROVE  ToolSound(s)' /\ Apart(r, s) /\ Apart(s, r)
  <2>1. ToolSound(s)'
    BY <1>7, <1>9, StoresUnchanged
  <2> QED
    BY <1>1, <1>6, <1>9, <2>1 DEF Apart, NotFresh, HeldPlace
<1>10. OthersSound(t, old) /\ OthersApart(t, old, r)
  BY <1>9 DEF OthersSound, OthersApart
<1>11. TypeOK'
  <2>1. usage' \subseteq Docs
    BY <1>1 DEF RecordUsage, TypeOK, Committed
  <2> QED
    BY <1>1, <1>5, <1>7, <2>1 DEF TypeOK
<1>12. StoreSound'
  <2>1. NoUnreachableVectors'
    BY <1>0, <1>1, <1>5, <1>6, <1>7, ReachKept DEF StoreSound
  <2> QED
    BY <1>1, <1>7, <2>1, StoresKept
<1> QED
  BY <1>0, <1>5, <1>8, <1>10, <1>11, <1>12, OneTool

\* A batch takes nothing of a generation that somebody is indexing: the new one is
\* complete before the old one goes.
LEMMA DeleteBatchKeeps ==
    ASSUME IngestInv, NEW t \in Tools, DeleteBatch(t)
    PROVE  IngestInv'
<1>0. PICK old \in Tool : old = tool[t]
  BY ToolFacts
<1>1. TypeOK /\ ToolSound(old) /\ StoreSound /\ old.at \in {"prune", "unpoint"}
  BY <1>0 DEF IngestInv, DeleteBatch
<1>2. /\ Shape(old) /\ Known(old) /\ Written(old) /\ Swept(old) /\ Doomed(old)
      /\ NotFresh(old, old) /\ old.left \subseteq Ids(old.stale)
  BY <1>1 DEF ToolSound, Shape
<1>3. PICK d \in Docs : d = old.doc
  BY <1>1, <1>2 DEF Shape, IngestPlace, ForgetPlace
<1>4. PICK batch \in SUBSET old.left :
         /\ points' = [points EXCEPT ![d] = points[d] \ batch]
         /\ tool' = [tool EXCEPT ![t] = [old EXCEPT !.left = old.left \ batch]]
  BY <1>0, <1>3 DEF DeleteBatch
<1>5. PICK r : r = [old EXCEPT !.left = old.left \ batch]
  OBVIOUS
<1>6. r \in Tool /\ tool' = [tool EXCEPT ![t] = r]
  BY <1>4, <1>5 DEF Tool
<1>7. /\ r.at = old.at /\ r.doc = d /\ r.file = old.file
      /\ r.new = old.new /\ r.keep = old.keep
      /\ r.match = old.match /\ r.hit = old.hit /\ r.fresh = old.fresh
      /\ r.stale = old.stale /\ r.left = old.left \ batch /\ r.gone = old.gone
  BY <1>3, <1>5 DEF Tool
<1>8. UNCHANGED <<doc, used, chunks, usage, serial, blobs, runs, faults,
                  touched, stray>>
  BY DEF DeleteBatch, pgVars, history
<1>9. /\ points'[d] = points[d] \ batch
      /\ \A e \in Docs \ {d} : points'[e] = points[e]
      /\ \A e \in Docs : points'[e] \subseteq points[e]
  BY <1>1, <1>4 DEF TypeOK
<1>10. \A c \in batch : c[1] \in old.stale
  BY <1>2, IdsOfGenerations
<1>11. ASSUME NEW s \in Tool, NotFresh(old, s), s.doc \in Docs,
              Ids(s.fresh) \subseteq points[s.doc]
       PROVE  Ids(s.fresh) \subseteq points'[s.doc]
  <2>1. \A c \in Ids(s.fresh) : s.doc = d => c \notin batch
    BY <1>3, <1>10, <1>11, IdsOfGenerations DEF NotFresh
  <2> QED
    BY <1>9, <1>11, <2>1
<1>12. ASSUME NEW s \in Tool, Written(s), Shape(s), NotFresh(old, s)
       PROVE  Written(s)'
  <2>1. s.at \in IndexedPlace => s.doc \in Docs
    BY <1>12 DEF Shape, IndexedPlace, HeldPlace, IngestPlace
  <2> QED
    BY <1>8, <1>11, <1>12, <2>1 DEF Written
<1>13. ASSUME NEW s \in Tool, Shape(s), Swept(s)
       PROVE  Swept(s)'
  <2>1. s.at \in {"prune", "unpoint", "commit", "unrow"} =>
           s.doc \in Docs /\ points'[s.doc] \subseteq points[s.doc]
    BY <1>9, <1>13 DEF Shape, IngestPlace, ForgetPlace
  <2>2. \A e \in s.gone : points'[e[1]] \subseteq points[e[1]]
    BY <1>9 DEF Tool
  <2> QED
    BY <1>8, <1>13, <2>1, <2>2 DEF Swept
<1>14. ToolSound(r)'
  <2>1. Shape(r)'
    BY <1>1, <1>2, <1>3, <1>7
    DEF Shape, IngestPlace, ForgetPlace, IndexedPlace, HeldPlace
  <2>2. Known(r)' /\ NotFresh(r, r)'
    BY <1>2, <1>3, <1>7, <1>8 DEF Known, NotFresh
  <2>3. Unseen(r)' /\ Locked(r)' /\ Kept(r)' /\ Doomed(r)'
    BY <1>1, <1>3, <1>7, <1>8 DEF ToolSound, Unseen, Locked, Kept, Doomed
  <2>4. Written(r)'
    <3>1. Written(old)'
      BY <1>2, <1>12
    <3> QED
      BY <1>3, <1>7, <3>1 DEF Written
  <2>5. Swept(r)'
    <3>1. Swept(old)'
      BY <1>2, <1>13
    <3>2. \A c \in points'[d] : c \notin batch
      BY <1>9
    <3> QED
      BY <1>3, <1>7, <3>1, <3>2 DEF Swept
  <2> QED
    BY <2>1, <2>2, <2>3, <2>4, <2>5 DEF ToolSound
<1>15. ASSUME NEW s \in Tool, ToolSound(s), Apart(old, s), Apart(s, old)
       PROVE  ToolSound(s)' /\ Apart(r, s) /\ Apart(s, r)
  <2>1. Shape(s) /\ Written(s) /\ Swept(s) /\ NotFresh(old, s)
    BY <1>15 DEF ToolSound, Apart
  <2>2. Written(s)' /\ Swept(s)'
    BY <1>12, <1>13, <2>1
  <2>3. ToolSound(s)'
    BY <1>8, <1>15, <2>2, Frame DEF ToolSound
  <2> QED
    BY <1>3, <1>7, <1>15, <2>3 DEF Apart, NotFresh
<1>16. OthersSound(t, old) /\ OthersApart(t, old, r)
  BY <1>15 DEF OthersSound, OthersApart
<1>17. TypeOK'
  BY <1>1, <1>4, <1>6, <1>8 DEF TypeOK
<1>18. StoreSound'
  <2>1. NoUnreachableVectors'
    BY <1>0, <1>1, <1>3, <1>6, <1>7, <1>8, <1>9, ReachKept DEF StoreSound
  <2>2. DocSound' /\ StoredObjectExists'
    BY <1>1, <1>8 DEF StoreSound, DocSound, StoredObjectExists, Committed
  <2>3. AlwaysAnswerable'
    <3>1. SUFFICES ASSUME NEW e \in Committed \ touched
          PROVE  \E n \in 1..serial[e] : Generation(n) \subseteq points'[e]
      BY <1>8 DEF AlwaysAnswerable, Committed
    <3>2. \E n \in 1..serial[e] : Generation(n) \subseteq points[e]
      BY <1>1 DEF StoreSound, AlwaysAnswerable
    <3>3. CASE e = d /\ old.at = "prune"
      <4>1. PICK n \in old.fresh : old.fresh = {n}
        BY <1>2, <3>3 DEF Shape, IndexedPlace, HeldPlace
      <4>2. n \in 1..serial[e]
        BY <1>2, <1>3, <3>3, <4>1, IngestAssumption DEF Known
      <4>3. Ids({n}) \subseteq points'[e]
        BY <1>2, <1>3, <1>11, <3>3, <4>1 DEF Written, IndexedPlace, HeldPlace
      <4> QED
        BY <4>2, <4>3, IdsOfGenerations
    <3>4. CASE e = d /\ old.at = "unpoint"
      BY <1>2, <1>3, <3>1, <3>4 DEF Doomed, ForgetPlace
    <3>5. CASE e # d
      BY <1>9, <3>1, <3>2, <3>5 DEF Committed
    <3> QED
      BY <1>1, <3>3, <3>4, <3>5
  <2> QED
    BY <2>1, <2>2, <2>3 DEF StoreSound
<1> QED
  BY <1>0, <1>6, <1>14, <1>16, <1>17, <1>18, OneTool

\* The rows of the superseded chunks go once their points are gone.
LEMMA DeleteStaleRowsKeeps ==
    ASSUME IngestInv, NEW t \in Tools, DeleteStaleRows(t)
    PROVE  IngestInv'
<1>0. PICK old \in Tool : old = tool[t]
  BY ToolFacts
<1>1. TypeOK /\ ToolSound(old) /\ old.at = "prune" /\ old.left = {}
  BY <1>0 DEF IngestInv, DeleteStaleRows
<1>2. /\ old.file \in Files /\ old.match = {} /\ old.hit = {}
      /\ old.stale = chunks[old.doc] /\ old.fresh \cap old.stale = {}
      /\ old.stale \subseteq 1..serial[old.doc]
      /\ Ids(old.fresh) \subseteq points[old.doc]
  BY <1>1, IndexedFacts DEF IndexedPlace, HeldPlace
<1>3. PICK d \in Docs : d = old.doc
  BY <1>1, IndexedFacts DEF IndexedPlace, HeldPlace
<1>4. PICK gone \in SUBSET (Docs \X (Nat \ {0})) : gone = {d} \X old.stale
  BY DEF Tool
<1>5. PICK r : r = [old EXCEPT !.at = "commit", !.gone = gone]
  OBVIOUS
<1>6. r \in Tool /\ tool' = [tool EXCEPT ![t] = r]
  <2>1. r \in Tool
    BY <1>5 DEF Tool, IngestPlace
  <2>2. gone = {d} \X (old.stale \cap chunks[d])
    BY <1>2, <1>3, <1>4
  <2>3. tool' = [tool EXCEPT ![t] = r]
    BY <1>0, <1>3, <1>5, <2>2 DEF DeleteStaleRows
  <2> QED
    BY <2>1, <2>3
<1>7. /\ r.at = "commit" /\ r.doc = d /\ r.file = old.file
      /\ r.new = old.new /\ r.keep = old.keep
      /\ r.match = old.match /\ r.hit = old.hit /\ r.fresh = old.fresh
      /\ r.stale = old.stale /\ r.left = old.left /\ r.gone = gone
  BY <1>3, <1>5 DEF Tool
<1>8. ToolSound(r)
  <2>1. Shape(r)
    BY <1>1, <1>2, <1>3, <1>7
    DEF ToolSound, Shape, IngestPlace, ForgetPlace, IndexedPlace, HeldPlace
  <2>2. Known(r) /\ NotFresh(r, r)
    <3>1. \A e \in gone : e[2] \in 1..serial[e[1]]
      BY <1>2, <1>3, <1>4
    <3> QED
      BY <1>1, <1>2, <1>3, <1>4, <1>7, <3>1 DEF ToolSound, Known, NotFresh
  <2>3. Unseen(r) /\ Locked(r) /\ Kept(r)
    BY <1>1, <1>3, <1>7 DEF ToolSound, Unseen, Locked, Kept, HeldPlace
  <2>4. Written(r)
    BY <1>2, <1>3, <1>7 DEF Written
  <2>5. Swept(r) /\ Doomed(r)
    BY <1>1, <1>3, <1>7 DEF ToolSound, Swept, Doomed, ForgetPlace
  <2> QED
    BY <2>1, <2>2, <2>3, <2>4, <2>5 DEF ToolSound
<1>9. ASSUME NEW s \in Tool, Apart(old, s), Apart(s, old)
      PROVE  Apart(r, s) /\ Apart(s, r)
  BY <1>1, <1>3, <1>4, <1>7, <1>9 DEF Apart, NotFresh, HeldPlace
<1>10. OthersApart(t, old, r)
  BY <1>9 DEF OthersApart
<1>11. UNCHANGED <<pgVars, points, serial, blobs, faults, history>> /\ runs' \in Nat
  BY <1>1 DEF DeleteStaleRows, TypeOK
<1> QED
  BY <1>0, <1>3, <1>6, <1>7, <1>8, <1>10, <1>11, PrivateStep


\* What is committed is one generation, the one whose points are in the
\* collection; those of the generation it replaces are gone.
LEMMA CommitFileKeeps ==
    ASSUME IngestInv, NEW t \in Tools, CommitFile(t)
    PROVE  IngestInv'
<1>0. PICK old \in Tool : old = tool[t]
  BY ToolFacts
<1>1. /\ TypeOK /\ ToolSound(old) /\ StoreSound /\ DocSound /\ old.at = "commit"
      /\ NoUnreachableVectors
  BY <1>0 DEF IngestInv, StoreSound, CommitFile
<1>2. /\ old.file \in Files /\ old.doc \in used
      /\ old.stale = chunks[old.doc] /\ old.fresh \cap old.stale = {}
      /\ old.fresh \subseteq 1..serial[old.doc]
      /\ Ids(old.fresh) \subseteq points[old.doc]
      /\ \E n \in old.fresh : old.fresh = {n}
  BY <1>1, IndexedFacts DEF IndexedPlace, HeldPlace
<1>3. PICK d \in Docs : d = old.doc
  BY <1>1, IndexedFacts DEF IndexedPlace, HeldPlace
<1>4. PICK n \in 1..serial[d] : old.fresh = {n}
  BY <1>2, <1>3
<1>5. PICK r \in Tool : /\ Clear(r)
                        /\ r = [Idle EXCEPT !.at = "file", !.files = old.files,
                                            !.reindex = old.reindex, !.keep = old.keep]
  <2>1. old.files \in SUBSET Files /\ old.reindex \in BOOLEAN /\ old.keep \in BOOLEAN
    BY DEF Tool
  <2> QED
    BY <2>1, ClearRecords
<1>6. tool' = [tool EXCEPT ![t] = r]
  BY <1>0, <1>5 DEF CommitFile
<1>7. /\ doc' = [doc EXCEPT ![d] =
                    IF old.new
                    THEN [name |-> old.file, hash |-> old.file,
                          status |-> "processed", key |-> old.keep]
                    ELSE [doc[d] EXCEPT !.hash = old.file, !.status = "processed"]]
      /\ chunks' = [chunks EXCEPT ![d] = (chunks[d] \ old.stale) \cup old.fresh]
      /\ UNCHANGED <<used, usage, points, serial, blobs, runs, faults, touched, stray>>
  BY <1>0, <1>3 DEF CommitFile, history
<1>8. /\ ~ old.new => doc[d] \in Row
      /\ old.new => doc[d] = NoRow /\ d \notin touched
      /\ old.new /\ old.keep => d \in blobs
  BY <1>1, <1>3 DEF TypeOK, ToolSound, Unseen, Locked, Kept, HeldPlace
<1>9. /\ doc'[d] \in Row
      /\ old.new => doc'[d].key = old.keep
      /\ ~ old.new => doc'[d].key = doc[d].key
      /\ \A e \in Docs \ {d} : doc'[e] = doc[e]
  <2>1. DEFINE new == [name |-> old.file, hash |-> old.file,
                       status |-> "processed", key |-> old.keep]
               again == [doc[d] EXCEPT !.hash = old.file, !.status = "processed"]
  <2>2. new \in Row /\ new.key = old.keep
    BY <1>2 DEF Row, Names, DocumentStatus, Tool
  <2>3. ~ old.new => again \in Row /\ again.key = doc[d].key
    BY <1>2, <1>8 DEF Row, Names, DocumentStatus
  <2>4. doc' = [doc EXCEPT ![d] = IF old.new THEN new ELSE again]
    BY <1>7 DEF new, again
  <2> HIDE DEF new, again
  <2>5. /\ doc'[d] = IF old.new THEN new ELSE again
        /\ \A e \in Docs \ {d} : doc'[e] = doc[e]
    BY <1>1, <2>4 DEF TypeOK
  <2> QED
    BY <2>2, <2>3, <2>5
<1>10. /\ chunks'[d] = {n}
       /\ \A e \in Docs \ {d} : chunks'[e] = chunks[e]
  BY <1>1, <1>2, <1>3, <1>4, <1>7 DEF TypeOK
<1>11. doc'[d] # NoRow
  BY <1>9, RowAssumption
<1>12. TypeOK'
  <2>1. doc' \in [Docs -> Row \cup {NoRow}]
    BY <1>1, <1>7, <1>9 DEF TypeOK
  <2>2. chunks' \in [Docs -> SUBSET (Nat \ {0})]
    BY <1>1, <1>7 DEF TypeOK, Tool
  <2> QED
    BY <1>1, <1>6, <1>7, <2>1, <2>2 DEF TypeOK
<1>13. ASSUME NEW s \in Tool, ToolSound(s), Apart(old, s), Apart(s, old)
       PROVE  ToolSound(s)'
  <2>1. Shape(s) /\ Unseen(s) /\ Locked(s) /\ Written(s)
    BY <1>13 DEF ToolSound
  <2>2. /\ s.new => s.doc # d /\ s.doc \in Docs
        /\ s.at \in HeldPlace => s.doc # d /\ s.doc \in Docs
    BY <1>1, <1>3, <1>13, <2>1
    DEF Apart, Shape, Tool, HeldPlace, IngestPlace, ForgetPlace
  <2>3. Unseen(s)' /\ Locked(s)' /\ Written(s)'
    BY <1>7, <1>9, <1>10, <2>1, <2>2 DEF Unseen, Locked, Written, IndexedPlace
  <2> QED
    BY <1>7, <1>13, <2>3, Frame DEF ToolSound
<1>14. OthersSound(t, old) /\ OthersApart(t, old, r)
  BY <1>5, <1>13, ClearSound, IngestAssumption DEF OthersSound, OthersApart, ToolSound
<1>15. NoUnreachableVectors'
  <2>1. tool'[t] = r /\ \A u \in Tools \ {t} : tool'[u] = tool[u]
    BY <1>1, <1>6 DEF TypeOK
  <2>2. SUFFICES ASSUME NEW e \in Docs, NEW c \in points[e]
        PROVE  \/ c[1] \in chunks'[e]
               \/ \E u \in Tools : tool'[u].doc = e /\ c[1] \in tool'[u].fresh
               \/ <<e, c>> \in stray
    BY <1>7 DEF NoUnreachableVectors
  <2>3. \/ c[1] \in chunks[e]
        \/ \E u \in Tools : tool[u].doc = e /\ c[1] \in tool[u].fresh
        \/ <<e, c>> \in stray
    BY <1>1 DEF NoUnreachableVectors
  <2>4. e = d /\ c[1] \in chunks[d] => <<e, c>> \in stray
    BY <1>1, <1>2, <1>3 DEF ToolSound, Swept
  <2>5. old.doc = e /\ c[1] \in old.fresh => c[1] \in chunks'[e]
    BY <1>3, <1>4, <1>10
  <2> QED
    BY <1>0, <1>10, <2>1, <2>3, <2>4, <2>5
<1>16. StoreSound'
  <2>1. DocSound'
    <3>1. SUFFICES ASSUME NEW e \in Docs
          PROVE  /\ doc'[e] # NoRow \/ e \in touched => e \in used
                 /\ doc'[e] = NoRow => chunks'[e] = {}
                 /\ doc'[e] # NoRow => \E m \in 1..serial[e] : chunks'[e] = {m}
      BY <1>7 DEF DocSound, Committed
    <3>2. CASE e = d
      BY <1>2, <1>3, <1>10, <1>11, <3>2
    <3>3. CASE e # d
      BY <1>1, <1>9, <1>10, <3>3 DEF DocSound, Committed
    <3> QED
      BY <3>2, <3>3
  <2>2. AlwaysAnswerable'
    <3>1. Generation(n) \subseteq points[d]
      BY <1>2, <1>3, <1>4, IdsOfGenerations
    <3> QED
      BY <1>1, <1>7, <1>9, <3>1 DEF StoreSound, AlwaysAnswerable, Committed
  <2>3. StoredObjectExists'
    <3>1. SUFFICES ASSUME NEW e \in Docs, doc'[e] # NoRow, e \notin touched,
                          doc'[e].key
          PROVE  e \in blobs
      BY <1>7 DEF StoredObjectExists, Committed
    <3>2. CASE e # d \/ ~ old.new
      <4>1. doc[e] # NoRow /\ doc[e].key
        BY <1>8, <1>9, <3>1, <3>2, RowAssumption
      <4> QED
        BY <1>1, <3>1, <4>1 DEF StoreSound, StoredObjectExists, Committed
    <3>3. CASE e = d /\ old.new
      BY <1>8, <1>9, <3>1, <3>3
    <3> QED
      BY <3>2, <3>3
  <2> QED
    BY <1>15, <2>1, <2>2, <2>3 DEF StoreSound
<1> QED
  BY <1>0, <1>5, <1>6, <1>12, <1>14, <1>16, ClearSound, IngestAssumption, OneTool

-----------------------------------------------------------------------------
(***************************************************************************)
(* forget()                                                                *)
(***************************************************************************)

\* The pattern matches committed documents only.
LEMMA StartForgetKeeps ==
    ASSUME IngestInv, NEW t \in Tools, NEW pattern \in SUBSET Names,
           StartForget(t, pattern)
    PROVE  IngestInv'
<1>0. PICK old \in Tool : old = tool[t]
  BY ToolFacts
<1>1. TypeOK /\ ToolSound(old) /\ DocSound
  BY <1>0 DEF IngestInv, StoreSound
<1>2. PICK match \in SUBSET Docs : match = {d \in Committed : doc[d].name \in pattern}
  BY DEF Committed
<1>3. \A d \in match : doc[d] # NoRow /\ d \in used
  BY <1>1, <1>2 DEF DocSound, Committed
<1>4. PICK r : r = [Idle EXCEPT !.at = "ids", !.match = match]
  OBVIOUS
<1>5. r \in Tool /\ tool' = [tool EXCEPT ![t] = r]
  <2>1. r \in Tool
    BY <1>4 DEF Idle, Tool, ForgetPlace
  <2>2. tool' = [tool EXCEPT ![t] = r]
    BY <1>2, <1>4 DEF StartForget
  <2> QED
    BY <2>1, <2>2
<1>6. /\ r.at = "ids" /\ r.doc = NoDoc /\ ~ r.new /\ r.match = match
      /\ r.hit = {} /\ r.fresh = {} /\ r.stale = {} /\ r.left = {} /\ r.gone = {}
  BY <1>4 DEF Idle
<1>7. old.fresh = {}
  BY <1>0, <1>1, WhereClear DEF StartForget
<1>8. ToolSound(r)
  <2>1. Shape(r)
    BY <1>6 DEF Shape, IngestPlace, IndexedPlace, HeldPlace
  <2>2. Known(r) /\ Unseen(r) /\ Kept(r) /\ NotFresh(r, r)
    BY <1>3, <1>6 DEF Known, Unseen, Kept, NotFresh
  <2>3. Locked(r) /\ Written(r) /\ Swept(r) /\ Doomed(r)
    BY <1>6 DEF Locked, Written, Swept, Doomed, HeldPlace, IndexedPlace
  <2> QED
    BY <2>1, <2>2, <2>3 DEF ToolSound
<1>9. ASSUME NEW s \in Tool, ToolSound(s) PROVE Apart(r, s) /\ Apart(s, r)
  <2>1. s.new => s.doc # NoDoc /\ s.doc \notin match
    BY <1>3, <1>9, IngestAssumption
    DEF ToolSound, Shape, Unseen, Tool, IngestPlace, ForgetPlace
  <2> QED
    BY <1>6, <2>1 DEF Apart, NotFresh, HeldPlace
<1>10. OthersApart(t, old, r)
  BY <1>9 DEF OthersApart
<1>11. UNCHANGED <<pgVars, points, serial, blobs, faults, history>>
  BY DEF StartForget
<1>12. runs' \in Nat
  <2>1. runs' = runs + 1
    BY DEF StartForget
  <2> QED
    BY <1>1, <2>1 DEF TypeOK
<1> QED
  BY <1>0, <1>5, <1>7, <1>8, <1>10, <1>11, <1>12, PrivateStep


\* The rows whose ids are read are committed: no other tool has inserted them.
LEMMA CommittedNotFresh ==
    ASSUME NEW s \in Tool, ToolSound(s), NEW d \in Docs
    PROVE  s.doc = d => s.fresh \cap chunks[d] = {}
<1>1. s.fresh # {} => s.at \in IndexedPlace
  BY DEF ToolSound, Shape, Tool, IndexedPlace, HeldPlace, IngestPlace, ForgetPlace
<1> QED
  BY <1>1 DEF ToolSound, Written, NotFresh

\* The document whose removal begins is committed, so nobody is inserting it, and
\* every point that its rows name is among those to be deleted.
LEMMA ReadChunkIdsKeeps ==
    ASSUME IngestInv, NEW t \in Tools, ReadChunkIds(t)
    PROVE  IngestInv'
<1>0. PICK old \in Tool : old = tool[t]
  BY ToolFacts
<1>1. TypeOK /\ ToolSound(old) /\ StoreSound /\ DocSound /\ old.at = "ids"
  BY <1>0 DEF IngestInv, StoreSound, ReadChunkIds
<1>2. /\ ~ old.new /\ old.fresh = {} /\ old.match \cup old.hit \subseteq used
      /\ \A e \in old.gone : e[2] \in 1..serial[e[1]]
  BY <1>1 DEF ToolSound, Shape, Known, ForgetPlace
<1>3. PICK d \in old.match :
         /\ touched' = touched \cup {d}
         /\ tool' = [tool EXCEPT ![t] =
                [old EXCEPT !.at = "unpoint", !.doc = d, !.stale = chunks[d],
                            !.match = old.match \ {d}, !.left = Ids(chunks[d])]]
  BY <1>0 DEF ReadChunkIds
<1>4. d \in Docs /\ d \in used
  BY <1>2 DEF Tool
<1>5. PICK g \in SUBSET (Nat \ {0}) : g = chunks[d]
  BY <1>1, <1>4 DEF TypeOK
<1>6. PICK r : r = [old EXCEPT !.at = "unpoint", !.doc = d, !.stale = g,
                               !.match = old.match \ {d}, !.left = Ids(g)]
  OBVIOUS
<1>7. r \in Tool /\ tool' = [tool EXCEPT ![t] = r]
  <2>1. r \in Tool
    BY <1>4, <1>6, IdsOfGenerations DEF Tool, ForgetPlace
  <2> QED
    BY <1>3, <1>5, <1>6, <2>1
<1>8. /\ r.at = "unpoint" /\ r.doc = d /\ r.new = old.new /\ r.keep = old.keep
      /\ r.match = old.match \ {d} /\ r.hit = old.hit /\ r.fresh = old.fresh
      /\ r.stale = g /\ r.left = Ids(g) /\ r.gone = old.gone
  BY <1>6 DEF Tool
<1>9. UNCHANGED <<doc, used, chunks, usage, points, serial, blobs, runs, faults, stray>>
  BY DEF ReadChunkIds, pgVars
<1>10. ToolSound(r)'
  <2>1. Shape(r)'
    BY <1>2, <1>4, <1>8 DEF Shape, IngestPlace, IndexedPlace, HeldPlace
  <2>2. g \subseteq 1..serial[d]
    BY <1>1, <1>4, <1>5 DEF DocSound
  <2>3. Known(r)' /\ NotFresh(r, r)'
    BY <1>2, <1>4, <1>8, <1>9, <2>2 DEF Known, NotFresh
  <2>4. Unseen(r)' /\ Locked(r)' /\ Kept(r)' /\ Written(r)'
    BY <1>2, <1>8 DEF Unseen, Locked, Kept, Written, HeldPlace, IndexedPlace
  <2>5. \A c \in points[d] : c[1] \in g => c \in Ids(g)
    BY <1>1, <1>4, IdsOfGenerations DEF TypeOK
  <2>6. Swept(r)' /\ Doomed(r)'
    BY <1>1, <1>3, <1>8, <1>9, <2>5 DEF ToolSound, Swept, Doomed, ForgetPlace
  <2> QED
    BY <2>1, <2>3, <2>4, <2>6 DEF ToolSound
<1>11. ASSUME NEW s \in Tool, ToolSound(s), Apart(old, s), Apart(s, old)
       PROVE  ToolSound(s)' /\ Apart(r, s) /\ Apart(s, r)
  <2>1. Unseen(s)' /\ Doomed(s)'
    BY <1>3, <1>9, <1>11 DEF ToolSound, Unseen, Doomed, Apart
  <2>2. ToolSound(s)'
    BY <1>9, <1>11, <2>1, Frame DEF ToolSound
  <2>3. s.doc = d => s.fresh \cap g = {}
    BY <1>4, <1>5, <1>11, CommittedNotFresh
  <2>4. NotFresh(r, s) /\ NotFresh(s, r)
    BY <1>2, <1>8, <1>11, <2>3 DEF Apart, NotFresh
  <2> QED
    BY <1>2, <1>8, <1>11, <2>2, <2>4 DEF Apart, HeldPlace
<1>12. OthersSound(t, old) /\ OthersApart(t, old, r)
  BY <1>11 DEF OthersSound, OthersApart
<1>13. TypeOK'
  BY <1>1, <1>3, <1>4, <1>7, <1>9 DEF TypeOK
<1>14. StoreSound'
  <2>1. NoUnreachableVectors'
    BY <1>0, <1>1, <1>2, <1>7, <1>9, ReachKept DEF StoreSound
  <2>2. DocSound'
    BY <1>1, <1>3, <1>4, <1>9 DEF DocSound, Committed
  <2>3. AlwaysAnswerable' /\ StoredObjectExists'
    BY <1>1, <1>3, <1>9 DEF StoreSound, AlwaysAnswerable, StoredObjectExists, Committed
  <2> QED
    BY <2>1, <2>2, <2>3 DEF StoreSound
<1> QED
  BY <1>0, <1>7, <1>10, <1>12, <1>13, <1>14, OneTool

\* A generation that was committed since the ids were read leaves its points.
LEMMA StartRowDeleteKeeps ==
    ASSUME IngestInv, NEW t \in Tools, StartRowDelete(t)
    PROVE  IngestInv'
<1>0. PICK old \in Tool : old = tool[t]
  BY ToolFacts
<1>1. /\ TypeOK /\ ToolSound(old) /\ StoreSound /\ DocSound
      /\ old.at = "unpoint" /\ old.left = {}
  BY <1>0 DEF IngestInv, StoreSound, StartRowDelete
<1>2. /\ ~ old.new /\ old.fresh = {} /\ old.match \cup old.hit \subseteq used
      /\ \A e \in old.gone : e[2] \in 1..serial[e[1]]
  BY <1>1 DEF ToolSound, Shape, Known, ForgetPlace
<1>3. PICK d \in Docs : d = old.doc
  BY <1>1 DEF ToolSound, Shape, ForgetPlace
<1>4. d \in used
  BY <1>1, <1>3, IngestAssumption DEF ToolSound, Known
<1>5. PICK g \in SUBSET (Nat \ {0}) : g = chunks[d]
  BY <1>1 DEF TypeOK
<1>6. PICK r : r = [old EXCEPT !.at = "unrow", !.stale = g]
  OBVIOUS
<1>7. r \in Tool /\ tool' = [tool EXCEPT ![t] = r]
  <2>1. r \in Tool
    BY <1>6 DEF Tool, ForgetPlace
  <2>2. tool' = [tool EXCEPT ![t] = r]
    BY <1>0, <1>3, <1>5, <1>6 DEF StartRowDelete
  <2> QED
    BY <2>1, <2>2
<1>8. /\ r.at = "unrow" /\ r.doc = d /\ r.new = old.new /\ r.keep = old.keep
      /\ r.match = old.match /\ r.hit = old.hit /\ r.fresh = old.fresh
      /\ r.stale = g /\ r.left = {} /\ r.gone = old.gone
  BY <1>1, <1>3, <1>6 DEF Tool
<1>9. /\ stray' = stray \cup ({d} \X Ids(g \ old.stale))
      /\ UNCHANGED <<doc, used, chunks, usage, points, serial, blobs, runs, faults,
                     touched>>
  BY <1>0, <1>3, <1>5 DEF StartRowDelete, pgVars
<1>10. ToolSound(r)'
  <2>1. Shape(r)'
    BY <1>2, <1>8 DEF Shape, IngestPlace, IndexedPlace, HeldPlace
  <2>2. g \subseteq 1..serial[d]
    BY <1>1, <1>5 DEF DocSound
  <2>3. Known(r)' /\ NotFresh(r, r)'
    BY <1>2, <1>4, <1>8, <1>9, <2>2 DEF Known, NotFresh
  <2>4. Unseen(r)' /\ Locked(r)' /\ Kept(r)' /\ Written(r)'
    BY <1>2, <1>8 DEF Unseen, Locked, Kept, Written, HeldPlace, IndexedPlace
  <2>5. ASSUME NEW c \in points[d], c[1] \in g PROVE <<d, c>> \in stray'
    <3>1. CASE c[1] \in old.stale
      BY <1>1, <1>3, <1>9, <3>1 DEF ToolSound, Swept
    <3>2. CASE c[1] \notin old.stale
      <4>1. c \in ChunkId
        BY <1>1 DEF TypeOK
      <4>2. c \in Ids(g \ old.stale)
        BY <2>5, <3>2, <4>1 DEF Ids, ChunkId
      <4> QED
        BY <1>9, <4>2
    <3> QED
      BY <3>1, <3>2
  <2>6. Swept(r)'
    <3>1. \A e \in r.gone : \A c \in points[e[1]] : c[1] = e[2] => <<e[1], c>> \in stray'
      BY <1>1, <1>8, <1>9 DEF ToolSound, Swept, ForgetPlace
    <3> QED
      BY <1>8, <1>9, <2>5, <3>1 DEF Swept
  <2>7. Doomed(r)'
    BY <1>1, <1>3, <1>8, <1>9 DEF ToolSound, Doomed, ForgetPlace
  <2> QED
    BY <2>1, <2>3, <2>4, <2>6, <2>7 DEF ToolSound
<1>11. ASSUME NEW s \in Tool, ToolSound(s), Apart(old, s), Apart(s, old)
       PROVE  ToolSound(s)' /\ Apart(r, s) /\ Apart(s, r)
  <2>1. Swept(s)'
    BY <1>9, <1>11 DEF ToolSound, Swept
  <2>2. ToolSound(s)'
    BY <1>9, <1>11, <2>1, Frame DEF ToolSound
  <2>3. s.doc = d => s.fresh \cap g = {}
    BY <1>5, <1>11, CommittedNotFresh
  <2>4. NotFresh(r, s) /\ NotFresh(s, r)
    BY <1>2, <1>8, <1>11, <2>3 DEF Apart, NotFresh
  <2> QED
    BY <1>2, <1>3, <1>8, <1>11, <2>2, <2>4 DEF Apart, HeldPlace
<1>12. OthersSound(t, old) /\ OthersApart(t, old, r)
  BY <1>11 DEF OthersSound, OthersApart
<1>13. TypeOK'
  <2>1. stray' \subseteq Docs \X ChunkId
    <3>1. Ids(g \ old.stale) \subseteq ChunkId
      BY IdsOfGenerations
    <3> QED
      BY <1>1, <1>9, <3>1 DEF TypeOK
  <2> QED
    BY <1>1, <1>7, <1>9, <2>1 DEF TypeOK
<1>14. StoreSound'
  <2>1. NoUnreachableVectors'
    BY <1>0, <1>1, <1>2, <1>7, <1>9, ReachKept DEF StoreSound
  <2> QED
    BY <1>1, <1>9, <2>1, StoresKept
<1> QED
  BY <1>0, <1>7, <1>10, <1>12, <1>13, <1>14, OneTool

\* The rows of the document are gone, and what is left of its points is stray.
LEMMA DeleteRowsKeeps ==
    ASSUME IngestInv, NEW t \in Tools, DeleteRows(t)
    PROVE  IngestInv'
<1>0. PICK old \in Tool : old = tool[t]
  BY ToolFacts
<1>1. TypeOK /\ ToolSound(old) /\ old.at = "unrow"
  BY <1>0 DEF IngestInv, DeleteRows
<1>2. /\ ~ old.new /\ old.fresh = {} /\ old.match \cup old.hit \subseteq used
      /\ old.left \subseteq Ids(old.stale)
      /\ \A e \in old.gone : e[2] \in 1..serial[e[1]]
  BY <1>1 DEF ToolSound, Shape, Known, ForgetPlace
<1>3. PICK d \in Docs : d = old.doc
  BY <1>1 DEF ToolSound, Shape, ForgetPlace
<1>4. d \in used /\ old.stale \subseteq 1..serial[d]
  BY <1>1, <1>3, IngestAssumption DEF ToolSound, Known
<1>5. PICK gone \in SUBSET (Docs \X (Nat \ {0})) :
         gone = old.gone \cup ({d} \X (old.stale \cap chunks[d]))
  BY DEF Tool
<1>6. PICK r : r = [old EXCEPT !.at = "unblob", !.hit = old.hit \cup {d}, !.gone = gone]
  OBVIOUS
<1>7. r \in Tool /\ tool' = [tool EXCEPT ![t] = r]
  <2>1. r \in Tool
    BY <1>6 DEF Tool, ForgetPlace
  <2>2. tool' = [tool EXCEPT ![t] = r]
    BY <1>0, <1>3, <1>5, <1>6 DEF DeleteRows
  <2> QED
    BY <2>1, <2>2
<1>8. /\ r.at = "unblob" /\ r.doc = d /\ r.new = old.new /\ r.keep = old.keep
      /\ r.match = old.match /\ r.hit = old.hit \cup {d} /\ r.fresh = old.fresh
      /\ r.stale = old.stale /\ r.left = old.left /\ r.gone = gone
  BY <1>3, <1>6 DEF Tool
<1>9. \A e \in gone : e \in old.gone \/ (e[1] = d /\ e[2] \in old.stale)
  BY <1>5
<1>10. ToolSound(r)
  <2>1. Shape(r)
    BY <1>2, <1>8 DEF Shape, IngestPlace, IndexedPlace, HeldPlace
  <2>2. Known(r)
    <3>1. \A e \in gone : e[2] \in 1..serial[e[1]]
      BY <1>2, <1>4, <1>9
    <3> QED
      BY <1>2, <1>4, <1>8, <3>1 DEF Known
  <2>3. Unseen(r) /\ Locked(r) /\ Kept(r) /\ Written(r) /\ NotFresh(r, r)
    BY <1>2, <1>8 DEF Unseen, Locked, Kept, Written, NotFresh, HeldPlace, IndexedPlace
  <2>4. Swept(r)
    <3>1. Swept(old)
      BY <1>1 DEF ToolSound
    <3>2. \A c \in points[d] : c[1] \in old.stale => <<d, c>> \in stray
      BY <1>1, <1>3, <3>1 DEF Swept
    <3>3. \A e \in old.gone : \A c \in points[e[1]] : c[1] = e[2] => <<e[1], c>> \in stray
      BY <1>1, <3>1 DEF Swept, ForgetPlace
    <3> QED
      BY <1>8, <1>9, <3>2, <3>3 DEF Swept
  <2>5. Doomed(r)
    BY <1>1, <1>3, <1>8 DEF ToolSound, Doomed, ForgetPlace
  <2> QED
    BY <2>1, <2>2, <2>3, <2>4, <2>5 DEF ToolSound
<1>11. ASSUME NEW s \in Tool, Apart(old, s), Apart(s, old)
       PROVE  Apart(r, s) /\ Apart(s, r)
  <2>1. NotFresh(r, s) /\ NotFresh(s, r)
    BY <1>2, <1>3, <1>5, <1>8, <1>11 DEF Apart, NotFresh
  <2> QED
    BY <1>2, <1>3, <1>8, <1>11, <2>1 DEF Apart, HeldPlace
<1>12. OthersApart(t, old, r)
  BY <1>11 DEF OthersApart
<1>13. UNCHANGED <<pgVars, points, serial, blobs, faults, history>> /\ runs' \in Nat
  BY <1>1 DEF DeleteRows, TypeOK
<1> QED
  BY <1>0, <1>2, <1>7, <1>10, <1>12, <1>13, PrivateStep

\* Only the object of a document that is being removed is deleted.
LEMMA DeleteObjectKeeps ==
    ASSUME IngestInv, NEW t \in Tools, DeleteObject(t)
    PROVE  IngestInv'
<1>0. PICK old \in Tool : old = tool[t]
  BY ToolFacts
<1>1. TypeOK /\ ToolSound(old) /\ StoreSound /\ old.at = "unblob"
  BY <1>0 DEF IngestInv, DeleteObject
<1>2. /\ ~ old.new /\ old.fresh = {} /\ old.doc \in Docs /\ old.doc \in touched
      /\ old.left \subseteq Ids(old.stale)
  BY <1>1 DEF ToolSound, Shape, Doomed, ForgetPlace
<1>3. PICK r : r = [old EXCEPT !.at = IF old.match = {} THEN "delete" ELSE "ids"]
  OBVIOUS
<1>4. r \in Tool /\ tool' = [tool EXCEPT ![t] = r]
  BY <1>0, <1>3 DEF Tool, ForgetPlace, DeleteObject, Goto
<1>5. /\ r.at \in {"delete", "ids"} /\ r.doc = old.doc
      /\ r.new = old.new /\ r.keep = old.keep
      /\ r.match = old.match /\ r.hit = old.hit /\ r.fresh = old.fresh
      /\ r.stale = old.stale /\ r.left = old.left /\ r.gone = old.gone
  BY <1>3 DEF Tool
<1>6. /\ blobs \ {old.doc} \subseteq blobs' /\ blobs' \subseteq blobs
      /\ UNCHANGED <<doc, used, chunks, usage, points, serial, runs, faults,
                     touched, stray>>
  BY <1>0 DEF DeleteObject, pgVars, history
<1>7. ToolSound(r)'
  <2>1. Shape(r)'
    BY <1>2, <1>5 DEF Shape, IngestPlace, IndexedPlace, HeldPlace
  <2>2. Known(r)' /\ NotFresh(r, r)'
    BY <1>1, <1>5, <1>6 DEF ToolSound, Known, NotFresh
  <2>3. Unseen(r)' /\ Locked(r)' /\ Kept(r)' /\ Written(r)'
    BY <1>2, <1>5 DEF Unseen, Locked, Kept, Written, HeldPlace, IndexedPlace
  <2>4. Swept(r)' /\ Doomed(r)'
    BY <1>1, <1>2, <1>5, <1>6 DEF ToolSound, Swept, Doomed, ForgetPlace
  <2> QED
    BY <2>1, <2>2, <2>3, <2>4 DEF ToolSound
<1>8. ASSUME NEW s \in Tool, ToolSound(s), Apart(old, s), Apart(s, old)
      PROVE  ToolSound(s)' /\ Apart(r, s) /\ Apart(s, r)
  <2>1. Kept(s)'
    BY <1>6, <1>8 DEF ToolSound, Kept, Apart
  <2>2. ToolSound(s)'
    BY <1>6, <1>8, <2>1, Frame DEF ToolSound
  <2> QED
    BY <1>2, <1>5, <1>8, <2>2 DEF Apart, NotFresh, HeldPlace
<1>9. OthersSound(t, old) /\ OthersApart(t, old, r)
  BY <1>8 DEF OthersSound, OthersApart
<1>10. TypeOK'
  BY <1>1, <1>4, <1>6 DEF TypeOK
<1>11. StoreSound'
  <2>1. NoUnreachableVectors'
    BY <1>0, <1>1, <1>2, <1>4, <1>6, ReachKept DEF StoreSound
  <2>2. DocSound' /\ AlwaysAnswerable'
    BY <1>1, <1>6 DEF StoreSound, DocSound, AlwaysAnswerable, Committed
  <2>3. StoredObjectExists'
    BY <1>1, <1>2, <1>6 DEF StoreSound, StoredObjectExists, Committed
  <2> QED
    BY <2>1, <2>2, <2>3 DEF StoreSound
<1> QED
  BY <1>0, <1>4, <1>7, <1>9, <1>10, <1>11, OneTool

\* The documents that go are in nobody's hands, and of their points only strays
\* are left: every row that named one has been deleted.
LEMMA CommitForgetKeeps ==
    ASSUME IngestInv, NEW t \in Tools, CommitForget(t)
    PROVE  IngestInv'
<1>0. PICK old \in Tool : old = tool[t]
  BY ToolFacts
<1>1. /\ TypeOK /\ ToolSound(old) /\ StoreSound /\ DocSound /\ old.at = "delete"
      /\ NoUnreachableVectors
  BY <1>0 DEF IngestInv, StoreSound, CommitForget
<1>2. old.fresh = {} /\ old.hit \in SUBSET Docs
  BY <1>1 DEF ToolSound, Shape, ForgetPlace, Tool
<1>3. PICK hit \in SUBSET Docs : hit = old.hit
  BY <1>2
<1>4. PICK r \in Tool : r = Idle /\ Clear(r)
  BY ClearRecords
<1>5. tool' = [tool EXCEPT ![t] = r]
  BY <1>4 DEF CommitForget
<1>6. /\ doc' = [d \in Docs |-> IF d \in hit THEN NoRow ELSE doc[d]]
      /\ chunks' = [d \in Docs |-> IF d \in hit THEN {} ELSE chunks[d]]
      /\ UNCHANGED <<used, usage, points, serial, blobs, runs, faults, touched, stray>>
  BY <1>0, <1>3 DEF CommitForget, history
<1>7. /\ \A d \in hit : Holders(d) = {}
      /\ \A d \in hit : \A n \in chunks[d] : <<d, n>> \in old.gone
  BY <1>0, <1>3 DEF CommitForget, Referenced
<1>8. TypeOK'
  BY <1>1, <1>5, <1>6 DEF TypeOK
<1>9. ASSUME NEW u \in Tools \ {t}, NEW s \in Tool, s = tool[u], ToolSound(s),
             Apart(old, s), Apart(s, old)
      PROVE  ToolSound(s)'
  <2>1. Shape(s) /\ Unseen(s) /\ Locked(s) /\ Written(s)
    BY <1>9 DEF ToolSound
  <2>2. /\ s.new => s.doc \in Docs
        /\ s.at \in HeldPlace => s.doc \in Docs
    BY <2>1 DEF Shape, Tool, HeldPlace, IngestPlace, ForgetPlace
  <2>3. s.new => s.doc \notin hit
    BY <1>3, <1>9 DEF Apart
  <2>4. s.at \in HeldPlace => s.doc \notin hit
    BY <1>7, <1>9, <2>3 DEF Holders, HeldPlace
  <2>5. Unseen(s)' /\ Locked(s)' /\ Written(s)'
    BY <1>6, <2>1, <2>2, <2>3, <2>4 DEF Unseen, Locked, Written, IndexedPlace
  <2> QED
    BY <1>6, <1>9, <2>5, Frame DEF ToolSound
<1>10. OthersSound(t, old) /\ OthersApart(t, old, r)
  BY <1>4, <1>9, ClearSound, IngestAssumption DEF OthersSound, OthersApart, ToolSound
<1>11. NoUnreachableVectors'
  <2>1. tool'[t] = r /\ \A u \in Tools \ {t} : tool'[u] = tool[u]
    BY <1>1, <1>5 DEF TypeOK
  <2>2. SUFFICES ASSUME NEW e \in Docs, NEW c \in points[e]
        PROVE  \/ c[1] \in chunks'[e]
               \/ \E u \in Tools : tool'[u].doc = e /\ c[1] \in tool'[u].fresh
               \/ <<e, c>> \in stray
    BY <1>6 DEF NoUnreachableVectors
  <2>3. \/ c[1] \in chunks[e]
        \/ \E u \in Tools : tool[u].doc = e /\ c[1] \in tool[u].fresh
        \/ <<e, c>> \in stray
    BY <1>1 DEF NoUnreachableVectors
  <2>4. e \in hit /\ c[1] \in chunks[e] => <<e, c>> \in stray
    <3>1. ASSUME NEW p \in old.gone, p = <<e, c[1]>> PROVE <<e, c>> \in stray
      BY <1>1, <3>1 DEF ToolSound, Swept, ForgetPlace
    <3> QED
      BY <1>7, <3>1
  <2> QED
    BY <1>0, <1>2, <1>6, <2>1, <2>3, <2>4
<1>12. StoreSound'
  <2>1. DocSound'
    BY <1>1, <1>6 DEF DocSound, Committed
  <2>2. AlwaysAnswerable' /\ StoredObjectExists'
    BY <1>1, <1>6 DEF StoreSound, AlwaysAnswerable, StoredObjectExists, Committed
  <2> QED
    BY <1>11, <2>1, <2>2 DEF StoreSound
<1> QED
  BY <1>0, <1>4, <1>5, <1>8, <1>10, <1>12, ClearSound, IngestAssumption, OneTool


-----------------------------------------------------------------------------
(***************************************************************************)
(* The theorems                                                            *)
(***************************************************************************)

\* Uploads are processed, and no tool has started.
LEMMA IngestInit == Init => IngestInv
<1> SUFFICES ASSUME Init PROVE IngestInv
  OBVIOUS
<1>1. TypeOK
  BY TypeInit
<1>2. PICK r \in Tool : r = Idle /\ Clear(r)
  BY ClearRecords
<1>3. \A t \in Tools : tool[t] = r
  BY <1>2 DEF Init
<1>4. ToolSound(r)
  <2> USE <1>2 DEF Clear
  <2>1. Shape(r)
    BY DEF Shape, IngestPlace, ForgetPlace, IndexedPlace, HeldPlace
  <2>2. Known(r) /\ Unseen(r) /\ Kept(r) /\ NotFresh(r, r)
    BY DEF Known, Unseen, Kept, NotFresh
  <2>3. Locked(r) /\ Written(r) /\ Swept(r) /\ Doomed(r)
    BY DEF Locked, Written, Swept, Doomed, HeldPlace, IndexedPlace, ForgetPlace
  <2> QED
    BY <2>1, <2>2, <2>3 DEF ToolSound
<1>5. Apart(r, r)
  BY <1>2, <1>4, ClearSound, IngestAssumption DEF ToolSound
<1>6. Committed \subseteq Uploads /\ Uploads \subseteq Docs
  BY IngestAssumption DEF Init, Committed
<1>7. \A d \in Uploads : /\ chunks[d] = {1} /\ serial[d] = 1
                         /\ points[d] = Generation(1) /\ d \in used /\ d \in blobs
  BY <1>6 DEF Init
<1>8. \A d \in Docs \ Uploads :
         doc[d] = NoRow /\ chunks[d] = {} /\ points[d] = {}
  BY DEF Init
<1>9. \A d \in Uploads : 1 \in 1..serial[d]
  BY <1>7
<1>10. \A d \in Uploads : doc[d] # NoRow
  <2>1. ASSUME NEW d \in Uploads PROVE doc[d] \in Row
    <3>1. doc[d] = [name |-> d, hash |-> NoFile, status |-> "processed", key |-> TRUE]
      BY <1>6 DEF Init
    <3> QED
      BY <3>1 DEF Row, Names, DocumentStatus
  <2> QED
    BY <2>1, RowAssumption
<1>11. DocSound
  BY <1>6, <1>7, <1>8, <1>9, <1>10 DEF DocSound, Committed, Init
<1>12. AlwaysAnswerable /\ StoredObjectExists
  BY <1>6, <1>7, <1>9 DEF AlwaysAnswerable, StoredObjectExists
<1>13. NoUnreachableVectors
  BY <1>7, <1>8 DEF NoUnreachableVectors, Generation
<1> QED
  BY <1>1, <1>3, <1>4, <1>5, <1>11, <1>12, <1>13 DEF IngestInv, StoreSound

\* Every step of every tool keeps the invariant.
LEMMA IngestStepKeeps == IngestInv /\ [Next]_vars => IngestInv'
<1> SUFFICES ASSUME IngestInv, [Next]_vars PROVE IngestInv'
  OBVIOUS
<1>1. ASSUME NEW t \in Tools, Start(t) \/ ForgetFailed(t) \/ Die(t) PROVE IngestInv'
  BY <1>1, LetGo, StartForgetKeeps DEF Start
<1>2. ASSUME NEW t \in Tools, IngestStep(t) PROVE IngestInv'
  BY <1>2, LetGo, TakeExistingKeeps, TakeNewKeeps, PutObjectKeeps, LockDocumentKeeps,
     ExtractKeeps, UpsertKeeps, RecordUsageKeeps, DeleteBatchKeeps,
     DeleteStaleRowsKeeps, CommitFileKeeps
  DEF IngestStep
<1>3. ASSUME NEW t \in Tools, ForgetStep(t) PROVE IngestInv'
  BY <1>3, LetGo, ReadChunkIdsKeeps, StartRowDeleteKeeps, DeleteRowsKeeps,
     DeleteObjectKeeps, CommitForgetKeeps
  DEF ForgetStep
<1>4. CASE UNCHANGED vars
  <2>1. /\ UNCHANGED <<doc, used, chunks, points, serial, blobs, usage, tool, runs,
                       faults, touched, stray>>
    BY <1>4 DEF vars
  <2>2. TypeOK' /\ StoreSound'
    BY <2>1 DEF IngestInv, TypeOK, StoreSound, DocSound, AlwaysAnswerable,
                NoUnreachableVectors, StoredObjectExists, Committed
  <2>3. ASSUME NEW t \in Tools PROVE ToolSound(tool[t])'
    <3>1. PICK s \in Tool : s = tool[t] /\ ToolSound(s)
      BY ToolFacts
    <3>2. ToolSound(s)'
      BY <2>1, <3>1, StoresUnchanged
    <3> QED
      BY <2>1, <3>1, <3>2
  <2>4. ASSUME NEW t \in Tools, NEW u \in Tools, t # u PROVE Apart(tool[t], tool[u])'
    BY <2>1, <2>4 DEF IngestInv, Apart, NotFresh
  <2> QED
    BY <2>2, <2>3, <2>4 DEF IngestInv
<1> QED
  BY <1>1, <1>2, <1>3, <1>4 DEF Next

\* The invariant of the tool's runs.
THEOREM IngestInvariant == Spec => []IngestInv
  BY IngestInit, IngestStepKeeps, PTL DEF Spec

\* The tool writes to each store only what that store holds.
THEOREM IngestTypeCorrect == Spec => []TypeOK
<1>1. IngestInv => TypeOK
  BY DEF IngestInv
<1> QED
  BY <1>1, IngestInvariant, PTL

\* However many runs fail, are killed or take the same file, from its first commit
\* until a --forget begins to take it some generation of a document is complete
\* in Qdrant.
THEOREM DocumentsStayAnswerable == Spec => []AlwaysAnswerable
<1>1. IngestInv => AlwaysAnswerable
  BY DEF IngestInv, StoreSound
<1> QED
  BY <1>1, IngestInvariant, PTL

\* Runs with --reindex that take the same document leave it with the rows of one
\* of them.
THEOREM OneGenerationIsCommitted == Spec => []OneGeneration
<1>1. IngestInv => OneGeneration
  BY DEF IngestInv, StoreSound, DocSound, OneGeneration, Committed
<1> QED
  BY <1>1, IngestInvariant, PTL

\* A vector without a chunk row is one that a failed, killed or overtaken run left.
THEOREM VectorsAreReachable == Spec => []NoUnreachableVectors
<1>1. IngestInv => NoUnreachableVectors
  BY DEF IngestInv, StoreSound
<1> QED
  BY <1>1, IngestInvariant, PTL

\* The object that a committed row names is in the bucket until a --forget begins
\* to take the document.
THEOREM ObjectsAreStored == Spec => []StoredObjectExists
<1>1. IngestInv => StoredObjectExists
  BY DEF IngestInv, StoreSound
<1> QED
  BY <1>1, IngestInvariant, PTL

=============================================================================

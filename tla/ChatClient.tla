----------------------------- MODULE ChatClient -----------------------------
(***************************************************************************)
(* The chat page's replies (useChat). Every reply has a send() loop of its *)
(* own that reads the answer's stream, and an AbortController; the visitor *)
(* may meanwhile stop it, leave the conversation, remove it, ask again, or *)
(* load the page anew from the browser's storage.                          *)
(***************************************************************************)
EXTENDS Naturals

CONSTANTS
    Replies,  \* assistant messages, each with its question
    Chats,    \* conversations, by localId: one for every reply, at least
    NoChat

ASSUME ClientAssumption == NoChat \notin Chats

VARIABLES
    chatOf,    \* the conversation each reply was asked in
    phase,     \* the phase each reply shows, or that it is not there
    loop,      \* its send() loop
    active,    \* activeLocalId
    stored,    \* the phases localStorage holds
    stranded   \* history: replies that newChat or openChat has aborted since the
               \* last stop or reload

clientVars == <<chatOf, phase, loop, active, stored, stranded>>

Phases == {"none", "searching", "revealing", "done", "stopped", "error"}
Unfinished == {"searching", "revealing"}

ClientTypeOK ==
    /\ chatOf \in [Replies -> Chats \cup {NoChat}]
    /\ phase \in [Replies -> Phases] /\ stored \in [Replies -> Phases]
    /\ loop \in [Replies ->
          [at : {"none", "reading", "over"}, aborted : BOOLEAN, gotDone : BOOLEAN]]
    /\ active \in Chats \cup {NoChat}
    /\ stranded \subseteq Replies

NoLoop == [at |-> "none", aborted |-> FALSE, gotDone |-> FALSE]

ClientInit ==
    /\ chatOf = [r \in Replies |-> NoChat]
    /\ phase = [r \in Replies |-> "none"] /\ stored = phase
    /\ loop = [r \in Replies |-> NoLoop]
    /\ active = NoChat
    /\ stranded = {}

Shown(c) == {r \in Replies : chatOf[r] = c /\ phase[r] # "none"}
Streaming == \E r \in Shown(active) : phase[r] \in Unfinished

\* uid().
Unused == {r \in Replies : loop[r].at = "none"}
FreshChat == CHOOSE c \in Chats : \A r \in Replies : chatOf[r] # c

\* The composer sends only while nothing streams in the conversation that is open,
\* the retry of an earlier reply, finished or failed, always.
Send ==
    /\ ~Streaming \/ \E s \in Shown(active) : phase[s] \in {"done", "error"}
    /\ \E r \in Unused :
          /\ r = CHOOSE s \in Unused : TRUE
          /\ \E c \in Chats :
                /\ c = IF active = NoChat THEN FreshChat ELSE active
                /\ chatOf' = [chatOf EXCEPT ![r] = c]
                /\ active' = c
          /\ phase' = [phase EXCEPT ![r] = "searching"]
          /\ loop' = [loop EXCEPT ![r].at = "reading"]
    /\ UNCHANGED <<stored, stranded>>

\* Mutant of Patch: whatever arrives is shown.
PatchAnything(r, next) ==
    phase' = [phase EXCEPT ![r] = IF @ = "none" THEN @ ELSE next]

\* A message that was stopped, or removed with its conversation, stays so.
Patch(r, next) ==
    phase' = [phase EXCEPT ![r] = IF @ \in {"none", "stopped"} THEN @ ELSE next]

\* Frames that were read before an abort are still delivered after it.
Delta(r) ==
    /\ loop[r].at = "reading" /\ ~loop[r].gotDone
    /\ Patch(r, "revealing")
    /\ UNCHANGED <<chatOf, loop, active, stored, stranded>>

Done(r) ==
    /\ loop[r].at = "reading" /\ ~loop[r].gotDone
    /\ Patch(r, "done")
    /\ loop' = [loop EXCEPT ![r].gotDone = TRUE]
    /\ UNCHANGED <<chatOf, active, stored, stranded>>

EndLoop(r) == loop' = [loop EXCEPT ![r] = [NoLoop EXCEPT !.at = "over"]]

\* Mutant of EndOfStream: that no "done" has come is not looked at.
EndUnnoticed(r) ==
    /\ loop[r].at = "reading"
    /\ EndLoop(r)
    /\ UNCHANGED <<chatOf, phase, active, stored, stranded>>

EndOfStream(r) ==
    /\ loop[r].at = "reading"
    /\ EndLoop(r)
    /\ IF loop[r].gotDone THEN UNCHANGED phase ELSE Patch(r, "error")
    /\ UNCHANGED <<chatOf, active, stored, stranded>>

\* fetch or read() rejects, or a status other than 2xx; also after "done". An abort
\* does not rule it out: what failed before it still arrives, and an abort while
\* the body of an error is read is swallowed and leaves the error.
Broken(r) ==
    /\ loop[r].at = "reading"
    /\ EndLoop(r)
    /\ Patch(r, "error")
    /\ UNCHANGED <<chatOf, active, stored, stranded>>

\* AbortError is swallowed: whoever aborted is to have marked the reply.
AbortNoticed(r) ==
    /\ loop[r].at = "reading" /\ loop[r].aborted
    /\ EndLoop(r)
    /\ UNCHANGED <<chatOf, phase, active, stored, stranded>>

Aborted == {r \in Replies : loop[r].at = "reading"}
AbortAll ==
    loop' = [r \in Replies |-> IF r \in Aborted THEN [loop[r] EXCEPT !.aborted = TRUE]
                               ELSE loop[r]]

Marked(phases) ==
    [r \in Replies |-> IF phases[r] \in Unfinished THEN "stopped" ELSE phases[r]]

\* Every reply, not only those of the conversation that is open.
Stop ==
    /\ Streaming
    /\ AbortAll
    /\ phase' = Marked(phase)
    /\ stranded' = {}
    /\ UNCHANGED <<chatOf, active, stored>>

\* newChat and openChat abort as stop does, but mark nothing. Neither looks at what
\* is open: the sidebar and the palette offer that conversation too.
Open(c) ==
    /\ c = NoChat \/ Shown(c) # {}
    /\ AbortAll
    /\ active' = c
    /\ stranded' = stranded \cup {r \in Aborted : phase[r] \in Unfinished}
    /\ UNCHANGED <<chatOf, phase, stored>>

\* The conversation's replies are read on, for nobody.
RemoveChat(c) ==
    /\ Shown(c) # {}
    /\ phase' = [r \in Replies |-> IF chatOf[r] = c THEN "none" ELSE phase[r]]
    /\ active' = IF active = c THEN NoChat ELSE active
    /\ UNCHANGED <<chatOf, loop, stored, stranded>>

\* The effect that runs after a render.
Persist ==
    /\ stored # phase
    /\ stored' = phase
    /\ UNCHANGED <<chatOf, phase, loop, active, stranded>>

\* The page is loaded anew: no loop survives, what was in flight counts as stopped.
Reload ==
    /\ phase' = Marked(stored)
    /\ loop' = [r \in Replies |->
                  IF loop[r].at = "none" THEN NoLoop ELSE [NoLoop EXCEPT !.at = "over"]]
    /\ active' \in {chatOf[r] : r \in {s \in Replies : stored[s] # "none"}} \cup {NoChat}
    /\ active' = NoChat => \A r \in Replies : stored[r] = "none"
    /\ stranded' = {}
    /\ UNCHANGED <<chatOf, stored>>

ClientNext ==
    \/ \E r \in Replies :
          \/ Delta(r) \/ Done(r) \/ EndOfStream(r) \/ Broken(r)
          \/ AbortNoticed(r)
    \/ Send \/ Stop \/ Persist \/ Reload
    \/ \E c \in Chats : Open(c) \/ RemoveChat(c)
    \/ Open(NoChat)

ClientSpec == ClientInit /\ [][ClientNext]_clientVars

\* patch: "a late-arriving chunk can't resurrect a stopped bubble", nor can the
\* answer itself, the end of the stream, another stop or a reload.
StoppedStays ==
    [][\A r \in Replies :
          phase[r] = "stopped" => phase'[r] \in {"stopped", "none"}]_clientVars

\* send: no reply is left with "a permanent typing cursor": one that is unfinished
\* has a loop that reads it and that nobody has aborted. The exception are replies
\* that newChat or openChat has aborted, which mark nothing; a stop and a reload end
\* those as well.
UnfinishedIsRead ==
    \A r \in Replies :
        phase[r] \in Unfinished =>
            \/ loop[r].at = "reading" /\ ~loop[r].aborted
            \/ r \in stranded
=============================================================================

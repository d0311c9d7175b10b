--------------------------- MODULE AnswerCounters ---------------------------
(***************************************************************************)
(* What the dashboards say of answers, while answers are being given:      *)
(* core/metrics.py counts in memory under a lock, eval_service.trace_stats *)
(* counts committed rows, one statement at a time. _log_answer makes the   *)
(* increments of one answer one by one, and its trace row last.            *)
(***************************************************************************)
EXTENDS Naturals

CONSTANTS
    Threads,    \* threads that answer questions
    MaxAnswers  \* bound on answers

ASSUME CountersAssumption == MaxAnswers \in Nat

VARIABLES
    counters,  \* metrics._counters
    traces,    \* committed eval_traces rows of the window, by kind
    logging,   \* where each thread is in _log_answer, and with what answer
    begun,     \* answers begun
    stats      \* trace_stats: what it has counted so far

countersVars == <<counters, traces, logging, begun, stats>>

Answer == {"refused", "uncited", "cited"}
Counter == {"answers", "refused", "zero_keyword"}
Zero == [c \in Counter |-> 0]
NoTraces == [a \in Answer |-> 0]
NoStats == [at |-> "total", total |-> 0, refused |-> 0, uncited |-> 0, landed |-> 0]

CountersTypeOK ==
    /\ counters \in [Counter -> Nat]
    /\ traces \in [Answer -> Nat]
    /\ logging \in [Threads ->
          [at : {"idle", "answers", "refused", "zero", "trace"}, answer : Answer,
           keyword : BOOLEAN]]
    /\ begun \in 0..MaxAnswers
    /\ stats \in [at : {"total", "refused", "uncited", "over"}, total : Nat,
                  refused : Nat, uncited : Nat, landed : Nat]

NotLogging == [at |-> "idle", answer |-> "cited", keyword |-> TRUE]

CountersInit ==
    /\ counters = Zero
    /\ traces = NoTraces
    /\ logging = [t \in Threads |-> NotLogging]
    /\ begun = 0
    /\ stats = NoStats

Total == traces["refused"] + traces["uncited"] + traces["cited"]

LogAnswer(t) ==
    /\ logging[t].at = "idle"
    /\ begun < MaxAnswers /\ begun' = begun + 1
    /\ \E answer \in Answer, keyword \in BOOLEAN :
          logging' = [logging EXCEPT ![t] =
             [at |-> "answers", answer |-> answer, keyword |-> keyword]]
    /\ UNCHANGED <<counters, traces, stats>>

\* metrics.incr, under _lock.
Incr(counter) == counters' = [counters EXCEPT ![counter] = @ + 1]

Step(t, from, to) ==
    /\ logging[t].at = from
    /\ logging' = [logging EXCEPT ![t].at = to]

\* Mutant of CountAnswer: a refusal is counted as such and not as an answer.
CountRefusedFirst(t) ==
    /\ Step(t, "answers", "refused")
    /\ IF logging[t].answer = "refused" THEN Incr("refused") ELSE Incr("answers")
    /\ UNCHANGED <<traces, begun, stats>>

CountAnswer(t) ==
    /\ Step(t, "answers", "refused")
    /\ Incr("answers")
    /\ UNCHANGED <<traces, begun, stats>>

CountRefused(t) ==
    /\ Step(t, "refused", "zero")
    /\ IF logging[t].answer = "refused" THEN Incr("refused") ELSE UNCHANGED counters
    /\ UNCHANGED <<traces, begun, stats>>

CountZeroKeyword(t) ==
    /\ Step(t, "zero", "trace")
    /\ IF logging[t].keyword THEN UNCHANGED counters ELSE Incr("zero_keyword")
    /\ UNCHANGED <<traces, begun, stats>>

\* The row is committed, or its loss is logged and swallowed.
RecordTrace(t) ==
    /\ logging[t].at = "trace"
    /\ logging' = [logging EXCEPT ![t] = NotLogging]
    /\ \/ /\ traces' = [traces EXCEPT ![logging[t].answer] = @ + 1]
          /\ stats' = IF stats.at \in {"total", "over"} THEN stats
                      ELSE [stats EXCEPT !.landed = @ + 1]
       \/ UNCHANGED <<traces, stats>>
    /\ UNCHANGED <<counters, begun>>

\* The process is restarted: its counters are gone, and its answers half-logged.
RestartCounters ==
    /\ counters' = Zero
    /\ logging' = [t \in Threads |-> NotLogging]
    /\ UNCHANGED <<traces, begun, stats>>

\* trace_stats runs at READ COMMITTED: each count sees what is committed by then.
CountTraces ==
    /\ stats.at = "total"
    /\ Total > 0
    /\ stats' = [NoStats EXCEPT !.at = "refused", !.total = Total]
    /\ UNCHANGED <<counters, traces, logging, begun>>

CountRefusedTraces ==
    /\ stats.at = "refused"
    /\ stats' = [stats EXCEPT !.at = "uncited", !.refused = traces["refused"]]
    /\ UNCHANGED <<counters, traces, logging, begun>>

CountUncitedTraces ==
    /\ stats.at = "uncited"
    /\ stats' = [stats EXCEPT !.at = "over", !.uncited = traces["uncited"]]
    /\ UNCHANGED <<counters, traces, logging, begun>>

CountersNext ==
    \/ \E t \in Threads :
          \/ LogAnswer(t) \/ CountAnswer(t) \/ CountRefused(t)
          \/ CountZeroKeyword(t) \/ RecordTrace(t)
    \/ RestartCounters
    \/ CountTraces \/ CountRefusedTraces \/ CountUncitedTraces

CountersSpec == CountersInit /\ [][CountersNext]_countersVars

\* snapshot copies the counters at any instant, under their lock: the refusal rate
\* and the zero-keyword rate of /metrics are shares, whatever answers are
\* half-logged then. Those of trace_stats may exceed 1, but by no more than the rows
\* that landed between its counts.
RatesAreShares ==
    /\ counters["refused"] <= counters["answers"]
    /\ counters["zero_keyword"] <= counters["answers"]
    /\ stats.at = "over" =>
          stats.refused + stats.uncited <= stats.total + stats.landed
=============================================================================

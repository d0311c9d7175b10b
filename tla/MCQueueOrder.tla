---------------------------- MODULE MCQueueOrder ----------------------------
(***************************************************************************)
(* IngestionQueue with a history of who overtook whom in claim_next.       *)
(***************************************************************************)
EXTENDS IngestionQueue

VARIABLE overtook  \* overtook[j][k]: claims of j while k was due, since k was due

orderVars == <<vars, overtook>>

\* The step claims j.
Claimed(j) == status[j] = "pending" /\ status'[j] = "processing"

OrderInit == Init /\ overtook = [j \in Jobs |-> [k \in Jobs |-> 0]]

OrderNext ==
    /\ Next
    /\ overtook' =
          [j \in Jobs |-> [k \in Jobs |->
              IF k \notin Due \/ Claimed(k) THEN 0
              ELSE IF Claimed(j) THEN overtook[j][k] + 1
              ELSE overtook[j][k]]]

OrderSpec == OrderInit /\ [][OrderNext]_orderVars

\* claim_next serves the oldest due row first: while a job is due, any other
\* job is claimed ahead of it at most once, and once more for each fault that
\* put the other job back with its old next_attempt_at.
BoundedOvertaking ==
    \A j, k \in Jobs : overtook[j][k] <= 1 + faults
=============================================================================

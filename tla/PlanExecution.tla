----------------------------- MODULE PlanExecution -----------------------------
(***************************************************************************)
(* What an execution of a plan does to the plan's status, for those who     *)
(* start one and wait for its end: the seam between the commands and the    *)
(* runner.  PlanRunner implements it as long as executions of a plan do not *)
(* overlap, and PlanStore assumes no more of each of its plans.             *)
(***************************************************************************)
EXTENDS PlanModels

VARIABLES
  status,  \* the plan's status, "absent" when the plan does not exist
  busy     \* is the plan being executed?

execution == <<status, busy>>

Init == status \in {"pending", "absent"} /\ busy = FALSE

Store ==
  /\ status = "absent" /\ ~busy
  /\ status' = "pending" /\ UNCHANGED busy

\* A plan that is done is not executed again.
Open ==
  /\ ~busy /\ status \notin {"absent", "done"}
  /\ status' = "in_progress" /\ busy' = TRUE

\* An execution that goes through to its end leaves a closed plan ...
Close ==
  /\ busy /\ status = "in_progress"
  /\ status' \in {"done", "failed"} /\ busy' = FALSE

\* ... and one that dies, raises or is aborted an open one.
Abandon ==
  /\ busy /\ status = "in_progress"
  /\ busy' = FALSE /\ UNCHANGED status

Next == Store \/ Open \/ Close \/ Abandon

Spec == Init /\ [][Next]_execution

=============================================================================

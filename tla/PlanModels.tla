------------------------------ MODULE PlanModels ------------------------------
(***************************************************************************)
(* The status part of plan/models.py: the status sets and the two predicates   *)
(* the runner decides with.                                                *)
(***************************************************************************)

StepStatus == {"pending", "in_progress", "done", "failed", "blocked", "skipped"}
PlanStatus == {"pending", "in_progress", "done", "failed", "abandoned"}

-----------------------------------------------------------------------------
(* The runner's predicates; status maps a step to its StepStatus.           *)

\* Mutant: a failed step counts as finished.
IsPlanComplete_FailedIsFinished(status) ==
  \A s \in DOMAIN status : status[s] \in {"skipped", "blocked", "done", "failed"}

IsPlanComplete(status) ==
  \A s \in DOMAIN status : status[s] \in {"skipped", "blocked", "done"}

AllDepsDone(s, deps, status) ==
  \A d \in deps[s] : d \in DOMAIN status /\ status[d] = "done"

=============================================================================

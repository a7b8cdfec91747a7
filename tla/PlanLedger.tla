------------------------------ MODULE PlanLedger ------------------------------
(***************************************************************************)
(* What the plans and plan_steps tables promise to whoever reads them: the  *)
(* history of one plan, with no mention of the processes that write it.     *)
(* PlanRunner implements it as long as executions of a plan do not overlap. *)
(***************************************************************************)
EXTENDS Naturals, PlanModels

CONSTANTS
  Steps,   \* step ids
  Deps     \* [Steps -> SUBSET Steps]

VARIABLES
  status,  \* the plan's status, "absent" when the plan does not exist
  rows     \* each step's status and attempts

ledger == <<status, rows>>

Started  == {"in_progress", "done", "failed", "skipped"}
Ready(s) == \A d \in Deps[s] : rows[d].status = "done"

Init ==
  /\ status \in {"pending", "absent"}
  /\ rows = [s \in Steps |-> [status |-> "pending", attempts |-> 0]]

\* Executing or resuming reopens a plan that is not done.
Open ==
  /\ status \notin {"absent", "done"}
  /\ status' = "in_progress"
  /\ UNCHANGED rows

\* An attempt at a step whose deps are done.
Attempt(s) ==
  /\ status = "in_progress"
  /\ Ready(s)
  /\ rows[s].status \in {"pending", "in_progress", "failed"}
  /\ \E to \in {"in_progress", "failed"} :
       rows' = [rows EXCEPT ![s] = [status |-> to, attempts |-> @.attempts + 1]]
  /\ UNCHANGED status

\* An attempt ends.
Settle(s) ==
  /\ status = "in_progress"
  /\ rows[s].status \in {"in_progress", "failed"}
  /\ \E to \in {"done", "failed", "skipped"} :
       rows' = [rows EXCEPT ![s].status = to]
  /\ UNCHANGED status

\* A step that was never started is blocked while a dep of it is not done.
Block(s) ==
  /\ status = "in_progress"
  /\ ~Ready(s)
  /\ rows[s].status \in {"pending", "blocked"}
  /\ rows' = [rows EXCEPT ![s].status = "blocked"]
  /\ UNCHANGED status

\* A plan is closed as done only when no step is left to run.
Close ==
  /\ status = "in_progress"
  /\ \/ /\ IsPlanComplete([s \in Steps |-> rows[s].status])
        /\ status' = "done"
     \/ status' = "failed"
  /\ UNCHANGED rows

Next == Open \/ Close \/ \E s \in Steps : Attempt(s) \/ Settle(s) \/ Block(s)

Spec == Init /\ [][Next]_ledger

=============================================================================

------------------------------ MODULE PlanRunner ------------------------------
(***************************************************************************)
(* plan/runner.py over plan/storage.py: processes that execute and resume   *)
(* one plan kept in SQLite.                                                 *)
(*                                                                         *)
(* A runner is one operating-system process calling PlanRunner.execute      *)
(* ("plan", then any number of "plan-resume").  It reads the plan once,     *)
(* works on its own copy of the steps and writes single rows back; a crash  *)
(* or an exception loses the copy and keeps the rows.  Every action below   *)
(* makes at most one database call, so that crashes and other processes     *)
(* fall between any two of them.                                            *)
(***************************************************************************)
EXTENDS Naturals, Sequences, FiniteSets, PlanModels

CONSTANTS
  Runners,        \* processes
  Steps,          \* step ids
  Deps,           \* [Steps -> SUBSET Steps]
  Order,          \* what topo_sort returns for Deps
  MaxAttempts,    \* PlanStep.max_attempts
  MaxTotalTurns,  \* the argument of execute
  StepTurns,      \* the numbers of turns one agent loop may report
  MaxLaunches,    \* bound: how often a user starts execute or resume
  Overlap         \* may a process start while another one is executing?

\* topo_sort of a plan that passed _validate_dag: see SortedIsLinearExtension
\* in PlanDag.
ASSUME OrderAssumption ==
  /\ IsFiniteSet(Steps)
  /\ Deps \in [Steps -> SUBSET Steps]
  /\ Order \in Seq(Steps)
  /\ \A s \in Steps : \E i \in 1 .. Len(Order) : Order[i] = s
  /\ \A i, j \in 1 .. Len(Order) : Order[i] = Order[j] => i = j
  /\ \A i \in 1 .. Len(Order) : \A d \in Deps[Order[i]] :
       \E j \in 1 .. i - 1 : Order[j] = d

ASSUME NumbersAssumption ==
  /\ MaxAttempts \in Nat
  /\ MaxTotalTurns \in Nat
  /\ StepTurns \subseteq Nat
  /\ MaxLaunches \in Nat
  /\ Overlap \in BOOLEAN

VARIABLES
  dbPlan,    \* plans.status, "absent" when there is no such row
  dbStep,    \* plan_steps: status and attempts
  pc,        \* where each runner is in execute
  plan,      \* plan.status as the runner holds it
  mem,       \* plan.steps as the runner holds them
  cursor,    \* position in topo_sort(plan.steps)
  counts,    \* steps_completed, steps_failed and total_turns_used
  result,    \* the PlanRunResult returned last
  abort,     \* abort_signal.is_set()
  launches   \* calls of execute so far

db    == <<dbPlan, dbStep>>
local == <<plan, mem, cursor, counts>>
vars  == <<dbPlan, dbStep, pc, plan, mem, cursor, counts, result, abort, launches>>

StepRow    == [status : StepStatus, attempts : Nat]
Counts     == [completed : Nat, failed : Nat, turns : Nat]
NoCounts   == [completed |-> 0, failed |-> 0, turns |-> 0]
NewStep    == [status |-> "pending", attempts |-> 0]
NewSteps   == [s \in Steps |-> NewStep]
NoResult   == [status |-> "none", error |-> "none", completed |-> 0, failed |-> 0]

\* What one agent loop's final message amounts to for _run_step: the verdict
\* of its StepReport, or no parseable report.
Outcomes == {"pass", "skipped", "fail", "needs_fix", "unparseable"}

\* The program counters of a runner that is inside execute.
Executing == {"get_plan", "list_steps", "mark", "loop", "running", "tally"}
IsLive(r) == pc[r] \in Executing

Current(r)      == Order[cursor[r]]
MemStatus(r, s) == mem[r][s].status
StatusOf(rows)  == [s \in Steps |-> rows[s].status]
NumberOf(rows, status) == Cardinality({s \in Steps : rows[s].status = status})
DepsMet(r, s)   == AllDepsDone(s, Deps, StatusOf(mem[r]))

-----------------------------------------------------------------------------
Init ==
  /\ dbPlan \in {"pending", "absent"}
  /\ dbStep = NewSteps
  /\ pc = [r \in Runners |-> "idle"]
  /\ plan = [r \in Runners |-> "pending"]
  /\ mem = [r \in Runners |-> NewSteps]
  /\ cursor = [r \in Runners |-> 1]
  /\ counts = [r \in Runners |-> NoCounts]
  /\ result = [r \in Runners |-> NoResult]
  /\ abort = [r \in Runners |-> FALSE]
  /\ launches = 0

\* The end of execute: the runner's own copy of the plan is gone.
Forget(r) ==
  /\ plan' = [plan EXCEPT ![r] = "pending"]
  /\ mem' = [mem EXCEPT ![r] = NewSteps]
  /\ cursor' = [cursor EXCEPT ![r] = 1]
  /\ counts' = [counts EXCEPT ![r] = NoCounts]

\* execute returns a PlanRunResult.
Return(r, status, error, c) ==
  /\ Forget(r)
  /\ pc' = [pc EXCEPT ![r] = "returned"]
  /\ result' = [result EXCEPT ![r] =
       [status |-> status, error |-> error,
        completed |-> c.completed, failed |-> c.failed]]

\* A user runs "plan" or "plan-resume" on this plan in a process of their own.
Launch(r) ==
  /\ ~IsLive(r)
  /\ launches < MaxLaunches
  /\ Overlap \/ \A q \in Runners : ~IsLive(q)
  /\ pc' = [pc EXCEPT ![r] = "get_plan"]
  /\ result' = [result EXCEPT ![r] = NoResult]
  /\ abort' = [abort EXCEPT ![r] = FALSE]
  /\ launches' = launches + 1
  /\ UNCHANGED <<db, local>>

\* The caller sets the abort event.
SetAbort(r) ==
  /\ IsLive(r)
  /\ ~abort[r]
  /\ abort' = [abort EXCEPT ![r] = TRUE]
  /\ UNCHANGED <<db, pc, local, result, launches>>

\* get_plan: the plans row.
GetPlan(r) ==
  /\ pc[r] = "get_plan"
  /\ \/ /\ dbPlan = "absent"
        /\ Return(r, "failed", "not_found", NoCounts)
     \/ /\ dbPlan # "absent"
        /\ plan' = [plan EXCEPT ![r] = dbPlan]
        /\ pc' = [pc EXCEPT ![r] = "list_steps"]
        /\ UNCHANGED <<mem, cursor, counts, result>>
  /\ UNCHANGED <<db, abort, launches>>

\* Mutant: a plan that is already done is executed again.
ListSteps_NoEarlyReturn(r) ==
  /\ pc[r] = "list_steps"
  /\ mem' = [mem EXCEPT ![r] = dbStep]
  /\ pc' = [pc EXCEPT ![r] = "mark"]
  /\ UNCHANGED <<db, plan, cursor, counts, result, abort, launches>>

\* get_plan: the plan_steps rows, then the early return for a closed plan.
ListSteps(r) ==
  /\ pc[r] = "list_steps"
  /\ \/ /\ plan[r] \in {"done", "abandoned"}
        /\ Return(r, plan[r], "already",
                  [completed |-> NumberOf(dbStep, "done"),
                   failed    |-> NumberOf(dbStep, "failed")])
     \/ /\ plan[r] \notin {"done", "abandoned"}
        /\ mem' = [mem EXCEPT ![r] = dbStep]
        /\ pc' = [pc EXCEPT ![r] = "mark"]
        /\ UNCHANGED <<plan, cursor, counts, result>>
  /\ UNCHANGED <<db, abort, launches>>

MarkInProgress(r) ==
  /\ pc[r] = "mark"
  /\ plan' = [plan EXCEPT ![r] = "in_progress"]
  /\ dbPlan' = "in_progress"
  /\ pc' = [pc EXCEPT ![r] = "loop"]
  /\ UNCHANGED <<dbStep, mem, cursor, counts, result, abort, launches>>

-----------------------------------------------------------------------------
(* The body of "for step in topo_sort(plan.steps)".                         *)

InLoop(r) == pc[r] = "loop" /\ cursor[r] <= Len(Order)

NextStep(r) == cursor' = [cursor EXCEPT ![r] = @ + 1]

\* Mutant: the row is written and the runner's copy of the step forgotten.
Upsert_RowOnly(r, s, row) ==
  /\ mem' = mem
  /\ dbStep' = [dbStep EXCEPT ![s] = row]

Upsert(r, s, row) ==
  /\ mem' = [mem EXCEPT ![r][s] = row]
  /\ dbStep' = [dbStep EXCEPT ![s] = row]

\* Mutant: the status that is returned is written too.
SeeAbort_Records(r) ==
  /\ InLoop(r)
  /\ abort[r]
  /\ dbPlan' = "abandoned"
  /\ Return(r, "abandoned", "aborted", counts[r])
  /\ UNCHANGED <<dbStep, abort, launches>>

\* The abort signal is looked at before each step; the rows stay as they are.
SeeAbort(r) ==
  /\ InLoop(r)
  /\ abort[r]
  /\ Return(r, "abandoned", "aborted", counts[r])
  /\ UNCHANGED <<db, abort, launches>>

\* Mutant: a step finished in an earlier run is not counted.
SkipDone_NotCounted(r) ==
  /\ InLoop(r)
  /\ ~abort[r]
  /\ MemStatus(r, Current(r)) = "done"
  /\ NextStep(r)
  /\ UNCHANGED <<db, pc, plan, mem, counts, result, abort, launches>>

\* A step finished in an earlier run.
SkipDone(r) ==
  /\ InLoop(r)
  /\ ~abort[r]
  /\ MemStatus(r, Current(r)) = "done"
  /\ counts' = [counts EXCEPT ![r].completed = @ + 1]
  /\ NextStep(r)
  /\ UNCHANGED <<db, pc, plan, mem, result, abort, launches>>

\* Mutant: the blocked status stays in the runner's copy.
Block_NotPersisted(r) ==
  /\ InLoop(r)
  /\ ~abort[r]
  /\ LET s == Current(r) IN
       /\ MemStatus(r, s) # "done"
       /\ ~DepsMet(r, s)
       /\ mem' = [mem EXCEPT ![r][s].status = "blocked"]
  /\ NextStep(r)
  /\ UNCHANGED <<db, pc, plan, counts, result, abort, launches>>

\* A dep that is not done blocks the step, whatever the step's status was.
Block(r) ==
  /\ InLoop(r)
  /\ ~abort[r]
  /\ LET s == Current(r) IN
       /\ MemStatus(r, s) # "done"
       /\ ~DepsMet(r, s)
       /\ Upsert(r, s, [mem[r][s] EXCEPT !.status = "blocked"])
  /\ NextStep(r)
  /\ UNCHANGED <<dbPlan, pc, plan, counts, result, abort, launches>>

\* A step blocked or skipped in an earlier run.
PassOver(r) ==
  /\ InLoop(r)
  /\ ~abort[r]
  /\ DepsMet(r, Current(r))
  /\ MemStatus(r, Current(r)) \in {"blocked", "skipped"}
  /\ NextStep(r)
  /\ UNCHANGED <<db, pc, plan, mem, counts, result, abort, launches>>

\* Mutant: the deps of the step are not looked at.
StartStep_NoDepCheck(r) ==
  /\ InLoop(r)
  /\ ~abort[r]
  /\ LET s == Current(r) IN
       /\ MemStatus(r, s) \notin {"done", "blocked", "skipped"}
       /\ Upsert(r, s, [status   |-> IF MemStatus(r, s) = "pending"
                                     THEN "in_progress" ELSE MemStatus(r, s),
                        attempts |-> mem[r][s].attempts + 1])
  /\ pc' = [pc EXCEPT ![r] = "running"]
  /\ UNCHANGED <<dbPlan, plan, cursor, counts, result, abort, launches>>

\* Mutant: a step that is already done is run again.
StartStep_RerunsDone(r) ==
  /\ InLoop(r)
  /\ ~abort[r]
  /\ LET s == Current(r) IN
       /\ DepsMet(r, s)
       /\ MemStatus(r, s) \notin {"blocked", "skipped"}
       /\ Upsert(r, s, [status   |-> "in_progress",
                        attempts |-> mem[r][s].attempts + 1])
  /\ pc' = [pc EXCEPT ![r] = "running"]
  /\ UNCHANGED <<dbPlan, plan, cursor, counts, result, abort, launches>>

\* The head of _run_step: a pending step becomes in_progress, any other keeps
\* its status; the attempt is counted and written before the agent starts.
StartStep(r) ==
  /\ InLoop(r)
  /\ ~abort[r]
  /\ LET s == Current(r) IN
       /\ DepsMet(r, s)
       /\ MemStatus(r, s) \notin {"done", "blocked", "skipped"}
       /\ Upsert(r, s, [status   |-> IF MemStatus(r, s) = "pending"
                                     THEN "in_progress" ELSE MemStatus(r, s),
                        attempts |-> mem[r][s].attempts + 1])
  /\ pc' = [pc EXCEPT ![r] = "running"]
  /\ UNCHANGED <<dbPlan, plan, cursor, counts, result, abort, launches>>

\* Mutant: the verdict is stored as the status it is.
Verdict_Verbatim(outcome) ==
  CASE outcome = "pass"        -> "done"
    [] outcome = "unparseable" -> "failed"
    [] OTHER                   -> outcome

\* The verdict-to-status mapping at the end of _run_step.
Verdict(outcome) ==
  CASE outcome = "pass"    -> "done"
    [] outcome = "skipped" -> "skipped"
    [] OTHER               -> "failed"

\* The agent loop returns; the step and the turns it used are recorded.
StepReturns(r) ==
  /\ pc[r] = "running"
  /\ \E outcome \in Outcomes, used \in StepTurns :
       /\ Upsert(r, Current(r),
                 [mem[r][Current(r)] EXCEPT !.status = Verdict(outcome)])
       /\ counts' = [counts EXCEPT ![r].turns = @ + used]
  /\ pc' = [pc EXCEPT ![r] = "tally"]
  /\ UNCHANGED <<dbPlan, plan, cursor, result, abort, launches>>

\* The agent loop raises; execute has no handler and its caller sees it.
StepRaises(r) ==
  /\ pc[r] = "running"
  /\ pc' = [pc EXCEPT ![r] = "raised"]
  /\ Forget(r)
  /\ UNCHANGED <<db, result, abort, launches>>

Tallied(r) ==
  LET status == MemStatus(r, Current(r)) IN
  [counts[r] EXCEPT !.completed = IF status = "done" THEN @ + 1 ELSE @,
                    !.failed    = IF status = "failed" THEN @ + 1 ELSE @]

OutOfAttempts(r) ==
  LET row == mem[r][Current(r)] IN
  row.status = "failed" /\ row.attempts >= MaxAttempts

OutOfTurns(r) == counts[r].turns >= MaxTotalTurns

\* Counting the step; a step out of attempts, and then a plan out of turns,
\* closes the plan as failed.
FailPlan(r) ==
  /\ pc[r] = "tally"
  /\ OutOfAttempts(r) \/ OutOfTurns(r)
  /\ dbPlan' = "failed"
  /\ Return(r, "failed", IF OutOfAttempts(r) THEN "attempts" ELSE "turns", Tallied(r))
  /\ UNCHANGED <<dbStep, abort, launches>>

\* Mutant: a failed step goes back to the agent at once, inside the same run,
\* without a new attempt being counted.
GoOn_RunsAgain(r) ==
  /\ pc[r] = "tally"
  /\ ~OutOfAttempts(r)
  /\ ~OutOfTurns(r)
  /\ IF MemStatus(r, Current(r)) = "failed"
     THEN pc' = [pc EXCEPT ![r] = "running"] /\ UNCHANGED <<counts, cursor>>
     ELSE /\ counts' = [counts EXCEPT ![r] = Tallied(r)]
          /\ NextStep(r)
          /\ pc' = [pc EXCEPT ![r] = "loop"]
  /\ UNCHANGED <<db, plan, mem, result, abort, launches>>

\* The next step; a failed step with attempts left waits for a resume.
GoOn(r) ==
  /\ pc[r] = "tally"
  /\ ~OutOfAttempts(r)
  /\ ~OutOfTurns(r)
  /\ counts' = [counts EXCEPT ![r] = Tallied(r)]
  /\ NextStep(r)
  /\ pc' = [pc EXCEPT ![r] = "loop"]
  /\ UNCHANGED <<db, plan, mem, result, abort, launches>>

FinalStatus(r) ==
  IF IsPlanComplete(StatusOf(mem[r])) THEN "done"
  ELSE IF counts[r].failed > 0 THEN "failed"
  ELSE plan[r]

\* All steps have been looked at; the plan's status is written once more.
Finish(r) ==
  /\ pc[r] = "loop"
  /\ cursor[r] > Len(Order)
  /\ dbPlan' = FinalStatus(r)
  /\ Return(r, FinalStatus(r), "none", counts[r])
  /\ UNCHANGED <<dbStep, abort, launches>>

\* The process dies, or a database call of its raises; only the rows survive.
Crash(r) ==
  /\ IsLive(r)
  /\ pc' = [pc EXCEPT ![r] = "crashed"]
  /\ Forget(r)
  /\ UNCHANGED <<db, result, abort, launches>>

-----------------------------------------------------------------------------
Advance(r) ==
  \/ GetPlan(r) \/ ListSteps(r) \/ MarkInProgress(r)
  \/ SeeAbort(r) \/ SkipDone(r) \/ Block(r) \/ PassOver(r)
  \/ StartStep(r) \/ StepReturns(r) \/ StepRaises(r)
  \/ FailPlan(r) \/ GoOn(r) \/ Finish(r)

Next == \E r \in Runners : Launch(r) \/ SetAbort(r) \/ Crash(r) \/ Advance(r)

Spec == Init /\ [][Next]_vars

\* A live process runs on, and its agent loop ends (AgentLoop: every run of
\* the loop terminates).  Users and crashes owe nothing.
FairSpec == Spec /\ \A r \in Runners : WF_vars(Advance(r))

-----------------------------------------------------------------------------
(* Properties.  Those up to EveryRunEnds are claimed for Overlap = FALSE:   *)
(* one execution at a time, crashes and resumes at any point.               *)

Started == {"in_progress", "done", "failed", "skipped"}

TypeOK ==
  /\ dbPlan \in PlanStatus \cup {"absent"}
  /\ dbStep \in [Steps -> StepRow]
  /\ pc \in [Runners -> Executing \cup {"idle", "returned", "raised", "crashed"}]
  /\ plan \in [Runners -> PlanStatus]
  /\ mem \in [Runners -> [Steps -> StepRow]]
  /\ cursor \in [Runners -> 1 .. Len(Order) + 1]
  /\ counts \in [Runners -> Counts]
  /\ result \in [Runners -> [status    : PlanStatus \cup {"none"},
                            error     : {"none", "not_found", "already", "aborted",
                                         "attempts", "turns"},
                            completed : Nat,
                            failed    : Nat]]
  /\ abort \in [Runners -> BOOLEAN]
  /\ launches \in Nat

\* A step that was ever started has all its deps done, in the rows that a
\* crash leaves and the next resume starts from.
DepsClosed ==
  \A s \in Steps : dbStep[s].status \in Started =>
    \A d \in Deps[s] : dbStep[d].status = "done"

\* Whatever was interrupted, the rows are a prefix of the execution order:
\* nothing after a step that is pending or was in progress has been touched,
\* so a resume finds at most one step whose outcome is unknown.
RowsArePrefix ==
  \A i, j \in 1 .. Len(Order) : i < j =>
    (dbStep[Order[j]].status # "pending" =>
       dbStep[Order[i]].status \notin {"pending", "in_progress"})

\* A plan is recorded as done only when no step can still be run: a finished
\* plan is never resumed, so work left in it would be lost.
DonePlanHasNoWorkLeft ==
  dbPlan = "done" =>
    \A s \in Steps : dbStep[s].status \in {"done", "skipped", "blocked"}

\* A step that is done keeps its row: no later run, resume or crash repeats
\* it or loses it.
DoneIsFinal ==
  [][\A s \in Steps : dbStep[s].status = "done" => dbStep'[s] = dbStep[s]]_vars

Returns(r) == pc[r] # "returned" /\ pc'[r] = "returned"

\* The result a run returns agrees with the rows it leaves: a run that went
\* through all steps reports done or failed, the plan has that status and the
\* counts are those of the rows, over all earlier runs; a run that is cut
\* short counts no more than the rows hold, and leaves the plan failed unless
\* it was aborted.
ResultAgreesWithRows ==
  [][\A r \in Runners : Returns(r) =>
       LET res == result'[r] IN
       /\ res.error \in {"none", "already"} =>
            /\ res.status = dbPlan'
            /\ res.status \in {"done", "failed"}
            /\ res.completed = NumberOf(dbStep', "done")
            /\ res.failed = NumberOf(dbStep', "failed")
       /\ res.error \in {"attempts", "turns"} =>
            /\ res.status = "failed" /\ dbPlan' = "failed"
            /\ res.completed <= NumberOf(dbStep', "done")
            /\ res.failed <= NumberOf(dbStep', "failed")
       /\ res.error = "aborted" =>
            /\ dbPlan' = "in_progress"
            /\ res.completed <= NumberOf(dbStep', "done")]_vars

\* Working on a copy of the steps and writing rows back one at a time, with
\* crashes between any two writes, looks to a reader of the database like the
\* ledger's atomic steps.
Ledger == INSTANCE PlanLedger WITH status <- dbPlan, rows <- dbStep
ImplementsLedger == Ledger!Spec

\* Whoever starts an execution sees the plan opened once and closed at its end,
\* or left open: what PlanStore takes for granted of execute.  It holds though
\* the early return and the mark are two transactions, with the rows read in
\* between, and the status at the end is computed from a copy.
Execution == INSTANCE PlanExecution WITH
  status <- dbPlan, busy <- \E r \in Runners : pc[r] \in {"loop", "running", "tally"}
ImplementsExecution == Execution!Spec

\* Database calls and loop turns left to a run: three for each step to come,
\* and those before the loop and after it.
StepsLeft(r) ==
  CASE pc[r] = "get_plan"   -> 3 * Len(Order) + 4
    [] pc[r] = "list_steps" -> 3 * Len(Order) + 3
    [] pc[r] = "mark"       -> 3 * Len(Order) + 2
    [] pc[r] = "loop"       -> 3 * (Len(Order) + 1 - cursor[r]) + 1
    [] pc[r] = "running"    -> 3 * (Len(Order) + 1 - cursor[r])
    [] pc[r] = "tally"      -> 3 * (Len(Order) + 1 - cursor[r]) - 1
    [] OTHER                -> 0

\* A call of execute looks at each step once and starts it at most once,
\* whatever the agent reports of it: a retry is left to a resume.  Nothing
\* that other processes do makes a run any longer.
RunIsBounded ==
  [][\A r \in Runners :
       IF Advance(r) \/ Crash(r) THEN StepsLeft(r)' < StepsLeft(r)
       ELSE Launch(r) \/ StepsLeft(r)' = StepsLeft(r)]_vars

\* The reason the ledger is implemented, and the inductive invariant behind
\* every property above: with one execution at a time the runner's copy of the
\* steps is what the rows hold, the plan it works on is open, and everything
\* before the cursor is settled.
InLoopPhase == {"loop", "running", "tally"}
Settled     == {"done", "failed", "blocked", "skipped"}

OneAtATime == \A q, r \in Runners : IsLive(q) /\ IsLive(r) => q = r

CopyIsCurrent ==
  \A r \in Runners : pc[r] \in InLoopPhase \cup {"mark"} => mem[r] = dbStep

PlanIsOpen ==
  \A r \in Runners :
    /\ pc[r] \in {"list_steps", "mark"} => plan[r] = dbPlan
    /\ pc[r] = "mark" => dbPlan \notin {"absent", "done"}
    /\ pc[r] \in InLoopPhase => plan[r] = "in_progress" /\ dbPlan = "in_progress"

CursorInRange ==
  \A r \in Runners :
    /\ pc[r] \notin InLoopPhase => cursor[r] = 1
    /\ pc[r] \in {"running", "tally"} => cursor[r] <= Len(Order)

CursorSplits ==
  \A r \in Runners : pc[r] \in InLoopPhase =>
    /\ \A i \in 1 .. Len(Order) :
         i < cursor[r] => dbStep[Order[i]].status \in Settled
    /\ pc[r] = "running" => dbStep[Current(r)].status \in {"in_progress", "failed"}
    /\ pc[r] = "tally" => dbStep[Current(r)].status \in Settled

IInv ==
  /\ TypeOK
  /\ CursorInRange
  /\ OneAtATime
  /\ CopyIsCurrent
  /\ PlanIsOpen
  /\ CursorSplits
  /\ DepsClosed
  /\ RowsArePrefix
  /\ DonePlanHasNoWorkLeft

\* Every call of execute ends: it returns, raises, or its process dies.
EveryRunEnds == \A r \in Runners : IsLive(r) ~> ~IsLive(r)

-----------------------------------------------------------------------------
(* What the documents say and the code does not keep.                        *)

\* "plan.status = done (if all steps done) | failed"
\* (docs/08-phase2-goal-plan.md:200), and blocked means "deps not met" (:228):
\* a plan is not done while a step is blocked all of whose deps are done.
DonePlanBlocksForAReason ==
  dbPlan = "done" =>
    \A s \in Steps : dbStep[s].status = "blocked" =>
      \E d \in Deps[s] : dbStep[d].status # "done"

=============================================================================

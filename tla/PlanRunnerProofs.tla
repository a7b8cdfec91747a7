--------------------------- MODULE PlanRunnerProofs ---------------------------
(***************************************************************************)
(* Theorems about PlanRunner, for every plan, every number of processes and *)
(* every bound.  TypeCorrect needs nothing else; the others hold when       *)
(* executions of the plan do not overlap.                                   *)
(***************************************************************************)
EXTENDS PlanRunner, FiniteSetTheorems, TLAPS

TypeInv == TypeOK /\ CursorInRange

\* The parts of the state that an action must give back with their types.
LocalType ==
  /\ plan \in [Runners -> PlanStatus]
  /\ mem \in [Runners -> [Steps -> StepRow]]
  /\ cursor \in [Runners -> 1 .. Len(Order) + 1]
  /\ counts \in [Runners -> Counts]

ResultType ==
  [status    : PlanStatus \cup {"none"},
   error     : {"none", "not_found", "already", "aborted", "attempts", "turns"},
   completed : Nat,
   failed    : Nat]

-----------------------------------------------------------------------------
(* What the helpers do, stated once.                                        *)

LEMMA OrderType ==
  /\ Len(Order) \in Nat
  /\ \A i \in 1 .. Len(Order) : Order[i] \in Steps
BY OrderAssumption

LEMMA OrderInjective ==
  \A i, j \in 1 .. Len(Order) : Order[i] = Order[j] => i = j
BY OrderAssumption

LEMMA CurrentType ==
  ASSUME TypeOK, NEW r \in Runners, cursor[r] <= Len(Order)
  PROVE  cursor[r] \in 1 .. Len(Order) /\ Current(r) \in Steps
<1>1. cursor[r] \in 1 .. Len(Order)
  BY OrderType DEF TypeOK
<1>. QED
  BY <1>1, OrderType DEF Current

LEMMA NewStepsType == NewSteps \in [Steps -> StepRow]
BY DEF NewSteps, NewStep, StepRow, StepStatus

LEMMA ForgetType ==
  ASSUME TypeOK, NEW r \in Runners, Forget(r)
  PROVE  LocalType'
<1>1. plan' \in [Runners -> PlanStatus]
  BY DEF TypeOK, Forget, PlanStatus
<1>2. mem' \in [Runners -> [Steps -> StepRow]]
  BY NewStepsType DEF TypeOK, Forget
<1>3. cursor' \in [Runners -> 1 .. Len(Order) + 1]
  BY OrderType DEF TypeOK, Forget
<1>4. counts' \in [Runners -> Counts]
  BY DEF TypeOK, Forget, Counts, NoCounts
<1>. QED
  BY <1>1, <1>2, <1>3, <1>4 DEF LocalType

LEMMA ReturnType ==
  ASSUME TypeOK, NEW r \in Runners,
         NEW status \in PlanStatus,
         NEW error \in {"none", "not_found", "already", "aborted", "attempts", "turns"},
         NEW c, c.completed \in Nat, c.failed \in Nat,
         Return(r, status, error, c)
  PROVE  LocalType' /\ result' \in [Runners -> ResultType]
<1>1. LocalType'
  BY ForgetType DEF Return
<1>2. [status |-> status, error |-> error,
       completed |-> c.completed, failed |-> c.failed] \in ResultType
  BY DEF ResultType
<1>3. result \in [Runners -> ResultType]
  BY DEF TypeOK, ResultType
<1>. QED
  BY <1>1, <1>2, <1>3 DEF Return

LEMMA UpsertType ==
  ASSUME TypeOK, NEW r \in Runners, NEW s \in Steps, NEW row \in StepRow,
         Upsert(r, s, row)
  PROVE  /\ mem' \in [Runners -> [Steps -> StepRow]]
         /\ dbStep' \in [Steps -> StepRow]
BY DEF TypeOK, Upsert

LEMMA TalliedType ==
  ASSUME TypeOK, NEW r \in Runners
  PROVE  Tallied(r) \in Counts
<1>1. counts[r] \in Counts
  BY DEF TypeOK
<1>2. /\ counts[r].completed + 1 \in Nat
      /\ counts[r].failed + 1 \in Nat
  BY <1>1 DEF Counts
<1>. DEFINE status == MemStatus(r, Current(r))
            c == IF status = "done" THEN counts[r].completed + 1 ELSE counts[r].completed
            f == IF status = "failed" THEN counts[r].failed + 1 ELSE counts[r].failed
<1>3. c \in Nat /\ f \in Nat
  BY <1>1, <1>2 DEF Counts
<1>. HIDE DEF c, f
<1>4. [counts[r] EXCEPT !.completed = c, !.failed = f] \in Counts
  BY <1>1, <1>3 DEF Counts
<1>. QED
  BY <1>4 DEF Tallied, c, f

LEMMA NumberOfType ==
  ASSUME NEW rows, NEW status
  PROVE  NumberOf(rows, status) \in Nat
<1>1. IsFiniteSet({s \in Steps : rows[s].status = status})
  BY OrderAssumption, FS_Subset
<1>. QED
  BY <1>1, FS_CardinalityType DEF NumberOf

-----------------------------------------------------------------------------
(* Types.                                                                   *)

LEMMA TypeInit == Init => TypeInv
<1>. SUFFICES ASSUME Init PROVE TypeInv
  OBVIOUS
<1>1. dbStep \in [Steps -> StepRow] /\ mem \in [Runners -> [Steps -> StepRow]]
  BY NewStepsType DEF Init
<1>2. cursor \in [Runners -> 1 .. Len(Order) + 1]
  BY OrderType DEF Init
<1>3. counts \in [Runners -> Counts]
  BY DEF Init, Counts, NoCounts
<1>. QED
  BY <1>1, <1>2, <1>3
     DEF Init, TypeInv, TypeOK, CursorInRange, InLoopPhase, PlanStatus, Executing, NoResult

\* What is left to show of an action that returns.
LEMMA ReturnKeepsTypes ==
  ASSUME TypeInv, NEW r \in Runners,
         NEW status \in PlanStatus,
         NEW error \in {"none", "not_found", "already", "aborted", "attempts", "turns"},
         NEW c, c.completed \in Nat, c.failed \in Nat,
         Return(r, status, error, c),
         UNCHANGED <<dbStep, abort, launches>>,
         dbPlan' \in PlanStatus \cup {"absent"}
  PROVE  TypeInv'
<1>1. LocalType' /\ result' \in [Runners -> ResultType]
  BY ReturnType DEF TypeInv
<1>2. pc' = [pc EXCEPT ![r] = "returned"]
  BY DEF Return
<1>3. CursorInRange'
  BY <1>2 DEF TypeInv, TypeOK, CursorInRange, InLoopPhase, Return, Forget
<1>. QED
  BY <1>1, <1>2, <1>3 DEF TypeInv, TypeOK, LocalType, ResultType

LEMMA TypeStep == TypeInv /\ [Next]_vars => TypeInv'
<1>. SUFFICES ASSUME TypeInv, [Next]_vars PROVE TypeInv'
  OBVIOUS
<1>. USE DEF TypeInv
<1>1. CASE UNCHANGED vars
  BY <1>1 DEF vars, TypeOK, CursorInRange, InLoopPhase
<1>. SUFFICES ASSUME NEW r \in Runners,
                     Launch(r) \/ SetAbort(r) \/ Crash(r) \/ Advance(r)
              PROVE  TypeInv'
  BY <1>1 DEF Next
<1>2. CASE Launch(r)
  <2>1. pc[r] \notin InLoopPhase /\ pc' = [pc EXCEPT ![r] = "get_plan"]
        /\ UNCHANGED cursor
    BY <1>2 DEF Launch, IsLive, Executing, InLoopPhase, local
  <2>2. CursorInRange'
    BY <2>1 DEF TypeOK, CursorInRange, InLoopPhase
  <2>3. result' \in [Runners -> ResultType]
    BY <1>2 DEF Launch, TypeOK, NoResult, ResultType
  <2>. QED
    BY <1>2, <2>1, <2>2, <2>3 DEF Launch, TypeOK, ResultType, Executing, db, local
<1>3. CASE SetAbort(r)
  BY <1>3 DEF SetAbort, TypeOK, CursorInRange, InLoopPhase, db, local
<1>4. CASE Crash(r)
  <2>1. LocalType'
    BY <1>4, ForgetType DEF Crash
  <2>. QED
    BY <1>4, <2>1 DEF Crash, Forget, LocalType, TypeOK, CursorInRange, InLoopPhase, db
<1>5. CASE GetPlan(r)
  <2>1. CASE dbPlan = "absent"
    <3>1. Return(r, "failed", "not_found", NoCounts)
      BY <1>5, <2>1 DEF GetPlan
    <3>2. UNCHANGED <<dbPlan, dbStep, abort, launches>>
      BY <1>5 DEF GetPlan, db
    <3>3. NoCounts.completed \in Nat /\ NoCounts.failed \in Nat
      BY DEF NoCounts
    <3>4. "failed" \in PlanStatus /\ dbPlan' \in PlanStatus \cup {"absent"}
      BY <3>2 DEF PlanStatus, TypeOK
    <3>. QED
      BY <3>1, <3>2, <3>3, <3>4, ReturnKeepsTypes
  <2>2. CASE dbPlan # "absent"
    <3>1. dbPlan \in PlanStatus
      BY <2>2 DEF TypeOK
    <3>2. /\ plan' = [plan EXCEPT ![r] = dbPlan]
          /\ pc' = [pc EXCEPT ![r] = "list_steps"]
          /\ UNCHANGED <<dbPlan, dbStep, mem, cursor, counts, result, abort, launches>>
      BY <1>5, <2>2 DEF GetPlan, db
    <3>3. CursorInRange'
      BY <1>5, <3>2 DEF GetPlan, TypeOK, CursorInRange, InLoopPhase
    <3>. QED
      BY <3>1, <3>2, <3>3 DEF TypeOK, Executing
  <2>. QED
    BY <2>1, <2>2
<1>6. CASE ListSteps(r)
  <2>1. CASE plan[r] \in {"done", "abandoned"}
    <3>. DEFINE c == [completed |-> NumberOf(dbStep, "done"),
                      failed    |-> NumberOf(dbStep, "failed")]
    <3>1. c.completed \in Nat /\ c.failed \in Nat
      BY NumberOfType
    <3>2. Return(r, plan[r], "already", c)
      BY <1>6, <2>1 DEF ListSteps
    <3>3. plan[r] \in PlanStatus /\ dbPlan' \in PlanStatus \cup {"absent"}
      BY <1>6 DEF ListSteps, TypeOK, db
    <3>4. UNCHANGED <<dbStep, abort, launches>>
      BY <1>6 DEF ListSteps, db
    <3>. HIDE DEF c
    <3>. QED
      BY <3>1, <3>2, <3>3, <3>4, ReturnKeepsTypes
  <2>2. CASE plan[r] \notin {"done", "abandoned"}
    <3>1. /\ mem' = [mem EXCEPT ![r] = dbStep]
          /\ pc' = [pc EXCEPT ![r] = "mark"]
          /\ UNCHANGED <<dbPlan, dbStep, plan, cursor, counts, result, abort, launches>>
      BY <1>6, <2>2 DEF ListSteps, db
    <3>2. CursorInRange'
      BY <1>6, <3>1 DEF ListSteps, TypeOK, CursorInRange, InLoopPhase
    <3>. QED
      BY <3>1, <3>2 DEF TypeOK, Executing
  <2>. QED
    BY <2>1, <2>2
<1>7. CASE MarkInProgress(r)
  BY <1>7 DEF MarkInProgress, TypeOK, CursorInRange, InLoopPhase, Executing, PlanStatus
<1>8. CASE SeeAbort(r)
  <2>1. counts[r].completed \in Nat /\ counts[r].failed \in Nat
    BY DEF TypeOK, Counts
  <2>2. "abandoned" \in PlanStatus
    BY DEF PlanStatus
  <2>3. dbPlan' \in PlanStatus \cup {"absent"} /\ UNCHANGED <<dbStep, abort, launches>>
    BY <1>8 DEF SeeAbort, db, TypeOK
  <2>. QED
    BY <1>8, <2>1, <2>2, <2>3, ReturnKeepsTypes DEF SeeAbort
<1>9. CASE SkipDone(r)
  <2>. DEFINE c == [counts[r] EXCEPT !.completed = @ + 1]
  <2>a. counts[r] \in Counts
    BY DEF TypeOK
  <2>b. c \in Counts
    BY <2>a DEF Counts
  <2>c. counts' = [counts EXCEPT ![r] = c]
    BY <1>9 DEF SkipDone
  <2>. HIDE DEF c
  <2>1. counts' \in [Runners -> Counts]
    BY <2>b, <2>c DEF TypeOK
  <2>2. cursor[r] + 1 \in 1 .. Len(Order) + 1
    BY <1>9, OrderType DEF SkipDone, InLoop, TypeOK
  <2>. QED
    BY <1>9, <2>1, <2>2 DEF SkipDone, InLoop, NextStep, TypeOK, CursorInRange, InLoopPhase, db
<1>10. CASE Block(r)
  <2>1. cursor[r] + 1 \in 1 .. Len(Order) + 1 /\ Current(r) \in Steps
    BY <1>10, OrderType, CurrentType DEF Block, InLoop, TypeOK
  <2>2. [mem[r][Current(r)] EXCEPT !.status = "blocked"] \in StepRow
    <3>1. mem[r][Current(r)] \in StepRow
      BY <2>1 DEF TypeOK
    <3>. QED
      BY <3>1 DEF StepRow, StepStatus
  <2>3. /\ mem' \in [Runners -> [Steps -> StepRow]]
        /\ dbStep' \in [Steps -> StepRow]
    BY <1>10, <2>1, <2>2, UpsertType DEF Block
  <2>. QED
    BY <1>10, <2>1, <2>3 DEF Block, InLoop, NextStep, TypeOK, CursorInRange, InLoopPhase
<1>11. CASE PassOver(r)
  <2>1. cursor[r] + 1 \in 1 .. Len(Order) + 1
    BY <1>11, OrderType DEF PassOver, InLoop, TypeOK
  <2>. QED
    BY <1>11, <2>1 DEF PassOver, InLoop, NextStep, TypeOK, CursorInRange, InLoopPhase, db
<1>12. CASE StartStep(r)
  <2>1. Current(r) \in Steps
    BY <1>12, CurrentType DEF StartStep, InLoop
  <2>2. mem[r][Current(r)] \in StepRow
    BY <2>1 DEF TypeOK
  <2>. DEFINE row == [status   |-> IF MemStatus(r, Current(r)) = "pending"
                                   THEN "in_progress" ELSE MemStatus(r, Current(r)),
                      attempts |-> mem[r][Current(r)].attempts + 1]
  <2>3. row \in StepRow
    BY <2>2 DEF StepRow, StepStatus, MemStatus
  <2>4. Upsert(r, Current(r), row)
    BY <1>12 DEF StartStep
  <2>. HIDE DEF row
  <2>5. /\ mem' \in [Runners -> [Steps -> StepRow]]
        /\ dbStep' \in [Steps -> StepRow]
    BY <2>1, <2>3, <2>4, UpsertType
  <2>. QED
    BY <1>12, <2>5 DEF StartStep, InLoop, TypeOK, CursorInRange, InLoopPhase, Executing
<1>13. CASE StepReturns(r)
  <2>1. Current(r) \in Steps /\ cursor[r] <= Len(Order)
    BY <1>13, CurrentType DEF StepReturns, CursorInRange, InLoopPhase
  <2>2. PICK outcome \in Outcomes, used \in StepTurns :
          /\ Upsert(r, Current(r),
                    [mem[r][Current(r)] EXCEPT !.status = Verdict(outcome)])
          /\ counts' = [counts EXCEPT ![r].turns = @ + used]
    BY <1>13 DEF StepReturns
  <2>3. [mem[r][Current(r)] EXCEPT !.status = Verdict(outcome)] \in StepRow
    <3>1. mem[r][Current(r)] \in StepRow
      BY <2>1 DEF TypeOK
    <3>2. Verdict(outcome) \in StepStatus
      BY DEF Verdict, Outcomes, StepStatus
    <3>. QED
      BY <3>1, <3>2 DEF StepRow
  <2>4. /\ mem' \in [Runners -> [Steps -> StepRow]]
        /\ dbStep' \in [Steps -> StepRow]
    BY <2>1, <2>2, <2>3, UpsertType
  <2>5. counts' \in [Runners -> Counts]
    <3>. DEFINE c == [counts[r] EXCEPT !.turns = @ + used]
    <3>1. counts[r] \in Counts /\ used \in Nat
      BY NumbersAssumption DEF TypeOK
    <3>2. c \in Counts
      BY <3>1 DEF Counts
    <3>3. counts' = [counts EXCEPT ![r] = c]
      BY <2>2
    <3>. HIDE DEF c
    <3>. QED
      BY <3>2, <3>3 DEF TypeOK
  <2>. QED
    BY <1>13, <2>1, <2>4, <2>5 DEF StepReturns, TypeOK, CursorInRange, InLoopPhase, Executing
<1>14. CASE StepRaises(r)
  <2>1. LocalType'
    BY <1>14, ForgetType DEF StepRaises
  <2>. QED
    BY <1>14, <2>1 DEF StepRaises, Forget, LocalType, TypeOK, CursorInRange, InLoopPhase, db
<1>15. CASE FailPlan(r)
  <2>1. Tallied(r).completed \in Nat /\ Tallied(r).failed \in Nat
    BY TalliedType DEF Counts
  <2>. QED
    BY <1>15, <2>1, ReturnKeepsTypes DEF FailPlan, PlanStatus
<1>16. CASE GoOn(r)
  <2>1. cursor[r] + 1 \in 1 .. Len(Order) + 1
    BY <1>16, OrderType DEF GoOn, TypeOK, CursorInRange, InLoopPhase
  <2>2. counts' \in [Runners -> Counts]
    BY <1>16, TalliedType DEF GoOn, TypeOK
  <2>. QED
    BY <1>16, <2>1, <2>2 DEF GoOn, NextStep, TypeOK, CursorInRange, InLoopPhase, Executing, db
<1>17. CASE Finish(r)
  <2>1. counts[r].completed \in Nat /\ counts[r].failed \in Nat
    BY DEF TypeOK, Counts
  <2>2. FinalStatus(r) \in PlanStatus
    BY DEF FinalStatus, TypeOK, PlanStatus
  <2>. QED
    BY <1>17, <2>1, <2>2, ReturnKeepsTypes DEF Finish
<1>. QED
  BY <1>2, <1>3, <1>4, <1>5, <1>6, <1>7, <1>8, <1>9, <1>10, <1>11, <1>12,
     <1>13, <1>14, <1>15, <1>16, <1>17 DEF Advance

LEMMA TypeInvariant == Spec => []TypeInv
<1>. QED
  BY TypeInit, TypeStep, PTL DEF Spec

\* Every reachable state is well typed, with or without overlapping runs.
THEOREM TypeCorrect == Spec => []TypeOK
<1>1. TypeInv => TypeOK
  BY DEF TypeInv
<1>. QED
  BY <1>1, TypeInvariant, PTL

-----------------------------------------------------------------------------
(* The inductive invariant.                                                 *)

\* While r executes, or when nobody does, a step of r leaves nobody else live.
LEMMA OthersRest ==
  ASSUME TypeOK, OneAtATime, NEW r \in Runners, NEW x,
         IsLive(r) \/ \A q \in Runners : ~IsLive(q),
         pc' = [pc EXCEPT ![r] = x]
  PROVE  /\ pc'[r] = x
         /\ \A q \in Runners : q # r => pc'[q] \notin Executing
         /\ OneAtATime'
BY DEF TypeOK, OneAtATime, IsLive

LEMMA DepsOfStep ==
  ASSUME NEW s \in Steps
  PROVE  Deps[s] \subseteq Steps
BY OrderAssumption

\* A runner's view of the deps is the rows' as long as its copy is current.
LEMMA DepsMetMeansDone ==
  ASSUME TypeOK, NEW r \in Runners, NEW s \in Steps, mem[r] = dbStep
  PROVE  DepsMet(r, s) <=> \A d \in Deps[s] : dbStep[d].status = "done"
BY DepsOfStep DEF DepsMet, AllDepsDone, StatusOf

\* Writing a row of the step at the cursor: the rows stay closed under deps
\* and stay a prefix of the order.
LEMMA RowWritten ==
  ASSUME TypeOK, CopyIsCurrent, CursorSplits, DepsClosed, RowsArePrefix,
         NEW r \in Runners, pc[r] \in InLoopPhase, cursor[r] <= Len(Order),
         NEW row \in StepRow, Upsert(r, Current(r), row),
         dbStep[Current(r)].status # "done",
         row.status \in Started =>
           \A d \in Deps[Current(r)] : dbStep[d].status = "done",
         row.status \in {"pending", "in_progress"} =>
           dbStep[Current(r)].status \in {"pending", "in_progress"}
  PROVE  /\ mem'[r] = dbStep'
         /\ dbStep' = [dbStep EXCEPT ![Current(r)] = row]
         /\ \A i \in 1 .. Len(Order) :
              i < cursor[r] => dbStep'[Order[i]].status \in Settled
         /\ DepsClosed'
         /\ RowsArePrefix'
<1>. DEFINE s == Current(r)
            c == cursor[r]
<1>1. c \in 1 .. Len(Order) /\ s \in Steps /\ s = Order[c]
  BY CurrentType DEF Current
<1>2. mem[r] = dbStep
  BY DEF CopyIsCurrent, InLoopPhase
<1>3. dbStep' = [dbStep EXCEPT ![s] = row] /\ mem'[r] = dbStep'
  BY <1>1, <1>2 DEF Upsert, TypeOK
<1>4. dbStep'[s] = row /\ \A t \in Steps : t # s => dbStep'[t] = dbStep[t]
  BY <1>1, <1>3 DEF TypeOK
<1>5. \A i \in 1 .. Len(Order) : i # c => Order[i] \in Steps /\ Order[i] # s
  <2>. TAKE i \in 1 .. Len(Order)
  <2>1. Order[i] = Order[c] => i = c
    BY <1>1, OrderInjective
  <2>. QED
    BY <1>1, <2>1, OrderType
<1>6. ASSUME NEW i \in 1 .. Len(Order), i < c
      PROVE  dbStep'[Order[i]].status \in Settled
  <2>1. dbStep[Order[i]].status \in Settled
    BY <1>6 DEF CursorSplits
  <2>. QED
    BY <1>1, <1>4, <1>5, <1>6, <2>1, OrderType
<1>7. DepsClosed'
  <2>. SUFFICES ASSUME NEW t \in Steps, dbStep'[t].status \in Started,
                       NEW d \in Deps[t]
                PROVE  dbStep'[d].status = "done"
    BY DEF DepsClosed
  <2>1. dbStep[d].status = "done"
    BY <1>4 DEF DepsClosed
  <2>. QED
    BY <1>4, <2>1, DepsOfStep
<1>8. RowsArePrefix'
  <2>. SUFFICES ASSUME NEW i \in 1 .. Len(Order), NEW j \in 1 .. Len(Order), i < j,
                       dbStep'[Order[j]].status # "pending"
                PROVE  dbStep'[Order[i]].status \notin {"pending", "in_progress"}
    BY DEF RowsArePrefix
  <2>1. CASE i < c
    BY <1>6, <2>1 DEF Settled
  <2>2. CASE ~(i < c)
    <3>1. j # c
      BY <1>1, <2>2, OrderType
    <3>2. dbStep[Order[j]].status # "pending"
      BY <1>4, <1>5, <3>1
    <3>3. dbStep[Order[i]].status \notin {"pending", "in_progress"}
      BY <3>2 DEF RowsArePrefix
    <3>. QED
      BY <1>1, <1>4, <1>5, <3>3
  <2>. QED
    BY <2>1, <2>2
<1>. QED
  BY <1>3, <1>6, <1>7, <1>8

LEMMA InvInit == Init => IInv
<1>. SUFFICES ASSUME Init PROVE IInv
  OBVIOUS
<1>1. TypeOK /\ CursorInRange
  BY TypeInit DEF TypeInv
<1>2. \A r \in Runners : pc[r] \notin Executing
  BY DEF Init, Executing
<1>3. OneAtATime /\ CopyIsCurrent /\ PlanIsOpen /\ CursorSplits
  BY <1>2 DEF OneAtATime, IsLive, CopyIsCurrent, PlanIsOpen, CursorSplits,
              Executing, InLoopPhase
<1>4. \A s \in Steps : dbStep[s].status = "pending"
  BY DEF Init, NewSteps, NewStep
<1>5. DepsClosed
  BY <1>4 DEF DepsClosed, Started
<1>6. RowsArePrefix
  BY <1>4, OrderType DEF RowsArePrefix
<1>7. DonePlanHasNoWorkLeft
  BY DEF Init, DonePlanHasNoWorkLeft
<1>. QED
  BY <1>1, <1>3, <1>5, <1>6, <1>7 DEF IInv

\* What holds besides the types, which TypeStep gives.
Shape ==
  /\ OneAtATime
  /\ CopyIsCurrent
  /\ PlanIsOpen
  /\ CursorSplits
  /\ DepsClosed
  /\ RowsArePrefix
  /\ DonePlanHasNoWorkLeft

\* Leaving execute, by returning, raising or dying, with the rows as they are.
LEMMA Leaving ==
  ASSUME IInv, NEW r \in Runners, IsLive(r),
         NEW x, x \notin Executing, pc' = [pc EXCEPT ![r] = x],
         UNCHANGED dbStep,
         dbPlan' = "done" => \/ dbPlan = "done"
                            \/ \A s \in Steps :
                                 dbStep[s].status \in {"done", "skipped", "blocked"}
  PROVE  Shape'
<1>1. OneAtATime' /\ \A q \in Runners : pc'[q] \notin Executing
  BY OthersRest DEF IInv
<1>2. CopyIsCurrent' /\ PlanIsOpen' /\ CursorSplits'
  BY <1>1 DEF CopyIsCurrent, PlanIsOpen, CursorSplits, Executing, InLoopPhase
<1>3. DepsClosed' /\ RowsArePrefix'
  BY DEF IInv, DepsClosed, RowsArePrefix
<1>4. DonePlanHasNoWorkLeft'
  BY DEF IInv, DonePlanHasNoWorkLeft
<1>. QED
  BY <1>1, <1>2, <1>3, <1>4 DEF Shape

\* A step of the loop's body, from one phase of it to another, that leaves the
\* plan's row alone.
LEMMA Looping ==
  ASSUME IInv, NEW r \in Runners, pc[r] \in InLoopPhase,
         NEW x \in InLoopPhase, pc' = [pc EXCEPT ![r] = x],
         UNCHANGED <<dbPlan, plan>>,
         mem'[r] = dbStep', DepsClosed', RowsArePrefix',
         \A i \in 1 .. Len(Order) :
           i < cursor'[r] => dbStep'[Order[i]].status \in Settled,
         x = "running" => dbStep'[Current(r)'].status \in {"in_progress", "failed"},
         x = "tally" => dbStep'[Current(r)'].status \in Settled
  PROVE  Shape'
<1>1. /\ pc'[r] = x
      /\ \A q \in Runners : q # r => pc'[q] \notin Executing
      /\ OneAtATime'
  BY OthersRest DEF IInv, IsLive, InLoopPhase, Executing
<1>2. CopyIsCurrent'
  BY <1>1 DEF CopyIsCurrent, InLoopPhase, Executing
<1>3. PlanIsOpen'
  BY <1>1 DEF IInv, PlanIsOpen, InLoopPhase, Executing
<1>4. CursorSplits'
  BY <1>1 DEF CursorSplits, InLoopPhase, Executing
<1>5. DonePlanHasNoWorkLeft'
  BY DEF IInv, PlanIsOpen, DonePlanHasNoWorkLeft
<1>. QED
  BY <1>1, <1>2, <1>3, <1>4, <1>5 DEF Shape

\* The cursor moves past a step that is settled, the rows stay.
LEMMA MovingOn ==
  ASSUME IInv, NEW r \in Runners, pc[r] \in InLoopPhase, cursor[r] <= Len(Order),
         dbStep[Current(r)].status \in Settled,
         pc' = [pc EXCEPT ![r] = "loop"], NextStep(r),
         UNCHANGED <<dbPlan, dbStep, plan, mem>>
  PROVE  Shape'
<1>1. cursor'[r] = cursor[r] + 1 /\ cursor[r] \in 1 .. Len(Order)
  BY CurrentType DEF IInv, NextStep, TypeOK
<1>2. ASSUME NEW i \in 1 .. Len(Order), i < cursor'[r]
      PROVE  dbStep'[Order[i]].status \in Settled
  <2>1. CASE i < cursor[r]
    BY <2>1 DEF IInv, CursorSplits
  <2>2. CASE ~(i < cursor[r])
    <3>1. i = cursor[r]
      BY <1>1, <1>2, <2>2, OrderType
    <3>. QED
      BY <3>1 DEF Current
  <2>. QED
    BY <2>1, <2>2
<1>3. DepsClosed' /\ RowsArePrefix'
  BY DEF IInv, DepsClosed, RowsArePrefix
<1>4. mem'[r] = dbStep'
  BY DEF IInv, CopyIsCurrent
<1>5. "loop" \in InLoopPhase
  BY DEF InLoopPhase
<1>. QED
  BY <1>2, <1>3, <1>4, <1>5, Looping

\* The rows written by the three actions that change a step.
LEMMA BlockWrites ==
  ASSUME IInv, NEW r \in Runners, Block(r)
  PROVE  /\ dbStep[Current(r)].status \in {"pending", "blocked"}
         /\ ~\A d \in Deps[Current(r)] : dbStep[d].status = "done"
         /\ dbStep' = [dbStep EXCEPT ![Current(r)].status = "blocked"]
         /\ Shape'
<1>. DEFINE s == Current(r)
            row == [mem[r][s] EXCEPT !.status = "blocked"]
<1>1. cursor[r] <= Len(Order) /\ s \in Steps /\ pc[r] = "loop"
  BY CurrentType DEF IInv, Block, InLoop
<1>2. mem[r] = dbStep /\ dbStep[s] \in StepRow
  BY <1>1 DEF IInv, CopyIsCurrent, InLoopPhase, TypeOK
<1>3. row \in StepRow /\ row.status = "blocked"
  BY <1>2 DEF StepRow, StepStatus
<1>4. Upsert(r, s, row) /\ dbStep[s].status # "done" /\ ~DepsMet(r, s)
  BY <1>2 DEF Block, MemStatus
<1>5. ~\A d \in Deps[s] : dbStep[d].status = "done"
  BY <1>1, <1>2, <1>4, DepsMetMeansDone DEF IInv
<1>6. dbStep[s].status \in {"pending", "blocked"}
  BY <1>1, <1>2, <1>4, <1>5 DEF IInv, DepsClosed, Started, StepRow, StepStatus
<1>7. row = [dbStep[s] EXCEPT !.status = "blocked"]
  BY <1>2
<1>. HIDE DEF row
<1>8. /\ mem'[r] = dbStep'
      /\ dbStep' = [dbStep EXCEPT ![s] = row]
      /\ \A i \in 1 .. Len(Order) :
           i < cursor[r] => dbStep'[Order[i]].status \in Settled
      /\ DepsClosed'
      /\ RowsArePrefix'
  BY <1>1, <1>3, <1>4, RowWritten DEF IInv, Started, InLoopPhase
<1>9. Shape'
  <2>1. cursor'[r] = cursor[r] + 1 /\ cursor[r] \in 1 .. Len(Order)
    BY <1>1, CurrentType DEF IInv, Block, NextStep, TypeOK
  <2>2. dbStep'[s].status \in Settled
    BY <1>1, <1>3, <1>8 DEF IInv, TypeOK, Settled
  <2>3. ASSUME NEW i \in 1 .. Len(Order), i < cursor'[r]
        PROVE  dbStep'[Order[i]].status \in Settled
    <3>1. i < cursor[r] \/ i = cursor[r]
      BY <2>1, <2>3, OrderType
    <3>. QED
      BY <1>8, <2>2, <3>1 DEF Current
  <2>4. pc' = [pc EXCEPT ![r] = "loop"] /\ UNCHANGED <<dbPlan, plan>>
    BY <1>1 DEF IInv, TypeOK, Block
  <2>. QED
    BY <1>1, <1>8, <2>3, <2>4, Looping DEF InLoopPhase
<1>. QED
  BY <1>5, <1>6, <1>7, <1>8, <1>9

LEMMA StartStepWrites ==
  ASSUME IInv, NEW r \in Runners, StartStep(r)
  PROVE  /\ dbStep[Current(r)].status \in {"pending", "in_progress", "failed"}
         /\ \A d \in Deps[Current(r)] : dbStep[d].status = "done"
         /\ \E to \in {"in_progress", "failed"} :
              dbStep' = [dbStep EXCEPT ![Current(r)] =
                          [status |-> to, attempts |-> @.attempts + 1]]
         /\ Shape'
<1>. DEFINE s == Current(r)
            to == IF MemStatus(r, s) = "pending" THEN "in_progress" ELSE MemStatus(r, s)
            row == [status |-> to, attempts |-> mem[r][s].attempts + 1]
<1>1. cursor[r] <= Len(Order) /\ s \in Steps /\ pc[r] = "loop"
  BY CurrentType DEF IInv, StartStep, InLoop
<1>2. mem[r] = dbStep /\ dbStep[s] \in StepRow
  BY <1>1 DEF IInv, CopyIsCurrent, InLoopPhase, TypeOK
<1>3. Upsert(r, s, row) /\ dbStep[s].status \in {"pending", "in_progress", "failed"}
  BY <1>2 DEF StartStep, MemStatus, StepRow, StepStatus
<1>4. \A d \in Deps[s] : dbStep[d].status = "done"
  BY <1>1, <1>2, DepsMetMeansDone DEF IInv, StartStep
<1>5. /\ to \in {"in_progress", "failed"}
      /\ to = "in_progress" => dbStep[s].status \in {"pending", "in_progress"}
  BY <1>2, <1>3 DEF MemStatus
<1>6. row.status = to /\ row \in StepRow
  BY <1>2, <1>5 DEF StepRow, StepStatus
<1>7. row = [status |-> to, attempts |-> dbStep[s].attempts + 1]
  BY <1>2
<1>. HIDE DEF row, to
<1>8. /\ mem'[r] = dbStep'
      /\ dbStep' = [dbStep EXCEPT ![s] = row]
      /\ \A i \in 1 .. Len(Order) :
           i < cursor[r] => dbStep'[Order[i]].status \in Settled
      /\ DepsClosed'
      /\ RowsArePrefix'
  <2>1. /\ dbStep[s].status # "done"
        /\ row.status \in {"pending", "in_progress"} =>
             dbStep[s].status \in {"pending", "in_progress"}
    BY <1>3, <1>5, <1>6
  <2>2. pc[r] \in InLoopPhase
    BY <1>1 DEF InLoopPhase
  <2>. QED
    BY <1>1, <1>3, <1>4, <1>6, <2>1, <2>2, RowWritten DEF IInv
<1>9. Shape'
  <2>1. UNCHANGED <<dbPlan, plan, cursor>> /\ pc' = [pc EXCEPT ![r] = "running"]
    BY DEF StartStep
  <2>2. dbStep'[Current(r)'].status \in {"in_progress", "failed"}
    BY <1>1, <1>5, <1>6, <1>8, <2>1 DEF IInv, TypeOK, Current
  <2>. QED
    BY <1>1, <1>8, <2>1, <2>2, Looping DEF InLoopPhase
<1>. QED
  BY <1>3, <1>4, <1>5, <1>7, <1>8, <1>9

LEMMA StepReturnsWrites ==
  ASSUME IInv, NEW r \in Runners, StepReturns(r)
  PROVE  /\ dbStep[Current(r)].status \in {"in_progress", "failed"}
         /\ \E to \in {"done", "failed", "skipped"} :
              dbStep' = [dbStep EXCEPT ![Current(r)].status = to]
         /\ Shape'
<1>. DEFINE s == Current(r)
<1>1. cursor[r] <= Len(Order) /\ s \in Steps /\ pc[r] = "running"
  BY CurrentType DEF IInv, CursorInRange, StepReturns
<1>2. mem[r] = dbStep /\ dbStep[s] \in StepRow
  BY <1>1 DEF IInv, CopyIsCurrent, InLoopPhase, TypeOK
<1>3. PICK outcome \in Outcomes :
        Upsert(r, s, [mem[r][s] EXCEPT !.status = Verdict(outcome)])
  BY DEF StepReturns
<1>. DEFINE to == Verdict(outcome)
            row == [mem[r][s] EXCEPT !.status = to]
<1>4. to \in {"done", "failed", "skipped"}
  BY DEF Verdict, Outcomes
<1>5. row \in StepRow /\ row.status = to
  BY <1>2, <1>4 DEF StepRow, StepStatus
<1>6. dbStep[s].status \in {"in_progress", "failed"}
  BY <1>1 DEF IInv, CursorSplits, InLoopPhase
<1>7. \A d \in Deps[s] : dbStep[d].status = "done"
  BY <1>1, <1>6 DEF IInv, DepsClosed, Started
<1>8. row = [dbStep[s] EXCEPT !.status = to] /\ Upsert(r, s, row)
  BY <1>2, <1>3
<1>. HIDE DEF row, to
<1>9. /\ mem'[r] = dbStep'
      /\ dbStep' = [dbStep EXCEPT ![s] = row]
      /\ \A i \in 1 .. Len(Order) :
           i < cursor[r] => dbStep'[Order[i]].status \in Settled
      /\ DepsClosed'
      /\ RowsArePrefix'
  <2>1. dbStep[s].status # "done" /\ row.status \notin {"pending", "in_progress"}
    BY <1>4, <1>5, <1>6
  <2>2. pc[r] \in InLoopPhase
    BY <1>1 DEF InLoopPhase
  <2>. QED
    BY <1>1, <1>5, <1>7, <1>8, <2>1, <2>2, RowWritten DEF IInv
<1>10. Shape'
  <2>1. UNCHANGED <<dbPlan, plan, cursor>> /\ pc' = [pc EXCEPT ![r] = "tally"]
    BY DEF StepReturns
  <2>2. dbStep'[Current(r)'].status \in Settled
    BY <1>1, <1>4, <1>5, <1>9, <2>1 DEF IInv, TypeOK, Current, Settled
  <2>. QED
    BY <1>1, <1>9, <2>1, <2>2, Looping DEF InLoopPhase
<1>. QED
  BY <1>4, <1>6, <1>8, <1>9, <1>10

LEMMA InvStep ==
  ASSUME ~Overlap
  PROVE  IInv /\ [Next]_vars => IInv'
<1>. SUFFICES ASSUME IInv, [Next]_vars PROVE IInv'
  OBVIOUS
<1>1. (TypeOK /\ CursorInRange)'
  BY TypeStep DEF IInv, TypeInv
<1>2. SUFFICES Shape'
  BY <1>1 DEF IInv, Shape
<1>3. CASE UNCHANGED vars
  BY <1>3 DEF vars, IInv, Shape, OneAtATime, IsLive, CopyIsCurrent, PlanIsOpen,
              CursorSplits, Current, DepsClosed, RowsArePrefix, DonePlanHasNoWorkLeft
<1>. SUFFICES ASSUME NEW r \in Runners,
                     Launch(r) \/ SetAbort(r) \/ Crash(r) \/ Advance(r)
              PROVE  Shape'
  BY <1>3 DEF Next
<1>. USE DEF db, local
<1>4. CASE SetAbort(r)
  BY <1>4 DEF SetAbort, IInv, Shape, OneAtATime, IsLive, CopyIsCurrent, PlanIsOpen,
              CursorSplits, Current, DepsClosed, RowsArePrefix, DonePlanHasNoWorkLeft
<1>5. CASE Crash(r)
  BY <1>5, Leaving DEF Crash, Executing
<1>6. CASE GetPlan(r) /\ dbPlan = "absent"
  <2>1. IsLive(r) /\ pc' = [pc EXCEPT ![r] = "returned"] /\ UNCHANGED <<dbPlan, dbStep>>
    BY <1>6 DEF GetPlan, IsLive, Executing, Return
  <2>. QED
    BY <2>1, Leaving DEF Executing
<1>7. CASE ListSteps(r) /\ plan[r] \in {"done", "abandoned"}
  <2>1. IsLive(r) /\ pc' = [pc EXCEPT ![r] = "returned"] /\ UNCHANGED <<dbPlan, dbStep>>
    BY <1>7 DEF ListSteps, IsLive, Executing, Return
  <2>. QED
    BY <2>1, Leaving DEF Executing
<1>8. CASE SeeAbort(r)
  BY <1>8, Leaving DEF SeeAbort, InLoop, IsLive, Executing, Return
<1>9. CASE StepRaises(r)
  BY <1>9, Leaving DEF StepRaises, IsLive, Executing
<1>10. CASE FailPlan(r)
  BY <1>10, Leaving DEF FailPlan, IsLive, Executing, Return
<1>11. CASE Finish(r)
  <2>1. mem[r] = dbStep /\ plan[r] = "in_progress"
    BY <1>11 DEF Finish, IInv, CopyIsCurrent, PlanIsOpen, InLoopPhase
  <2>2. FinalStatus(r) = "done" =>
          \A s \in Steps : dbStep[s].status \in {"done", "skipped", "blocked"}
    BY <2>1 DEF FinalStatus, IsPlanComplete, StatusOf
  <2>3. /\ IsLive(r) /\ pc' = [pc EXCEPT ![r] = "returned"]
        /\ UNCHANGED dbStep /\ dbPlan' = FinalStatus(r)
    BY <1>11 DEF Finish, IsLive, Executing, Return
  <2>. QED
    BY <2>2, <2>3, Leaving DEF Executing
<1>12. CASE Block(r)
  BY <1>12, BlockWrites
<1>13. CASE StartStep(r)
  BY <1>13, StartStepWrites
<1>14. CASE StepReturns(r)
  BY <1>14, StepReturnsWrites
<1>15. CASE SkipDone(r) \/ PassOver(r)
  <2>1. /\ pc[r] = "loop" /\ cursor[r] <= Len(Order) /\ NextStep(r)
        /\ mem[r][Current(r)].status \in Settled
        /\ UNCHANGED <<dbPlan, dbStep, pc, plan, mem>>
    BY <1>15 DEF SkipDone, PassOver, InLoop, MemStatus, Settled
  <2>2. mem[r] = dbStep /\ pc' = [pc EXCEPT ![r] = "loop"]
    BY <2>1 DEF IInv, CopyIsCurrent, InLoopPhase, TypeOK
  <2>. QED
    BY <2>1, <2>2, MovingOn DEF InLoopPhase
<1>16. CASE GoOn(r)
  <2>1. pc[r] = "tally" /\ cursor[r] <= Len(Order)
    BY <1>16 DEF GoOn, IInv, CursorInRange
  <2>2. dbStep[Current(r)].status \in Settled
    BY <2>1 DEF IInv, CursorSplits, InLoopPhase
  <2>. QED
    BY <1>16, <2>1, <2>2, MovingOn DEF GoOn, InLoopPhase
<1>17. CASE Launch(r)
  <2>1. /\ \A q \in Runners : ~IsLive(q)
        /\ pc' = [pc EXCEPT ![r] = "get_plan"]
        /\ UNCHANGED <<dbPlan, dbStep, plan, mem, cursor>>
    BY <1>17 DEF Launch
  <2>2. pc'[r] = "get_plan" /\ OneAtATime'
        /\ \A q \in Runners : q # r => pc'[q] \notin Executing
    BY <2>1, OthersRest DEF IInv
  <2>. QED
    BY <2>1, <2>2 DEF Shape, IInv, CopyIsCurrent, PlanIsOpen, CursorSplits, DepsClosed,
                      RowsArePrefix, DonePlanHasNoWorkLeft, Executing, InLoopPhase
<1>18. CASE GetPlan(r) /\ dbPlan # "absent"
  <2>1. /\ pc[r] = "get_plan" /\ pc' = [pc EXCEPT ![r] = "list_steps"]
        /\ plan' = [plan EXCEPT ![r] = dbPlan] /\ UNCHANGED <<dbPlan, dbStep>>
    BY <1>18 DEF GetPlan
  <2>2. pc'[r] = "list_steps" /\ OneAtATime' /\ plan'[r] = dbPlan'
        /\ \A q \in Runners : q # r => pc'[q] \notin Executing
    BY <2>1, OthersRest DEF IInv, IsLive, Executing, TypeOK
  <2>. QED
    BY <2>1, <2>2 DEF Shape, IInv, CopyIsCurrent, PlanIsOpen, CursorSplits, DepsClosed,
                      RowsArePrefix, DonePlanHasNoWorkLeft, Executing, InLoopPhase
<1>19. CASE ListSteps(r) /\ plan[r] \notin {"done", "abandoned"}
  <2>1. /\ pc[r] = "list_steps" /\ pc' = [pc EXCEPT ![r] = "mark"]
        /\ mem' = [mem EXCEPT ![r] = dbStep] /\ UNCHANGED <<dbPlan, dbStep, plan>>
    BY <1>19 DEF ListSteps
  <2>2. pc'[r] = "mark" /\ OneAtATime' /\ mem'[r] = dbStep'
        /\ \A q \in Runners : q # r => pc'[q] \notin Executing
    BY <2>1, OthersRest DEF IInv, IsLive, Executing, TypeOK
  <2>3. plan[r] = dbPlan /\ dbPlan \notin {"absent", "done"}
    BY <1>19, <2>1 DEF IInv, PlanIsOpen, TypeOK, PlanStatus
  <2>. QED
    BY <2>1, <2>2, <2>3 DEF Shape, IInv, CopyIsCurrent, PlanIsOpen, CursorSplits,
         DepsClosed, RowsArePrefix, DonePlanHasNoWorkLeft, Executing, InLoopPhase
<1>20. CASE MarkInProgress(r)
  <2>1. /\ pc[r] = "mark" /\ pc' = [pc EXCEPT ![r] = "loop"]
        /\ plan' = [plan EXCEPT ![r] = "in_progress"] /\ dbPlan' = "in_progress"
        /\ UNCHANGED <<dbStep, mem, cursor>>
    BY <1>20 DEF MarkInProgress
  <2>2. pc'[r] = "loop" /\ OneAtATime' /\ plan'[r] = "in_progress"
        /\ \A q \in Runners : q # r => pc'[q] \notin Executing
    BY <2>1, OthersRest DEF IInv, IsLive, Executing, TypeOK
  <2>3. mem'[r] = dbStep' /\ cursor'[r] = 1
    BY <2>1 DEF IInv, CopyIsCurrent, CursorInRange, InLoopPhase
  <2>4. CopyIsCurrent' /\ PlanIsOpen' /\ CursorSplits'
    BY <2>1, <2>2, <2>3, OrderType DEF CopyIsCurrent, PlanIsOpen, CursorSplits,
                                       Executing, InLoopPhase
  <2>. QED
    BY <2>1, <2>2, <2>4 DEF Shape, IInv, DepsClosed, RowsArePrefix, DonePlanHasNoWorkLeft
<1>. QED
  BY <1>4, <1>5, <1>6, <1>7, <1>8, <1>9, <1>10, <1>11, <1>12, <1>13, <1>14, <1>15,
     <1>16, <1>17, <1>18, <1>19, <1>20 DEF Advance

-----------------------------------------------------------------------------
(* The theorems.                                                            *)

\* With one execution of the plan at a time, IInv holds throughout.
THEOREM Invariant ==
  ASSUME ~Overlap
  PROVE  Spec => []IInv
<1>. QED
  BY InvInit, InvStep, PTL DEF Spec

\* No step is started before its deps are done, across crashes and resumes.
THEOREM DepsAlwaysClosed ==
  ASSUME ~Overlap
  PROVE  Spec => []DepsClosed
<1>1. IInv => DepsClosed
  BY DEF IInv
<1>. QED
  BY <1>1, Invariant, PTL

\* Whatever is interrupted, the rows are a prefix of the execution order.
THEOREM RowsAlwaysPrefix ==
  ASSUME ~Overlap
  PROVE  Spec => []RowsArePrefix
<1>1. IInv => RowsArePrefix
  BY DEF IInv
<1>. QED
  BY <1>1, Invariant, PTL

\* A plan recorded as done has no step left to run.
THEOREM DonePlanIsFinished ==
  ASSUME ~Overlap
  PROVE  Spec => []DonePlanHasNoWorkLeft
<1>1. IInv => DonePlanHasNoWorkLeft
  BY DEF IInv
<1>. QED
  BY <1>1, Invariant, PTL

\* Every step of the runners is a step of the ledger or none.
LEMMA LedgerStep == IInv /\ [Next]_vars => [Ledger!Next]_(Ledger!ledger)
<1>. SUFFICES ASSUME IInv, [Next]_vars PROVE [Ledger!Next]_(Ledger!ledger)
  OBVIOUS
<1>1. CASE UNCHANGED <<dbPlan, dbStep>>
  BY <1>1 DEF Ledger!ledger
<1>. SUFFICES ASSUME NEW r \in Runners,
                     Launch(r) \/ SetAbort(r) \/ Crash(r) \/ Advance(r),
                     ~UNCHANGED <<dbPlan, dbStep>>
              PROVE  Ledger!Next
  BY <1>1 DEF Next, vars
<1>. USE DEF db
<1>2. CASE MarkInProgress(r)
  BY <1>2 DEF MarkInProgress, IInv, PlanIsOpen, Ledger!Next, Ledger!Open
<1>3. CASE FailPlan(r)
  <2>1. dbPlan = "in_progress" /\ dbPlan' = "failed" /\ UNCHANGED dbStep
    BY <1>3 DEF FailPlan, IInv, PlanIsOpen, InLoopPhase
  <2>. QED
    BY <2>1 DEF Ledger!Next, Ledger!Close
<1>4. CASE Finish(r)
  <2>1. /\ dbPlan = "in_progress" /\ plan[r] = "in_progress" /\ mem[r] = dbStep
        /\ dbPlan' = FinalStatus(r) /\ UNCHANGED dbStep
    BY <1>4 DEF Finish, IInv, PlanIsOpen, CopyIsCurrent, InLoopPhase
  <2>2. dbPlan' = "failed" \/ (dbPlan' = "done" /\ IsPlanComplete(StatusOf(dbStep)))
    BY <2>1 DEF FinalStatus
  <2>. QED
    BY <2>1, <2>2 DEF StatusOf, IsPlanComplete, Ledger!Next, Ledger!Close, Ledger!IsPlanComplete
<1>5. ASSUME pc[r] \in InLoopPhase, cursor[r] <= Len(Order)
      PROVE  dbPlan = "in_progress" /\ Current(r) \in Steps
  BY <1>5, CurrentType DEF IInv, PlanIsOpen
<1>6. CASE Block(r)
  <2>1. dbPlan = "in_progress" /\ Current(r) \in Steps /\ UNCHANGED dbPlan
    BY <1>5, <1>6 DEF Block, InLoop, InLoopPhase
  <2>2. Ledger!Block(Current(r))
    BY <1>6, <2>1, BlockWrites DEF Ledger!Block, Ledger!Ready
  <2>. QED
    BY <2>1, <2>2 DEF Ledger!Next
<1>7. CASE StartStep(r)
  <2>1. dbPlan = "in_progress" /\ Current(r) \in Steps /\ UNCHANGED dbPlan
    BY <1>5, <1>7 DEF StartStep, InLoop, InLoopPhase
  <2>2. Ledger!Attempt(Current(r))
    BY <1>7, <2>1, StartStepWrites DEF Ledger!Attempt, Ledger!Ready
  <2>. QED
    BY <2>1, <2>2 DEF Ledger!Next
<1>8. CASE StepReturns(r)
  <2>1. dbPlan = "in_progress" /\ Current(r) \in Steps /\ UNCHANGED dbPlan
    BY <1>5, <1>8 DEF StepReturns, InLoopPhase, IInv, CursorInRange
  <2>2. Ledger!Settle(Current(r))
    BY <1>8, <2>1, StepReturnsWrites DEF Ledger!Settle
  <2>. QED
    BY <2>1, <2>2 DEF Ledger!Next
<1>9. Launch(r) \/ SetAbort(r) \/ Crash(r) \/ GetPlan(r) \/ ListSteps(r) \/ SeeAbort(r)
      \/ SkipDone(r) \/ PassOver(r) \/ StepRaises(r) \/ GoOn(r)
        => UNCHANGED <<dbPlan, dbStep>>
  BY DEF Launch, SetAbort, Crash, GetPlan, ListSteps, SeeAbort, SkipDone, PassOver,
         StepRaises, GoOn
<1>. QED
  BY <1>2, <1>3, <1>4, <1>6, <1>7, <1>8, <1>9 DEF Advance

\* The runners, with their copies, crashes and resumes, implement the ledger.
THEOREM RunnersImplementLedger ==
  ASSUME ~Overlap
  PROVE  Spec => ImplementsLedger
<1>1. Init => Ledger!Init
  BY DEF Init, NewSteps, NewStep, Ledger!Init
<1>. QED
  BY <1>1, Invariant, LedgerStep, PTL DEF Spec, ImplementsLedger, Ledger!Spec

\* The ledger never touches the row of a step that is done, so no run, resume
\* or crash does.
THEOREM DoneStaysDone ==
  ASSUME ~Overlap
  PROVE  Spec => DoneIsFinal
<1>1. IInv /\ [Next]_vars =>
        \A s \in Steps : dbStep[s].status = "done" => dbStep'[s] = dbStep[s]
  <2>. SUFFICES ASSUME IInv, [Next]_vars, NEW s \in Steps, dbStep[s].status = "done"
                PROVE  dbStep'[s] = dbStep[s]
    OBVIOUS
  <2>1. [Ledger!Next]_(Ledger!ledger)
    BY LedgerStep
  <2>2. dbStep \in [Steps -> StepRow]
    BY DEF IInv, TypeOK
  <2>3. ASSUME NEW t \in Steps, Ledger!Attempt(t) \/ Ledger!Settle(t) \/ Ledger!Block(t)
        PROVE  dbStep'[s] = dbStep[s]
    <3>1. t # s
      BY <2>3 DEF Ledger!Attempt, Ledger!Settle, Ledger!Block
    <3>. QED
      BY <2>2, <2>3, <3>1 DEF Ledger!Attempt, Ledger!Settle, Ledger!Block
  <2>. QED
    BY <2>1, <2>3 DEF Ledger!Next, Ledger!Open, Ledger!Close, Ledger!ledger
<1>. QED
  BY <1>1, Invariant, PTL DEF Spec, DoneIsFinal

-----------------------------------------------------------------------------
(* What a run counts are the rows of the steps it has passed.               *)

\* c counts the done and failed rows of the steps in P.
CountsRows(c, P, rows) ==
  /\ c.completed = Cardinality({s \in P : rows[s].status = "done"})
  /\ c.failed = Cardinality({s \in P : rows[s].status = "failed"})

Passed(r) == {Order[i] : i \in 1 .. cursor[r] - 1}

CountsAreRows ==
  \A r \in Runners :
    /\ pc[r] \in InLoopPhase => CountsRows(counts[r], Passed(r), dbStep)
    /\ pc[r] \notin InLoopPhase => counts[r].completed = 0 /\ counts[r].failed = 0

CountInv == CountsAreRows /\ dbPlan # "abandoned"

LEMMA OneMoreCounted ==
  ASSUME NEW P \in SUBSET Steps, NEW s \in Steps, s \notin P, NEW rows, NEW more,
         \A t \in P : more[t] = rows[t],
         NEW c, CountsRows(c, P, rows), NEW d,
         d.completed = IF more[s].status = "done" THEN c.completed + 1 ELSE c.completed,
         d.failed = IF more[s].status = "failed" THEN c.failed + 1 ELSE c.failed
  PROVE  CountsRows(d, P \cup {s}, more)
<1>1. ASSUME NEW status
      PROVE  Cardinality({t \in P \cup {s} : more[t].status = status})
               = IF more[s].status = status
                 THEN Cardinality({t \in P : rows[t].status = status}) + 1
                 ELSE Cardinality({t \in P : rows[t].status = status})
  <2> DEFINE X == {t \in P : rows[t].status = status}
             Y == {t \in P \cup {s} : more[t].status = status}
  <2>1. IsFiniteSet(X) /\ s \notin X
    BY OrderAssumption, FS_Subset
  <2>2. Y = IF more[s].status = status THEN X \cup {s} ELSE X
    OBVIOUS
  <2> HIDE DEF X, Y
  <2>3. Cardinality(X \cup {s}) = Cardinality(X) + 1
    BY <2>1, FS_AddElement
  <2>4. Cardinality(Y) = IF more[s].status = status THEN Cardinality(X) + 1 ELSE Cardinality(X)
    BY <2>2, <2>3
  <2>. QED
    BY <2>4 DEF X, Y
<1>. QED
  BY <1>1 DEF CountsRows

LEMMA SameCounted ==
  ASSUME NEW P, NEW rows, NEW more, \A t \in P : more[t] = rows[t],
         NEW c, CountsRows(c, P, rows), NEW d,
         d.completed = c.completed, d.failed = c.failed
  PROVE  CountsRows(d, P, more)
<1>1. \A status : {t \in P : more[t].status = status} = {t \in P : rows[t].status = status}
  OBVIOUS
<1>. QED
  BY <1>1 DEF CountsRows

\* Counting some of the steps counts no more than there are.
LEMMA CountsAtMost ==
  ASSUME NEW P \in SUBSET Steps, NEW rows, NEW c, CountsRows(c, P, rows)
  PROVE  c.completed <= NumberOf(rows, "done") /\ c.failed <= NumberOf(rows, "failed")
<1>1. ASSUME NEW status
      PROVE  Cardinality({s \in P : rows[s].status = status}) <= NumberOf(rows, status)
  <2>1. IsFiniteSet({s \in Steps : rows[s].status = status})
    BY OrderAssumption, FS_Subset
  <2>2. {s \in P : rows[s].status = status} \in SUBSET {s \in Steps : rows[s].status = status}
    OBVIOUS
  <2>. QED
    BY <2>1, <2>2, FS_Subset DEF NumberOf
<1>. QED
  BY <1>1 DEF CountsRows

LEMMA PassedType ==
  ASSUME TypeOK, NEW r \in Runners
  PROVE  /\ Passed(r) \in SUBSET Steps
         /\ cursor[r] = 1 => Passed(r) = {}
         /\ cursor[r] > Len(Order) => Passed(r) = Steps
         /\ cursor[r] <= Len(Order) => Current(r) \notin Passed(r)
<1>1. cursor[r] \in 1 .. Len(Order) + 1 /\ Len(Order) \in Nat
  BY OrderType DEF TypeOK
<1>2. \A i \in 1 .. cursor[r] - 1 : i \in 1 .. Len(Order) /\ i < cursor[r]
  BY <1>1
<1>3. Passed(r) \in SUBSET Steps
  BY <1>2, OrderType DEF Passed
<1>4. ASSUME cursor[r] > Len(Order) PROVE Passed(r) = Steps
  <2>1. 1 .. cursor[r] - 1 = 1 .. Len(Order)
    BY <1>1, <1>4
  <2>2. \A s \in Steps : \E i \in 1 .. Len(Order) : Order[i] = s
    BY OrderAssumption
  <2>. QED
    BY <1>3, <2>1, <2>2 DEF Passed
<1>5. ASSUME cursor[r] <= Len(Order) PROVE Current(r) \notin Passed(r)
  <2>1. cursor[r] \in 1 .. Len(Order)
    BY <1>1, <1>5
  <2>2. ASSUME NEW i \in 1 .. cursor[r] - 1 PROVE Order[i] # Current(r)
    <3>1. i \in 1 .. Len(Order) /\ i # cursor[r]
      BY <1>1, <1>2
    <3>. QED
      BY <2>1, <3>1, OrderInjective DEF Current
  <2>. QED
    BY <2>2 DEF Passed
<1>6. ASSUME cursor[r] = 1 PROVE Passed(r) = {}
  BY <1>6 DEF Passed
<1>. QED
  BY <1>3, <1>4, <1>5, <1>6

LEMMA PassedMore ==
  ASSUME TypeOK, NEW r \in Runners, cursor[r] <= Len(Order), NextStep(r)
  PROVE  Passed(r)' = Passed(r) \cup {Current(r)}
<1>1. cursor[r] \in 1 .. Len(Order) /\ cursor'[r] = cursor[r] + 1
  BY CurrentType DEF TypeOK, NextStep
<1>2. 1 .. cursor'[r] - 1 = (1 .. cursor[r] - 1) \cup {cursor[r]}
  BY <1>1, OrderType
<1>. QED
  BY <1>2 DEF Passed, Current

\* Only the runner that acts is in its loop.
LEMMA OthersCounted ==
  ASSUME IInv, CountsAreRows, NEW r \in Runners,
         IsLive(r) \/ \A q \in Runners : ~IsLive(q),
         \A q \in Runners : q # r => pc'[q] = pc[q] /\ counts'[q] = counts[q],
         \/ pc'[r] \in InLoopPhase /\ CountsRows(counts'[r], Passed(r)', dbStep')
         \/ pc'[r] \notin InLoopPhase /\ counts'[r].completed = 0 /\ counts'[r].failed = 0
  PROVE  CountsAreRows'
<1>1. ASSUME NEW q \in Runners, q # r
      PROVE  /\ pc'[q] \notin InLoopPhase
             /\ counts'[q].completed = 0 /\ counts'[q].failed = 0
  <2>1. pc[q] \notin InLoopPhase
    BY <1>1 DEF IInv, OneAtATime, IsLive, Executing, InLoopPhase
  <2>. QED
    BY <1>1, <2>1 DEF CountsAreRows
<1>. QED
  BY <1>1 DEF CountsAreRows

LEMMA TallyCounts ==
  ASSUME TypeOK, NEW r \in Runners
  PROVE  /\ Tallied(r).completed = IF MemStatus(r, Current(r)) = "done"
                                   THEN counts[r].completed + 1 ELSE counts[r].completed
         /\ Tallied(r).failed = IF MemStatus(r, Current(r)) = "failed"
                                THEN counts[r].failed + 1 ELSE counts[r].failed
<1>1. counts[r] \in Counts
  BY DEF TypeOK
<1>. QED
  BY <1>1 DEF Tallied, Counts

\* A step that ends the run, or is not of the loop, counts nothing.
LEMMA CountsForgotten ==
  ASSUME IInv, CountsAreRows, NEW r \in Runners, Forget(r), IsLive(r),
         NEW x, x \notin InLoopPhase, pc' = [pc EXCEPT ![r] = x]
  PROVE  CountsAreRows'
<1>1. pc'[r] = x /\ counts'[r] = NoCounts
      /\ \A q \in Runners : q # r => pc'[q] = pc[q] /\ counts'[q] = counts[q]
  BY DEF IInv, TypeOK, Forget
<1>2. counts'[r].completed = 0 /\ counts'[r].failed = 0
  BY <1>1 DEF NoCounts
<1>. QED
  BY <1>1, <1>2, OthersCounted

LEMMA CountsOutsideLoop ==
  ASSUME IInv, CountsAreRows, NEW r \in Runners, pc[r] \notin InLoopPhase,
         IsLive(r) \/ \A q \in Runners : ~IsLive(q),
         NEW x, x \notin InLoopPhase, pc' = [pc EXCEPT ![r] = x], UNCHANGED counts
  PROVE  CountsAreRows'
<1>1. pc'[r] = x /\ \A q \in Runners : q # r => pc'[q] = pc[q]
  BY DEF IInv, TypeOK
<1>2. counts'[r].completed = 0 /\ counts'[r].failed = 0
  BY DEF CountsAreRows
<1>. QED
  BY <1>1, <1>2, OthersCounted

\* Within the loop's body: the rows of the steps passed stay, and the counts.
LEMMA CountsStay ==
  ASSUME IInv, CountsAreRows, NEW r \in Runners, pc[r] \in InLoopPhase,
         NEW x \in InLoopPhase, pc' = [pc EXCEPT ![r] = x], UNCHANGED cursor,
         \A t \in Passed(r) : dbStep'[t] = dbStep[t],
         \A q \in Runners : q # r => counts'[q] = counts[q],
         counts'[r].completed = counts[r].completed, counts'[r].failed = counts[r].failed
  PROVE  CountsAreRows'
<1>1. pc'[r] = x /\ \A q \in Runners : q # r => pc'[q] = pc[q]
  BY DEF IInv, TypeOK
<1>2. Passed(r)' = Passed(r)
  BY DEF Passed
<1>3. CountsRows(counts[r], Passed(r), dbStep)
  BY DEF CountsAreRows
<1>4. CountsRows(counts'[r], Passed(r), dbStep')
  BY <1>3, SameCounted
<1>5. IsLive(r)
  BY DEF IsLive, InLoopPhase, Executing
<1>. QED
  BY <1>1, <1>2, <1>4, <1>5, OthersCounted

\* The cursor moves on, and the step is counted as its row says.
LEMMA CountsMoveOn ==
  ASSUME IInv, CountsAreRows, NEW r \in Runners, pc[r] \in InLoopPhase,
         pc' = [pc EXCEPT ![r] = "loop"], cursor[r] <= Len(Order), NextStep(r),
         \A t \in Passed(r) : dbStep'[t] = dbStep[t],
         \A q \in Runners : q # r => counts'[q] = counts[q],
         counts'[r].completed = IF dbStep'[Current(r)].status = "done"
                                THEN counts[r].completed + 1 ELSE counts[r].completed,
         counts'[r].failed = IF dbStep'[Current(r)].status = "failed"
                             THEN counts[r].failed + 1 ELSE counts[r].failed
  PROVE  CountsAreRows'
<1>1. pc'[r] = "loop" /\ \A q \in Runners : q # r => pc'[q] = pc[q]
  BY DEF IInv, TypeOK
<1>2. Passed(r)' = Passed(r) \cup {Current(r)}
  BY PassedMore DEF IInv
<1>3. Passed(r) \in SUBSET Steps /\ Current(r) \notin Passed(r) /\ Current(r) \in Steps
  BY PassedType, CurrentType DEF IInv
<1>4. CountsRows(counts[r], Passed(r), dbStep)
  BY DEF CountsAreRows
<1>5. CountsRows(counts'[r], Passed(r) \cup {Current(r)}, dbStep')
  BY <1>3, <1>4, OneMoreCounted
<1>6. IsLive(r) /\ "loop" \in InLoopPhase
  BY DEF IsLive, InLoopPhase, Executing
<1>. QED
  BY <1>1, <1>2, <1>5, <1>6, OthersCounted

LEMMA CountInit == Init => CountInv
<1> SUFFICES ASSUME Init PROVE CountInv
  OBVIOUS
<1>1. \A r \in Runners : pc[r] = "idle" /\ counts[r].completed = 0 /\ counts[r].failed = 0
  BY DEF Init, NoCounts
<1>. QED
  BY <1>1 DEF Init, CountInv, CountsAreRows, InLoopPhase

LEMMA CountStep ==
  ASSUME ~Overlap, IInv, CountInv, [Next]_vars
  PROVE  CountInv'
<1> USE DEF CountInv, db, local
<1>1. CASE UNCHANGED vars
  BY <1>1 DEF vars, CountsAreRows, Passed
<1> SUFFICES ASSUME NEW r \in Runners,
                    Launch(r) \/ SetAbort(r) \/ Crash(r) \/ Advance(r)
             PROVE  CountInv'
  BY <1>1 DEF Next
<1>2. CASE SetAbort(r)
  BY <1>2 DEF SetAbort, CountsAreRows, Passed
<1>3. CASE Launch(r)
  <2>1. /\ \A q \in Runners : ~IsLive(q)
        /\ pc' = [pc EXCEPT ![r] = "get_plan"] /\ UNCHANGED <<dbPlan, counts>>
        /\ pc[r] \notin InLoopPhase
    BY <1>3 DEF Launch, IsLive, Executing, InLoopPhase
  <2>2. "get_plan" \notin InLoopPhase
    BY DEF InLoopPhase
  <2>. QED
    BY <2>1, <2>2, CountsOutsideLoop
<1>4. CASE Crash(r) \/ StepRaises(r)
  <2>1. /\ IsLive(r) /\ Forget(r) /\ dbPlan' = dbPlan
        /\ \/ pc' = [pc EXCEPT ![r] = "crashed"]
           \/ pc' = [pc EXCEPT ![r] = "raised"]
    BY <1>4 DEF Crash, StepRaises, IsLive, Executing
  <2>2. "crashed" \notin InLoopPhase /\ "raised" \notin InLoopPhase
    BY DEF InLoopPhase
  <2>. QED
    BY <2>1, <2>2, CountsForgotten
<1>5. ASSUME IsLive(r), NEW status, NEW error, NEW c, Return(r, status, error, c)
      PROVE  CountsAreRows'
  <2>1. Forget(r) /\ pc' = [pc EXCEPT ![r] = "returned"] /\ "returned" \notin InLoopPhase
    BY <1>5 DEF Return, InLoopPhase
  <2>. QED
    BY <1>5, <2>1, CountsForgotten
<1>6. CASE GetPlan(r)
  <2>1. IsLive(r) /\ pc[r] \notin InLoopPhase /\ dbPlan' = dbPlan
    BY <1>6 DEF GetPlan, IsLive, Executing, InLoopPhase
  <2>2. CASE dbPlan = "absent"
    BY <1>5, <1>6, <2>1, <2>2 DEF GetPlan
  <2>3. CASE dbPlan # "absent"
    <3>1. pc' = [pc EXCEPT ![r] = "list_steps"] /\ UNCHANGED counts
          /\ "list_steps" \notin InLoopPhase
      BY <1>6, <2>3 DEF GetPlan, InLoopPhase
    <3>. QED
      BY <2>1, <3>1, CountsOutsideLoop
  <2>. QED
    BY <2>2, <2>3
<1>7. CASE ListSteps(r)
  <2>1. IsLive(r) /\ pc[r] \notin InLoopPhase /\ dbPlan' = dbPlan
    BY <1>7 DEF ListSteps, IsLive, Executing, InLoopPhase
  <2>2. CASE plan[r] \in {"done", "abandoned"}
    BY <1>5, <1>7, <2>1, <2>2 DEF ListSteps
  <2>3. CASE plan[r] \notin {"done", "abandoned"}
    <3>1. pc' = [pc EXCEPT ![r] = "mark"] /\ UNCHANGED counts /\ "mark" \notin InLoopPhase
      BY <1>7, <2>3 DEF ListSteps, InLoopPhase
    <3>. QED
      BY <2>1, <3>1, CountsOutsideLoop
  <2>. QED
    BY <2>2, <2>3
<1>8. CASE MarkInProgress(r)
  <2>1. /\ pc' = [pc EXCEPT ![r] = "loop"] /\ UNCHANGED <<counts, cursor>>
        /\ IsLive(r) /\ pc[r] \notin InLoopPhase /\ dbPlan' = "in_progress"
        /\ cursor[r] = 1
    BY <1>8 DEF MarkInProgress, IsLive, Executing, InLoopPhase, IInv, CursorInRange
  <2>2. Passed(r)' = {}
    BY <2>1, PassedType DEF IInv, Passed
  <2>3. CountsRows(counts'[r], {}, dbStep')
    <3>1. counts'[r].completed = 0 /\ counts'[r].failed = 0
      BY <2>1 DEF CountsAreRows
    <3>2. \A status : {s \in {} : dbStep'[s].status = status} = {}
      OBVIOUS
    <3>. QED
      BY <3>1, <3>2, FS_EmptySet DEF CountsRows
  <2>4. pc'[r] \in InLoopPhase /\ \A q \in Runners : q # r => pc'[q] = pc[q]
    BY <2>1 DEF IInv, TypeOK, InLoopPhase
  <2>. QED
    BY <2>1, <2>2, <2>3, <2>4, OthersCounted
<1>9. CASE SeeAbort(r)
  BY <1>5, <1>9 DEF SeeAbort, InLoop, IsLive, Executing
<1>10. CASE FailPlan(r)
  BY <1>5, <1>10 DEF FailPlan, IsLive, Executing
<1>11. CASE Finish(r)
  <2>1. plan[r] = "in_progress"
    BY <1>11 DEF Finish, IInv, PlanIsOpen, InLoopPhase
  <2>. QED
    BY <1>5, <1>11, <2>1 DEF Finish, FinalStatus, IsLive, Executing
<1>12. CASE SkipDone(r) \/ PassOver(r)
  <2>1. /\ pc[r] = "loop" /\ cursor[r] <= Len(Order) /\ NextStep(r)
        /\ UNCHANGED <<dbPlan, dbStep, pc>>
    BY <1>12 DEF SkipDone, PassOver, InLoop
  <2>2. mem[r] = dbStep /\ pc' = [pc EXCEPT ![r] = "loop"] /\ pc[r] \in InLoopPhase
    BY <2>1 DEF IInv, CopyIsCurrent, InLoopPhase, TypeOK
  <2>3. /\ \A q \in Runners : q # r => counts'[q] = counts[q]
        /\ counts'[r].completed = IF dbStep'[Current(r)].status = "done"
                                  THEN counts[r].completed + 1 ELSE counts[r].completed
        /\ counts'[r].failed = IF dbStep'[Current(r)].status = "failed"
                               THEN counts[r].failed + 1 ELSE counts[r].failed
    <3>1. counts \in [Runners -> Counts] /\ counts[r] \in Counts
      BY DEF IInv, TypeOK
    <3>2. CASE SkipDone(r)
      <4>1. dbStep'[Current(r)].status = "done"
        BY <2>1, <2>2, <3>2 DEF SkipDone, MemStatus
      <4>2. counts' = [counts EXCEPT ![r].completed = @ + 1]
        BY <3>2 DEF SkipDone
      <4>. QED
        BY <3>1, <4>1, <4>2 DEF Counts
    <3>3. CASE PassOver(r)
      BY <2>1, <2>2, <3>3 DEF PassOver, MemStatus
    <3>. QED
      BY <1>12, <3>2, <3>3
  <2>. QED
    BY <2>1, <2>2, <2>3, CountsMoveOn
<1>13. CASE Block(r)
  <2>1. /\ pc[r] = "loop" /\ cursor[r] <= Len(Order) /\ NextStep(r)
        /\ UNCHANGED <<dbPlan, pc, counts>>
    BY <1>13 DEF Block, InLoop
  <2>2. pc' = [pc EXCEPT ![r] = "loop"] /\ pc[r] \in InLoopPhase /\ Current(r) \in Steps
        /\ Current(r) \notin Passed(r) /\ Passed(r) \in SUBSET Steps
    BY <2>1, PassedType, CurrentType DEF IInv, InLoopPhase, TypeOK
  <2>3. dbStep' = [dbStep EXCEPT ![Current(r)].status = "blocked"]
        /\ dbStep \in [Steps -> StepRow] /\ dbStep[Current(r)] \in StepRow
    BY <1>13, <2>2, BlockWrites DEF IInv, TypeOK
  <2>4. dbStep'[Current(r)].status = "blocked" /\ \A t \in Passed(r) : dbStep'[t] = dbStep[t]
    BY <2>2, <2>3 DEF StepRow
  <2>. QED
    BY <2>1, <2>2, <2>4, CountsMoveOn
<1>14. CASE StartStep(r)
  <2>1. /\ pc[r] = "loop" /\ cursor[r] <= Len(Order)
        /\ pc' = [pc EXCEPT ![r] = "running"] /\ UNCHANGED <<dbPlan, cursor, counts>>
    BY <1>14 DEF StartStep, InLoop
  <2>2. pc[r] \in InLoopPhase /\ "running" \in InLoopPhase /\ Current(r) \in Steps
        /\ Current(r) \notin Passed(r) /\ Passed(r) \in SUBSET Steps
    BY <2>1, PassedType, CurrentType DEF IInv, InLoopPhase
  <2>3. \A t \in Passed(r) : dbStep'[t] = dbStep[t]
    BY <1>14, <2>2, StartStepWrites DEF IInv, TypeOK
  <2>. QED
    BY <2>1, <2>2, <2>3, CountsStay
<1>15. CASE StepReturns(r)
  <2>1. /\ pc[r] = "running" /\ cursor[r] <= Len(Order)
        /\ pc' = [pc EXCEPT ![r] = "tally"] /\ UNCHANGED <<dbPlan, cursor>>
    BY <1>15 DEF StepReturns, IInv, CursorInRange
  <2>2. pc[r] \in InLoopPhase /\ "tally" \in InLoopPhase /\ Current(r) \in Steps
        /\ Current(r) \notin Passed(r) /\ Passed(r) \in SUBSET Steps
    BY <2>1, PassedType, CurrentType DEF IInv, InLoopPhase
  <2>3. \A t \in Passed(r) : dbStep'[t] = dbStep[t]
    BY <1>15, <2>2, StepReturnsWrites DEF IInv, TypeOK
  <2>4. PICK used \in StepTurns : counts' = [counts EXCEPT ![r].turns = @ + used]
    BY <1>15 DEF StepReturns
  <2>5. /\ \A q \in Runners : q # r => counts'[q] = counts[q]
        /\ counts'[r].completed = counts[r].completed /\ counts'[r].failed = counts[r].failed
    BY <2>4 DEF IInv, TypeOK, Counts
  <2>. QED
    BY <2>1, <2>2, <2>3, <2>5, CountsStay
<1>16. CASE GoOn(r)
  <2>1. /\ pc[r] = "tally" /\ cursor[r] <= Len(Order) /\ NextStep(r)
        /\ pc' = [pc EXCEPT ![r] = "loop"] /\ UNCHANGED <<dbPlan, dbStep>>
        /\ counts' = [counts EXCEPT ![r] = Tallied(r)]
    BY <1>16 DEF GoOn, IInv, CursorInRange
  <2>2. pc[r] \in InLoopPhase /\ mem[r] = dbStep
    BY <2>1 DEF IInv, CopyIsCurrent, InLoopPhase
  <2>3. /\ \A q \in Runners : q # r => counts'[q] = counts[q]
        /\ counts'[r] = Tallied(r)
    BY <2>1 DEF IInv, TypeOK
  <2>4. /\ Tallied(r).completed = IF dbStep'[Current(r)].status = "done"
                                  THEN counts[r].completed + 1 ELSE counts[r].completed
        /\ Tallied(r).failed = IF dbStep'[Current(r)].status = "failed"
                               THEN counts[r].failed + 1 ELSE counts[r].failed
    BY <2>1, <2>2, TallyCounts DEF IInv, MemStatus
  <2>. QED
    BY <2>1, <2>2, <2>3, <2>4, CountsMoveOn
<1>. QED
  BY <1>2, <1>3, <1>4, <1>6, <1>7, <1>8, <1>9, <1>10, <1>11, <1>12, <1>13, <1>14, <1>15, <1>16
  DEF Advance

\* The theorem behind the results: what a run counts are the rows of the steps
\* it has passed, and no plan is ever abandoned in the rows.
THEOREM CountsAlwaysAreRows ==
  ASSUME ~Overlap
  PROVE  Spec => []CountInv
<1>. QED
  BY CountInit, CountStep, Invariant, PTL DEF Spec

\* What a finished run reports.
LEMMA FinishAgrees ==
  ASSUME IInv, CountInv, NEW r \in Runners, Finish(r)
  PROVE  LET res == result'[r] IN
         /\ res.error = "none" /\ res.status = dbPlan' /\ res.status \in {"done", "failed"}
         /\ res.completed = NumberOf(dbStep', "done")
         /\ res.failed = NumberOf(dbStep', "failed")
<1>1. /\ pc[r] \in InLoopPhase /\ cursor[r] > Len(Order) /\ dbPlan' = FinalStatus(r)
      /\ UNCHANGED dbStep
      /\ result'[r] = [status |-> FinalStatus(r), error |-> "none",
                       completed |-> counts[r].completed, failed |-> counts[r].failed]
  BY DEF Finish, Return, IInv, TypeOK, InLoopPhase
<1>2. Passed(r) = Steps /\ mem[r] = dbStep
  BY <1>1, PassedType DEF IInv, CopyIsCurrent
<1>3. CountsRows(counts[r], Steps, dbStep)
  BY <1>1, <1>2 DEF CountInv, CountsAreRows
<1>4. counts[r].completed = NumberOf(dbStep, "done") /\ counts[r].failed = NumberOf(dbStep, "failed")
  BY <1>3 DEF CountsRows, NumberOf
<1>5. FinalStatus(r) \in {"done", "failed"}
  <2>1. CASE IsPlanComplete(StatusOf(mem[r]))
    BY <2>1 DEF FinalStatus
  <2>2. CASE ~IsPlanComplete(StatusOf(mem[r]))
    <3>1. PICK s \in Steps : dbStep[s].status \notin {"skipped", "blocked", "done"}
      BY <1>2, <2>2 DEF IsPlanComplete, StatusOf
    <3>2. PICK i \in 1 .. cursor[r] - 1 : Order[i] = s
      BY <1>2 DEF Passed
    <3>3. i \in 1 .. Len(Order) /\ i < cursor[r]
      BY <3>2, OrderType DEF IInv, TypeOK
    <3>4. dbStep[s].status \in Settled
      BY <1>1, <3>2, <3>3 DEF IInv, CursorSplits
    <3>5. dbStep[s].status = "failed"
      BY <3>1, <3>4 DEF Settled
    <3> DEFINE F == {t \in Steps : dbStep[t].status = "failed"}
    <3>6. IsFiniteSet(F) /\ F # {}
      BY <3>5, OrderAssumption, FS_Subset
    <3>7. Cardinality(F) # 0 /\ Cardinality(F) \in Nat
      BY <3>6, FS_EmptySet, FS_CardinalityType
    <3>8. counts[r].failed > 0
      BY <1>4, <3>7 DEF NumberOf
    <3>. QED
      BY <2>2, <3>8 DEF FinalStatus
  <2>. QED
    BY <2>1, <2>2
<1>. QED
  BY <1>1, <1>4, <1>5

\* What a run reports that was cut short.
LEMMA FailPlanAgrees ==
  ASSUME IInv, CountInv, NEW r \in Runners, FailPlan(r)
  PROVE  LET res == result'[r] IN
         /\ res.error \in {"attempts", "turns"} /\ res.status = "failed" /\ dbPlan' = "failed"
         /\ res.completed <= NumberOf(dbStep', "done")
         /\ res.failed <= NumberOf(dbStep', "failed")
<1> DEFINE error == IF OutOfAttempts(r) THEN "attempts" ELSE "turns"
<1>1. /\ pc[r] = "tally" /\ dbPlan' = "failed" /\ UNCHANGED dbStep
      /\ Return(r, "failed", error, Tallied(r))
  BY DEF FailPlan
<1>2. result'[r] = [status |-> "failed", error |-> error,
                    completed |-> Tallied(r).completed, failed |-> Tallied(r).failed]
  BY <1>1 DEF Return, IInv, TypeOK
<1>3. pc[r] \in InLoopPhase /\ mem[r] = dbStep /\ cursor[r] <= Len(Order)
  BY <1>1 DEF IInv, CopyIsCurrent, InLoopPhase, CursorInRange
<1>4. Passed(r) \in SUBSET Steps /\ Current(r) \notin Passed(r) /\ Current(r) \in Steps
  BY <1>3, PassedType, CurrentType DEF IInv
<1>5. CountsRows(counts[r], Passed(r), dbStep)
  BY <1>3 DEF CountInv, CountsAreRows
<1>6. /\ Tallied(r).completed = IF dbStep[Current(r)].status = "done"
                                THEN counts[r].completed + 1 ELSE counts[r].completed
      /\ Tallied(r).failed = IF dbStep[Current(r)].status = "failed"
                             THEN counts[r].failed + 1 ELSE counts[r].failed
  BY <1>3, TallyCounts DEF IInv, MemStatus
<1>7. CountsRows(Tallied(r), Passed(r) \cup {Current(r)}, dbStep)
  BY <1>4, <1>5, <1>6, OneMoreCounted
<1>8. Passed(r) \cup {Current(r)} \in SUBSET Steps
  BY <1>4
<1>9. Tallied(r).completed <= NumberOf(dbStep, "done")
      /\ Tallied(r).failed <= NumberOf(dbStep, "failed")
  BY <1>7, <1>8, CountsAtMost
<1>. QED
  BY <1>1, <1>2, <1>9

LEMMA SeeAbortAgrees ==
  ASSUME IInv, CountInv, NEW r \in Runners, SeeAbort(r)
  PROVE  LET res == result'[r] IN
         /\ res.error = "aborted" /\ dbPlan' = "in_progress"
         /\ res.completed <= NumberOf(dbStep', "done")
<1>1. /\ pc[r] \in InLoopPhase /\ UNCHANGED <<dbPlan, dbStep>>
      /\ result'[r] = [status |-> "abandoned", error |-> "aborted",
                       completed |-> counts[r].completed, failed |-> counts[r].failed]
  BY DEF SeeAbort, InLoop, Return, IInv, TypeOK, InLoopPhase, db
<1>2. dbPlan = "in_progress"
  BY <1>1 DEF IInv, PlanIsOpen
<1>3. CountsRows(counts[r], Passed(r), dbStep) /\ Passed(r) \in SUBSET Steps
  BY <1>1, PassedType DEF IInv, CountInv, CountsAreRows
<1>4. counts[r].completed <= NumberOf(dbStep, "done")
  BY <1>3, CountsAtMost
<1>. QED
  BY <1>1, <1>2, <1>4

\* A plan found closed is done: what is in the rows is reported.
LEMMA ListStepsAgrees ==
  ASSUME IInv, CountInv, NEW r \in Runners, ListSteps(r), plan[r] \in {"done", "abandoned"}
  PROVE  LET res == result'[r] IN
         /\ res.error = "already" /\ res.status = dbPlan' /\ res.status \in {"done", "failed"}
         /\ res.completed = NumberOf(dbStep', "done")
         /\ res.failed = NumberOf(dbStep', "failed")
<1>1. /\ pc[r] = "list_steps" /\ UNCHANGED <<dbPlan, dbStep>>
      /\ Return(r, plan[r], "already", [completed |-> NumberOf(dbStep, "done"),
                                        failed    |-> NumberOf(dbStep, "failed")])
  BY DEF ListSteps, db
<1>2. result'[r] = [status |-> plan[r], error |-> "already",
                    completed |-> NumberOf(dbStep, "done"), failed |-> NumberOf(dbStep, "failed")]
  BY <1>1 DEF Return, IInv, TypeOK
<1>3. plan[r] = dbPlan /\ dbPlan # "abandoned"
  BY <1>1 DEF IInv, PlanIsOpen, CountInv
<1>4. UNCHANGED NumberOf(dbStep, "done") /\ UNCHANGED NumberOf(dbStep, "failed")
  BY <1>1 DEF NumberOf
<1>. QED
  BY <1>1, <1>2, <1>3, <1>4

\* Whatever happened to earlier runs, a run's report is what the rows say: a
\* run that went through the plan counts them all, one cut short no more than
\* there are (PlanRunResult).
THEOREM ResultsAgreeWithRows ==
  ASSUME ~Overlap
  PROVE  Spec => ResultAgreesWithRows
<1> DEFINE Agrees(r) ==
             LET res == result'[r] IN
             /\ res.error \in {"none", "already"} =>
                  /\ res.status = dbPlan'
                  /\ res.status \in {"done", "failed"}
                  /\ res.completed = NumberOf(dbStep', "done")
                  /\ res.failed = NumberOf(dbStep', "failed")
             /\ res.error \in {"attempts", "turns"} =>
                  /\ res.status = "failed" /\ dbPlan' = "failed"
                  /\ res.completed <= NumberOf(dbStep', "done")
                  /\ res.failed <= NumberOf(dbStep', "failed")
             /\ res.error = "aborted" =>
                  /\ dbPlan' = "in_progress"
                  /\ res.completed <= NumberOf(dbStep', "done")
<1>1. IInv /\ CountInv /\ [Next]_vars => \A r \in Runners : Returns(r) => Agrees(r)
  <2> SUFFICES ASSUME IInv, CountInv, [Next]_vars, NEW r \in Runners, Returns(r)
               PROVE  Agrees(r)
    OBVIOUS
  <2>1. /\ pc[r] # "returned" /\ pc'[r] = "returned"
        /\ pc \in [Runners -> Executing \cup {"idle", "returned", "raised", "crashed"}]
    BY DEF Returns, IInv, TypeOK
  <2>2. PICK q \in Runners : Launch(q) \/ SetAbort(q) \/ Crash(q) \/ Advance(q)
    BY <2>1 DEF Next, vars
  <2>3. ASSUME NEW x, pc' = [pc EXCEPT ![q] = x] PROVE q = r /\ x = "returned"
    BY <2>1, <2>3
  <2>4. CASE Finish(q)
    <3>1. q = r
      BY <2>3, <2>4 DEF Finish, Return
    <3>2. Finish(r)
      BY <2>4, <3>1
    <3>. QED
      BY <3>2, FinishAgrees
  <2>5. CASE FailPlan(q)
    <3>1. q = r
      BY <2>3, <2>5 DEF FailPlan, Return
    <3>2. FailPlan(r)
      BY <2>5, <3>1
    <3>. QED
      BY <3>2, FailPlanAgrees
  <2>6. CASE SeeAbort(q)
    <3>1. q = r
      BY <2>3, <2>6 DEF SeeAbort, Return
    <3>2. SeeAbort(r)
      BY <2>6, <3>1
    <3>. QED
      BY <3>2, SeeAbortAgrees
  <2>7. CASE ListSteps(q)
    <3>1. q = r /\ plan[q] \in {"done", "abandoned"}
      BY <2>3, <2>7 DEF ListSteps, Return
    <3>2. ListSteps(r) /\ plan[r] \in {"done", "abandoned"}
      BY <2>7, <3>1
    <3>. QED
      BY <3>2, ListStepsAgrees
  <2>8. CASE GetPlan(q)
    <3>1. q = r /\ Return(q, "failed", "not_found", NoCounts)
      BY <2>3, <2>8 DEF GetPlan, Return
    <3>2. result'[r].error = "not_found"
      BY <3>1 DEF Return, IInv, TypeOK
    <3>. QED
      BY <3>2
  <2>9. CASE Launch(q) \/ Crash(q) \/ MarkInProgress(q) \/ StartStep(q)
             \/ StepReturns(q) \/ StepRaises(q) \/ GoOn(q)
    BY <2>3, <2>9 DEF Launch, Crash, MarkInProgress, StartStep, StepReturns, StepRaises, GoOn
  <2>10. CASE SetAbort(q) \/ SkipDone(q) \/ Block(q) \/ PassOver(q)
    BY <2>1, <2>10 DEF SetAbort, SkipDone, Block, PassOver
  <2>. QED
    BY <2>2, <2>4, <2>5, <2>6, <2>7, <2>8, <2>9, <2>10 DEF Advance
<1>2. IInv /\ CountInv /\ [Next]_vars =>
        [\A r \in Runners : Returns(r) => Agrees(r)]_vars
  BY <1>1
<1>. QED
  BY <1>2, Invariant, CountsAlwaysAreRows, PTL DEF Spec, ResultAgreesWithRows

-----------------------------------------------------------------------------
(* The seam to those who start an execution.                                *)

Busy == \E r \in Runners : pc[r] \in {"loop", "running", "tally"}

\* While r executes nobody else does.
LEMMA BusyIsOne ==
  ASSUME IInv, NEW r \in Runners, IsLive(r), NEW x, pc' = [pc EXCEPT ![r] = x]
  PROVE  (Busy <=> pc[r] \in InLoopPhase) /\ (Busy' <=> x \in InLoopPhase)
<1>1. /\ pc'[r] = x
      /\ \A q \in Runners : q # r => pc'[q] \notin Executing
  BY OthersRest DEF IInv
<1>2. \A q \in Runners : q # r => pc[q] \notin Executing
  BY DEF IInv, OneAtATime, IsLive
<1>. QED
  BY <1>1, <1>2 DEF Busy, InLoopPhase, Executing

\* A step that leaves the plan's row and the phase of the runner alone.
LEMMA SeamRests ==
  ASSUME IInv, NEW r \in Runners, IsLive(r), NEW x, pc' = [pc EXCEPT ![r] = x],
         UNCHANGED dbPlan, pc[r] \in InLoopPhase <=> x \in InLoopPhase
  PROVE  UNCHANGED <<dbPlan, Busy>>
<1>1. Busy' <=> Busy
  BY BusyIsOne
<1>. QED
  BY <1>1 DEF Busy

LEMMA ExecutionStep ==
  ASSUME IInv, CountInv, [Next]_vars
  PROVE  Execution!Next \/ UNCHANGED <<dbPlan, Busy>>
<1> USE DEF db, local
<1>1. CASE UNCHANGED vars
  BY <1>1 DEF vars, Busy
<1> SUFFICES ASSUME NEW r \in Runners,
                    Launch(r) \/ SetAbort(r) \/ Crash(r) \/ Advance(r)
             PROVE  Execution!Next \/ UNCHANGED <<dbPlan, Busy>>
  BY <1>1 DEF Next
<1>2. CASE Launch(r)
  <2>1. UNCHANGED dbPlan /\ pc' = [pc EXCEPT ![r] = "get_plan"] /\ pc[r] \notin Executing
    BY <1>2 DEF Launch, IsLive
  <2>2. \A q \in Runners : pc'[q] \in {"loop", "running", "tally"}
                             <=> pc[q] \in {"loop", "running", "tally"}
    BY <2>1 DEF IInv, TypeOK, Executing
  <2>. QED
    BY <2>1, <2>2 DEF Busy
<1>3. CASE SetAbort(r)
  BY <1>3 DEF SetAbort, Busy
<1>4. CASE GetPlan(r) \/ ListSteps(r)
  <2>1. pc[r] \in {"get_plan", "list_steps"} /\ UNCHANGED dbPlan
    BY <1>4 DEF GetPlan, ListSteps
  <2>2. PICK x \in {"returned", "list_steps", "mark"} : pc' = [pc EXCEPT ![r] = x]
    BY <1>4 DEF GetPlan, ListSteps, Return
  <2>. QED
    BY <2>1, <2>2, SeamRests DEF InLoopPhase, IsLive, Executing
<1>5. CASE MarkInProgress(r)
  <2>1. pc[r] = "mark" /\ pc' = [pc EXCEPT ![r] = "loop"] /\ dbPlan' = "in_progress"
    BY <1>5 DEF MarkInProgress
  <2>2. ~Busy /\ Busy'
    BY <2>1, BusyIsOne DEF InLoopPhase, IsLive, Executing
  <2>3. dbPlan \notin {"absent", "done"}
    BY <2>1 DEF IInv, PlanIsOpen
  <2>. QED
    BY <2>1, <2>2, <2>3 DEF Execution!Next, Execution!Open, Busy
<1>6. CASE SkipDone(r) \/ Block(r) \/ PassOver(r)
  <2>1. UNCHANGED <<dbPlan, pc>>
    BY <1>6 DEF SkipDone, Block, PassOver
  <2>. QED
    BY <2>1 DEF Busy
<1>7. CASE StartStep(r) \/ StepReturns(r) \/ GoOn(r)
  <2>1. pc[r] \in {"loop", "running", "tally"} /\ UNCHANGED dbPlan
    BY <1>7 DEF StartStep, StepReturns, GoOn, InLoop
  <2>2. PICK x \in {"running", "tally", "loop"} : pc' = [pc EXCEPT ![r] = x]
    BY <1>7 DEF StartStep, StepReturns, GoOn
  <2>. QED
    BY <2>1, <2>2, SeamRests DEF InLoopPhase, IsLive, Executing
<1>8. CASE SeeAbort(r) \/ StepRaises(r) \/ Crash(r)
  <2>1. IsLive(r) /\ UNCHANGED dbPlan
    BY <1>8 DEF SeeAbort, InLoop, StepRaises, Crash, IsLive, Executing
  <2>2. PICK x \in {"returned", "raised", "crashed"} : pc' = [pc EXCEPT ![r] = x]
    BY <1>8 DEF SeeAbort, StepRaises, Crash, Return
  <2>3. CASE pc[r] \in InLoopPhase
    <3>1. Busy /\ ~Busy'
      BY <2>1, <2>2, <2>3, BusyIsOne DEF InLoopPhase
    <3>2. dbPlan = "in_progress"
      BY <2>3 DEF IInv, PlanIsOpen
    <3>. QED
      BY <2>1, <3>1, <3>2 DEF Execution!Next, Execution!Abandon, Busy
  <2>4. CASE pc[r] \notin InLoopPhase
    BY <2>1, <2>2, <2>4, SeamRests DEF InLoopPhase
  <2>. QED
    BY <2>3, <2>4
<1>9. CASE FailPlan(r) \/ Finish(r)
  <2>1. pc[r] \in {"loop", "tally"} /\ pc' = [pc EXCEPT ![r] = "returned"]
    BY <1>9 DEF FailPlan, Finish, Return
  <2>2. Busy /\ ~Busy'
    <3>1. IsLive(r) /\ pc[r] \in InLoopPhase /\ "returned" \notin InLoopPhase
      BY <2>1 DEF InLoopPhase, IsLive, Executing
    <3>. QED
      BY <2>1, <3>1, BusyIsOne
  <2>3. dbPlan = "in_progress"
    BY <2>1 DEF IInv, PlanIsOpen, InLoopPhase
  <2>4. dbPlan' \in {"done", "failed"}
    <3>1. CASE FailPlan(r)
      BY <3>1 DEF FailPlan
    <3>2. CASE Finish(r)
      BY <3>2, FinishAgrees
    <3>. QED
      BY <1>9, <3>1, <3>2
  <2>. QED
    BY <2>2, <2>3, <2>4 DEF Execution!Next, Execution!Close, Busy
<1>. QED
  BY <1>2, <1>3, <1>4, <1>5, <1>6, <1>7, <1>8, <1>9 DEF Advance

\* Whoever starts an execution sees the plan opened once and closed at its end
\* or left open: the two reads, the mark and the final update of execute look
\* like the atomic steps PlanStore takes them for.
THEOREM RunnersImplementExecution ==
  ASSUME ~Overlap
  PROVE  Spec => ImplementsExecution
<1>1. Init => Execution!Init
  BY DEF Init, Execution!Init
<1>2. IInv /\ CountInv /\ [Next]_vars => [Execution!Next]_(Execution!execution)
  BY ExecutionStep DEF Execution!execution, Busy
<1>. QED
  BY <1>1, <1>2, Invariant, CountsAlwaysAreRows, PTL
  DEF Spec, ImplementsExecution, Execution!Spec

-----------------------------------------------------------------------------
(* The end of a run, also with others executing the plan.                   *)

\* StepsLeft by the place and the cursor.
Left(p, c) ==
  CASE p = "get_plan"   -> 3 * Len(Order) + 4
    [] p = "list_steps" -> 3 * Len(Order) + 3
    [] p = "mark"       -> 3 * Len(Order) + 2
    [] p = "loop"       -> 3 * (Len(Order) + 1 - c) + 1
    [] p = "running"    -> 3 * (Len(Order) + 1 - c)
    [] p = "tally"      -> 3 * (Len(Order) + 1 - c) - 1
    [] OTHER            -> 0

LEMMA StepsLeftIs ==
  ASSUME NEW r \in Runners
  PROVE  StepsLeft(r) = Left(pc[r], cursor[r]) /\ StepsLeft(r)' = Left(pc'[r], cursor'[r])
BY DEF StepsLeft, Left

\* The moves of a runner that executes, each with its cursor.
Moves(p, c, q, d) ==
  \/ q \notin Executing
  \/ p = "get_plan" /\ q = "list_steps"
  \/ p = "list_steps" /\ q = "mark"
  \/ p = "mark" /\ q = "loop" /\ d = 1
  \/ p = "loop" /\ q = "loop" /\ c <= Len(Order) /\ d = c + 1
  \/ p = "loop" /\ q = "running" /\ c <= Len(Order) /\ d = c
  \/ p = "running" /\ q = "tally" /\ d = c
  \/ p = "tally" /\ q = "loop" /\ d = c + 1

LEMMA AdvanceMoves ==
  ASSUME TypeInv, NEW r \in Runners, Advance(r) \/ Crash(r)
  PROVE  pc[r] \in Executing /\ Moves(pc[r], cursor[r], pc'[r], cursor'[r])
<1> USE DEF TypeInv, TypeOK, CursorInRange, InLoopPhase, Moves
<1>1. ASSUME NEW x, x \notin Executing, pc' = [pc EXCEPT ![r] = x]
      PROVE  pc'[r] \notin Executing
  BY <1>1
<1>2. CASE Crash(r) \/ StepRaises(r) \/ SeeAbort(r) \/ FailPlan(r) \/ Finish(r)
  <2>1. pc[r] \in Executing
    BY <1>2 DEF Crash, IsLive, StepRaises, SeeAbort, InLoop, FailPlan, Finish, Executing
  <2>2. PICK x \in {"crashed", "raised", "returned"} : pc' = [pc EXCEPT ![r] = x]
    BY <1>2 DEF Crash, StepRaises, SeeAbort, FailPlan, Finish, Return
  <2>. QED
    BY <1>1, <2>1, <2>2 DEF Executing
<1>3. CASE GetPlan(r)
  BY <1>3 DEF GetPlan, Return, Executing
<1>4. CASE ListSteps(r)
  BY <1>4 DEF ListSteps, Return, Executing
<1>5. CASE MarkInProgress(r)
  BY <1>5 DEF MarkInProgress, Executing
<1>6. CASE SkipDone(r) \/ Block(r) \/ PassOver(r)
  BY <1>6 DEF SkipDone, Block, PassOver, InLoop, NextStep, Executing
<1>7. CASE StartStep(r)
  BY <1>7 DEF StartStep, InLoop, Executing
<1>8. CASE StepReturns(r)
  BY <1>8 DEF StepReturns, Executing
<1>9. CASE GoOn(r)
  BY <1>9 DEF GoOn, NextStep, Executing
<1>. QED
  BY <1>2, <1>3, <1>4, <1>5, <1>6, <1>7, <1>8, <1>9 DEF Advance

LEMMA MovesShorten ==
  ASSUME NEW p \in Executing, NEW q, NEW c \in 1 .. Len(Order) + 1,
         NEW d \in 1 .. Len(Order) + 1, Moves(p, c, q, d),
         p \in {"running", "tally"} => c <= Len(Order)
  PROVE  Left(q, d) < Left(p, c) /\ Left(p, c) \in Nat
<1>1. Len(Order) \in Nat
  BY OrderType
<1>2. /\ Left("get_plan", c) = 3 * Len(Order) + 4
      /\ Left("list_steps", c) = 3 * Len(Order) + 3 /\ Left("list_steps", d) = 3 * Len(Order) + 3
      /\ Left("mark", c) = 3 * Len(Order) + 2 /\ Left("mark", d) = 3 * Len(Order) + 2
      /\ Left("loop", c) = 3 * (Len(Order) + 1 - c) + 1
      /\ Left("loop", d) = 3 * (Len(Order) + 1 - d) + 1
      /\ Left("running", c) = 3 * (Len(Order) + 1 - c)
      /\ Left("running", d) = 3 * (Len(Order) + 1 - d)
      /\ Left("tally", c) = 3 * (Len(Order) + 1 - c) - 1
      /\ Left("tally", d) = 3 * (Len(Order) + 1 - d) - 1
  BY DEF Left
<1>3. q \notin Executing => Left(q, d) = 0
  BY DEF Left, Executing
<1>4. Left(p, c) \in Nat /\ Left(p, c) > 0
  BY <1>1, <1>2 DEF Executing
<1>5. CASE q \notin Executing
  BY <1>3, <1>4, <1>5
<1>6. CASE q \in Executing
  BY <1>1, <1>2, <1>6 DEF Moves, Executing
<1>. QED
  BY <1>4, <1>5, <1>6

\* What others do leaves a runner where it is.
LEMMA OthersLeaveIt ==
  ASSUME TypeInv, [Next]_vars, NEW r \in Runners, ~Advance(r), ~Crash(r), ~Launch(r)
  PROVE  pc'[r] = pc[r] /\ cursor'[r] = cursor[r]
<1>1. CASE UNCHANGED vars
  BY <1>1 DEF vars
<1>2. ASSUME NEW q \in Runners, Launch(q) \/ SetAbort(q) \/ Crash(q) \/ Advance(q)
      PROVE  pc'[r] = pc[r] /\ cursor'[r] = cursor[r]
  <2>1. CASE SetAbort(q)
    BY <2>1 DEF SetAbort, local
  <2>2. CASE Launch(q)
    <3>1. q # r
      BY <2>2
    <3>. QED
      BY <2>2, <3>1 DEF Launch, local, TypeInv, TypeOK
  <2>3. CASE Crash(q) \/ Advance(q)
    <3>1. q # r
      BY <2>3
    <3>2. /\ pc' = pc \/ \E x : pc' = [pc EXCEPT ![q] = x]
          /\ cursor' = cursor \/ \E x : cursor' = [cursor EXCEPT ![q] = x]
      BY <2>3 DEF Crash, Advance, GetPlan, ListSteps, MarkInProgress, SeeAbort, SkipDone,
                  Block, PassOver, StartStep, StepReturns, StepRaises, FailPlan, GoOn,
                  Finish, Return, Forget, NextStep
    <3>. QED
      BY <3>1, <3>2 DEF TypeInv, TypeOK
  <2>. QED
    BY <1>2, <2>1, <2>2, <2>3
<1>. QED
  BY <1>1, <1>2 DEF Next

\* A call of execute makes no more steps than the plan's length allows, even
\* with other processes at the same plan: none is started twice in a run, and
\* what others write never sends it back.
THEOREM RunAlwaysBounded == Spec => RunIsBounded /\ [](\A r \in Runners : StepsLeft(r) \in Nat)
<1>1. TypeInv => \A r \in Runners : StepsLeft(r) \in Nat
  <2> SUFFICES ASSUME TypeInv, NEW r \in Runners PROVE Left(pc[r], cursor[r]) \in Nat
    BY StepsLeftIs
  <2>1. cursor[r] \in 1 .. Len(Order) + 1 /\ Len(Order) \in Nat
        /\ (pc[r] \in {"running", "tally"} => cursor[r] <= Len(Order))
    BY OrderType DEF TypeInv, TypeOK, CursorInRange
  <2>. QED
    BY <2>1 DEF Left
<1>2. TypeInv /\ TypeInv' /\ [Next]_vars =>
        [\A r \in Runners :
           IF Advance(r) \/ Crash(r) THEN StepsLeft(r)' < StepsLeft(r)
           ELSE Launch(r) \/ StepsLeft(r)' = StepsLeft(r)]_vars
  <2> SUFFICES ASSUME TypeInv, TypeInv', [Next]_vars, NEW r \in Runners
               PROVE  IF Advance(r) \/ Crash(r) THEN StepsLeft(r)' < StepsLeft(r)
                      ELSE Launch(r) \/ StepsLeft(r)' = StepsLeft(r)
    OBVIOUS
  <2>1. ASSUME Advance(r) \/ Crash(r) PROVE StepsLeft(r)' < StepsLeft(r)
    <3>1. pc[r] \in Executing /\ Moves(pc[r], cursor[r], pc'[r], cursor'[r])
      BY <2>1, AdvanceMoves
    <3>2. cursor[r] \in 1 .. Len(Order) + 1 /\ cursor'[r] \in 1 .. Len(Order) + 1
          /\ (pc[r] \in {"running", "tally"} => cursor[r] <= Len(Order))
      BY DEF TypeInv, TypeOK, CursorInRange
    <3>. QED
      BY <3>1, <3>2, MovesShorten, StepsLeftIs
  <2>2. ASSUME ~Advance(r), ~Crash(r), ~Launch(r) PROVE StepsLeft(r)' = StepsLeft(r)
    BY <2>2, OthersLeaveIt, StepsLeftIs
  <2>. QED
    BY <2>1, <2>2, Zenon
<1>3. TypeInv /\ [Next]_vars => TypeInv'
  BY TypeStep
<1>. QED
  BY <1>1, <1>2, <1>3, TypeInvariant, PTL DEF Spec, RunIsBounded

=============================================================================

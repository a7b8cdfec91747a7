------------------------------ MODULE PlanStore ------------------------------
(***************************************************************************)
(* From a goal to a stored and executed plan: the commands "plan" and       *)
(* "plan-resume" of cli/plan_cli.py, PlanAgent.decompose of plan/agent.py,  *)
(* and create_plan of plan/storage.py with its transaction.                 *)
(*                                                                         *)
(* A command is one process, which creates one goal and one plan, so that   *)
(* it also names them.  Commands share one database; each action makes at   *)
(* most one transaction or waits once for the model or the user.  What      *)
(* PlanRunner.execute does to the plan's status is taken from PlanExecution.*)
(***************************************************************************)
EXTENDS PlanSort, PlanModels

CONSTANTS
  Commands,     \* runs of "pure-agent plan", their goals and plans
  NoOne,        \* owner of a step id that has no row
  MaxSteps,     \* the most steps a plan may have (20)
  Answers,      \* the lists of steps the model may answer with
  MaxAttempts,  \* max_attempts of decompose (3)
  MaxResumes    \* bound: runs of "pure-agent plan-resume"

\* A step of an answer: are kind and action good, and its deps as written, an
\* index or a step id "s<n>" (n = 0 for any other string).
Ref     == [form : {"index", "id"}, n : Nat]
RawStep == [good : BOOLEAN, deps : Seq(Ref)]

ASSUME StoreAssumption ==
  /\ NoOne \notin Commands
  /\ Answers \subseteq Seq(RawStep)
  /\ {MaxSteps, MaxResumes} \subseteq Nat
  /\ MaxAttempts \in Nat \ {0}

VARIABLES
  pc,        \* where each command is
  asked,     \* answers decompose has had
  answer,    \* the plan the command holds, as the deps of its steps
  outcome,   \* the final_status execute returned to the command
  goal,      \* goals.status, "absent" without a row
  plan,      \* plans.status, "absent" without a row
  row,       \* plan_steps by id: the plan the row belongs to and its deps
  executor,  \* who executes the plan: the command, a plan-resume or nobody
  resumes    \* plan-resume commands so far

vars == <<pc, asked, answer, outcome, goal, plan, row, executor, resumes>>
database == <<goal, plan, row>>

GoalStatus == {"pending", "planning", "running", "done", "failed", "abandoned"}
Ids == 1 .. MaxSteps
NoRow == [plan |-> NoOne, deps |-> {}]

Moves(c, from, to) == pc[c] = from /\ pc' = [pc EXCEPT ![c] = to]
IsLive(c) == pc[c] \notin {"idle", "ended", "dead"}

Init ==
  /\ pc = [c \in Commands |-> "idle"]
  /\ asked = [c \in Commands |-> 0]
  /\ answer = [c \in Commands |-> <<>>]
  /\ outcome = [c \in Commands |-> "none"]
  /\ goal = [c \in Commands |-> "absent"]
  /\ plan = [c \in Commands |-> "absent"]
  /\ row = [i \in Ids |-> NoRow]
  /\ executor = [c \in Commands |-> "nobody"]
  /\ resumes = 0

\* create_goal; the foreign key refuses a project that does not exist.
CreateGoal(c) ==
  /\ \/ Moves(c, "idle", "decompose") /\ goal' = [goal EXCEPT ![c] = "pending"]
     \/ Moves(c, "idle", "dead") /\ UNCHANGED goal
  /\ UNCHANGED <<asked, answer, outcome, plan, row, executor, resumes>>

-----------------------------------------------------------------------------
(* PlanAgent.decompose.                                                     *)

\* A dep as _parse_and_validate reads it: an index points to an earlier step,
\* an id to one that has been numbered, the step itself included.
GoodRef(d, i) == IF d.form = "index" THEN d.n \in 1 .. i - 1 ELSE d.n \in 1 .. i

Parses(raw) ==
  /\ Len(raw) \in 1 .. MaxSteps
  /\ \A i \in 1 .. Len(raw) : raw[i].good /\ \A d \in Range(raw[i].deps) : GoodRef(d, i)

DepsOf(raw) == [i \in 1 .. Len(raw) |-> {d.n : d \in Range(raw[i].deps)}]

\* PlanStep._deps_unique: no step is named twice, as 1 and as "s1" included.
DepsUnique(deps) == \A j, k \in DOMAIN deps : deps[j].n = deps[k].n => j = k

\* Mutant: the Plan is built without its validator.
Accepted_NoDagCheck(raw) == Parses(raw) /\ \A i \in 1 .. Len(raw) : DepsUnique(raw[i].deps)

\* _parse_and_validate returns a Plan, whose steps validate their deps and
\* which validates its graph.
Accepted(raw) ==
  /\ Parses(raw) /\ \A i \in 1 .. Len(raw) : DepsUnique(raw[i].deps)
  /\ ValidDag(DepsOf(raw))

\* The plans and the refusals the answers amount to.
AcceptedPlans == {DepsOf(raw) : raw \in {a \in Answers : Accepted(a)}}
Refused       == {raw \in Answers : ~Accepted(raw)}

\* The model answers with a plan.
Decomposes(c) ==
  /\ Moves(c, "decompose", "store")
  /\ asked' = [asked EXCEPT ![c] = @ + 1]
  /\ \E deps \in AcceptedPlans : answer' = [answer EXCEPT ![c] = deps]
  /\ UNCHANGED <<outcome, database, executor, resumes>>

\* Mutant: after the last attempt the count starts over.
Refuses_StartsOver(c) ==
  /\ Refused # {}
  /\ Moves(c, "decompose", "decompose")
  /\ asked' = [asked EXCEPT ![c] = IF @ + 1 < MaxAttempts THEN @ + 1 ELSE 0]
  /\ UNCHANGED <<answer, outcome, database, executor, resumes>>

\* Mutant: one attempt more than max_attempts.
Refuses_OneMore(c) ==
  /\ Refused # {}
  /\ asked' = [asked EXCEPT ![c] = @ + 1]
  /\ \/ asked[c] < MaxAttempts /\ Moves(c, "decompose", "decompose")
     \/ asked[c] >= MaxAttempts /\ Moves(c, "decompose", "give_up")
  /\ UNCHANGED <<answer, outcome, database, executor, resumes>>

\* The answer raises ValueError: it is explained to the model, which is asked
\* again until the attempts are used up.
Refuses(c) ==
  /\ Refused # {}
  /\ asked' = [asked EXCEPT ![c] = @ + 1]
  /\ \/ asked[c] + 1 < MaxAttempts /\ Moves(c, "decompose", "decompose")
     \/ asked[c] + 1 >= MaxAttempts /\ Moves(c, "decompose", "give_up")
  /\ UNCHANGED <<answer, outcome, database, executor, resumes>>

\* The stream reports an error, or the answer raises something else than
\* ValueError (a step that is no object): decompose raises at once.
DecomposeRaises(c) ==
  /\ Moves(c, "decompose", "give_up")
  /\ UNCHANGED <<asked, answer, outcome, database, executor, resumes>>

GiveUp(c) ==
  /\ Moves(c, "give_up", "ended")
  /\ goal' = [goal EXCEPT ![c] = "failed"]
  /\ UNCHANGED <<asked, answer, outcome, plan, row, executor, resumes>>

-----------------------------------------------------------------------------
(* create_plan: one transaction for the plans row and all plan_steps rows.  *)

IdsOf(c) == 1 .. Len(answer[c])

\* plan_steps.id is the primary key of the table, and every plan numbers its
\* steps s1, s2, ...
IdsAreFree(c) == \A i \in IdsOf(c) : row[i].plan = NoOne

StorePlan(c) ==
  /\ Moves(c, "store", "confirm")
  /\ IdsAreFree(c)
  /\ plan' = [plan EXCEPT ![c] = "pending"]
  /\ row' = [i \in Ids |-> IF i \in IdsOf(c) THEN [plan |-> c, deps |-> answer[c][i]]
                           ELSE row[i]]
  /\ UNCHANGED <<asked, answer, outcome, goal, executor, resumes>>

\* Mutant: what was inserted before the statement that failed is kept.
StoreRaises_NoRollback(c) ==
  /\ Moves(c, "store", "dead")
  /\ ~IdsAreFree(c)
  /\ plan' = [plan EXCEPT ![c] = "pending"]
  /\ UNCHANGED <<asked, answer, outcome, goal, row, executor, resumes>>

\* IntegrityError: the transaction is rolled back and the command raises.
StoreRaises(c) ==
  /\ Moves(c, "store", "dead")
  /\ ~IdsAreFree(c)
  /\ UNCHANGED <<asked, answer, outcome, database, executor, resumes>>

\* "Execute this plan?"
Confirm(c) ==
  /\ Moves(c, "confirm", "mark") \/ Moves(c, "confirm", "ended")
  /\ UNCHANGED <<asked, answer, outcome, database, executor, resumes>>

MarkRunning(c) ==
  /\ Moves(c, "mark", "execute")
  /\ goal' = [goal EXCEPT ![c] = "running"]
  /\ UNCHANGED <<asked, answer, outcome, plan, row, executor, resumes>>

-----------------------------------------------------------------------------
(* PlanRunner.execute, as PlanExecution sees it, by the command              *)
(* or by a plan-resume; executions of a plan do not overlap.                *)

Open(c, who) ==
  /\ executor[c] = "nobody"
  /\ plan[c] \notin {"absent", "done"}
  /\ plan' = [plan EXCEPT ![c] = "in_progress"]
  /\ executor' = [executor EXCEPT ![c] = who]

Close(c, who, status) ==
  /\ executor[c] = who
  /\ plan' = [plan EXCEPT ![c] = status]
  /\ executor' = [executor EXCEPT ![c] = "nobody"]

Execute(c) ==
  /\ Moves(c, "execute", "executing")
  /\ Open(c, "command")
  /\ UNCHANGED <<asked, answer, outcome, goal, row, resumes>>

\* A plan-resume has finished the plan while the command waited for its user.
AlreadyDone(c) ==
  /\ Moves(c, "execute", "close")
  /\ plan[c] = "done"
  /\ outcome' = [outcome EXCEPT ![c] = "done"]
  /\ UNCHANGED <<asked, answer, database, executor, resumes>>

ExecuteReturns(c) ==
  /\ Moves(c, "executing", "close")
  /\ \E status \in {"done", "failed"} :
       /\ Close(c, "command", status)
       /\ outcome' = [outcome EXCEPT ![c] = status]
  /\ UNCHANGED <<asked, answer, goal, row, resumes>>

\* Mutant: the goal is closed as done when execute has returned.
CloseGoal_IgnoresResult(c) ==
  /\ Moves(c, "close", "ended")
  /\ goal' = [goal EXCEPT ![c] = "done"]
  /\ UNCHANGED <<asked, answer, outcome, plan, row, executor, resumes>>

CloseGoal(c) ==
  /\ Moves(c, "close", "ended")
  /\ goal' = [goal EXCEPT ![c] = IF outcome[c] = "done" THEN "done" ELSE "failed"]
  /\ UNCHANGED <<asked, answer, outcome, plan, row, executor, resumes>>

\* plan-resume looks at the plan only; the goal stays as it is.
Resume(c) ==
  /\ resumes < MaxResumes
  /\ resumes' = resumes + 1
  /\ Open(c, "resume")
  /\ UNCHANGED <<pc, asked, answer, outcome, goal, row>>

ResumeReturns(c) ==
  /\ \E status \in {"done", "failed"} : Close(c, "resume", status)
  /\ UNCHANGED <<pc, asked, answer, outcome, goal, row, resumes>>

ResumeDies(c) ==
  /\ Close(c, "resume", plan[c])
  /\ UNCHANGED <<pc, asked, answer, outcome, goal, row, resumes>>

\* The command dies or is interrupted, or a database call or execute raises.
Crash(c) ==
  /\ IsLive(c)
  /\ pc' = [pc EXCEPT ![c] = "dead"]
  /\ executor' = [executor EXCEPT ![c] = IF pc[c] = "executing" THEN "nobody" ELSE @]
  /\ UNCHANGED <<asked, answer, outcome, database, resumes>>

-----------------------------------------------------------------------------
\* What the command does by itself, and what others do.
Advance(c) ==
  \/ Decomposes(c) \/ Refuses(c) \/ DecomposeRaises(c) \/ GiveUp(c)
  \/ StorePlan(c) \/ StoreRaises(c) \/ MarkRunning(c)
  \/ Execute(c) \/ AlreadyDone(c) \/ ExecuteReturns(c) \/ CloseGoal(c)
  \/ ResumeReturns(c)

Next ==
  \E c \in Commands :
    \/ Advance(c) \/ CreateGoal(c) \/ Confirm(c)
    \/ Resume(c) \/ ResumeDies(c) \/ Crash(c)

Spec == Init /\ [][Next]_vars

\* A live process runs on: streams end, and an execution ends (EveryRunEnds of
\* PlanRunner).  The user may leave the question unanswered for ever.
FairSpec == Spec /\ \A c \in Commands : WF_vars(Advance(c))

-----------------------------------------------------------------------------
(* Properties.                                                              *)

RowsOf(c) == {i \in Ids : row[i].plan = c}

TypeOK ==
  /\ pc \in [Commands -> {"idle", "decompose", "give_up", "store", "confirm", "mark",
                          "execute", "executing", "close", "ended", "dead"}]
  /\ asked \in [Commands -> 0 .. MaxAttempts]
  /\ answer \in [Commands -> Seq(SUBSET Ids)]
  /\ outcome \in [Commands -> {"none", "done", "failed"}]
  /\ goal \in [Commands -> GoalStatus \cup {"absent"}]
  /\ plan \in [Commands -> PlanStatus \cup {"absent"}]
  /\ row \in [Ids -> [plan : Commands \cup {NoOne}, deps : SUBSET Ids]]
  /\ executor \in [Commands -> {"nobody", "command", "resume"}]
  /\ resumes \in 0 .. MaxResumes

\* A plan is in the database with all its steps or not at all, whatever other
\* plans are stored, fail to be stored or are interrupted.
PlanIsWhole ==
  \A c \in Commands :
    /\ plan[c] = "absent" => RowsOf(c) = {}
    /\ plan[c] # "absent" =>
         /\ RowsOf(c) = IdsOf(c)
         /\ \A i \in IdsOf(c) : row[i].deps = answer[c][i]

\* The deps of a stored step are earlier steps of the same plan, in whatever
\* form the model wrote them: the order of the rows is an order of execution.
DepsPointBack ==
  \A i \in Ids : row[i].plan # NoOne =>
    \A d \in row[i].deps : d < i /\ row[d].plan = row[i].plan

\* The goal never says more than its plan: it is done only if the plan is, it
\* is running only if there is a plan, and it failed only if there is none or
\* the plan has been executed.
GoalMatchesPlan ==
  \A c \in Commands :
    /\ goal[c] = "done" => plan[c] = "done"
    /\ goal[c] = "running" => plan[c] # "absent"
    /\ goal[c] = "failed" => plan[c] # "pending"

\* A step that is stored is never written over by another plan, nor are its
\* deps changed: plans share the table and number their steps alike.
StoredRowsStay ==
  [][\A i \in Ids : row[i].plan # NoOne => row'[i] = row[i]]_vars

\* Commands and resumes treat each plan as PlanExecution says, which PlanRunner
\* implements: neither opens a plan under the other, or one that is done.
Execution(c) == INSTANCE PlanExecution WITH
  status <- plan[c], busy <- executor[c] # "nobody"
ImplementsExecution ==
  /\ \A c \in Commands : Execution(c)!Init
  /\ [][\A c \in Commands :
          Execution(c)!Next \/ UNCHANGED <<plan[c], executor[c] # "nobody">>]_vars

\* Steps left to a command, the answers it may still ask for included.
StepsLeft(c) ==
  CASE pc[c] = "decompose" -> 7 + (MaxAttempts - asked[c])
    [] pc[c] = "store"     -> 7
    [] pc[c] = "confirm"   -> 6
    [] pc[c] = "mark"      -> 5
    [] pc[c] = "execute"   -> 4
    [] pc[c] = "executing" -> 3
    [] pc[c] = "close"     -> 2
    [] pc[c] = "give_up"   -> 1
    [] OTHER               -> 0

\* Nothing lets a command begin anything twice: each step it takes brings it
\* nearer to its end, refused answers included, whatever others do to its plan.
CommandIsBounded ==
  [][\A c \in Commands :
       \/ UNCHANGED <<pc[c], asked[c]>>
       \/ CreateGoal(c)
       \/ StepsLeft(c)' < StepsLeft(c)]_vars

\* The inductive invariant behind the properties above.
AnswerPointsBack ==
  \A c \in Commands :
    /\ Len(answer[c]) <= MaxSteps
    /\ \A i \in IdsOf(c) : \A d \in answer[c][i] : d < i

\* Where a command is says whether its plan is stored, who executes it and
\* what is known of its status.
PhaseOK(c) ==
  /\ pc[c] \in {"idle", "decompose", "give_up", "store"} => plan[c] = "absent"
  /\ pc[c] \in {"confirm", "mark", "execute", "executing", "close"} => plan[c] # "absent"
  /\ pc[c] \in {"idle", "decompose"} => asked[c] < MaxAttempts
  /\ pc[c] = "executing" <=> executor[c] = "command"
  /\ executor[c] # "nobody" => plan[c] = "in_progress"
  /\ pc[c] = "close" => plan[c] # "pending" /\ (outcome[c] = "done" => plan[c] = "done")
  /\ goal[c] \in {"done", "failed"} => pc[c] = "ended"

IInv ==
  /\ TypeOK
  /\ AnswerPointsBack
  /\ \A c \in Commands : PhaseOK(c)
  /\ PlanIsWhole
  /\ DepsPointBack
  /\ GoalMatchesPlan

\* Every command ends, unless its user never answers.
EveryCommandEnds == \A c \in Commands : IsLive(c) ~> ~IsLive(c) \/ pc[c] = "confirm"

\* "Create a Goal, decompose into a Plan, then execute it." (cli/plan_cli.py:107):
\* a plan that has been accepted can be stored.
ValidPlansAreStored == \A c \in Commands : pc[c] = "store" => IdsAreFree(c)

=============================================================================

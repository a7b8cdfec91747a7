------------------------------- MODULE PlanDag -------------------------------
(***************************************************************************)
(* Constructing a Plan from whatever dependency lists it is given, and then *)
(* topo_sort, one turn of its while loop per step.                          *)
(***************************************************************************)
EXTENDS PlanSort

CONSTANTS
  StepIds,    \* the ids of the plan's steps, as ranks
  Unknown     \* dep names that are no step of the plan

ASSUME StepIdsAssumption == StepIds \subseteq Nat /\ IsFiniteSet(StepIds)
ASSUME UnknownAssumption ==
  Unknown \subseteq Nat /\ Unknown \cap StepIds = {} /\ IsFiniteSet(Unknown)

VARIABLES
  deps,   \* the dependency lists of the candidate plan
  phase,  \* "raw", "rejected" (ValueError), "sorting", "sorted"
  kahn    \* queue, output and in-degrees of topo_sort

dagVars == <<deps, phase, kahn>>

DagInit ==
  /\ deps \in [StepIds -> SUBSET (StepIds \cup Unknown)]
  /\ phase = "raw"
  /\ kahn = KahnInit(deps)

\* Plan(...) raises ValueError.
Reject ==
  /\ phase = "raw"
  /\ ~ValidDag(deps)
  /\ phase' = "rejected"
  /\ UNCHANGED <<deps, kahn>>

\* Plan(...) is constructed; topo_sort computes degrees and its first queue.
Accept ==
  /\ phase = "raw"
  /\ ValidDag(deps)
  /\ phase' = "sorting"
  /\ UNCHANGED <<deps, kahn>>

Pop ==
  /\ phase = "sorting"
  /\ kahn.queue # <<>>
  /\ kahn' = KahnPop(kahn, deps)
  /\ UNCHANGED <<deps, phase>>

Finish ==
  /\ phase = "sorting"
  /\ kahn.queue = <<>>
  /\ phase' = "sorted"
  /\ UNCHANGED <<deps, kahn>>

DagNext == Reject \/ Accept \/ Pop \/ Finish

DagSpec == DagInit /\ [][DagNext]_dagVars

-----------------------------------------------------------------------------
Emitted == Range(kahn.out)

DagTypeOK ==
  /\ phase \in {"raw", "rejected", "sorting", "sorted"}
  /\ kahn.queue \in Seq(StepIds)
  /\ kahn.out \in Seq(StepIds)
  /\ kahn.inDegree \in [StepIds -> Nat]

\* The reference definition of a well-formed plan: deps name steps of the
\* plan, and no set of steps has each member waiting on another member.
Acyclic ==
  \A group \in (SUBSET StepIds) \ {{}} :
     \E s \in group : deps[s] \cap group = {}

WellFormed ==
  /\ \A s \in StepIds : deps[s] \subseteq StepIds
  /\ Acyclic

\* _validate_dag accepts a plan exactly when its deps form a DAG over its own
\* steps: the counting argument of Kahn's algorithm against the definition.
ValidatesExactlyDags ==
  /\ phase = "rejected" => ~WellFormed
  /\ phase \in {"sorting", "sorted"} => WellFormed

\* What topo_sort returns is a permutation of the plan's steps in which every
\* step comes after all of its deps, and it is the TopoSort the runner uses.
SortedIsLinearExtension ==
  phase = "sorted" =>
    /\ Len(kahn.out) = Cardinality(StepIds)
    /\ Emitted = StepIds
    /\ \A i \in DOMAIN kahn.out : \A d \in deps[kahn.out[i]] :
         \E j \in 1 .. i - 1 : kahn.out[j] = d
    /\ kahn.out = TopoSort(deps)

=============================================================================

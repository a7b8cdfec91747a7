------------------------------- MODULE PlanSort -------------------------------
(***************************************************************************)
(* The graph part of plan/models.py: Plan._validate_dag and topo_sort.      *)
(*                                                                         *)
(* A step id is a natural number, its rank in the string order topo_sort    *)
(* sorts by; deps maps a step to the set of its deps (PlanStep._deps_unique *)
(* makes the list a set).                                                   *)
(***************************************************************************)
EXTENDS Naturals, Sequences, FiniteSets, Functions

(* Kahn's algorithm, as _validate_dag and topo_sort share it.               *)

\* sorted(ids): at each position the id that has as many smaller ones.
InOrder(ids) ==
  [i \in 1 .. Cardinality(ids) |->
     CHOOSE s \in ids : Cardinality({t \in ids : t < s}) = i - 1]

\* The queue of steps with no dep, and everyone's count of deps.
KahnInit(deps) ==
  [queue    |-> InOrder({s \in DOMAIN deps : deps[s] = {}}),
   out      |-> <<>>,
   inDegree |-> [s \in DOMAIN deps |-> Cardinality(deps[s])]]

\* Mutant: a child is released one dep too early.
KahnPop_ReleasesAtOne(k, deps) ==
  LET cur      == Head(k.queue)
      children == {s \in DOMAIN deps : cur \in deps[s]}
      degree   == [s \in DOMAIN deps |->
                     IF s \in children THEN k.inDegree[s] - 1 ELSE k.inDegree[s]]
      ready    == {s \in children : degree[s] <= 1 /\ s \notin Range(k.out)}
  IN  [queue    |-> Tail(k.queue) \o InOrder(ready \ Range(k.queue)),
       out      |-> Append(k.out, cur),
       inDegree |-> degree]

\* One turn of the while loop: emit the head, release its children.
KahnPop(k, deps) ==
  LET cur      == Head(k.queue)
      children == {s \in DOMAIN deps : cur \in deps[s]}
      degree   == [s \in DOMAIN deps |->
                     IF s \in children THEN k.inDegree[s] - 1 ELSE k.inDegree[s]]
  IN  [queue    |-> Tail(k.queue) \o InOrder({s \in children : degree[s] = 0}),
       out      |-> Append(k.out, cur),
       inDegree |-> degree]

\* The loop's state after n turns; it stops when its queue is empty.
KahnTurns(deps) ==
  LET turn[n \in 0 .. Cardinality(DOMAIN deps)] ==
        IF n = 0 THEN KahnInit(deps)
        ELSE IF turn[n - 1].queue = <<>> THEN turn[n - 1]
        ELSE KahnPop(turn[n - 1], deps)
  IN  turn

\* Each turn emits one step, so as many turns as steps are enough.
Kahn(deps) == KahnTurns(deps)[Cardinality(DOMAIN deps)]

TopoSort(deps) == Kahn(deps).out

\* Mutant: only self-dependencies and unknown deps are refused.
ValidDag_NoCycleCheck(deps) ==
  \A s \in DOMAIN deps : deps[s] \subseteq DOMAIN deps /\ s \notin deps[s]

\* _validate_dag: known deps, no self-dependency, every step visited.
ValidDag(deps) ==
  /\ \A s \in DOMAIN deps : deps[s] \subseteq DOMAIN deps /\ s \notin deps[s]
  /\ Len(Kahn(deps).out) = Cardinality(DOMAIN deps)

=============================================================================

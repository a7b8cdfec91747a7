----------------------------- MODULE MCPlanRunner -----------------------------
(* Small plans for PlanRunner.                                              *)
EXTENDS PlanRunner, TLC

\* Step 3 waits for 1 and 2, which are independent: a failure of 1 leaves 2 to
\* run and 3 to block.
JoinDeps  == 1 :> {} @@ 2 :> {} @@ 3 :> {1, 2}
JoinOrder == <<1, 2, 3>>

\* Two chains, 1 to 3 and 2 to 4, that are run side by side: a failure of 1
\* blocks 3 and leaves 4 to run after it.
ChainsDeps  == 1 :> {} @@ 2 :> {} @@ 3 :> {1} @@ 4 :> {2}
ChainsOrder == <<1, 2, 3, 4>>

\* The orders are those topo_sort returns.
Sort == INSTANCE PlanSort
ASSUME OrdersAreSorted ==
  /\ JoinOrder = Sort!TopoSort(JoinDeps)
  /\ ChainsOrder = Sort!TopoSort(ChainsDeps)

=============================================================================

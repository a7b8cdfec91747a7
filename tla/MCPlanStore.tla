----------------------------- MODULE MCPlanStore -----------------------------
(* Small answers for PlanStore.                                             *)
EXTENDS PlanStore

Refs == [form : {"index", "id"}, n : 0 .. MaxSteps + 1]
Lists == {<<>>} \cup {<<d>> : d \in Refs}
         \cup {<<d, e>> : d, e \in {r \in Refs : r.n \in 1 .. 2}}

\* All answers of up to two steps with such deps, none, one or two, one step
\* named in both forms included, and longer ones whose first steps are good.
First == [good |-> TRUE, deps |-> <<>>]
Good  == [good : {TRUE}, deps : Lists]
MCAnswers ==
  {<<>>}
  \cup {<<s>> : s \in [good : BOOLEAN, deps : Lists]}
  \cup {<<s, t>> : s \in [good : BOOLEAN, deps : Lists], t \in [good : BOOLEAN, deps : Lists]}
  \cup {<<First, s, t>> : s \in Good, t \in Good}
  \cup {<<First, First, First, First>>}
=============================================================================

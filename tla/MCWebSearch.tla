----------------------------- MODULE MCWebSearch -----------------------------
(***************************************************************************)
(* WebSearch with two searches in one process and one in another, over two  *)
(* queries and two providers; a search may name a provider or one there is  *)
(* not.                                                                     *)
(***************************************************************************)
EXTENDS WebSearch, TLC

CONSTANTS s1, s2, s3, p1, p2

MCSearches == {s1, s2, s3}
MCProcOf   == [s \in MCSearches |-> IF s = s3 THEN p2 ELSE p1]
MCAsks     == {[query |-> "q", order |-> <<"tavily", "ddg">>],
               [query |-> "r", order |-> <<"ddg">>],
               [query |-> "q", order |-> <<>>]}

\* The two searches of one process are alike.
MCSymmetry == Permutations({s1, s2})
=============================================================================

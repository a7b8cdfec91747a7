----------------------------- MODULE MCModelCall -----------------------------
(***************************************************************************)
(* ModelCall with a server that sends a call whole or in two lines, a       *)
(* second call, one without an index (read as index 0), text and usage.     *)
(***************************************************************************)
EXTENDS ModelCall

MCLine(kind, idx, id, n) == [kind |-> kind, idx |-> idx, id |-> id, n |-> n]

MCLines ==
  {MCLine("text", 0, NoId, 0), MCLine("usage", 0, NoId, 1),
   MCLine("call", 0, "x", 2), MCLine("call", 0, "x", 1), MCLine("call", 0, NoId, 1),
   MCLine("call", 1, "y", 2), MCLine("call", 0, "y", 2)}
=============================================================================

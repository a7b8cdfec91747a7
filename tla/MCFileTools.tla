----------------------------- MODULE MCFileTools -----------------------------
(***************************************************************************)
(* FileTools on two files of the sandbox and one outside, with texts of one *)
(* size and one that differs from another in its newlines: all patches of   *)
(* up to two operations, and one of three, with writes, edits and reads.    *)
(***************************************************************************)
EXTENDS FileTools

MCPaths  == {"a", "b", "out"}
MCTracked == {"a"}
MCInside == {"a", "b"}
MCTexts  == {"x", "y", "x_crlf"}
MCSize   == [c \in MCTexts \cup {"empty"} |->
               CASE c = "empty" -> 0 [] c = "x_crlf" -> 2 [] OTHER -> 1]
MCLf     == [c \in MCTexts \cup {"empty"} |-> IF c = "x_crlf" THEN "x" ELSE c]

MCOp(op, p, from, to) == [op |-> op, path |-> p, from |-> from, to |-> to]

MCOpsOn(p) ==
  {MCOp("add", p, "x", c) : c \in {"empty", "x"}}
    \cup {MCOp("delete", p, "x", "empty")}
    \cup {MCOp("update", p, "x", c) : c \in {"empty", "x", "y"}}

MCOps == MCOpsOn("a")
  \cup {MCOp("add", "b", "x", "x"), MCOp("delete", "b", "x", "empty"), MCOp("update", "b", "x", "y")}
  \cup {MCOp("delete", "out", "x", "empty")}

MCPatches == {<<>>} \cup {<<o>> : o \in MCOps} \cup {<<o, q>> : o, q \in MCOps}
  \cup {<<MCOp("update", "a", "x", "y"), MCOp("add", "b", "x", "x"),
          MCOp("update", "a", "x", "empty")>>}

MCCalls ==
  {[tool |-> "apply_patch", ops |-> ops] : ops \in MCPatches}
    \cup {[tool |-> "write_file", ops |-> <<MCOp("write", p, "x", c)>>] :
            p \in {"a", "out"}, c \in {"x", "empty"}}
    \cup {[tool |-> "edit_file", ops |-> <<MCOp("edit", p, "x", c)>>] :
            p \in {"a", "out"}, c \in {"y", "empty"}}
    \cup {[tool |-> t, ops |-> <<MCOp("read", p, "x", "x")>>] :
            t \in {"read_file", "glob", "grep"}, p \in {"a", "out"}}
    \cup {[tool |-> "none", ops |-> <<>>]}

MCHooked == {c \in MCCalls : c.ops = <<MCOp("write", "out", "x", "x")>>
                            \/ c.ops = <<MCOp("delete", "b", "x", "empty")>>}
=============================================================================

--------------------------- MODULE FileToolsProofs ---------------------------
(***************************************************************************)
(* Theorems about FileTools, for any files, texts and tool calls, any       *)
(* sandbox and any hooks.                                                   *)
(***************************************************************************)
EXTENDS FileTools, WellFoundedInduction, TLAPS

\* Calls that write a file have one operation.
CallOK ==
  /\ call \in Call
  /\ call.tool \notin {"apply_patch", "none"} => Len(call.ops) = 1

\* A write or edit that has succeeded was in the sandbox: what lets the
\* formatter of the hooks rewrite the file.  Only patches commit.
HookOK ==
  /\ pc \in {"commit", "rollback"} => call.tool = "apply_patch"
  /\ pc = "post" /\ result = "ok" /\ call.tool \in {"write_file", "edit_file"} =>
       Ops[1].path \in Inside

IInv == TypeOK /\ CallOK /\ HookOK /\ CachedMeansSame

LEMMA InvInit == Init => IInv
<1>. SUFFICES ASSUME Init PROVE IInv
  OBVIOUS
<1>1. NoCall \in Call
  BY DEF NoCall, Call
<1>2. disk \in Disks /\ before \in Disks
  BY DEF Init, Disks, Content
<1>3. mtime \in [Tracked -> 0 .. MaxTicks] /\ clock \in 0 .. MaxTicks /\ calls \in 0 .. MaxCalls
  BY FileAssumption DEF Init
<1>4. applied \in Seq(ChangeType) /\ next \in 0 .. Len(applied) + 1
  BY DEF Init
<1>5. TypeOK
  BY <1>1, <1>2, <1>3, <1>4 DEF Init, TypeOK, Codes
<1>6. CallOK /\ HookOK /\ CachedMeansSame
  BY <1>1 DEF Init, CallOK, HookOK, CachedMeansSame, NoCall
<1>. QED
  BY <1>5, <1>6 DEF IInv

-----------------------------------------------------------------------------
(* What the parts of the actions keep.                                      *)

FilesOK == disk \in Disks /\ mtime \in [Tracked -> 0 .. MaxTicks]

\* A file gets a content, and the others stay.
LEMMA PutKeeps ==
  ASSUME FilesOK, clock \in 0 .. MaxTicks, NEW p, NEW c \in Content \cup {Absent}, Put(p, c)
  PROVE  FilesOK' /\ \A q \in Paths : q # p => disk'[q] = disk[q]
<1>1. disk' \in Disks /\ \A q \in Paths : q # p => disk'[q] = disk[q]
  BY DEF Put, FilesOK, Disks
<1>2. mtime' \in [Tracked -> 0 .. MaxTicks]
  BY DEF Put, FilesOK
<1>. QED
  BY <1>1, <1>2 DEF FilesOK

\* The parts of the state that belong to the call alone.
PatchOK ==
  /\ applied \in Seq(ChangeType) /\ next \in 0 .. Len(applied) + 1
  /\ pc = "commit" => next > 0
  /\ pc = "rollback" => next <= Len(applied)

\* A step of a call: what it has to show for its types.
LEMMA StepType ==
  ASSUME IInv,
         pc' \in {"idle", "called", "execute", "commit", "rollback", "post"},
         call' \in Call, before' \in Disks, calls' \in 0 .. MaxCalls,
         result' \in Codes, broken' \in BOOLEAN, FilesOK', PatchOK', UNCHANGED <<clock, tracker>>
  PROVE  TypeOK' /\ CachedMeansSame'
<1>1. TypeOK'
  BY DEF IInv, TypeOK, FilesOK, PatchOK, tracker
<1>2. CachedMeansSame'
  BY DEF IInv, CachedMeansSame, tracker
<1>. QED
  BY <1>1, <1>2

\* A call that is over leaves nothing.
LEMMA ReturnsType ==
  ASSUME IInv, Returns, FilesOK'
  PROVE  IInv'
<1>1. NoCall \in Call
  BY DEF NoCall, Call
<1>2. PatchOK'
  BY DEF Returns, PatchOK
<1>3. "none" \in Codes
  BY DEF Codes
<1>4. TypeOK' /\ CachedMeansSame'
  BY <1>1, <1>2, <1>3, StepType DEF Returns, FilesOK, IInv, TypeOK
<1>5. CallOK' /\ HookOK'
  BY <1>1 DEF Returns, CallOK, HookOK, NoCall
<1>. QED
  BY <1>4, <1>5 DEF IInv

\* What a call under way does not touch.
Untouched == UNCHANGED <<patching, clock, tracker>>

LEMMA UnderWay ==
  ASSUME IInv, Untouched, FilesOK', PatchOK', result' \in Codes, broken' \in BOOLEAN,
         pc' \in {"commit", "rollback", "post"},
         HookOK'
  PROVE  IInv'
<1>1. TypeOK' /\ CachedMeansSame'
  BY StepType DEF Untouched, patching, IInv, TypeOK
<1>2. CallOK'
  BY DEF Untouched, patching, IInv, CallOK
<1>. QED
  BY <1>1, <1>2 DEF IInv

LEMMA Parts == IInv => FilesOK /\ PatchOK
BY DEF IInv, TypeOK, FilesOK, PatchOK

\* The operation of a call of one.
LEMMA OneOp ==
  ASSUME IInv, call.tool \notin {"apply_patch", "none"}
  PROVE  Ops[1] \in Op
<1>1. call.ops \in Seq(Op) /\ Len(call.ops) = 1
  BY DEF IInv, CallOK, Call
<1>. QED
  BY <1>1 DEF Ops

-----------------------------------------------------------------------------
(* A call up to its execution, and after it.                                *)

LEMMA BeginKeeps ==
  ASSUME IInv, NEW c \in Calls, Begin(c)
  PROVE  IInv'
<1>1. c \in Call /\ CallOK'
  BY FileAssumption DEF Begin, CallOK
<1>2. calls' \in 0 .. MaxCalls /\ before' \in Disks
  BY FileAssumption DEF Begin, IInv, TypeOK
<1>3. FilesOK' /\ PatchOK'
  BY Parts DEF Begin, FilesOK, PatchOK, files, Goes
<1>4. TypeOK' /\ CachedMeansSame'
  BY <1>1, <1>2, <1>3, StepType DEF Begin, Goes, IInv, TypeOK
<1>5. HookOK'
  BY DEF Begin, Goes, HookOK
<1>. QED
  BY <1>1, <1>4, <1>5 DEF IInv

LEMMA AllowKeeps ==
  ASSUME IInv, Allow
  PROVE  IInv'
<1>1. call' \in Call /\ CallOK'
  BY FileAssumption DEF Allow, IInv, CallOK
<1>2. FilesOK' /\ PatchOK'
  BY Parts DEF Allow, FilesOK, PatchOK, files, Goes
<1>3. TypeOK' /\ CachedMeansSame'
  BY <1>1, <1>2, StepType DEF Allow, Goes, IInv, TypeOK
<1>4. HookOK'
  BY DEF Allow, Goes, HookOK
<1>. QED
  BY <1>1, <1>3, <1>4 DEF IInv

LEMMA ExecuteRaisesKeeps ==
  ASSUME IInv, ExecuteRaises
  PROVE  IInv'
<1>1. pc' = "post" /\ result' = "tool_error" /\ Untouched
      /\ UNCHANGED <<applied, next, broken, files>>
  BY DEF ExecuteRaises, Ends, Untouched
<1>2. FilesOK' /\ PatchOK' /\ HookOK'
  BY <1>1, Parts DEF FilesOK, PatchOK, files, HookOK
<1>. QED
  BY <1>1, <1>2, UnderWay DEF Codes, IInv, TypeOK

LEMMA LooksKeeps ==
  ASSUME IInv, Looks
  PROVE  IInv'
<1>1. /\ call.tool \in {"read_file", "glob", "grep"}
      /\ pc' = "post" /\ result' \in Codes /\ Untouched
      /\ UNCHANGED <<applied, next, broken, files>>
  BY DEF Looks, Ends, ReadCodes, GlobCodes, GrepCodes, Codes, Untouched
<1>2. FilesOK' /\ PatchOK'
  BY <1>1, Parts DEF FilesOK, PatchOK, files
<1>3. HookOK'
  BY <1>1 DEF HookOK, Untouched, patching
<1>. QED
  BY <1>1, <1>2, <1>3, UnderWay DEF IInv, TypeOK

\* write_file and edit_file change the file they are given, in the sandbox.
LEMMA WriteOrEditKeeps ==
  ASSUME IInv, WriteOrEdit
  PROVE  IInv' /\ \A p \in Paths \ Inside : disk'[p] = disk[p]
<1> DEFINE o == Ops[1]
<1>1. /\ pc' = "post" /\ Untouched /\ UNCHANGED <<applied, next, broken>>
      /\ call.tool \in {"write_file", "edit_file"}
  BY DEF WriteOrEdit, WriteFile, Ends, Untouched
<1>2. o \in Op /\ o.to \in Content
  BY <1>1, OneOp DEF Op
<1>3. EditRefusals(o) \subseteq Codes \ {"ok"} /\ (MayWrite(o) => o.path \in Inside)
  <2>. HIDE DEF o
  <2>1. EditRefusals(o) \subseteq {"out_of_project", "file_not_found", "io_error",
                                  "old_string_not_found", "ambiguous_match"}
    BY DEF EditRefusals
  <2>. QED
    BY <2>1 DEF Codes, MayWrite
<1>4. CASE UNCHANGED files /\ result' \in EditRefusals(o)
  <2>1. FilesOK' /\ PatchOK' /\ HookOK'
    BY <1>1, <1>3, <1>4, Parts DEF FilesOK, PatchOK, HookOK, files
  <2>. QED
    BY <1>1, <1>3, <1>4, <2>1, UnderWay DEF IInv, TypeOK, files
<1>5. CASE UNCHANGED files /\ result' \in {"io_error", "tool_error"}
  <2>1. FilesOK' /\ PatchOK' /\ HookOK'
    BY <1>1, <1>5, Parts DEF FilesOK, PatchOK, HookOK, files
  <2>. QED
    BY <1>1, <1>5, <2>1, UnderWay DEF IInv, TypeOK, files, Codes
<1>6. CASE Put(o.path, o.to) /\ result' = "ok" /\ MayWrite(o)
  <2>1. FilesOK' /\ \A q \in Paths : q # o.path => disk'[q] = disk[q]
    BY <1>2, <1>6, Parts, PutKeeps DEF IInv, TypeOK
  <2>2. PatchOK'
    BY <1>1, Parts DEF PatchOK
  <2>3. HookOK'
    BY <1>1, <1>3, <1>6 DEF HookOK, Untouched, patching, Ops
  <2>4. "ok" \in Codes
    BY DEF Codes
  <2>. QED
    BY <1>1, <1>3, <1>6, <2>1, <2>2, <2>3, <2>4, UnderWay DEF IInv, TypeOK
<1>. QED
  BY <1>4, <1>5, <1>6 DEF WriteOrEdit, WriteFile, Ends

\* A formatter of the hooks rewrites only what the tool was allowed to.
LEMMA PostHooksKeeps ==
  ASSUME IInv, PostHooks
  PROVE  IInv' /\ \A p \in Paths \ Inside : disk'[p] = disk[p]
<1>1. CASE UNCHANGED files
  <2>1. FilesOK'
    BY <1>1, Parts DEF FilesOK, files
  <2>. QED
    BY <1>1, <2>1, ReturnsType DEF PostHooks, files
<1>2. ASSUME NEW c \in Content, Put(Ops[1].path, c), result = "ok",
             call.tool \in {"write_file", "edit_file"}
      PROVE  IInv' /\ \A p \in Paths \ Inside : disk'[p] = disk[p]
  <2>1. Ops[1].path \in Inside
    BY <1>2 DEF PostHooks, IInv, HookOK
  <2>2. FilesOK' /\ \A q \in Paths : q # Ops[1].path => disk'[q] = disk[q]
    BY <1>2, Parts, PutKeeps DEF IInv, TypeOK
  <2>. QED
    BY <2>1, <2>2, ReturnsType DEF PostHooks
<1>. QED
  BY <1>1, <1>2 DEF PostHooks
-----------------------------------------------------------------------------
(* Patches.                                                                 *)

LEMMA LeastExists ==
  ASSUME NEW S, S \subseteq Nat, S # {}
  PROVE  \E i \in S : \A j \in S : i <= j
<1> DEFINE R == OpToRel(<, Nat)
<1>1. IsWellFoundedOn(R, Nat)
  BY NatLessThanWellFounded
<1>2. R = {ss \in Nat \X Nat : ss[1] < ss[2]}
  BY Zenon DEF OpToRel
<1>3. \A x, y \in Nat : x < y => <<x, y>> \in R
  BY <1>2
<1>. HIDE DEF R
<1>4. PICK x \in S : \A y \in S : ~ (<<y, x>> \in R)
  BY <1>1, WFMin
<1>5. ASSUME NEW y \in S PROVE x <= y
  <2>1. x \in Nat /\ y \in Nat /\ ~ (y < x)
    BY <1>3, <1>4
  <2>. QED
    BY <2>1
<1>. QED
  BY <1>5

LEMMA FirstIsRefused ==
  ASSUME RefusedOps # {}
  PROVE  FirstRefused \in RefusedOps
<1>1. RefusedOps \subseteq Nat
  BY DEF RefusedOps
<1>2. \E i \in RefusedOps : \A j \in RefusedOps : i <= j
  BY <1>1, LeastExists
<1>. QED
  BY <1>2 DEF FirstRefused

\* read_text of what has been read changes nothing.
LEMMA TextOfText ==
  ASSUME NEW c \in Content \cup {Absent}
  PROVE  /\ Text(c) \in Content \cup {Absent}
         /\ Text(Text(c)) = Text(c)
         /\ Text(c) = Absent <=> c = Absent
<1>1. c \in Content => Lf[c] \in Content /\ Lf[Lf[c]] = Lf[c]
  BY FileAssumption
<1>2. Absent \notin Content
  BY FileAssumption
<1>. QED
  BY <1>1, <1>2 DEF Text

\* The changes of operations in the sandbox are of the type of changes.
LEMMA ChangesType ==
  ASSUME IInv, \A i \in 1 .. Len(Ops) : Ops[i].path \in Inside, NEW n \in 0 .. Len(Ops)
  PROVE  Changes(n) \in Seq(ChangeType) /\ Len(Changes(n)) = n
<1>1. Ops \in Seq(Op)
  BY DEF IInv, CallOK, Call, Ops
<1>2. ASSUME NEW i \in 1 .. n PROVE Change(Ops[i]) \in ChangeType
  <2>1. Ops[i] \in Op /\ Ops[i].path \in Inside
    BY <1>1
  <2>2. Ops[i].path \in Paths /\ Ops[i].to \in Content
    BY <2>1 DEF Op
  <2>3. disk[Ops[i].path] \in Content \cup {Absent}
    BY <2>2 DEF IInv, TypeOK, Disks
  <2>4. Text(disk[Ops[i].path]) \in Content \cup {Absent} /\ Empty \in Content
    BY <2>3, TextOfText DEF Content
  <2>. QED
    BY <2>1, <2>2, <2>4 DEF Change, ChangeType
<1>3. Changes(n) \in [1 .. n -> ChangeType]
  BY <1>2 DEF Changes
<1>4. n \in Nat /\ Len(Ops) \in Nat
  BY <1>1
<1>. QED
  BY <1>3, <1>4

\* The preflight touches no file, and leaves changes in the sandbox only.
LEMMA PreflightKeeps ==
  ASSUME IInv, Preflight
  PROVE  IInv'
<1>1. call.tool = "apply_patch" /\ Untouched /\ UNCHANGED <<broken, files>>
  BY DEF Preflight, Untouched
<1>2. FilesOK'
  BY <1>1, Parts DEF FilesOK, files
<1>3. HookOK' \/ pc' \notin {"commit", "rollback", "post"}
  BY <1>1 DEF HookOK, Untouched, patching
<1>4. CASE pc' = "post" /\ result' \in Codes /\ UNCHANGED <<applied, next>>
  <2>1. PatchOK'
    BY <1>4, Parts DEF PatchOK
  <2>. QED
    BY <1>1, <1>2, <1>3, <1>4, <2>1, UnderWay DEF IInv, TypeOK
<1>5. ASSUME Ops # <<>>, \A i \in 1 .. Len(Ops) : Ops[i].path \in Inside, PreflightOps
      PROVE  IInv'
  <2>1. Ops \in Seq(Op) /\ Len(Ops) \in Nat
    BY DEF IInv, CallOK, Call, Ops
  <2>2. ASSUME NEW n \in 1 .. Len(Ops), NEW code \in Codes, StopsAt(n, code)
        PROVE  IInv'
    <3>1. Changes(n - 1) \in Seq(ChangeType) /\ Len(Changes(n - 1)) = n - 1
      BY <1>5, <2>1, ChangesType
    <3>2. PatchOK' /\ pc' = "rollback" /\ result' \in Codes
      BY <2>1, <2>2, <3>1 DEF StopsAt, PatchOK
    <3>. QED
      BY <1>1, <1>2, <1>3, <3>2, UnderWay DEF IInv, TypeOK
  <2>3. CASE RefusedOps = {} /\ applied' = Changes(Len(Ops)) /\ next' = 1 /\ pc' = "commit"
             /\ UNCHANGED result
    <3>1. Changes(Len(Ops)) \in Seq(ChangeType) /\ Len(Changes(Len(Ops))) = Len(Ops)
      BY <1>5, <2>1, ChangesType
    <3>2. PatchOK'
      BY <2>1, <2>3, <3>1 DEF PatchOK
    <3>. QED
      BY <1>1, <1>2, <1>3, <2>3, <3>2, UnderWay DEF IInv, TypeOK
  <2>4. CASE RefusedOps # {} /\ StopsAt(FirstRefused, OpRefusal(Ops[FirstRefused]))
    <3>1. FirstRefused \in 1 .. Len(Ops)
      BY <2>4, FirstIsRefused DEF RefusedOps
    <3>2. OpRefusal(Ops[FirstRefused]) \in Codes
      BY DEF OpRefusal, Codes
    <3>. QED
      BY <2>2, <2>4, <3>1, <3>2
  <2>5. CASE \E n \in 1 .. Len(Ops) : StopsAt(n, "apply_error")
    BY <2>2, <2>5 DEF Codes
  <2>. QED
    BY <1>5, <2>3, <2>4, <2>5 DEF PreflightOps
<1>. QED
  BY <1>4, <1>5 DEF Preflight, Ends, Codes

\* An entry of applied.
LEMMA EntryType ==
  ASSUME IInv, NEW i \in 1 .. Len(applied)
  PROVE  applied[i] \in ChangeType /\ applied[i].path \in Inside
         /\ applied[i].old \in Content \cup {Absent} /\ applied[i].new \in Content
<1>1. applied[i] \in ChangeType
  BY DEF IInv, TypeOK
<1>. QED
  BY <1>1 DEF ChangeType

\* A step of a patch under way that writes at most one file, of the sandbox.
LEMMA PatchStep ==
  ASSUME IInv, NEW p \in Inside, NEW c \in Content \cup {Absent},
         UNCHANGED files \/ Put(p, c), PatchOK', Untouched, UNCHANGED applied,
         call.tool = "apply_patch", pc' \in {"commit", "rollback", "post"},
         result' \in Codes, broken' \in BOOLEAN
  PROVE  IInv' /\ \A q \in Paths \ Inside : disk'[q] = disk[q]
<1>1. FilesOK' /\ \A q \in Paths \ Inside : disk'[q] = disk[q]
  <2>1. CASE UNCHANGED files
    BY <2>1, Parts DEF FilesOK, files
  <2>2. CASE Put(p, c)
    BY <2>2, Parts, PutKeeps, FileAssumption DEF IInv, TypeOK
  <2>. QED
    BY <2>1, <2>2
<1>2. HookOK'
  BY DEF HookOK, Untouched, patching
<1>. QED
  BY <1>1, <1>2, UnderWay

LEMMA CommitUnlinkKeeps ==
  ASSUME IInv, CommitUnlink
  PROVE  IInv' /\ \A q \in Paths \ Inside : disk'[q] = disk[q]
<1>1. call.tool = "apply_patch" /\ Untouched /\ UNCHANGED <<applied, broken>>
  BY DEF CommitUnlink, Committing, IInv, HookOK, Untouched
<1>2. next \in 1 .. Len(applied) /\ Len(applied) \in Nat
  BY DEF CommitUnlink, Committing, IInv, TypeOK
<1>3. Entry.path \in Inside
  BY <1>2, EntryType DEF Entry
<1>4. UNCHANGED files \/ Put(Entry.path, Absent)
  BY DEF CommitUnlink
<1>5. PatchOK' /\ pc' \in {"commit", "post"} /\ result' \in Codes
  BY <1>1, <1>2, Parts DEF CommitUnlink, Committing, Ends, PatchOK, Codes, IInv, TypeOK
<1>. QED
  BY <1>1, <1>3, <1>4, <1>5, PatchStep DEF IInv, TypeOK

LEMMA CommitWriteKeeps ==
  ASSUME IInv, CommitWrite
  PROVE  IInv' /\ \A q \in Paths \ Inside : disk'[q] = disk[q]
<1>1. call.tool = "apply_patch" /\ Untouched /\ UNCHANGED <<applied, broken>>
  BY DEF CommitWrite, Committing, IInv, HookOK, Untouched
<1>2. next \in 1 .. Len(applied) /\ Len(applied) \in Nat
  BY DEF CommitWrite, Committing, IInv, TypeOK
<1>3. Entry.path \in Inside /\ Entry.new \in Content
  BY <1>2, EntryType DEF Entry
<1>4. UNCHANGED files \/ Put(Entry.path, Entry.new)
  BY DEF CommitWrite, WriteFile
<1>5. PatchOK' /\ pc' \in {"commit", "rollback", "post"} /\ result' \in Codes
  BY <1>1, <1>2, Parts DEF CommitWrite, WriteFile, Committing, Ends, PatchOK, Codes, IInv, TypeOK
<1>. QED
  BY <1>1, <1>3, <1>4, <1>5, PatchStep DEF IInv, TypeOK

\* A restore writes the file of its entry.
LEMMA RollBackOneKeeps ==
  ASSUME IInv, RollBackOne
  PROVE  IInv' /\ \A q \in Paths \ Inside : disk'[q] = disk[q]
<1> DEFINE e == applied[next]
<1>1. /\ call.tool = "apply_patch" /\ Untouched /\ UNCHANGED <<applied, result>>
      /\ pc' = "rollback" /\ next' = next - 1 /\ broken' \in BOOLEAN /\ next > 0
  BY DEF RollBackOne, IInv, TypeOK, HookOK, Untouched
<1>2. PatchOK'
  BY <1>1, Parts DEF PatchOK
<1>3. next \in 1 .. Len(applied)
  BY <1>1, Parts DEF PatchOK, RollBackOne
<1>4. e.path \in Inside /\ e.old \in Content \cup {Absent} /\ Empty \in Content
  BY <1>3, EntryType DEF Content
<1>5. UNCHANGED files \/ Put(e.path, e.old) \/ Put(e.path, Empty)
  BY DEF RollBackOne, Restore
<1>6. result' \in Codes
  BY <1>1 DEF IInv, TypeOK
<1>. QED
  BY <1>1, <1>2, <1>4, <1>5, <1>6, PatchStep

LEMMA CommittedKeeps ==
  ASSUME IInv, Committed \/ RolledBack
  PROVE  IInv'
<1>1. /\ call.tool = "apply_patch" /\ Untouched /\ UNCHANGED <<applied, next, broken, files>>
      /\ pc' = "post" /\ result' \in Codes
  BY DEF Committed, RolledBack, Ends, IInv, TypeOK, HookOK, Untouched, Codes
<1>2. FilesOK' /\ PatchOK' /\ HookOK'
  BY <1>1, Parts DEF FilesOK, PatchOK, HookOK, files, Untouched, patching
<1>. QED
  BY <1>1, <1>2, UnderWay DEF IInv, TypeOK

-----------------------------------------------------------------------------
(* Between calls: the user, the clock and the tracker.                      *)

\* Nothing of the call changes.
LEMMA BetweenCalls ==
  ASSUME IInv, UNCHANGED <<pc, call, applied, next, result, broken, calls>>, pc = "idle"
  PROVE  CallOK' /\ HookOK' /\ PatchOK'
BY Parts DEF IInv, CallOK, HookOK, PatchOK

LEMMA UserEditsKeeps ==
  ASSUME IInv, NEW p \in Paths, NEW c \in Content \cup {Absent}, UserEdits(p, c)
  PROVE  IInv'
<1>1. FilesOK'
  BY Parts, PutKeeps DEF UserEdits, IInv, TypeOK
<1>2. CallOK' /\ HookOK' /\ PatchOK'
  BY BetweenCalls DEF UserEdits
<1>3. TypeOK' /\ CachedMeansSame'
  BY <1>1, <1>2, StepType DEF UserEdits, IInv, TypeOK, FilesOK
<1>. QED
  BY <1>2, <1>3 DEF IInv

LEMMA TickKeeps ==
  ASSUME IInv, Tick
  PROVE  IInv'
<1>1. CallOK' /\ HookOK' /\ PatchOK'
  BY BetweenCalls DEF Tick, patching
<1>2. clock' \in 0 .. MaxTicks
  BY FileAssumption DEF Tick, IInv, TypeOK
<1>3. TypeOK' /\ CachedMeansSame'
  BY <1>2 DEF Tick, IInv, TypeOK, CachedMeansSame, patching, files, tracker
<1>. QED
  BY <1>1, <1>3 DEF IInv

\* A reader who is not told that the file is cached reads it; one who is
\* has read what the row says, and the row is the file.
LEMMA LookupKeeps ==
  ASSUME IInv, NEW p \in Tracked, Lookup(p)
  PROVE  IInv'
<1>1. CallOK' /\ HookOK' /\ PatchOK'
  BY BetweenCalls DEF Lookup, patching
<1>2. disk[p] \in Content /\ mtime[p] \in Nat /\ Size[disk[p]] \in Nat
  BY FileAssumption DEF Lookup, Exists, IInv, TypeOK, Disks
<1>3. FileState(p) \in [mtime : Nat, size : Nat, hash : Content] /\ FileState(p).hash = disk[p]
  BY <1>2 DEF FileState
<1>4. seen' \in [Tracked -> [mtime : Nat, size : Nat, hash : Content] \cup {Absent}]
      /\ seen' = [seen EXCEPT ![p] = FileState(p)]
  BY <1>3 DEF Lookup, IInv, TypeOK
<1>5. read' = [read EXCEPT ![p] = disk[p]]
  <2>1. Unchanged(p) => read[p] = disk[p]
    BY <1>3 DEF Unchanged, IInv, CachedMeansSame
  <2>2. read' = [read EXCEPT ![p] = IF Unchanged(p) THEN read[p] ELSE disk[p]]
    BY DEF Lookup
  <2>. QED
    BY <2>1, <2>2
<1>6. read' \in [Tracked -> Content \cup {Absent}]
  BY <1>2, <1>5 DEF IInv, TypeOK
<1>7. TypeOK'
  BY <1>4, <1>6 DEF Lookup, IInv, TypeOK, patching, files
<1>8. CachedMeansSame'
  <2>. SUFFICES ASSUME NEW q \in Tracked, seen'[q] # Absent PROVE read'[q] = seen'[q].hash
    BY DEF CachedMeansSame
  <2>1. CASE q = p
    BY <2>1, <1>3, <1>4, <1>5 DEF IInv, TypeOK
  <2>2. CASE q # p
    BY <2>2, <1>4, <1>5 DEF IInv, TypeOK, CachedMeansSame
  <2>. QED
    BY <2>1, <2>2
<1>. QED
  BY <1>1, <1>7, <1>8 DEF IInv

LEMMA InvalidateKeeps ==
  ASSUME IInv, NEW p \in Tracked, Invalidate(p)
  PROVE  IInv'
<1>1. CallOK' /\ HookOK' /\ PatchOK'
  BY BetweenCalls DEF Invalidate, patching
<1>2. seen' = [seen EXCEPT ![p] = Absent]
      /\ seen' \in [Tracked -> [mtime : Nat, size : Nat, hash : Content] \cup {Absent}]
  BY DEF Invalidate, IInv, TypeOK
<1>3. TypeOK'
  BY <1>2 DEF Invalidate, IInv, TypeOK, patching, files
<1>4. CachedMeansSame'
  BY <1>2 DEF Invalidate, IInv, TypeOK, CachedMeansSame
<1>. QED
  BY <1>1, <1>3, <1>4 DEF IInv

-----------------------------------------------------------------------------
(* The theorems.                                                            *)

LEMMA StepKeeps ==
  ASSUME IInv, Next
  PROVE  IInv' /\ (pc # "idle" => \A p \in Paths \ Inside : disk'[p] = disk[p])
<1>1. ASSUME NEW c \in Calls, Begin(c)
      PROVE  IInv' /\ (pc # "idle" => \A p \in Paths \ Inside : disk'[p] = disk[p])
  BY <1>1, BeginKeeps DEF Begin, Goes
<1>2. CASE Refuse
  <2>1. FilesOK'
    BY <1>2, Parts DEF Refuse, FilesOK, files
  <2>. QED
    BY <1>2, <2>1, ReturnsType DEF Refuse, files
<1>3. CASE Allow
  BY <1>3, AllowKeeps DEF Allow, files
<1>4. CASE ExecuteRaises
  BY <1>4, ExecuteRaisesKeeps DEF ExecuteRaises, files
<1>5. CASE WriteOrEdit
  BY <1>5, WriteOrEditKeeps
<1>6. CASE Looks
  BY <1>6, LooksKeeps DEF Looks, files
<1>7. CASE Preflight
  BY <1>7, PreflightKeeps DEF Preflight, files
<1>8. CASE CommitUnlink
  BY <1>8, CommitUnlinkKeeps
<1>9. CASE CommitWrite
  BY <1>9, CommitWriteKeeps
<1>10. CASE Committed \/ RolledBack
  BY <1>10, CommittedKeeps DEF Committed, RolledBack, files
<1>11. CASE RollBackOne
  BY <1>11, RollBackOneKeeps
<1>12. CASE Die
  <2>1. FilesOK'
    BY <1>12, Parts DEF Die, FilesOK, files
  <2>. QED
    BY <1>12, <2>1, ReturnsType DEF Die, files
<1>13. CASE PostHooks
  BY <1>13, PostHooksKeeps
<1>14. ASSUME NEW p \in Paths, NEW c \in Content \cup {Absent}, UserEdits(p, c)
       PROVE  IInv' /\ pc = "idle"
  BY <1>14, UserEditsKeeps DEF UserEdits
<1>15. ASSUME NEW p \in Tracked, Lookup(p) \/ Invalidate(p)
       PROVE  IInv' /\ pc = "idle"
  BY <1>15, LookupKeeps, InvalidateKeeps DEF Lookup, Invalidate
<1>16. CASE Tick
  BY <1>16, TickKeeps DEF Tick
<1>. QED
  BY <1>1, <1>2, <1>3, <1>4, <1>5, <1>6, <1>7, <1>8, <1>9, <1>10, <1>11, <1>12, <1>13,
     <1>14, <1>15, <1>16 DEF Next

LEMMA StutterKeeps ==
  ASSUME IInv, UNCHANGED vars
  PROVE  IInv'
BY DEF IInv, TypeOK, CallOK, HookOK, CachedMeansSame, vars, files, patching, tracker, Ops

\* The invariant holds in every reachable state.
THEOREM Invariant == Spec => []IInv
<1>1. IInv /\ [Next]_vars => IInv'
  BY StepKeeps, StutterKeeps
<1>. QED
  BY InvInit, <1>1, PTL DEF Spec

\* The files, the call and the tracker's rows have their types, a patch has
\* only changes of the sandbox, and a change to commit or to restore wherever
\* the call is (ApplyPatchTool.execute and _rollback).
THEOREM Typed == Spec => []TypeOK
<1>1. IInv => TypeOK
  BY DEF IInv
<1>. QED
  BY <1>1, Invariant, PTL

\* A file the tracker calls cached is one whose content its reader has seen,
\* whatever tools and users write in between (FileTracker.lookup).
THEOREM CachedIsSame == Spec => []CachedMeansSame
<1>1. IInv => CachedMeansSame
  BY DEF IInv
<1>. QED
  BY <1>1, Invariant, PTL

\* No step of a call, its hooks and its rollback included, changes a file
\* outside the sandbox (write_file, edit_file, apply_patch and the hooks).
THEOREM SandboxAlwaysHolds == Spec => SandboxHolds
<1>1. IInv /\ [Next]_vars =>
        [pc # "idle" => \A p \in Paths \ Inside : disk'[p] = disk[p]]_vars
  BY StepKeeps
<1>. QED
  BY <1>1, Invariant, PTL DEF Spec, SandboxHolds

-----------------------------------------------------------------------------
(* What is on the disk.                                                     *)

CallFits == \A i \in 1 .. Len(Ops) : Ops[i].op \in OpsOf(call.tool)

\* applied is made of the first operations, and of the texts before the call.
AppliedTells ==
  /\ Len(applied) <= Len(Ops)
  /\ \A i \in 1 .. Len(applied) :
       /\ applied[i].path = Ops[i].path /\ applied[i].old = Text(before[Ops[i].path])
       /\ applied[i].new = IF Ops[i].op = "delete" THEN Empty ELSE Ops[i].to

\* What the i-th change leaves in its file.
Final(i) == IF applied[i].new = Empty THEN Absent ELSE applied[i].new

\* The first n changes are on the disk: a file none of them is about is as it
\* was, any other as the last of them on it has left it.
Made(n) ==
  \A p \in Paths :
    /\ (\A i \in 1 .. n : applied[i].path # p) => disk[p] = before[p]
    /\ \A i \in 1 .. n :
         applied[i].path = p /\ (\A j \in i + 1 .. n : applied[j].path # p) => disk[p] = Final(i)

\* Files that the first n changes are not about have their texts again.
Restored(n) ==
  \A p \in Paths : (\A i \in 1 .. n : applied[i].path # p) => Text(disk[p]) = Text(before[p])

\* Files no operation is about are as they were.
OthersStay ==
  \A p \in Paths : (\A i \in 1 .. Len(Ops) : Ops[i].path # p) => disk[p] = before[p]

\* Until a patch commits or a tool writes, the disk is as it was before; the
\* commit has made the changes before the next, the rollback has undone those
\* after it.
DiskInv ==
  /\ CallFits
  /\ pc \in {"called", "execute"} => disk = before
  /\ pc \in {"commit", "rollback"} => AppliedTells
  /\ pc = "commit" => Len(applied) = Len(Ops) /\ Made(next - 1)
  /\ pc = "rollback" => result # "ok" /\ call.tool = "apply_patch" /\ (~broken => Restored(next))
  /\ pc = "rollback" => OthersStay
  /\ ResultTellsDisk

LEMMA OpsTyped ==
  ASSUME IInv
  PROVE  Ops \in Seq(Op) /\ Len(Ops) \in Nat
         /\ \A i \in 1 .. Len(Ops) : Ops[i] \in Op /\ Ops[i].path \in Paths
              /\ Ops[i].to \in Content
<1>1. Ops \in Seq(Op)
  BY DEF IInv, CallOK, Call, Ops
<1>2. Len(Ops) \in Nat /\ \A i \in 1 .. Len(Ops) : Ops[i] \in Op
  BY <1>1
<1>. QED
  BY <1>1, <1>2 DEF Op

LEMMA DiskInit == Init => DiskInv
BY DEF Init, DiskInv, CallFits, Ops, NoCall, ResultTellsDisk

\* A call that is over.
LEMMA ReturnsDisk ==
  ASSUME Returns
  PROVE  DiskInv'
BY DEF Returns, DiskInv, CallFits, Ops, NoCall, ResultTellsDisk

\* A step of a call leaves its operations as they fit.
LEMMA SameCallFits ==
  ASSUME DiskInv, UNCHANGED call
  PROVE  CallFits'
BY DEF DiskInv, CallFits, Ops

\* A result that is not "ok" over a disk that has not changed.
LEMMA ToldUnchanged ==
  ASSUME DiskInv, UNCHANGED <<call, before>>, pc' = "post",
         result' # "ok", disk' = before
  PROVE  DiskInv'
<1>1. ResultTellsDisk'
  <2>1. disk' = before' /\ NoneMade'
    BY DEF NoneMade
  <2>. QED
    BY <2>1 DEF ResultTellsDisk
<1>. QED
  BY <1>1, SameCallFits DEF DiskInv

LEMMA BeforeExecution ==
  ASSUME IInv, DiskInv, (\E c \in Calls : Begin(c)) \/ Allow \/ ExecuteRaises
  PROVE  DiskInv'
<1>1. ASSUME NEW c \in Calls, Begin(c) PROVE DiskInv'
  <2>1. call' = c /\ pc' = "called" /\ disk' = before'
    BY <1>1 DEF Begin, Goes, files
  <2>2. CallFits'
    BY <2>1, FileAssumption DEF CallFits, Ops
  <2>. QED
    BY <2>1, <2>2 DEF DiskInv, ResultTellsDisk
<1>2. CASE Allow
  <2>1. /\ pc = "called" /\ pc' = "execute" /\ disk' = disk /\ before' = before
        /\ call' = call \/ call' \in Calls
    BY <1>2, FileAssumption DEF Allow, Goes, files
  <2>2. CallFits'
    BY <2>1, FileAssumption DEF DiskInv, CallFits, Ops
  <2>. QED
    BY <2>1, <2>2 DEF DiskInv, ResultTellsDisk
<1>3. CASE ExecuteRaises
  <2>1. /\ pc = "execute" /\ pc' = "post" /\ result' = "tool_error"
        /\ disk' = disk /\ UNCHANGED <<call, before>>
    BY <1>3 DEF ExecuteRaises, Ends, files, patching
  <2>. QED
    BY <2>1, ToldUnchanged DEF DiskInv
<1>. QED
  BY <1>1, <1>2, <1>3

LEMMA WriteOrEditDisk ==
  ASSUME IInv, DiskInv, WriteOrEdit
  PROVE  DiskInv'
<1> DEFINE o == Ops[1]
<1>1. /\ pc = "execute" /\ pc' = "post" /\ UNCHANGED <<call, before>>
      /\ call.tool \in {"write_file", "edit_file"}
  BY DEF WriteOrEdit, WriteFile, Ends, patching
<1>2. disk = before
  BY <1>1 DEF DiskInv
<1>3. "ok" \notin EditRefusals(o)
  BY DEF EditRefusals
<1>4. CASE UNCHANGED files /\ result' \in EditRefusals(o) \cup {"io_error", "tool_error"}
  BY <1>1, <1>2, <1>3, <1>4, ToldUnchanged DEF files
<1>5. CASE Put(o.path, o.to) /\ result' = "ok"
  <2>1. Len(Ops) = 1 /\ o.path \in Paths
    BY <1>1, OpsTyped DEF IInv, CallOK, Ops
  <2>2. o.op # "read"
    BY <1>1, <2>1 DEF DiskInv, CallFits, OpsOf
  <2>3. disk' = [disk EXCEPT ![o.path] = o.to] /\ disk \in [Paths -> Content \cup {Absent}]
    BY <1>5 DEF Put, IInv, TypeOK, Disks
  <2>4. \A i \in 1 .. Len(Ops) : i = 1
    BY <2>1
  <2>5. 1 \in 1 .. Len(Ops) /\ o.op # "delete"
    BY <1>1, <2>1 DEF DiskInv, CallFits, OpsOf
  <2>6. disk'[o.path] = o.to /\ \A p \in Paths : p # o.path => disk'[p] = before[p]
    BY <1>2, <2>1, <2>3
  <2>7. Changed(o.path)
    BY <2>2, <2>5 DEF Changed
  <2>8. AllMade'
    BY <1>1, <2>4, <2>5, <2>6 DEF AllMade, Asked, Ops
  <2>9. \A p \in Paths : ~Changed(p)' => disk'[p] = before'[p]
    BY <1>1, <2>6, <2>7 DEF Changed, Ops
  <2>10. ResultTellsDisk'
    BY <1>5, <2>8, <2>9 DEF ResultTellsDisk
  <2>. QED
    BY <1>1, <2>10, SameCallFits DEF DiskInv
<1>. QED
  BY <1>4, <1>5 DEF WriteOrEdit, WriteFile, Ends

LEMMA LooksDisk ==
  ASSUME IInv, DiskInv, Looks
  PROVE  DiskInv'
<1>1. /\ pc = "execute" /\ pc' = "post" /\ UNCHANGED <<call, before, disk>>
      /\ call.tool \in {"read_file", "glob", "grep"}
  BY DEF Looks, Ends, patching, files
<1>2. disk = before /\ disk \in [Paths -> Content \cup {Absent}]
  BY <1>1 DEF DiskInv, IInv, TypeOK, Disks
<1>3. Len(Ops) = 1
  BY <1>1 DEF IInv, CallOK, Ops
<1>4. Ops[1].op = "read"
  BY <1>1, <1>3 DEF DiskInv, CallFits, OpsOf
<1>5. \A i \in 1 .. Len(Ops) : Ops[i].op = "read"
  BY <1>3, <1>4
<1>6. ResultTellsDisk'
  BY <1>1, <1>2, <1>5 DEF ResultTellsDisk, AllMade, NoneMade, Ops
<1>. QED
  BY <1>1, <1>6, SameCallFits DEF DiskInv

\* The changes the preflight has made ready tell what was on the disk.
LEMMA ChangesTell ==
  ASSUME IInv, disk = before, UNCHANGED <<call, before>>,
         NEW n \in 0 .. Len(Ops), applied' = Changes(n)
  PROVE  AppliedTells' /\ Len(applied') = n
<1>1. n \in Nat /\ Len(Ops) \in Nat /\ n <= Len(Ops)
  BY OpsTyped
<1>2. Len(applied') = n /\ \A i \in 1 .. n : applied'[i] = Change(Ops[i])
  BY <1>1 DEF Changes
<1>3. Ops' = Ops
  BY DEF Ops
<1>. QED
  BY <1>1, <1>2, <1>3 DEF AppliedTells, Change

LEMMA PreflightDisk ==
  ASSUME IInv, DiskInv, Preflight
  PROVE  DiskInv'
<1>1. pc = "execute" /\ UNCHANGED <<call, before, disk>> /\ disk = before
  BY DEF Preflight, patching, files, DiskInv
<1>2. CASE pc' = "post" /\ result' \in {"patch_parse", "patch_empty", "out_of_project"}
  BY <1>1, <1>2, ToldUnchanged
<1>3. ASSUME NEW n \in 1 .. Len(Ops), NEW code, code # "ok", StopsAt(n, code)
      PROVE  DiskInv'
  <2>1. n - 1 \in 0 .. Len(Ops)
    BY OpsTyped
  <2>2. AppliedTells'
    BY <1>1, <1>3, <2>1, ChangesTell DEF StopsAt
  <2>3. Restored(next)' /\ OthersStay'
    BY <1>1 DEF Restored, OthersStay
  <2>4. call'.tool = "apply_patch"
    BY <1>1 DEF Preflight
  <2>. QED
    BY <1>1, <1>3, <2>2, <2>3, <2>4, SameCallFits DEF StopsAt, DiskInv, ResultTellsDisk
<1>4. CASE applied' = Changes(Len(Ops)) /\ next' = 1 /\ pc' = "commit"
  <2>1. AppliedTells' /\ Len(applied') = Len(Ops) /\ Ops' = Ops
    BY <1>1, <1>4, OpsTyped, ChangesTell DEF Ops
  <2>2. next' - 1 = 0
    BY <1>4
  <2>3. Made(0)'
    BY <1>1 DEF Made
  <2>4. Made(next - 1)'
    BY <2>2, <2>3 DEF Made, Final
  <2>. QED
    BY <1>1, <1>4, <2>1, <2>4, SameCallFits DEF DiskInv, ResultTellsDisk
<1>5. ASSUME PreflightOps PROVE DiskInv'
  <2>1. CASE RefusedOps # {} /\ StopsAt(FirstRefused, OpRefusal(Ops[FirstRefused]))
    <3>1. FirstRefused \in 1 .. Len(Ops)
      BY <2>1, FirstIsRefused DEF RefusedOps
    <3>2. OpRefusal(Ops[FirstRefused]) # "ok"
      BY DEF OpRefusal
    <3>. QED
      BY <1>3, <2>1, <3>1, <3>2
  <2>. QED
    BY <1>3, <1>4, <1>5, <2>1 DEF PreflightOps
<1>. QED
  BY <1>2, <1>5 DEF Preflight, Ends

\* A change that is made after those before it.
LEMMA PutMakes ==
  ASSUME IInv, next \in 1 .. Len(applied), Made(next - 1),
         Put(applied[next].path, Final(next)), UNCHANGED <<applied, before>>, next' = next + 1
  PROVE  Made(next - 1)'
<1> DEFINE e == applied[next]
<1>1. next \in Nat /\ next' - 1 = next /\ next \in 1 .. next
  OBVIOUS
<1>2. disk' = [disk EXCEPT ![e.path] = Final(next)] /\ disk \in [Paths -> Content \cup {Absent}]
  BY DEF Put, IInv, TypeOK, Disks
<1>3. \A i \in 1 .. next : i = next \/ i \in 1 .. next - 1
  BY <1>1
<1>4. \A i \in 1 .. next - 1 : i \in 1 .. next /\ next \in i + 1 .. next
        /\ \A j \in i + 1 .. next - 1 : j \in i + 1 .. next
  BY <1>1
<1>. HIDE DEF e
<1>5. ASSUME NEW p \in Paths, \A i \in 1 .. next : applied[i].path # p
      PROVE  disk'[p] = before[p]
  <2>1. e.path # p
    BY <1>1, <1>5 DEF e
  <2>2. disk[p] = before[p]
    BY <1>4, <1>5 DEF Made
  <2>. QED
    BY <1>2, <2>1, <2>2
<1>6. ASSUME NEW p \in Paths, NEW i \in 1 .. next, applied[i].path = p,
             \A j \in i + 1 .. next : applied[j].path # p
      PROVE  disk'[p] = Final(i)
  <2>1. CASE i = next
    BY <1>2, <1>6, <2>1 DEF e
  <2>2. CASE i \in 1 .. next - 1
    <3>1. e.path # p
      BY <1>4, <1>6, <2>2 DEF e
    <3>2. disk[p] = Final(i)
      BY <1>4, <1>6, <2>2 DEF Made
    <3>. QED
      BY <1>2, <3>1, <3>2
  <2>. QED
    BY <1>3, <2>1, <2>2
<1>7. \A i : Final(i)' = Final(i)
  BY DEF Final
<1>8. \A p \in Paths : (\A i \in 1 .. next' - 1 : applied'[i].path # p) => disk'[p] = before'[p]
  BY <1>1, <1>5
<1>9. \A p \in Paths, i \in 1 .. next' - 1 :
        applied'[i].path = p /\ (\A j \in i + 1 .. next' - 1 : applied'[j].path # p)
          => disk'[p] = Final(i)'
  BY <1>1, <1>6, <1>7
<1>. QED
  BY <1>8, <1>9 DEF Made

LEMMA SameApplied ==
  ASSUME AppliedTells, UNCHANGED <<applied, call, before>>
  PROVE  AppliedTells'
BY DEF AppliedTells, Ops

LEMMA CommitDisk ==
  ASSUME IInv, DiskInv, CommitUnlink \/ CommitWrite
  PROVE  DiskInv'
<1>1. /\ pc = "commit" /\ UNCHANGED <<call, before, applied, broken>>
      /\ AppliedTells /\ Len(applied) = Len(Ops) /\ Made(next - 1)
  BY DEF CommitUnlink, CommitWrite, Committing, patching, DiskInv
<1>2. next \in 1 .. Len(applied) /\ Len(applied) \in Nat
  BY DEF CommitUnlink, CommitWrite, Committing, IInv, TypeOK
<1>3. CASE pc' = "post" /\ result' = "tool_error"
  BY <1>1, <1>3, SameCallFits DEF DiskInv, ResultTellsDisk
<1>4. CASE Put(Entry.path, Final(next)) /\ next' = next + 1 /\ UNCHANGED <<pc, result>>
  <2>1. Made(next - 1)'
    BY <1>1, <1>2, <1>4, PutMakes DEF Entry
  <2>2. Len(applied') = Len(Ops')
    BY <1>1 DEF Ops
  <2>. QED
    BY <1>1, <1>4, <2>1, <2>2, SameCallFits, SameApplied DEF DiskInv, ResultTellsDisk
<1>5. CASE UNCHANGED files /\ next' = Len(applied) /\ pc' = "rollback" /\ result' = "write_error"
  <2>1. \A i \in 1 .. next - 1 : i \in 1 .. Len(applied)
    BY <1>2
  <2>2. Restored(next)'
    BY <1>1, <1>5, <2>1 DEF Restored, Made, files
  <2>3. OthersStay'
    <3>. SUFFICES ASSUME NEW p \in Paths, \A i \in 1 .. Len(Ops) : Ops[i].path # p
                  PROVE  disk[p] = before[p]
      BY <1>1, <1>5 DEF OthersStay, Ops, files
    <3>1. \A i \in 1 .. next - 1 : applied[i].path # p
      BY <1>1, <2>1 DEF AppliedTells
    <3>. QED
      BY <1>1, <3>1 DEF Made
  <2>4. call'.tool = "apply_patch"
    BY <1>1 DEF IInv, HookOK
  <2>. QED
    BY <1>1, <1>5, <2>2, <2>3, <2>4, SameCallFits, SameApplied DEF DiskInv, ResultTellsDisk
<1>6. CASE CommitUnlink
  <2>1. Entry.new = Empty
    BY <1>6 DEF CommitUnlink
  <2>2. Final(next) = Absent
    BY <2>1 DEF Final, Entry
  <2>. QED
    BY <1>3, <1>4, <1>6, <2>2 DEF CommitUnlink, Ends
<1>7. CASE CommitWrite
  <2>1. Final(next) = Entry.new
    BY <1>7 DEF CommitWrite, Final, Entry
  <2>. QED
    BY <1>3, <1>4, <1>5, <1>7, <2>1 DEF CommitWrite, WriteFile, Ends
<1>. QED
  BY <1>6, <1>7

\* All changes are made.
LEMMA CommittedDisk ==
  ASSUME IInv, DiskInv, Committed
  PROVE  DiskInv'
<1>1. /\ pc = "commit" /\ next > Len(applied) /\ pc' = "post" /\ result' = "ok"
      /\ UNCHANGED <<call, before, disk>>
  BY DEF Committed, Ends, patching, files
<1>2. AppliedTells /\ Len(applied) = Len(Ops) /\ Made(next - 1) /\ call.tool = "apply_patch"
  BY <1>1 DEF DiskInv, IInv, HookOK
<1>3. next - 1 = Len(Ops) /\ Len(Ops) \in Nat
  BY <1>1, <1>2, OpsTyped DEF IInv, TypeOK
<1>4. Made(Len(Ops))
  BY <1>2, <1>3
<1>5. \A i \in 1 .. Len(Ops) : Ops[i].op \in {"add", "delete", "update"}
  BY <1>2 DEF DiskInv, CallFits, OpsOf
<1>6. ASSUME NEW p \in Paths, ~Changed(p) PROVE disk[p] = before[p]
  <2>1. \A i \in 1 .. Len(Ops) : Ops[i].path # p
    BY <1>5, <1>6 DEF Changed
  <2>2. \A i \in 1 .. Len(Ops) : applied[i].path # p
    BY <1>2, <2>1 DEF AppliedTells
  <2>. QED
    BY <1>4, <2>2 DEF Made
<1>7. ASSUME OneEach, NEW i \in 1 .. Len(Ops) PROVE disk[Ops[i].path] = Asked(Ops[i])
  <2>1. applied[i].path = Ops[i].path /\ Ops[i].path \in Paths
        /\ applied[i].new = IF Ops[i].op = "delete" THEN Empty ELSE Ops[i].to
    BY <1>2, OpsTyped DEF AppliedTells
  <2>2. \A j \in i + 1 .. Len(Ops) : applied[j].path # Ops[i].path
    <3>1. \A j \in i + 1 .. Len(Ops) : j \in 1 .. Len(Ops) /\ j # i
      BY <1>3
    <3>2. \A j \in 1 .. Len(Ops) : j # i => Ops[j].path # Ops[i].path
      BY <1>7 DEF OneEach
    <3>. QED
      BY <1>2, <3>1, <3>2 DEF AppliedTells
  <2>3. disk[Ops[i].path] = Final(i)
    BY <1>4, <2>1, <2>2 DEF Made
  <2>4. Ops[i].op # "delete" => Ops[i].to # Empty
    BY <1>5, <1>7 DEF OneEach
  <2>. QED
    BY <2>1, <2>3, <2>4 DEF Final, Asked
<1>8. ResultTellsDisk'
  BY <1>1, <1>6, <1>7 DEF ResultTellsDisk, Changed, OneEach, AllMade, Asked, Ops
<1>. QED
  BY <1>1, <1>8, SameCallFits DEF DiskInv

\* A restore gives one more file its text again.
LEMMA RollBackDisk ==
  ASSUME IInv, DiskInv, RollBackOne
  PROVE  DiskInv'
<1> DEFINE e == applied[next]
<1>1. /\ pc = "rollback" /\ pc' = pc /\ result' = result /\ next > 0 /\ next' = next - 1
      /\ UNCHANGED <<call, before, applied>>
  BY DEF RollBackOne, patching
<1>2. /\ AppliedTells /\ result # "ok" /\ call.tool = "apply_patch" /\ OthersStay
      /\ (~broken => Restored(next))
  BY <1>1 DEF DiskInv
<1>3. next \in 1 .. Len(applied) /\ Len(applied) \in Nat
  BY <1>1 DEF IInv, TypeOK
<1>4. /\ e.path \in Paths /\ before[e.path] \in Content \cup {Absent}
      /\ e.old = Text(before[e.path]) /\ e.path = Ops[next].path /\ next \in 1 .. Len(Ops)
  <2>1. e.path \in Paths
    BY <1>3, EntryType, FileAssumption
  <2>2. Len(applied) <= Len(Ops) /\ Len(Ops) \in Nat
    BY <1>2, OpsTyped DEF AppliedTells
  <2>. QED
    BY <1>2, <1>3, <2>1, <2>2 DEF AppliedTells, IInv, TypeOK, Disks
<1>5. disk \in [Paths -> Content \cup {Absent}]
  BY DEF IInv, TypeOK, Disks
<1>6. \/ disk' = disk
      \/ \E c \in Content \cup {Absent} : disk' = [disk EXCEPT ![e.path] = c]
  <2>1. e.old \in Content \cup {Absent} /\ Empty \in Content
    BY <1>3, EntryType DEF Content
  <2>2. disk' = disk \/ disk' = [disk EXCEPT ![e.path] = e.old]
                    \/ disk' = [disk EXCEPT ![e.path] = Empty]
    BY DEF RollBackOne, Restore, Put, files
  <2>. QED
    BY <2>1, <2>2
<1>7. OthersStay'
  <2>. SUFFICES ASSUME NEW p \in Paths, \A i \in 1 .. Len(Ops) : Ops[i].path # p
                PROVE  disk'[p] = before[p]
    BY <1>1 DEF OthersStay, Ops
  <2>1. e.path # p /\ disk[p] = before[p]
    BY <1>2, <1>4 DEF OthersStay
  <2>. HIDE DEF e
  <2>. QED
    BY <1>5, <1>6, <2>1
<1>8. ASSUME ~broken' PROVE Restored(next)'
  <2>1. Restore(e) /\ ~broken
    BY <1>8 DEF RollBackOne
  <2>. SUFFICES ASSUME NEW p \in Paths, \A i \in 1 .. next - 1 : applied[i].path # p
                PROVE  Text(disk'[p]) = Text(before[p])
    BY <1>1 DEF Restored, Text
  <2>2. CASE e.path # p
    <3>1. \A i \in 1 .. next : i = next \/ i \in 1 .. next - 1
      BY <1>3
    <3>2. Text(disk[p]) = Text(before[p])
      BY <1>2, <2>1, <2>2, <3>1 DEF Restored
    <3>3. disk'[p] = disk[p]
      <4>. HIDE DEF e
      <4>. QED
        BY <1>5, <1>6, <2>2
    <3>. QED
      BY <3>2, <3>3
  <2>3. CASE e.path = p
    <3>1. (disk' = disk /\ disk[p] = e.old) \/ disk' = [disk EXCEPT ![e.path] = e.old]
      BY <2>1, <2>3 DEF Restore, Put, files, Exists
    <3>2. disk'[p] = e.old
      <4>. HIDE DEF e
      <4>. QED
        BY <1>5, <2>3, <3>1
    <3>. QED
      BY <1>4, <2>3, <3>2, TextOfText
  <2>. QED
    BY <2>2, <2>3
<1>. QED
  BY <1>1, <1>2, <1>7, <1>8, SameCallFits, SameApplied DEF DiskInv, ResultTellsDisk

LEMMA RolledBackDisk ==
  ASSUME IInv, DiskInv, RolledBack
  PROVE  DiskInv'
<1>1. /\ pc = "rollback" /\ next = 0 /\ pc' = "post" /\ result' = result
      /\ UNCHANGED <<call, before, disk, broken>> /\ result # "ok"
      /\ call.tool = "apply_patch" /\ OthersStay
  BY DEF RolledBack, patching, files, DiskInv
<1>2. ASSUME ~broken PROVE NoneMade
  BY <1>1, <1>2 DEF DiskInv, Restored, NoneMade
<1>3. \A i \in 1 .. Len(Ops) : Ops[i].op # "read"
  BY <1>1 DEF DiskInv, CallFits, OpsOf
<1>4. \A p \in Paths : ~Changed(p) => disk[p] = before[p]
  BY <1>1, <1>3 DEF OthersStay, Changed
<1>5. ResultTellsDisk'
  BY <1>1, <1>2, <1>4 DEF ResultTellsDisk, NoneMade, Changed, Text, Ops
<1>. QED
  BY <1>1, <1>5, SameCallFits DEF DiskInv

\* Between calls there is nothing to tell.
LEMMA IdleDisk ==
  ASSUME DiskInv, pc' = "idle", UNCHANGED call
  PROVE  DiskInv'
BY SameCallFits DEF DiskInv, ResultTellsDisk

LEMMA DiskStep ==
  ASSUME IInv, DiskInv, [Next]_vars
  PROVE  DiskInv'
<1>1. CASE Refuse \/ Die \/ PostHooks
  BY <1>1, ReturnsDisk DEF Refuse, Die, PostHooks
<1>2. ASSUME NEW p \in Paths, NEW c \in Content \cup {Absent}, UserEdits(p, c) PROVE DiskInv'
  BY <1>2, IdleDisk DEF UserEdits
<1>3. ASSUME NEW p \in Tracked, Lookup(p) \/ Invalidate(p) PROVE DiskInv'
  BY <1>3, IdleDisk DEF Lookup, Invalidate, patching
<1>4. CASE Tick
  BY <1>4, IdleDisk DEF Tick, patching
<1>5. CASE UNCHANGED vars
  <2>1. UNCHANGED <<pc, call, before, applied, next, result, broken, disk>>
    BY <1>5 DEF vars, files, patching
  <2>2. CallFits' /\ (AppliedTells => AppliedTells') /\ Ops' = Ops
    BY <2>1, SameCallFits, SameApplied DEF Ops
  <2>3. (Made(next - 1) => Made(next - 1)') /\ (Restored(next) => Restored(next)')
    BY <2>1 DEF Made, Restored, Final
  <2>4. ResultTellsDisk'
    BY <2>1 DEF DiskInv, ResultTellsDisk, OneEach, AllMade, NoneMade, Changed, Asked, Text, Ops
  <2>5. OthersStay => OthersStay'
    BY <2>1, <2>2 DEF OthersStay
  <2>. QED
    BY <2>1, <2>2, <2>3, <2>4, <2>5 DEF DiskInv
<1>. QED
  BY <1>1, <1>2, <1>3, <1>4, <1>5, BeforeExecution, WriteOrEditDisk, LooksDisk, PreflightDisk,
     CommitDisk, CommittedDisk, RollBackDisk, RolledBackDisk DEF Next

\* A tool's result tells what it has done to the disk: "ok", that every change
\* of the call is made, if it names each file once and a patch empties none; a
\* code of the tool, that no file's text has changed, and nothing but newlines,
\* however many changes were committed before a write failed; and either, that
\* no other file has changed (ApplyPatchTool.execute and _rollback).
THEOREM ResultAlwaysTellsDisk == Spec => []ResultTellsDisk
<1>1. DiskInv => ResultTellsDisk
  BY DEF DiskInv
<1>2. IInv /\ DiskInv /\ [Next]_vars => DiskInv'
  BY DiskStep
<1>. QED
  BY <1>1, <1>2, DiskInit, Invariant, PTL DEF Spec

=============================================================================

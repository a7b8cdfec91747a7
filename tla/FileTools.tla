------------------------------ MODULE FileTools ------------------------------
(***************************************************************************)
(* A tool call on files, from _execute_tool_call of agent/loop.py (lookup,  *)
(* validation, hooks, execution, hooks) through the tools write_file,       *)
(* edit_file and apply_patch to the disk, and FileTracker of                *)
(* memory/tracker.py, which compares files with what a session has read;    *)
(* read_file, glob and grep only look.                                      *)
(*                                                                         *)
(* No file tool gives the event loop up, so that calls never interleave and *)
(* the watchdog never cuts one; the process may die between two writes, and *)
(* the user may edit files between two calls.  A text stands for the whole  *)
(* content of a file, and a change for the one text it applies to; texts    *)
(* that differ in their newlines are different, and read_text makes one of  *)
(* them.                                                                    *)
(***************************************************************************)
EXTENDS Naturals, Sequences, FiniteSets

CONSTANTS
  Paths,    \* files
  Inside,   \* those under the sandbox's root
  Absent,   \* the content of a file that does not exist
  Empty,    \* the empty text
  Texts,    \* other texts
  Lf,       \* what read_text makes of a content: every newline is \n
  Size,     \* the size of each text
  Calls,    \* tool calls, see Call below
  Hooked,   \* those a hook may turn a call of the same tool into
  Tracked,  \* files the tracker's session reads
  MaxTicks, \* bound: steps of the file system's clock
  MaxCalls  \* bound: calls the agent makes

Content == Texts \cup {Empty}

\* An operation of a patch adds, deletes or updates a file; calls of the
\* other tools are of one operation.  from is the text, as read_text gives it,
\* in which an update or edit finds what it looks for, to what it makes of it.
Op   == [op : {"add", "delete", "update", "write", "edit", "read"}, path : Paths,
         from : Content, to : Content]
Call == [tool : {"apply_patch", "write_file", "edit_file", "read_file", "glob", "grep", "none"},
         ops : Seq(Op)]

\* The operations a call of a tool consists of.
OpsOf(tool) ==
  IF tool = "apply_patch"     THEN {"add", "delete", "update"}
  ELSE IF tool = "write_file" THEN {"write"}
  ELSE IF tool = "edit_file"  THEN {"edit"}
  ELSE {"read"}

ASSUME FileAssumption ==
  /\ Inside \subseteq Paths
  /\ Absent \notin Content /\ Empty \notin Texts
  /\ Size \in [Content -> Nat]
  /\ Lf \in [Content -> Content]
  /\ \A c \in Content : Lf[Lf[c]] = Lf[c] /\ (Lf[c] = Empty <=> c = Empty)
  /\ Calls \subseteq Call /\ Hooked \subseteq Calls
  /\ \A c \in Calls : c.tool \notin {"apply_patch", "none"} => Len(c.ops) = 1
  /\ \A c \in Calls : \A i \in 1 .. Len(c.ops) : c.ops[i].op \in OpsOf(c.tool)
  /\ Tracked \subseteq Paths
  /\ {MaxTicks, MaxCalls} \subseteq Nat

VARIABLES
  pc,      \* where the call is
  call,    \* its tool and arguments
  before,  \* the disk when the call was made
  applied, \* the changes of a patch: path, old and new text
  next,    \* the next of them to commit
  result,  \* code of the call's ToolResult, "ok" if it has none
  broken,  \* a restore has failed in this rollback
  disk,    \* the files' contents
  mtime,   \* modification times of the tracked ones
  clock,   \* the file system's time
  seen,    \* the row of file_tracker, Absent without one
  read,    \* the content the tracker's reader has seen last
  calls    \* calls made

vars == <<pc, call, before, applied, next, result, broken, disk, mtime, clock, seen, read, calls>>
files == <<disk, mtime>>
patching == <<call, before, calls>>
tracker == <<seen, read>>

NoCall == [tool |-> "none", ops |-> <<>>]
Exists(p) == disk[p] # Absent
Text(c) == IF c = Absent THEN Absent ELSE Lf[c]
Disks == [Paths -> Content \cup {Absent}]

Init ==
  /\ pc = "idle" /\ call = NoCall
  /\ disk = [p \in Paths |-> Empty] /\ before = disk
  /\ mtime = [p \in Tracked |-> 0] /\ clock = 0
  /\ applied = <<>> /\ next = 0 /\ result = "none" /\ broken = FALSE
  /\ seen = [p \in Tracked |-> Absent] /\ read = [p \in Tracked |-> Absent]
  /\ calls = 0

\* A file gets a content, and the clock's time with it.
Put(p, c) ==
  /\ disk' = [disk EXCEPT ![p] = c]
  /\ mtime' = [t \in Tracked |-> IF t = p THEN clock ELSE mtime[t]]

Ops == call.ops

Ends(code) == pc' = "post" /\ result' = code
Goes(from, to) == pc = from /\ pc' = to

-----------------------------------------------------------------------------
(* _execute_tool_call up to the execution.                                  *)

Begin(c) ==
  /\ Goes("idle", "called") /\ calls < MaxCalls
  /\ call' = c /\ before' = disk /\ calls' = calls + 1
  /\ UNCHANGED <<applied, next, result, broken, files, clock, tracker>>

\* What the call has worked with is gone when it is over.
Returns ==
  /\ pc' = "idle" /\ call' = NoCall /\ before' = disk'
  /\ applied' = <<>> /\ next' = 0 /\ result' = "none" /\ broken' = FALSE
  /\ UNCHANGED <<clock, tracker, calls>>

\* No such tool, arguments its model refuses, or a hook that denies: the
\* first deny wins, whatever other hooks have changed by then.
Refuse ==
  /\ pc = "called"
  /\ UNCHANGED files /\ Returns

\* The hooks allow.  One that modifies changes the very dictionary that is
\* executed; the validation meant for it reads modified_args, which
\* HookRegistry.run never sets, so the new arguments are not validated.
Allow ==
  /\ Goes("called", "execute") /\ call.tool # "none"
  /\ call' \in {call} \cup {c \in Hooked : c.tool = call.tool}
  /\ UNCHANGED <<before, calls, applied, next, result, broken, files, clock, tracker>>

\* Arguments a hook has spoiled: execute raises before it touches a file.
ExecuteRaises ==
  /\ pc = "execute" /\ Ends("tool_error")
  /\ UNCHANGED <<patching, applied, next, broken, files, clock, tracker>>

-----------------------------------------------------------------------------
(* write_file and edit_file.                                                *)

\* WriteFileTool.execute: a temporary file replaces the old one; an error
\* while it is written is a result, one of mkdir or of the encoding is raised.
\* ok, failed and raised are the places to go on from.
WriteFile(p, c, ok, failed, raised) ==
  \/ Put(p, c) /\ ok
  \/ (failed \/ raised) /\ UNCHANGED files

\* The old string is in the file once, or as often as replace_all allows.
EditMatches(o) == Text(disk[o.path]) = o.from

\* Why write_file or edit_file may refuse its arguments: any file may be one
\* that cannot be read, and one that does not match has the old string not at
\* all or too often.
EditRefusals(o) ==
  IF o.path \notin Inside     THEN {"out_of_project"}
  ELSE IF o.op = "write"      THEN {}
  ELSE IF ~Exists(o.path)     THEN {"file_not_found"}
  ELSE IF ~EditMatches(o)     THEN {"io_error", "old_string_not_found", "ambiguous_match"}
  ELSE {"io_error"}

\* Mutant: edit_file and write_file take any path.
MayWrite_NoSandbox(o) == o.op = "write" \/ (Exists(o.path) /\ EditMatches(o))

\* Nothing stands against the change.
MayWrite(o) ==
  o.path \in Inside /\ (o.op = "write" \/ (Exists(o.path) /\ EditMatches(o)))

WriteOrEdit ==
  LET o == Ops[1] IN
  /\ pc = "execute" /\ call.tool \in {"write_file", "edit_file"}
  /\ \/ \E code \in EditRefusals(o) : Ends(code) /\ UNCHANGED files
     \/ /\ MayWrite(o)
        /\ WriteFile(o.path, o.to, Ends("ok"), Ends("io_error"), Ends("tool_error"))
  /\ UNCHANGED <<patching, applied, next, broken, clock, tracker>>

-----------------------------------------------------------------------------
(* read_file, glob and grep.                                                *)

\* What read_file may say of a file: text is told from binary by its first
\* 8192 bytes, and a file that is cut there in the middle of a character is
\* refused as well; what does not decode further on is raised.
ReadCodes(o) ==
  IF o.path \notin Inside     THEN {"out_of_project"}
  ELSE IF ~Exists(o.path)     THEN {"file_not_found"}
  ELSE {"ok", "not_a_file", "io_error", "is_binary", "encoding_error", "tool_error"}

\* glob and grep from a root on; grep passes over files it cannot read.
GlobCodes(o) ==
  IF o.path \notin Inside     THEN {"out_of_project"}
  ELSE IF ~Exists(o.path)     THEN {"path_not_found"}
  ELSE {"ok", "glob_error", "tool_error"}

GrepCodes(o) ==
  IF o.path \notin Inside     THEN {"out_of_project"}
  ELSE IF ~Exists(o.path)     THEN {"path_not_found"}
  ELSE {"ok", "regex_error", "tool_error"}

Looks ==
  /\ pc = "execute"
  /\ \/ call.tool = "read_file" /\ \E code \in ReadCodes(Ops[1]) : Ends(code)
     \/ call.tool = "glob" /\ \E code \in GlobCodes(Ops[1]) : Ends(code)
     \/ call.tool = "grep" /\ \E code \in GrepCodes(Ops[1]) : Ends(code)
  /\ UNCHANGED <<patching, applied, next, broken, files, clock, tracker>>

-----------------------------------------------------------------------------
(* apply_patch: preflight, commit, rollback.                                *)

\* _apply_update_hunks: the context of every hunk is in the file once.
HunksApply(o) == Text(disk[o.path]) = o.from

\* Why the preflight refuses an operation; it reads the disk, which earlier
\* operations of the patch have not changed.
OpRefusal(o) ==
  IF o.op = "add" /\ Exists(o.path)              THEN "file_exists"
  ELSE IF o.op # "add" /\ ~Exists(o.path)        THEN "file_not_found"
  ELSE IF o.op = "update" /\ ~HunksApply(o)      THEN "hunk_apply"
  ELSE IF o.op = "update" /\ o.from = o.to       THEN "no_change"
  ELSE "none"

\* Every operation starts from the disk, not from what those before it make.
Change(o) == [path |-> o.path, old |-> Text(disk[o.path]),
              new |-> IF o.op = "delete" THEN Empty ELSE o.to]

\* Operations refused, and the first of them: those before it are in applied,
\* which _rollback then writes back.
RefusedOps == {i \in 1 .. Len(Ops) : OpRefusal(Ops[i]) # "none"}
FirstRefused == CHOOSE i \in RefusedOps : \A j \in RefusedOps : i <= j
Changes(n) == [i \in 1 .. n |-> Change(Ops[i])]

\* The operations before the n-th have passed and are rolled back, though
\* none has been committed.
StopsAt(n, code) ==
  /\ applied' = Changes(n - 1) /\ next' = n - 1
  /\ pc' = "rollback" /\ result' = code

\* All operations pass, or one is refused, or cannot be read.
PreflightOps ==
  \/ /\ RefusedOps = {}
     /\ applied' = Changes(Len(Ops)) /\ next' = 1
     /\ pc' = "commit" /\ UNCHANGED result
  \/ RefusedOps # {} /\ StopsAt(FirstRefused, OpRefusal(Ops[FirstRefused]))
  \/ \E n \in 1 .. Len(Ops) :
       /\ Ops[n].op # "add" /\ Exists(Ops[n].path)
       /\ RefusedOps \cap 1 .. n - 1 = {}
       /\ StopsAt(n, "apply_error")

\* Mutant: the paths of a patch are not resolved before it is applied.
Preflight_NoSandboxCheck ==
  /\ pc = "execute" /\ call.tool = "apply_patch"
  /\ Ops # <<>> /\ PreflightOps
  /\ UNCHANGED <<patching, broken, files, clock, tracker>>

\* The text is parsed, every path resolved, and every operation tried.
Preflight ==
  /\ pc = "execute" /\ call.tool = "apply_patch"
  /\ \/ /\ Ops = <<>>
        /\ Ends("patch_parse") \/ Ends("patch_empty")
        /\ UNCHANGED <<applied, next>>
     \/ /\ \E i \in 1 .. Len(Ops) : Ops[i].path \notin Inside
        /\ Ends("out_of_project") /\ UNCHANGED <<applied, next>>
     \/ /\ Ops # <<>> /\ \A i \in 1 .. Len(Ops) : Ops[i].path \in Inside
        /\ PreflightOps
  /\ UNCHANGED <<patching, broken, files, clock, tracker>>

Committing == pc = "commit" /\ next <= Len(applied)
Entry == applied[next]

\* A change that leaves nothing is made by unlink, which raises if the file
\* is not there: a file added empty, or removed by an earlier operation.  An
\* exception in the commit leaves execute, without rollback.
CommitUnlink ==
  /\ Committing /\ Entry.new = Empty
  /\ \/ /\ Exists(Entry.path) /\ Put(Entry.path, Absent)
        /\ next' = next + 1 /\ UNCHANGED <<pc, result>>
     \/ Ends("tool_error") /\ UNCHANGED <<files, next>>
  /\ UNCHANGED <<patching, applied, broken, clock, tracker>>

CommitWrite ==
  /\ Committing /\ Entry.new # Empty
  /\ WriteFile(Entry.path, Entry.new,
       next' = next + 1 /\ UNCHANGED <<pc, result>>,
       next' = Len(applied) /\ pc' = "rollback" /\ result' = "write_error",
       Ends("tool_error") /\ UNCHANGED next)
  /\ UNCHANGED <<patching, applied, broken, clock, tracker>>

Committed ==
  /\ pc = "commit" /\ next > Len(applied) /\ Ends("ok")
  /\ UNCHANGED <<patching, applied, next, broken, files, clock, tracker>>

\* Mutant: files the patch has added stay.
Restore_KeepsAdded(e) ==
  IF e.old = Absent THEN UNCHANGED files ELSE Put(e.path, e.old)

\* The file an entry of applied is about gets the text it was read as: written
\* even when it was not touched, and with the newlines of the text.
Restore(e) ==
  IF e.old = Absent /\ ~Exists(e.path) THEN UNCHANGED files ELSE Put(e.path, e.old)

\* _rollback goes backwards over applied and drops every exception; write_text
\* empties the file before it writes.
RollBackOne ==
  /\ pc = "rollback" /\ next > 0
  /\ LET e == applied[next] IN
     \/ Restore(e) /\ UNCHANGED broken
     \/ /\ broken' = TRUE
        /\ \/ UNCHANGED files
           \/ e.old # Absent /\ Put(e.path, Empty)
  /\ next' = next - 1
  /\ UNCHANGED <<pc, result, patching, applied, clock, tracker>>

RolledBack ==
  /\ pc = "rollback" /\ next = 0 /\ pc' = "post"
  /\ UNCHANGED <<result, patching, applied, next, broken, files, clock, tracker>>

\* The process is killed and started again.
Die ==
  /\ pc \in {"commit", "rollback"}
  /\ UNCHANGED files /\ Returns

-----------------------------------------------------------------------------
\* PostToolUse: after write_file and edit_file a formatter may rewrite the
\* file; apply_patch has no argument "path" for it.  The hook that would run
\* tests reads a field ToolResult does not have, and its error is dropped.
PostHooks ==
  /\ pc = "post"
  /\ \/ UNCHANGED files
     \/ /\ result = "ok" /\ call.tool \in {"write_file", "edit_file"}
        /\ \E c \in Content : Put(Ops[1].path, c)
  /\ Returns

\* The user edits, makes or removes a file.
UserEdits(p, c) ==
  /\ pc = "idle" /\ Put(p, c) /\ before' = disk'
  /\ UNCHANGED <<pc, call, calls, applied, next, result, broken, clock, tracker>>

Tick ==
  /\ pc = "idle" /\ clock < MaxTicks /\ clock' = clock + 1
  /\ UNCHANGED <<pc, patching, applied, next, result, broken, files, tracker>>

-----------------------------------------------------------------------------
(* FileTracker.                                                             *)

FileState(p) == [mtime |-> mtime[p], size |-> Size[disk[p]], hash |-> disk[p]]

\* Mutant: time and size are taken for the content.
Unchanged_ByTimeAndSize(p) ==
  /\ seen[p] # Absent
  /\ seen[p].mtime = mtime[p] /\ seen[p].size = Size[disk[p]]

\* is_unchanged: time, size and hash are all the same.
Unchanged(p) == seen[p] # Absent /\ seen[p] = FileState(p)

\* lookup: the row is written whatever the answer; a reader who is told that
\* the file is cached does not read it again.
Lookup(p) ==
  /\ pc = "idle" /\ Exists(p)
  /\ seen' = [seen EXCEPT ![p] = FileState(p)]
  /\ read' = [read EXCEPT ![p] = IF Unchanged(p) THEN @ ELSE disk[p]]
  /\ UNCHANGED <<pc, patching, applied, next, result, broken, files, clock>>

\* invalidate.
Invalidate(p) ==
  /\ pc = "idle" /\ seen[p] # Absent
  /\ seen' = [seen EXCEPT ![p] = Absent]
  /\ UNCHANGED <<pc, patching, applied, next, result, broken, files, clock, read>>

-----------------------------------------------------------------------------
Next ==
  \/ \E c \in Calls : Begin(c)
  \/ Refuse \/ Allow \/ ExecuteRaises
  \/ WriteOrEdit \/ Looks \/ Preflight \/ CommitUnlink \/ CommitWrite \/ Committed
  \/ RollBackOne \/ RolledBack \/ Die \/ PostHooks
  \/ \E p \in Paths : \E c \in Content \cup {Absent} : UserEdits(p, c)
  \/ \E p \in Tracked : Lookup(p) \/ Invalidate(p)
  \/ Tick

Spec == Init /\ [][Next]_vars

-----------------------------------------------------------------------------
Codes == {"none", "ok", "tool_error", "out_of_project", "file_not_found", "old_string_not_found", "ambiguous_match",
  "io_error", "path_not_found", "not_a_file", "is_binary", "encoding_error", "glob_error", "regex_error",
  "patch_parse", "patch_empty", "file_exists", "hunk_apply", "no_change", "apply_error", "write_error"}

ChangeType == [path : Inside, old : Content \cup {Absent}, new : Content]

\* The types, and the place in a patch: changes are only made to files of the
\* sandbox, and there is one to commit or to restore wherever the call is.
TypeOK ==
  /\ pc \in {"idle", "called", "execute", "commit", "rollback", "post"}
  /\ call \in Call /\ result \in Codes /\ broken \in BOOLEAN
  /\ disk \in Disks /\ before \in Disks
  /\ mtime \in [Tracked -> 0 .. MaxTicks] /\ clock \in 0 .. MaxTicks
  /\ applied \in Seq(ChangeType) /\ next \in 0 .. Len(applied) + 1
  /\ pc = "commit" => next > 0
  /\ pc = "rollback" => next <= Len(applied)
  /\ seen \in [Tracked -> [mtime : Nat, size : Nat, hash : Content] \cup {Absent}]
  /\ read \in [Tracked -> Content \cup {Absent}]
  /\ calls \in 0 .. MaxCalls

\* The calls "ok" is said of below.  Of two updates of one file the code loses
\* the first, and it deletes a file that a patch leaves empty: "ok" says nothing
\* of calls that name a file twice or empty one with a patch.
OneEach ==
  /\ \A i, j \in 1 .. Len(Ops) : Ops[i].path = Ops[j].path => i = j
  /\ \A i \in 1 .. Len(Ops) : Ops[i].op \in {"add", "update"} => Ops[i].to # Empty

Changed(p) == \E i \in 1 .. Len(Ops) : Ops[i].path = p /\ Ops[i].op # "read"
Asked(o) == IF o.op = "delete" THEN Absent ELSE o.to

AllMade ==
  \A i \in 1 .. Len(Ops) : Ops[i].op # "read" => disk[Ops[i].path] = Asked(Ops[i])

\* Nothing but newlines, and those only by a patch.
NoneMade ==
  /\ \A p \in Paths : Text(disk[p]) = Text(before[p])
  /\ call.tool # "apply_patch" => disk = before

\* When a tool returns, its result tells what is on the disk: "ok", that every
\* change of the call has been made, a code of the tool, that none has been,
\* although changes had been committed when a write failed, and either, that
\* no file has changed which the call does not name.  Left out are the
\* exceptions, which are reported as tool_error, and a failed restore
\* (ApplyPatchTool.execute and _rollback); of "ok", what OneEach leaves out.
ResultTellsDisk ==
  pc = "post" /\ result # "tool_error" /\ ~broken =>
    /\ \A p \in Paths : ~Changed(p) => disk[p] = before[p]
    /\ IF result = "ok" THEN OneEach => AllMade ELSE NoneMade

\* Nothing a call does, hook, crash or rollback included, touches a file
\* outside the sandbox.
SandboxHolds == [][pc # "idle" => \A p \in Paths \ Inside : disk'[p] = disk[p]]_vars

\* A reader who skips every file the tracker calls cached knows the content
\* of each file at its last lookup, however fast tools and user write.
CachedMeansSame ==
  \A p \in Tracked : seen[p] # Absent => read[p] = seen[p].hash
=============================================================================

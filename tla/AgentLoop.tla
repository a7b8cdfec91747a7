------------------------------- MODULE AgentLoop -------------------------------
(***************************************************************************)
(* AIAgentLoop.run of agent/loop.py, with the steer queue, the compactor    *)
(* and the checkpointer it is given, and the user who steers and aborts.    *)
(*                                                                         *)
(* An action runs from one await to the next: the provider's stream, the    *)
(* compactor's summary and each tool call are where others get their turn.  *)
(* A message keeps its kind, the ids of the calls it makes or answers, and  *)
(* what the loop reads off it; its text is abstracted to that.              *)
(***************************************************************************)
EXTENDS Naturals, Sequences, FiniteSets

CONSTANTS
  Cap,             \* max_turns
  MaxCalls,        \* bound: tool calls in one reply
  MaxSteers,       \* bound: messages put in the steer queue
  MaxRuns,         \* bound: calls of run on one AIAgentLoop (the REPL's prompts)
  HasCompactor,    \* is a compactor configured?
  MaxCompactions,  \* its max_compactions
  KeepLast,        \* the keep_last the loop passes
  HasCheckpointer  \* is a checkpointer configured?

ASSUME LoopAssumption ==
  /\ Cap \in Nat \ {0}
  /\ {MaxCalls, MaxSteers, MaxRuns, MaxCompactions, KeepLast} \subseteq Nat
  /\ {HasCompactor, HasCheckpointer} \subseteq BOOLEAN

CircuitBreaker == 3   \* _CIRCUIT_BREAKER

VARIABLES
  pc,           \* where run is
  turn,         \* the for loop's variable; 0 before the first turn
  msgs,         \* messages
  calls,        \* tool calls of the current reply still to be executed
  allInvalid,   \* all_invalid of the current turn
  invalidTurns, \* consecutive_invalid_turns
  result,       \* stopped_reason and turns of the AgentRunResult
  queue,        \* the steer queue
  sent,         \* steers put in it so far
  abort,        \* abort_signal.is_set()
  writeCalled,  \* self._write_called
  callCount,    \* compactor.call_count
  checkpoint,   \* the messages of the last checkpoint saved
  runs          \* runs started so far

user == <<queue, sent, abort>>
kept == <<writeCalled, callCount>>
vars == <<pc, turn, msgs, calls, allInvalid, invalidTurns, result, queue, sent, abort,
          writeCalled, callCount, checkpoint, runs>>

\* What a reply without tool calls says: something extract_tool_calls finds a
\* call in, a claim to have written a file, or anything else.
Texts == {"extractable", "claim", "plain"}

\* How a tool call ends, by what the loop does about it: refused with an
\* explanation sent after it (arguments against the schema, unknown tool, hook,
\* patch that does not apply); an error or a timeout.
Outcomes == {"ok", "refused", "error"}

Message(kind, ids, what) == [kind |-> kind, ids |-> ids, what |-> what]
UserMessage == Message("user", <<>>, "prompt")
Reminder    == Message("user", <<>>, "reminder")
Feedback    == Message("user", <<>>, "feedback")
Summary     == Message("system", <<>>, "summary")
SteerText(n)  == Message("steer", <<<<0, n>>>>, "steer")
Reply(ids, text) == Message("assistant", ids, text)
ToolResult(id, outcome) == Message("tool", <<id>>, outcome)

LastOf(s) == s[Len(s)]
Live == pc \notin {"idle", "returned", "raised"}

-----------------------------------------------------------------------------
Init ==
  /\ pc = "idle"
  /\ turn = 0
  /\ msgs = <<>>
  /\ calls = <<>>
  /\ allInvalid = TRUE
  /\ invalidTurns = 0
  /\ result = [reason |-> "none", turns |-> 0]
  /\ queue = <<>>
  /\ sent = 0
  /\ abort = FALSE
  /\ writeCalled = FALSE
  /\ callCount = 0
  /\ checkpoint = <<>>
  /\ runs = 0

\* run is called; what the object keeps from earlier runs stays.
Run ==
  /\ ~Live
  /\ runs < MaxRuns
  /\ pc' = "head"
  /\ turn' = 0
  /\ msgs' = <<UserMessage>>
  /\ invalidTurns' = 0
  /\ result' = [reason |-> "none", turns |-> 0]
  /\ abort' = FALSE
  /\ runs' = runs + 1
  /\ UNCHANGED <<calls, allInvalid, queue, sent, kept, checkpoint>>

Steer ==
  /\ sent < MaxSteers
  /\ sent' = sent + 1
  /\ queue' = Append(queue, SteerText(sent + 1))
  /\ UNCHANGED <<pc, turn, msgs, calls, allInvalid, invalidTurns, result, abort, kept,
                 checkpoint, runs>>

Abort ==
  /\ Live
  /\ ~abort
  /\ abort' = TRUE
  /\ UNCHANGED <<pc, turn, msgs, calls, allInvalid, invalidTurns, result, queue, sent,
                 kept, checkpoint, runs>>

Return(reason, turns) ==
  /\ pc' = "returned"
  /\ result' = [reason |-> reason, turns |-> turns]

-----------------------------------------------------------------------------
(* The head of the for loop.                                                *)

StopAborted ==
  /\ pc = "head"
  /\ turn < Cap
  /\ abort
  /\ Return("aborted", turn)
  /\ UNCHANGED <<turn, msgs, calls, allInvalid, invalidTurns, user, kept, checkpoint, runs>>

HitMaxTurns ==
  /\ pc = "head"
  /\ turn = Cap
  /\ Return("max_turns", Cap)
  /\ UNCHANGED <<turn, msgs, calls, allInvalid, invalidTurns, user, kept, checkpoint, runs>>

\* The context may be over the threshold whenever the compactor may still run.
MayCompact == HasCompactor /\ callCount < MaxCompactions

\* Mutant: the steer queue is drained newest first.
BeginTurn_DrainsBackwards ==
  /\ pc = "head"
  /\ turn < Cap
  /\ ~abort
  /\ turn' = turn + 1
  /\ msgs' = msgs \o [i \in 1 .. Len(queue) |-> queue[Len(queue) + 1 - i]]
  /\ queue' = <<>>
  /\ \/ pc' = "streaming"
     \/ MayCompact /\ pc' = "compacting"
  /\ UNCHANGED <<calls, allInvalid, invalidTurns, result, sent, abort, kept,
                 checkpoint, runs>>

\* Mutant: the range of turns is one too long.
BeginTurn_OneTooMany ==
  /\ pc = "head"
  /\ turn <= Cap
  /\ ~abort
  /\ turn' = turn + 1
  /\ msgs' = msgs \o queue
  /\ queue' = <<>>
  /\ pc' = "streaming"
  /\ UNCHANGED <<calls, allInvalid, invalidTurns, result, sent, abort, kept,
                 checkpoint, runs>>

\* A turn begins: the steer queue is drained into the conversation, and the
\* context is compacted first if it is too large.
BeginTurn ==
  /\ pc = "head"
  /\ turn < Cap
  /\ ~abort
  /\ turn' = turn + 1
  /\ msgs' = msgs \o queue
  /\ queue' = <<>>
  /\ \/ pc' = "streaming"
     \/ MayCompact /\ pc' = "compacting"
  /\ UNCHANGED <<calls, allInvalid, invalidTurns, result, sent, abort, kept,
                 checkpoint, runs>>

-----------------------------------------------------------------------------
(* Compactor.compact: a system message at the head and the last keep_last   *)
(* messages stay, one summary replaces what is between.                     *)

TooShort(ms) == Len(ms) <= KeepLast + 1

Compacted(ms) ==
  IF TooShort(ms) THEN ms
  ELSE (IF ms[1].kind = "system" THEN <<ms[1]>> ELSE <<>>)
       \o <<Summary>>
       \o SubSeq(ms, Len(ms) - KeepLast + 1, Len(ms))

CallsOfCompact(ms) == IF TooShort(ms) THEN callCount ELSE callCount + 1

\* Mutant: after a failed compaction the turn is begun again.
Compact_RestartsTurn ==
  /\ pc = "compacting"
  /\ \/ /\ msgs' = Compacted(msgs)
        /\ callCount' = CallsOfCompact(msgs)
        /\ pc' = "streaming"
        /\ UNCHANGED turn
     \/ /\ UNCHANGED <<msgs, callCount>>
        /\ pc' = "head"
        /\ turn' = turn - 1
  /\ UNCHANGED <<calls, allInvalid, invalidTurns, result, user, writeCalled,
                 checkpoint, runs>>

Compact ==
  /\ pc = "compacting"
  /\ \/ msgs' = Compacted(msgs) /\ callCount' = CallsOfCompact(msgs)
     \/ UNCHANGED <<msgs, callCount>>    \* RuntimeError
  /\ pc' = "streaming"
  /\ UNCHANGED <<turn, calls, allInvalid, invalidTurns, result, user, writeCalled,
                 checkpoint, runs>>

Raise ==
  /\ pc' = "raised"
  /\ UNCHANGED <<turn, msgs, calls, allInvalid, invalidTurns, result, user, kept,
                 checkpoint, runs>>

\* Any other exception of the stream in _summarize leaves run.
SummaryRaises == pc \in {"compacting", "compacting_post"} /\ Raise

\* So does one of the caller's on_tool_call.
CallbackRaises == pc = "tools" /\ Raise

-----------------------------------------------------------------------------
(* The model's reply.                                                       *)

\* budget.add raises, or the stream reports an error: the reply is dropped.
StreamFails ==
  /\ pc = "streaming"
  /\ Return("error", turn)
  /\ UNCHANGED <<turn, msgs, calls, allInvalid, invalidTurns, user, kept, checkpoint, runs>>

\* Mutant: the reminder is sent in the last turn too.
NeedsReminder_AtCap(reply) ==
  (reply.what = "claim" /\ ~writeCalled) \/ turn >= 2

\* any_file_action is false in every conversation, CanonicalMessage having no
\* tool_calls, so from the second turn on every text is answered by a reminder.
NeedsReminder(reply) ==
  /\ turn < Cap
  /\ (reply.what = "claim" /\ ~writeCalled) \/ turn >= 2

\* Mutant: what is saved is the conversation the reply answers.
Save_BeforeReply(ms) ==
  \/ HasCheckpointer /\ checkpoint' = msgs
  \/ UNCHANGED checkpoint

\* Checkpointer.save; a failed save is noted and nothing else.
Save(ms) ==
  \/ HasCheckpointer /\ checkpoint' = ms
  \/ UNCHANGED checkpoint

\* From the appended reply (and its compaction) on: the checkpoint is saved,
\* and then the reply is acted on.
Act(ms) ==
  LET reply == LastOf(ms) IN
  /\ Save(ms)
  /\ \/ /\ reply.ids = <<>>                  \* building the synthetic assistant
        /\ reply.what = "extractable"        \* message with content=None raises
        /\ pc' = "raised"
        /\ msgs' = ms
        /\ UNCHANGED <<calls, allInvalid, result>>
     \/ /\ reply.ids = <<>>
        /\ reply.what # "extractable"
        /\ NeedsReminder(reply)
        /\ pc' = "head"
        /\ msgs' = Append(ms, Reminder)
        /\ UNCHANGED <<calls, allInvalid, result>>
     \/ /\ reply.ids = <<>>
        /\ reply.what # "extractable"
        /\ ~NeedsReminder(reply)
        /\ Return("completed", turn)
        /\ msgs' = ms
        /\ UNCHANGED <<calls, allInvalid>>
     \/ /\ reply.ids # <<>>
        /\ pc' = "tools"
        /\ msgs' = ms
        /\ calls' = reply.ids
        /\ allInvalid' = TRUE
        /\ UNCHANGED result

\* A tool call whose arguments are JSON but no object cannot be put into a
\* message: the ValidationError is raised outside any try and leaves run.
AssemblyRaises == pc = "streaming" /\ Raise

\* The reply is appended; it may make the context too large.
StreamAnswers ==
  /\ pc = "streaming"
  /\ \E n \in 0 .. MaxCalls, text \in Texts :
       /\ n > 0 => text = "plain"
       /\ LET ms == Append(msgs, Reply([k \in 1 .. n |-> <<turn, k>>], text)) IN
            \/ Act(ms)
            \/ /\ MayCompact
               /\ pc' = "compacting_post"
               /\ msgs' = ms
               /\ UNCHANGED <<calls, allInvalid, result, checkpoint>>
  /\ UNCHANGED <<turn, invalidTurns, user, kept, runs>>

CompactPost ==
  /\ pc = "compacting_post"
  /\ \/ Act(Compacted(msgs)) /\ callCount' = CallsOfCompact(msgs)
     \/ Act(msgs) /\ UNCHANGED callCount
  /\ UNCHANGED <<turn, invalidTurns, user, writeCalled, runs>>

-----------------------------------------------------------------------------
(* The tool calls of the reply, one after another.                          *)

\* What the loop appends for a call: its result, and an explanation where the
\* model can correct itself.
Answer(id, outcome) ==
  <<ToolResult(id, outcome)>>
  \o (IF outcome = "refused" THEN <<Feedback>> ELSE <<>>)

\* Mutant: a valid turn does not reset the count.
EndTurn_NeverResets(bad) ==
  LET n == IF bad THEN invalidTurns + 1 ELSE invalidTurns IN
  /\ invalidTurns' = n
  /\ \/ n >= CircuitBreaker /\ Return("circuit_breaker", turn)
     \/ n < CircuitBreaker /\ pc' = "head" /\ UNCHANGED result

\* The end of a turn of tool calls, all of which failed or not.
EndTurn(bad) ==
  LET n == IF bad THEN invalidTurns + 1 ELSE 0 IN
  /\ invalidTurns' = n
  /\ \/ n >= CircuitBreaker /\ Return("circuit_breaker", turn)
     \/ n < CircuitBreaker /\ pc' = "head" /\ UNCHANGED result

\* Mutant: the steer queue is drained after every call.
ToolEnds_DrainsSteers ==
  /\ pc = "tools"
  /\ \E outcome \in Outcomes, write \in BOOLEAN :
       /\ msgs' = msgs \o Answer(Head(calls), outcome) \o queue
       /\ allInvalid' = (allInvalid /\ outcome # "ok")
       /\ writeCalled' = (writeCalled \/ write)
  /\ queue' = <<>>
  /\ calls' = Tail(calls)
  /\ \/ /\ Len(calls) > 1
        /\ UNCHANGED <<pc, invalidTurns, result>>
     \/ /\ Len(calls) = 1
        /\ EndTurn(allInvalid')
  /\ UNCHANGED <<turn, sent, abort, callCount, checkpoint, runs>>

\* A call ends; write says whether it was one of write_file, edit_file and
\* create_file, which the loop notes even if the call failed.
ToolEnds ==
  /\ pc = "tools"
  /\ \E outcome \in Outcomes, write \in BOOLEAN :
       /\ msgs' = msgs \o Answer(Head(calls), outcome)
       /\ allInvalid' = (allInvalid /\ outcome # "ok")
       /\ writeCalled' = (writeCalled \/ write)
  /\ calls' = Tail(calls)
  /\ \/ /\ Len(calls) > 1
        /\ UNCHANGED <<pc, invalidTurns, result>>
     \/ /\ Len(calls) = 1
        /\ EndTurn(allInvalid')
  /\ UNCHANGED <<turn, user, callCount, checkpoint, runs>>

-----------------------------------------------------------------------------
Loop ==
  \/ StopAborted \/ HitMaxTurns \/ BeginTurn
  \/ Compact \/ CompactPost \/ SummaryRaises \/ CallbackRaises
  \/ StreamFails \/ AssemblyRaises \/ StreamAnswers \/ ToolEnds

Next == Run \/ Steer \/ Abort \/ Loop

Spec == Init /\ [][Next]_vars

\* The event loop keeps running the coroutine: streams, summaries and tool
\* calls end (each tool call under run_with_timeout).  The user owes nothing.
FairSpec == Spec /\ WF_vars(Loop)

-----------------------------------------------------------------------------
(* Properties.                                                              *)

Kinds == {"user", "system", "steer", "assistant", "tool"}
Whats == Texts \cup Outcomes \cup {"prompt", "reminder", "feedback", "summary", "steer"}
Reasons == {"none", "completed", "aborted", "max_turns", "circuit_breaker", "error"}

\* A call's id is its turn and its place in the reply; steers are numbered in
\* turn 0.
CallIds == Nat \X Nat
Messages == [kind : Kinds, ids : Seq(CallIds), what : Whats]

\* The types, and what the limits mean where run is: the count of invalid
\* turns and the compactor's calls are below theirs while more may follow.
TypeOK ==
  /\ pc \in {"idle", "head", "compacting", "streaming", "compacting_post", "tools",
             "returned", "raised"}
  /\ turn \in 0 .. Cap
  /\ {msgs, queue, checkpoint} \subseteq Seq(Messages)
  /\ calls \in Seq(CallIds)
  /\ pc = "tools" => calls # <<>>
  /\ invalidTurns \in 0 .. CircuitBreaker
  /\ Live => invalidTurns < CircuitBreaker
  /\ result \in [reason : Reasons, turns : 0 .. Cap]
  /\ sent \in 0 .. MaxSteers
  /\ {allInvalid, abort, writeCalled} \subseteq BOOLEAN
  /\ callCount \in 0 .. MaxCompactions
  /\ pc \in {"compacting", "compacting_post"} => MayCompact
  /\ runs \in 0 .. MaxRuns

Positions(ms, kind) == {i \in 1 .. Len(ms) : ms[i].kind = kind}

\* No reply between the positions i and j.
SameTurn(ms, i, j) == \A k \in Positions(ms, "assistant") : k <= i \/ k >= j

\* A result may come after the message n: the reply, another result, or the
\* explanation the loop sends after the result of a refused call.
MayFollow(ms, n) ==
  \/ ms[n].kind \in {"assistant", "tool"}
  \/ ms[n] = Feedback /\ n > 1 /\ ms[n - 1].kind = "tool" /\ ms[n - 1].what = "refused"

ResultsFollow(ms) == \A j \in Positions(ms, "tool") : j > 1 /\ MayFollow(ms, j - 1)

\* Every call is answered once, before the next reply, nothing is answered that
\* was not called in that reply, and between a reply and its results stands
\* nothing but explanations of refused calls.
WellFormed(ms) ==
  /\ \A i \in Positions(ms, "assistant") : \A k \in 1 .. Len(ms[i].ids) :
       \E j \in Positions(ms, "tool") :
         /\ i < j /\ SameTurn(ms, i, j)
         /\ ms[j].ids = <<ms[i].ids[k]>>
         /\ \A l \in Positions(ms, "tool") : ms[l].ids = ms[j].ids => l = j
  /\ \A j \in Positions(ms, "tool") :
       \E i \in Positions(ms, "assistant") :
         /\ i < j /\ SameTurn(ms, i, j)
         /\ \E k \in 1 .. Len(ms[i].ids) : ms[j].ids = <<ms[i].ids[k]>>
  /\ ResultsFollow(ms)

\* Until a compaction has cut the conversation, every request the provider gets
\* and every conversation run returns (a session goes on with it) is well
\* formed, whatever the user injects and however the calls end.  (A provider
\* that wants all results directly after the reply is not served by this: the
\* explanation of a refused call stands between it and the next result.)
ConversationWellFormed ==
  callCount = 0 /\ pc \in {"streaming", "returned"} => WellFormed(msgs)

\* Steers reach the conversation in the order they were put in the queue,
\* each of them once: also when one arrives while the loop awaits something,
\* none is doubled or overtaken, none is lost after the first that a run gets,
\* and the first run gets them all.
SteersKeepOrder ==
  callCount = 0 =>
    LET all    == msgs \o queue
        steers == Positions(all, "steer")
        Here(n) == \E i \in steers : all[i] = SteerText(n)
    IN  /\ \A i, j \in steers : i < j => all[i].ids[1][2] < all[j].ids[1][2]
        /\ \A m, n \in 1 .. sent : m < n /\ Here(m) => Here(n)
        /\ runs = 1 => \A n \in 1 .. sent : Here(n)

ToolTurns(ms) == {i \in Positions(ms, "assistant") : ms[i].ids # <<>>}

AllFailed(ms, i) ==
  \A j \in Positions(ms, "tool") : i < j /\ SameTurn(ms, i, j) => ms[j].what # "ok"

\* The last three replies with tool calls.
LastToolTurns(ms) ==
  {i \in ToolTurns(ms) : Cardinality({j \in ToolTurns(ms) : j >= i}) <= CircuitBreaker}

ThreeFailed(ms) ==
  /\ Cardinality(ToolTurns(ms)) >= CircuitBreaker
  /\ \A i \in LastToolTurns(ms) : AllFailed(ms, i)

\* The circuit breaker stops a run exactly when every call of its last three
\* turns with tool calls has failed: no request is made after that, and no run
\* is stopped by it for less.
BreakerIsExact ==
  callCount = 0 =>
    /\ pc = "streaming" => ~ThreeFailed(msgs)
    /\ pc = "returned" /\ result.reason = "circuit_breaker" => ThreeFailed(msgs)

\* A run that ends with max_turns was cut off in the middle of its tool calls:
\* an answer in words, given in the last turn, is returned as completed.
CapHidesNoAnswer ==
  callCount = 0 /\ pc = "returned" /\ result.reason = "max_turns" =>
    \A i \in Positions(msgs, "assistant") :
      (\A j \in Positions(msgs, "assistant") : j <= i) => msgs[i].ids # <<>>

\* The last checkpoint is a beginning of the conversation that lacks nothing
\* but the results of its last reply: every call before that one is answered
\* in it, and no result in it is left without its call.
CheckpointLacksOnlyResults ==
  callCount = 0 /\ checkpoint # <<>> =>
    /\ LastOf(checkpoint).kind = "assistant"
    /\ WellFormed(SubSeq(checkpoint, 1, Len(checkpoint) - 1))
    /\ runs = 1 => checkpoint = SubSeq(msgs, 1, Len(checkpoint))

\* Awaits left to a run: in a turn the two compactions, the stream and the
\* calls, and as much for each turn to come.
StepsLeft ==
  IF ~Live THEN 0
  ELSE 1 + (Cap - turn) * (MaxCalls + 4)
         + CASE pc = "head"            -> 0
             [] pc = "tools"           -> Len(calls)
             [] pc = "compacting_post" -> MaxCalls + 1
             [] pc = "streaming"       -> MaxCalls + 2
             [] pc = "compacting"      -> MaxCalls + 3

\* Every step of a run brings it nearer to its end, and only a new call of run
\* starts anew: reminders, explanations, compactions and the user's steers all
\* go on with the loop, but at the expense of its turns.
RunIsBounded ==
  [][IF Loop THEN StepsLeft' < StepsLeft ELSE Run \/ StepsLeft' = StepsLeft]_vars

\* Every run ends, by returning or raising.
EveryRunEnds == Live ~> ~Live
=============================================================================

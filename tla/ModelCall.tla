------------------------------ MODULE ModelCall ------------------------------
(***************************************************************************)
(* One request to the model after another: OpenAIAdapter.stream of          *)
(* model/openai_adapter.py with its retries, _stream_one of agent/loop.py,  *)
(* which assembles the reply, and the TokenBudget of harness/budget.py      *)
(* that the loop charges after each request.                               *)
(*                                                                         *)
(* The events of a stream are pulled one by one, so that the adapter and    *)
(* its consumer move together; an action ends where the adapter awaits the  *)
(* server.  The server is external: it refuses, is busy, sends lines, or    *)
(* the connection breaks at any point.                                      *)
(***************************************************************************)
EXTENDS Naturals, Sequences, FiniteSets

CONSTANTS
  Ids,        \* ids of tool calls
  NoId,       \* the empty id
  Lines,      \* lines of a stream, see Line below
  MaxLines,   \* bound: lines of an attempt
  MaxRetries, \* max_retries of the adapter
  PerStep, PerPlan, PerSession, \* limits; a large one stands for None
  MaxTurns,   \* bound: requests of a run
  MaxSteps    \* bound: budget steps

\* A chunk with text, with a part of the tool call at an index, or with the
\* usage.  n is the tokens, or the pieces of the arguments in the line: two
\* pieces are the whole JSON, none is read as {}, others are no JSON at all.
Line == [kind : {"text", "call", "usage"}, idx : Nat, id : Ids \cup {NoId}, n : Nat]

ASSUME ModelCallAssumption ==
  /\ Lines \subseteq Line /\ NoId \notin Ids
  /\ {MaxLines, MaxRetries, PerStep, PerPlan, PerSession, MaxTurns, MaxSteps} \subseteq Nat

VARIABLES
  pc,      \* where the run of the loop is
  attempt, \* POSTs that have failed in a way the adapter retries
  failed,  \* last_err is set
  wire,    \* lines read in this attempt
  slots,   \* tool_calls of the attempt: index, id and pieces, as they came
  tokens,  \* usage_payload of the attempt, then the usage of the reply
  text,    \* text_parts of the reply: the attempt of each
  reply,   \* its tool calls: from their ids to the pieces of the arguments
  turn,    \* requests of the run
  step,    \* the StepBudget: whether it has a plan_id, and what it has used
  counted, \* _session_used and _plan_used
  rows,    \* total of token_usage, and of its rows of the current plan
  steps    \* steps opened

vars == <<pc, attempt, failed, wire, slots, tokens, text, reply, turn, step, counted, rows, steps>>
stream == <<attempt, failed, wire, slots, tokens>>
books == <<step, counted, rows, steps>>

Closed == [planned |-> FALSE, used |-> 0]
NoCalls == [id \in {} |-> 0]

Init ==
  /\ pc = "closed"
  /\ attempt = 0 /\ failed = FALSE /\ wire = <<>> /\ slots = <<>> /\ tokens = 0
  /\ text = <<>> /\ reply = NoCalls /\ turn = 0
  /\ step = Closed /\ steps = 0
  /\ counted = [session |-> 0, plan |-> 0] /\ rows = [session |-> 0, plan |-> 0]

-----------------------------------------------------------------------------
(* OpenAIAdapter.stream.                                                    *)

\* _stream_one starts with an empty reply.
Request ==
  /\ pc = "turn" /\ turn < MaxTurns
  /\ pc' = "post" /\ turn' = turn + 1
  /\ attempt' = 0 /\ failed' = FALSE
  /\ wire' = <<>> /\ slots' = <<>> /\ tokens' = 0
  /\ text' = <<>> /\ reply' = NoCalls
  /\ UNCHANGED books

\* The error event ends the request; what was assembled is thrown away.
Fails ==
  /\ pc' = "error" /\ wire' = <<>> /\ slots' = <<>> /\ tokens' = 0
  /\ text' = <<>> /\ reply' = NoCalls
  /\ UNCHANGED <<attempt, turn, books>>

\* Mutant: a timeout does not use up an attempt.
Again_Forever ==
  /\ pc' = "post" /\ attempt' = attempt /\ failed' = TRUE
  /\ UNCHANGED <<wire, slots, tokens, text, reply, turn, books>>

\* The next POST, after a sleep.
Again ==
  /\ pc' = "post" /\ attempt' = attempt + 1 /\ failed' = TRUE
  /\ UNCHANGED <<wire, slots, tokens, text, reply, turn, books>>

\* Mutant: the attempts are not counted against max_retries.
Posting_NoLimit == pc = "post"

Posting == pc = "post" /\ attempt < MaxRetries

\* A status of 400 and more, but 429.
Refused == Posting /\ Fails /\ UNCHANGED failed

\* 429 and 5xx: sleeps and goes on, after the last attempt too.
Busy == Posting /\ Again

\* An httpx.TimeoutException or NetworkError, here or while lines are read.
Dropped ==
  /\ Posting \/ pc = "reading"
  /\ IF attempt + 1 < MaxRetries THEN Again ELSE Fails /\ failed' = TRUE

\* Any other exception reaches _stream_one.
Raises == (Posting \/ pc = "reading") /\ Fails /\ UNCHANGED failed

\* The loop over the attempts has run out: after busy answers.
RunsOut ==
  /\ pc = "post" /\ attempt = MaxRetries
  /\ IF failed
     THEN Fails /\ UNCHANGED failed
     ELSE pc' = "answered" /\ UNCHANGED <<stream, text, reply, turn, books>>

\* Mutant: the tool calls of the last attempt are kept.
Connected_KeepsCalls ==
  /\ Posting /\ pc' = "reading"
  /\ wire' = <<>> /\ tokens' = 0
  /\ UNCHANGED <<attempt, failed, slots, text, reply, turn, books>>

Connected ==
  /\ Posting /\ pc' = "reading"
  /\ wire' = <<>> /\ slots' = <<>> /\ tokens' = 0
  /\ UNCHANGED <<attempt, failed, text, reply, turn, books>>

\* A part of a call goes to the slot of its index.
Take(l) ==
  IF \E i \in DOMAIN slots : slots[i].idx = l.idx
  THEN [i \in DOMAIN slots |->
         IF slots[i].idx # l.idx THEN slots[i]
         ELSE [slots[i] EXCEPT !.id = IF l.id # NoId THEN l.id ELSE @, !.n = @ + l.n]]
  ELSE Append(slots, [idx |-> l.idx, id |-> l.id, n |-> l.n])

Read(l) ==
  /\ pc = "reading" /\ Len(wire) < MaxLines
  /\ wire' = Append(wire, l)
  /\ text' = IF l.kind = "text" THEN Append(text, attempt) ELSE text
  /\ slots' = IF l.kind = "call" THEN Take(l) ELSE slots
  /\ tokens' = IF l.kind = "usage" THEN l.n ELSE tokens
  /\ UNCHANGED <<pc, attempt, failed, reply, turn, books>>

\* The calls are handed on in the order of their slots; _stream_one keeps
\* them by id, the later of two with one id, and drops those without.
Assembled ==
  LET Of(id) == {i \in DOMAIN slots : slots[i].id = id}
  IN  [id \in {slots[i].id : i \in DOMAIN slots} \ {NoId} |->
         slots[CHOOSE i \in Of(id) : \A k \in Of(id) : k <= i].n]

\* [DONE], or the end of the response without it: the calls, the usage and
\* message_end are emitted without an await between them.
Finish ==
  /\ pc = "reading" /\ pc' = "answered"
  /\ reply' = Assembled
  /\ UNCHANGED <<stream, text, turn, books>>

-----------------------------------------------------------------------------
(* The budget.                                                              *)

OpenStep(planned) ==
  /\ pc = "closed" /\ steps < MaxSteps
  /\ pc' = "turn" /\ turn' = 0 /\ steps' = steps + 1
  /\ step' = [planned |-> planned, used |-> 0]
  /\ UNCHANGED <<stream, text, reply, counted, rows>>

ResetPlan ==
  /\ pc = "closed" /\ counted.plan # 0
  /\ counted' = [counted EXCEPT !.plan = 0]
  /\ rows' = [rows EXCEPT !.plan = 0]
  /\ UNCHANGED <<pc, stream, text, reply, turn, step, steps>>

\* Mutant: a request that breaks the limit of the step is not counted.
Charged_ChecksFirst ==
  /\ step' = [step EXCEPT !.used = @ + tokens]
  /\ counted' = IF step.used + tokens > PerStep THEN counted ELSE
                [session |-> counted.session + tokens,
                 plan |-> counted.plan + (IF step.planned THEN tokens ELSE 0)]

\* add: the counters first, the limits after.
Charged ==
  /\ step' = [step EXCEPT !.used = @ + tokens]
  /\ counted' = [session |-> counted.session + tokens,
                 plan |-> counted.plan + (IF step.planned THEN tokens ELSE 0)]

OverLimit ==
  \/ step.used > PerStep
  \/ counted.plan > PerPlan
  \/ counted.session > PerSession

\* The loop charges each request, a failed one with nothing, and ends the
\* run when a limit is broken or the request has failed.  Whether it ends
\* after an answer is the matter of AgentLoop.
Account ==
  /\ pc \in {"answered", "error"}
  /\ Charged
  /\ pc' \in IF OverLimit' \/ pc = "error" THEN {"over"} ELSE {"turn", "over"}
  /\ attempt' = 0 /\ failed' = FALSE /\ wire' = <<>> /\ slots' = <<>> /\ tokens' = 0
  /\ text' = <<>> /\ reply' = NoCalls
  /\ UNCHANGED <<turn, rows, steps>>

\* A call whose arguments are JSON but no object cannot be put into a message:
\* _stream_one raises after the answer, and the request is never charged.
AssemblyRaises ==
  /\ pc = "answered" /\ pc' = "over"
  /\ \E id \in DOMAIN reply : reply[id] = 2
  /\ attempt' = 0 /\ failed' = FALSE /\ wire' = <<>> /\ slots' = <<>> /\ tokens' = 0
  /\ text' = <<>> /\ reply' = NoCalls
  /\ UNCHANGED <<turn, books>>

\* The run is out of turns.
LastTurn ==
  /\ pc = "turn" /\ turn = MaxTurns /\ pc' = "over"
  /\ UNCHANGED <<stream, text, reply, turn, books>>

\* _record: a row for what the step has used.
Record ==
  rows' = [session |-> rows.session + step.used,
           plan |-> rows.plan + (IF step.planned THEN step.used ELSE 0)]

\* A step without tokens has no row.
Flush == IF step.used = 0 THEN UNCHANGED rows ELSE Record

\* step() flushes, whatever has ended the step.
CloseStep ==
  /\ pc = "over" /\ pc' = "closed"
  /\ Flush /\ step' = Closed
  /\ UNCHANGED <<stream, text, reply, turn, counted, steps>>

Streaming ==
  \/ Refused \/ Busy \/ Dropped \/ Raises \/ RunsOut \/ Connected \/ Finish
  \/ \E l \in Lines : Read(l)

Next ==
  \/ Request \/ Streaming \/ ResetPlan
  \/ \E planned \in BOOLEAN : OpenStep(planned)
  \/ Account \/ AssemblyRaises \/ LastTurn \/ CloseStep

\* The timeout of the client ends every await of a stream, and a stream has
\* finitely many lines.
Spec == Init /\ [][Next]_vars /\ WF_vars(Streaming)

-----------------------------------------------------------------------------
(* Properties.                                                              *)

\* Pcs of a request under way, and the shape of the state: requests stay
\* within their attempts, and only an answered one has calls.
TypeOK ==
  /\ pc \in {"closed", "turn", "post", "reading", "answered", "error", "over"}
  /\ attempt \in 0 .. MaxRetries /\ failed \in BOOLEAN
  /\ wire \in Seq(Lines) /\ slots \in Seq([idx : Nat, id : Ids \cup {NoId}, n : Nat])
  /\ tokens \in Nat /\ text \in Seq(0 .. MaxRetries)
  /\ DOMAIN reply \subseteq Ids /\ \A id \in DOMAIN reply : reply[id] \in Nat
  /\ turn \in 0 .. MaxTurns /\ steps \in 0 .. MaxSteps
  /\ step \in [planned : BOOLEAN, used : Nat]
  /\ counted \in [session : Nat, plan : Nat] /\ rows \in [session : Nat, plan : Nat]
  /\ pc = "reading" => attempt < MaxRetries
  /\ reply # NoCalls => pc = "answered"

\* The lines of an index name one id, and no two indexes the same: what the
\* protocol asks of a server.
Conforms(lines) ==
  LET calls == {i \in DOMAIN lines : lines[i].kind = "call"}
      Named(k) == {lines[i].id : i \in {j \in calls : lines[j].idx = k}} \ {NoId}
  IN  /\ \A i \in calls : \E id \in Ids : Named(lines[i].idx) = {id}
      /\ \A i, j \in calls : Named(lines[i].idx) = Named(lines[j].idx)
                              => lines[i].idx = lines[j].idx

\* Pieces of the calls at the indexes idxs, counted line by line.
PiecesAt(lines, idxs) ==
  LET sum[k \in 0 .. Len(lines)] ==
        IF k = 0 THEN 0
        ELSE sum[k - 1] + (IF lines[k].kind = "call" /\ lines[k].idx \in idxs THEN lines[k].n ELSE 0)
  IN  sum[Len(lines)]

\* Pieces of the call id.
Pieces(lines, id) ==
  PiecesAt(lines, {lines[i].idx : i \in {j \in DOMAIN lines : lines[j].kind = "call" /\ lines[j].id = id}})

\* The lines with text.
TextLines(lines) == {i \in DOMAIN lines : lines[i].kind = "text"}

\* An answered request has exactly the tool calls its last attempt has sent,
\* each with all of its arguments and none of an attempt that broke off, and
\* its text ends with that attempt's: stream() keeps the calls of an attempt
\* apart and emits them only when it is over.
ReplyTellsAttempt ==
  pc = "answered" /\ Conforms(wire) =>
    /\ DOMAIN reply = {wire[i].id : i \in {j \in DOMAIN wire : wire[j].kind = "call"}} \ {NoId}
    /\ \A id \in DOMAIN reply : reply[id] = Pieces(wire, id)
    /\ Cardinality(TextLines(wire)) <= Len(text)
    /\ \A k \in DOMAIN text : k > Len(text) - Cardinality(TextLines(wire)) => text[k] = attempt

\* The counters of the budget are the rows of token_usage and what the open
\* step has used, whichever limit or failure ends a run: add counts before it
\* checks, and step() flushes in a finally.
BooksBalance ==
  /\ counted.session = rows.session + step.used
  /\ counted.plan = rows.plan + (IF step.planned THEN step.used ELSE 0)

\* Awaits of the server left to a request: in each attempt the POST and the
\* lines.
StepsLeft ==
  CASE pc = "post"    -> 1 + (MaxRetries - attempt) * (MaxLines + 2)
    [] pc = "reading" -> (MaxRetries - attempt) * (MaxLines + 2) - Len(wire)
    [] OTHER          -> 0

\* However a stream breaks off, the request has come nearer to its end: no
\* answer and no failure of the server is for free, and only the next request
\* has all its attempts again.
RequestIsBounded ==
  [][IF Streaming THEN StepsLeft' < StepsLeft ELSE Request \/ StepsLeft' = StepsLeft]_vars

\* Every request comes to an answer or an error: each retry uses up an
\* attempt of stream(), and each await in it times out.
RequestsEnd == pc \in {"post", "reading"} ~> pc \in {"answered", "error"}
=============================================================================

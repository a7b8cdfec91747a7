---------------------------- MODULE AgentLoopProofs ----------------------------
(***************************************************************************)
(* Theorems about AgentLoop, for every limit on turns, calls, steers, runs  *)
(* and compactions, with or without a compactor and a checkpointer.         *)
(***************************************************************************)
EXTENDS AgentLoop, FiniteSetTheorems, TLAPS

-----------------------------------------------------------------------------
(* The inductive invariant.  Of a conversation that has not been compacted  *)
(* and whose run has not raised it says which calls still want an answer,   *)
(* and how the turns since the last good one are counted.                   *)

LastReply(ms, r) ==
  r \in Positions(ms, "assistant") /\ \A i \in Positions(ms, "assistant") : i <= r

\* Call k of reply i has its one answer.
Answered(ms, i, k) ==
  \E j \in Positions(ms, "tool") :
    /\ i < j /\ SameTurn(ms, i, j)
    /\ ms[j].ids = <<ms[i].ids[k]>>
    /\ \A l \in Positions(ms, "tool") : ms[l].ids = ms[j].ids => l = j

\* The result j belongs to a call of its turn.
Belongs(ms, j) ==
  \E i \in Positions(ms, "assistant") :
    /\ i < j /\ SameTurn(ms, i, j)
    /\ \E k \in 1 .. Len(ms[i].ids) : ms[j].ids = <<ms[i].ids[k]>>

\* Every call is answered but those in c, which are the last reply's, are
\* different from each other and have no answer at all.
Paired(ms, c) ==
  /\ \A i \in Positions(ms, "assistant") : \A k \in 1 .. Len(ms[i].ids) :
       \/ Answered(ms, i, k)
       \/ LastReply(ms, i) /\ \E n \in 1 .. Len(c) : c[n] = ms[i].ids[k]
  /\ \A j \in Positions(ms, "tool") : Belongs(ms, j)
  /\ \A n \in 1 .. Len(c) : \A j \in Positions(ms, "tool") : ms[j].ids # <<c[n]>>
  /\ \A m, n \in 1 .. Len(c) : c[m] = c[n] => m = n
  /\ c # <<>> => \E r \in Positions(ms, "assistant") :
                    /\ LastReply(ms, r)
                    /\ \A n \in 1 .. Len(c) : \E k \in 1 .. Len(ms[r].ids) : c[n] = ms[r].ids[k]

\* No call has an id of a turn after t.
IdsUpTo(ms, t) ==
  \A i \in Positions(ms, "assistant") : \A k \in 1 .. Len(ms[i].ids) :
    ms[i].ids[k] \in (1 .. t) \X Nat

\* The turns with tool calls that are over; open says that the last reply's
\* is not.
Closed(ms, open) == {i \in ToolTurns(ms) : open => ~LastReply(ms, i)}

\* The last n turns of calls have failed, and the one before did not.
Counted(ms, open, n) ==
  \E b \in 0 .. Len(ms) :
    /\ b # 0 => b \in Closed(ms, open) /\ ~AllFailed(ms, b)
    /\ \A i \in Closed(ms, open) : i > b => AllFailed(ms, i)
    /\ Cardinality({i \in Closed(ms, open) : i > b}) = n

Pending ==
  CASE pc = "tools"           -> calls
    [] pc = "compacting_post" -> LastOf(msgs).ids
    [] OTHER                  -> <<>>

ReplyIsOpen == pc \in {"tools", "compacting_post"}
LastTurn == IF pc \in {"compacting", "streaming"} THEN turn - 1 ELSE turn

CallsPaired == Paired(msgs, Pending) /\ IdsUpTo(msgs, LastTurn)

FailuresCounted ==
  /\ Counted(msgs, ReplyIsOpen, invalidTurns)
  /\ pc = "tools" =>
       \A r \in 1 .. Len(msgs) : LastReply(msgs, r) => (allInvalid <=> AllFailed(msgs, r))
  /\ pc = "returned" /\ result.reason = "circuit_breaker" => invalidTurns = CircuitBreaker

\* A run that comes to its limit has made calls in its last turn.
LimitCutsCalls ==
  (pc = "head" /\ turn = Cap) \/ (pc = "returned" /\ result.reason = "max_turns") =>
    \A r \in 1 .. Len(msgs) : LastReply(msgs, r) => msgs[r].ids # <<>>

ReplyIsLast ==
  pc = "compacting_post" => LastOf(msgs).kind = "assistant"

Uncut == callCount = 0 /\ pc # "raised"

TurnBegun ==
  /\ pc \in {"compacting", "streaming", "compacting_post", "tools"} => turn >= 1
  /\ pc = "compacting_post" => msgs # <<>>

ConversationInv ==
  Uncut => CallsPaired /\ FailuresCounted /\ LimitCutsCalls /\ ReplyIsLast

\* Every result has its place, and while calls are executed the next one has.
ResultsInv ==
  Uncut => /\ ResultsFollow(msgs)
           /\ pc = "tools" => MayFollow(msgs, Len(msgs)) /\ msgs # <<>>

\* What has left the queue is in the conversation, in order.
QueueIsLast ==
  /\ Len(queue) <= sent
  /\ \A i \in 1 .. Len(queue) : queue[i] = SteerText(sent - Len(queue) + i)

Delivered == sent - Len(queue)

HasSteer(ms, n) == \E i \in Positions(ms, "steer") : ms[i] = SteerText(n)

\* The steers of a conversation, d of them having been delivered: increasing
\* numbers, up to the last.
InOrder(ms, d) ==
  /\ \A i \in Positions(ms, "steer") : \E n \in 1 .. d : ms[i] = SteerText(n)
  /\ \A i, j \in Positions(ms, "steer") : i < j => ms[i].ids[1][2] < ms[j].ids[1][2]
  /\ \A m, n \in 1 .. d : m < n /\ HasSteer(ms, m) => HasSteer(ms, n)

AllIn(ms, d) == \A n \in 1 .. d : HasSteer(ms, n)

SteersDelivered ==
  /\ InOrder(msgs, Delivered)
  /\ runs = 1 => AllIn(msgs, Delivered)

SteerInv ==
  /\ QueueIsLast
  /\ callCount = 0 => SteersDelivered
  /\ runs = 0 => Delivered = 0 /\ pc = "idle"

TypeInv == TypeOK /\ TurnBegun

IInv == TypeInv /\ ConversationInv /\ ResultsInv /\ SteerInv
-----------------------------------------------------------------------------
(* Types.                                                                   *)

LEMMA NewMessages ==
  /\ {UserMessage, Reminder, Feedback, Summary} \subseteq Messages
  /\ \A n \in Nat : SteerText(n) \in Messages
  /\ \A ids \in Seq(CallIds), text \in Texts : Reply(ids, text) \in Messages
  /\ \A id \in CallIds, outcome \in Outcomes : ToolResult(id, outcome) \in Messages
<1>1. <<>> \in Seq(CallIds) /\ \A id \in CallIds : <<id>> \in Seq(CallIds)
  OBVIOUS
<1>2. \A n \in Nat : <<0, n>> \in CallIds
  BY DEF CallIds
<1>. QED
  BY <1>1, <1>2
  DEF UserMessage, Reminder, Feedback, Summary, SteerText, Reply, ToolResult, Message,
      Messages, Kinds, Whats, Texts, Outcomes

\* A message more at the end.
LEMMA Appended ==
  ASSUME NEW ms \in Seq(Messages), NEW m \in Messages
  PROVE  /\ Append(ms, m) \in Seq(Messages) /\ Append(ms, m) # <<>>
         /\ Len(ms) \in Nat /\ Len(Append(ms, m)) = Len(ms) + 1
         /\ \A i \in 1 .. Len(ms) : Append(ms, m)[i] = ms[i]
         /\ Append(ms, m)[Len(ms) + 1] = m
         /\ LastOf(Append(ms, m)) = m
<1>1. Len(ms) \in Nat /\ Append(ms, m) \in Seq(Messages) /\ Len(Append(ms, m)) = Len(ms) + 1
      /\ Append(ms, m)[Len(ms) + 1] = m
  OBVIOUS
<1>2. Append(ms, m) # <<>>
  BY <1>1
<1>. QED
  BY <1>1, <1>2 DEF LastOf

LEMMA CompactionsBounded ==
  ASSUME TypeOK, MayCompact, NEW ms, callCount' \in {callCount, CallsOfCompact(ms)}
  PROVE  callCount' \in 0 .. MaxCompactions
<1>1. callCount \in 0 .. MaxCompactions /\ callCount < MaxCompactions /\ MaxCompactions \in Nat
  BY LoopAssumption DEF TypeOK, MayCompact
<1>2. callCount' \in {callCount, callCount + 1}
  BY DEF CallsOfCompact
<1>. QED
  BY <1>1, <1>2

LEMMA CompactedType ==
  ASSUME NEW ms \in Seq(Messages)
  PROVE  Compacted(ms) \in Seq(Messages) /\ (ms # <<>> => Compacted(ms) # <<>>)
<1>1. CASE TooShort(ms)
  BY <1>1 DEF Compacted
<1>2. CASE ~TooShort(ms)
  <2>1. KeepLast \in Nat /\ Len(ms) \in Nat /\ Len(ms) > KeepLast + 1
    BY <1>2, LoopAssumption DEF TooShort
  <2> DEFINE head == IF ms[1].kind = "system" THEN <<ms[1]>> ELSE <<>>
             tail == SubSeq(ms, Len(ms) - KeepLast + 1, Len(ms))
  <2>2. head \in Seq(Messages) /\ <<Summary>> \in Seq(Messages)
    BY <2>1, NewMessages
  <2>3. tail \in Seq(Messages)
    BY <2>1
  <2>4. Compacted(ms) = head \o <<Summary>> \o tail
    BY <1>2 DEF Compacted
  <2> HIDE DEF head, tail
  <2>5. head \o <<Summary>> \in Seq(Messages) /\ Len(head \o <<Summary>>) = Len(head) + 1
    BY <2>2
  <2>6. Compacted(ms) \in Seq(Messages) /\ Len(Compacted(ms)) = Len(head) + 1 + Len(tail)
    BY <2>3, <2>4, <2>5
  <2>. QED
    BY <2>2, <2>3, <2>6
<1>. QED
  BY <1>1, <1>2

\* The ids a reply gives its calls.
CallsOf(n) == [k \in 1 .. n |-> <<turn, k>>]

LEMMA CallsOfType ==
  ASSUME TypeOK, NEW n \in 0 .. MaxCalls
  PROVE  CallsOf(n) \in Seq(CallIds) /\ Len(CallsOf(n)) = n
<1>1. MaxCalls \in Nat /\ turn \in Nat
  BY LoopAssumption DEF TypeOK
<1>. QED
  BY <1>1 DEF CallsOf, CallIds

LEMMA Limits ==
  /\ Cap \in Nat /\ Cap >= 1 /\ MaxCalls \in Nat /\ MaxSteers \in Nat /\ MaxRuns \in Nat
  /\ MaxCompactions \in Nat /\ KeepLast \in Nat
BY LoopAssumption

LEMMA TypeInit == Init => TypeInv
<1> SUFFICES ASSUME Init PROVE TypeInv
  OBVIOUS
<1>1. <<>> \in Seq(Messages) /\ <<>> \in Seq(CallIds)
  OBVIOUS
<1>2. result \in [reason : Reasons, turns : 0 .. Cap]
  BY Limits DEF Init, Reasons
<1>3. {allInvalid, abort, writeCalled} \subseteq BOOLEAN
  BY DEF Init
<1>4. turn \in 0 .. Cap /\ sent \in 0 .. MaxSteers /\ callCount \in 0 .. MaxCompactions
      /\ runs \in 0 .. MaxRuns
  BY Limits DEF Init
<1>. QED
  BY <1>1, <1>2, <1>3, <1>4 DEF Init, TypeInv, TypeOK, TurnBegun, Live, CircuitBreaker

\* Whatever the reply, acting on it leaves these with their types.
LEMMA ActType ==
  ASSUME TypeInv, turn >= 1, NEW ms \in Seq(Messages), ms # <<>>, Act(ms)
  PROVE  /\ pc' \in {"head", "tools", "returned", "raised"}
         /\ msgs' \in Seq(Messages) /\ checkpoint' \in Seq(Messages)
         /\ calls' \in Seq(CallIds) /\ (pc' = "tools" => calls' # <<>>)
         /\ allInvalid' \in BOOLEAN
         /\ result' \in [reason : Reasons, turns : 0 .. Cap]
<1> DEFINE reply == LastOf(ms)
<1>1. reply \in Messages /\ reply.ids \in Seq(CallIds)
  <2>1. Len(ms) \in Nat /\ Len(ms) \in 1 .. Len(ms)
    OBVIOUS
  <2>2. reply \in Messages
    BY <2>1 DEF LastOf
  <2>. QED
    BY <2>2 DEF Messages
<1>2. checkpoint' \in Seq(Messages)
  BY DEF Act, Save, TypeInv, TypeOK
<1>3. Append(ms, Reminder) \in Seq(Messages)
  BY NewMessages
<1>4. [reason |-> "completed", turns |-> turn] \in [reason : Reasons, turns : 0 .. Cap]
  BY DEF TypeInv, TypeOK, Reasons
<1>. QED
  <2>1. CASE reply.ids = <<>> /\ reply.what = "extractable"
    BY <1>2, <2>1 DEF Act, TypeInv, TypeOK
  <2>2. CASE reply.ids = <<>> /\ reply.what # "extractable" /\ NeedsReminder(reply)
    BY <1>2, <1>3, <2>2 DEF Act, TypeInv, TypeOK
  <2>3. CASE reply.ids = <<>> /\ reply.what # "extractable" /\ ~NeedsReminder(reply)
    BY <1>2, <1>4, <2>3 DEF Act, TypeInv, TypeOK, Return
  <2>4. CASE reply.ids # <<>>
    BY <1>1, <1>2, <2>4 DEF Act, TypeInv, TypeOK
  <2>. QED
    BY <2>1, <2>2, <2>3, <2>4

LEMMA AnswerType ==
  ASSUME NEW id \in CallIds, NEW outcome \in Outcomes
  PROVE  Answer(id, outcome) \in Seq(Messages)
<1>1. <<ToolResult(id, outcome)>> \in Seq(Messages) /\ <<Feedback>> \in Seq(Messages)
  BY NewMessages
<1>. QED
  BY <1>1 DEF Answer

LEMMA TypeNext ==
  ASSUME TypeInv, [Next]_vars
  PROVE  TypeInv'
<1> USE DEF TypeInv, TypeOK, TurnBegun, Live
<1>1. CASE Run
  <2>1. <<UserMessage>> \in Seq(Messages)
    BY NewMessages
  <2>2. result' \in [reason : Reasons, turns : 0 .. Cap] /\ turn' \in 0 .. Cap
        /\ runs' \in 0 .. MaxRuns
    BY <1>1, Limits DEF Run, Reasons
  <2>3. {allInvalid', abort', writeCalled'} \subseteq BOOLEAN
    BY <1>1 DEF Run, kept
  <2>. QED
    BY <1>1, <2>1, <2>2, <2>3 DEF Run, CircuitBreaker, kept
<1>2. CASE Steer
  <2>1. sent' \in 0 .. MaxSteers /\ SteerText(sent + 1) \in Messages
    BY <1>2, LoopAssumption, NewMessages DEF Steer
  <2>2. queue' \in Seq(Messages)
    BY <1>2, <2>1 DEF Steer
  <2>. QED
    BY <1>2, <2>1, <2>2 DEF Steer, MayCompact, kept
<1>3. CASE Abort
  BY <1>3 DEF Abort, MayCompact, kept
<1>4. CASE StopAborted \/ HitMaxTurns \/ StreamFails
  <2>1. [reason |-> "aborted", turns |-> turn] \in [reason : Reasons, turns : 0 .. Cap]
        /\ [reason |-> "max_turns", turns |-> Cap] \in [reason : Reasons, turns : 0 .. Cap]
        /\ [reason |-> "error", turns |-> turn] \in [reason : Reasons, turns : 0 .. Cap]
    BY LoopAssumption DEF Reasons
  <2>. QED
    BY <1>4, <2>1 DEF StopAborted, HitMaxTurns, StreamFails, Return, user, kept, MayCompact
<1>5. CASE BeginTurn
  <2>1. msgs' \in Seq(Messages) /\ queue' \in Seq(Messages)
    BY <1>5 DEF BeginTurn
  <2>2. turn' \in 1 .. Cap
    BY <1>5, LoopAssumption DEF BeginTurn
  <2>. QED
    BY <1>5, <2>1, <2>2 DEF BeginTurn, kept, MayCompact
<1>6. CASE Compact
  <2>1. msgs' \in Seq(Messages)
    BY <1>6, CompactedType DEF Compact
  <2>2. callCount' \in 0 .. MaxCompactions
    BY <1>6, CompactionsBounded DEF Compact, TypeOK
  <2>. QED
    BY <1>6, <2>1, <2>2 DEF Compact, user, MayCompact
<1>7. CASE SummaryRaises \/ CallbackRaises \/ AssemblyRaises
  BY <1>7 DEF SummaryRaises, CallbackRaises, AssemblyRaises, Raise, user, kept
<1>8. CASE StreamAnswers
  <2>1. PICK n \in 0 .. MaxCalls, text \in Texts :
          LET ms == Append(msgs, Reply(CallsOf(n), text)) IN
            \/ Act(ms)
            \/ /\ MayCompact
               /\ pc' = "compacting_post"
               /\ msgs' = ms
               /\ UNCHANGED <<calls, allInvalid, result, checkpoint>>
    BY <1>8 DEF StreamAnswers, CallsOf
  <2> DEFINE ms == Append(msgs, Reply(CallsOf(n), text))
  <2>2. ms \in Seq(Messages) /\ ms # <<>>
    <3>1. Reply(CallsOf(n), text) \in Messages
      BY CallsOfType, NewMessages
    <3>2. msgs \in Seq(Messages)
      OBVIOUS
    <3>. QED
      BY <3>1, <3>2, Appended
  <2>3. turn >= 1 /\ UNCHANGED <<turn, invalidTurns, user, kept, runs>> /\ invalidTurns < CircuitBreaker
    BY <1>8 DEF StreamAnswers
  <2> HIDE DEF ms
  <2>4. CASE Act(ms)
    BY <2>2, <2>3, <2>4, ActType DEF user, kept, MayCompact
  <2>5. CASE /\ MayCompact
             /\ pc' = "compacting_post"
             /\ msgs' = ms
             /\ UNCHANGED <<calls, allInvalid, result, checkpoint>>
    BY <2>2, <2>3, <2>5 DEF user, kept, MayCompact
  <2>. QED
    BY <2>1, <2>4, <2>5 DEF ms
<1>9. CASE CompactPost
  <2>1. turn >= 1 /\ msgs # <<>> /\ MayCompact /\ invalidTurns < CircuitBreaker
        /\ UNCHANGED <<turn, invalidTurns, user, writeCalled, runs>>
    BY <1>9 DEF CompactPost
  <2>2. callCount' \in 0 .. MaxCompactions
    BY <1>9, <2>1, CompactionsBounded DEF CompactPost
  <2>3. PICK ms \in {msgs, Compacted(msgs)} : Act(ms)
    BY <1>9 DEF CompactPost
  <2>4. ms \in Seq(Messages) /\ ms # <<>>
    BY <2>1, CompactedType
  <2>. QED
    BY <2>1, <2>2, <2>3, <2>4, ActType DEF user
<1>10. CASE ToolEnds
  <2>1. PICK outcome \in Outcomes, write \in BOOLEAN :
          /\ msgs' = msgs \o Answer(Head(calls), outcome)
          /\ allInvalid' = (allInvalid /\ outcome # "ok")
          /\ writeCalled' = (writeCalled \/ write)
    BY <1>10 DEF ToolEnds
  <2>2. calls # <<>> /\ Head(calls) \in CallIds /\ Tail(calls) \in Seq(CallIds)
        /\ Len(Tail(calls)) = Len(calls) - 1 /\ Len(calls) \in Nat
    BY <1>10 DEF ToolEnds
  <2>3. msgs' \in Seq(Messages)
    BY <2>1, <2>2, AnswerType
  <2>4. [reason |-> "circuit_breaker", turns |-> turn] \in [reason : Reasons, turns : 0 .. Cap]
    BY DEF Reasons
  <2>5. invalidTurns < CircuitBreaker /\ turn >= 1
        /\ calls' = Tail(calls) /\ UNCHANGED <<turn, user, callCount, checkpoint, runs>>
    BY <1>10 DEF ToolEnds
  <2>6. CASE Len(calls) > 1 /\ UNCHANGED <<pc, invalidTurns, result>>
    <3>1. calls' # <<>>
      <4>1. Len(calls') > 0
        BY <2>2, <2>5, <2>6
      <4>. QED
        BY <4>1
    <3>. QED
      BY <1>10, <2>1, <2>2, <2>3, <2>5, <2>6, <3>1 DEF user, MayCompact, ToolEnds
  <2>7. CASE EndTurn(allInvalid')
    <3>1. invalidTurns' \in {0, invalidTurns + 1}
      BY <2>7 DEF EndTurn
    <3>2. \/ pc' = "returned" /\ result' = [reason |-> "circuit_breaker", turns |-> turn]
          \/ pc' = "head" /\ invalidTurns' < CircuitBreaker /\ UNCHANGED result
      BY <2>7 DEF EndTurn, Return
    <3>3. {allInvalid', abort', writeCalled'} \subseteq BOOLEAN
      BY <2>1, <2>5 DEF user
    <3>4. invalidTurns' \in 0 .. CircuitBreaker
      <4>1. invalidTurns \in Nat
        OBVIOUS
      <4>. QED
        BY <2>5, <3>1, <4>1 DEF CircuitBreaker
    <3>5. pc' # "returned" => invalidTurns' < CircuitBreaker
      BY <3>2
    <3>6. result' \in [reason : Reasons, turns : 0 .. Cap]
      BY <2>4, <3>2
    <3>. QED
      BY <2>2, <2>3, <2>5, <3>2, <3>3, <3>4, <3>5, <3>6 DEF user
  <2>. QED
    BY <1>10, <2>6, <2>7 DEF ToolEnds
<1>11. CASE UNCHANGED vars
  BY <1>11 DEF vars, MayCompact
<1>. QED
  BY <1>1, <1>2, <1>3, <1>4, <1>5, <1>6, <1>7, <1>8, <1>9, <1>10, <1>11 DEF Next, Loop

\* Every variable of the loop has its type, and the limits hold where run
\* relies on them (AIAgentLoop.run, SteerQueue, Compactor).
THEOREM TypeCorrect == Spec => []TypeOK
<1>1. TypeInv => TypeOK
  BY DEF TypeInv
<1>. QED
  BY <1>1, TypeInit, TypeNext, PTL DEF Spec

-----------------------------------------------------------------------------
(* What one more message does to a conversation.                            *)

LEMMA PositionsType ==
  ASSUME NEW ms \in Seq(Messages), NEW kind
  PROVE  /\ Len(ms) \in Nat /\ Positions(ms, kind) \subseteq 1 .. Len(ms)
         /\ \A i \in Positions(ms, kind) : ms[i] \in Messages /\ ms[i].ids \in Seq(CallIds)
         /\ ToolTurns(ms) \subseteq Positions(ms, "assistant")
<1>1. Len(ms) \in Nat /\ Positions(ms, kind) \subseteq 1 .. Len(ms)
  BY DEF Positions
<1>2. \A i \in 1 .. Len(ms) : ms[i] \in Messages
  OBVIOUS
<1>3. \A m \in Messages : m.ids \in Seq(CallIds)
  BY DEF Messages
<1>. QED
  BY <1>1, <1>2, <1>3 DEF ToolTurns

\* What is said of replies and results depends on these alone.
LEMMA SameReplies ==
  ASSUME NEW ms \in Seq(Messages), NEW ns \in Seq(Messages),
         Positions(ns, "assistant") = Positions(ms, "assistant"),
         Positions(ns, "tool") = Positions(ms, "tool"),
         \A i \in 1 .. Len(ms) : ns[i] = ms[i]
  PROVE  /\ \A c : Paired(ns, c) <=> Paired(ms, c)
         /\ \A t : IdsUpTo(ns, t) <=> IdsUpTo(ms, t)
         /\ ToolTurns(ns) = ToolTurns(ms)
         /\ \A i : LastReply(ns, i) <=> LastReply(ms, i)
         /\ \A i : AllFailed(ns, i) <=> AllFailed(ms, i)
<1>1. \A i \in Positions(ms, "assistant") : ns[i] = ms[i]
  BY PositionsType
<1>2. \A j \in Positions(ms, "tool") : ns[j] = ms[j]
  BY PositionsType
<1>3. \A i, j : SameTurn(ns, i, j) <=> SameTurn(ms, i, j)
  BY DEF SameTurn
<1>4. \A i : LastReply(ns, i) <=> LastReply(ms, i)
  BY DEF LastReply
<1>5. \A i : AllFailed(ns, i) <=> AllFailed(ms, i)
  BY <1>2, <1>3 DEF AllFailed
<1>6. ToolTurns(ns) = ToolTurns(ms)
  BY <1>1 DEF ToolTurns
<1>7. \A t : IdsUpTo(ns, t) <=> IdsUpTo(ms, t)
  BY <1>1 DEF IdsUpTo
<1>8. \A i \in Positions(ms, "assistant") : \A k : Answered(ns, i, k) <=> Answered(ms, i, k)
  BY <1>1, <1>2, <1>3 DEF Answered
<1>9. \A j \in Positions(ms, "tool") : Belongs(ns, j) <=> Belongs(ms, j)
  BY <1>1, <1>2, <1>3 DEF Belongs
<1>10. ASSUME NEW c PROVE Paired(ns, c) <=> Paired(ms, c)
  <2> DEFINE Wants(s, i, k) == LastReply(s, i) /\ \E n \in 1 .. Len(c) : c[n] = s[i].ids[k]
             Holds(s, r) == /\ LastReply(s, r)
                            /\ \A n \in 1 .. Len(c) :
                                 \E k \in 1 .. Len(s[r].ids) : c[n] = s[r].ids[k]
  <2>1. \A i \in Positions(ms, "assistant") : \A k : Wants(ns, i, k) <=> Wants(ms, i, k)
    BY <1>1, <1>4
  <2>2. \A r \in Positions(ms, "assistant") : Holds(ns, r) <=> Holds(ms, r)
    BY <1>1, <1>4
  <2>3. \A n : (\A j \in Positions(ns, "tool") : ns[j].ids # <<c[n]>>)
                <=> (\A j \in Positions(ms, "tool") : ms[j].ids # <<c[n]>>)
    BY <1>2
  <2>4. (\A i \in Positions(ns, "assistant") : \A k \in 1 .. Len(ns[i].ids) :
           Answered(ns, i, k) \/ Wants(ns, i, k))
        <=> (\A i \in Positions(ms, "assistant") : \A k \in 1 .. Len(ms[i].ids) :
               Answered(ms, i, k) \/ Wants(ms, i, k))
    <3> HIDE DEF Wants
    <3>. QED
      BY <1>1, <1>8, <2>1
  <2>5. (\A j \in Positions(ns, "tool") : Belongs(ns, j))
        <=> (\A j \in Positions(ms, "tool") : Belongs(ms, j))
    BY <1>9
  <2>6. (\E r \in Positions(ns, "assistant") : Holds(ns, r))
        <=> (\E r \in Positions(ms, "assistant") : Holds(ms, r))
    <3> HIDE DEF Holds
    <3>. QED
      BY <2>2
  <2>7. \A s : Paired(s, c) <=>
          /\ \A i \in Positions(s, "assistant") : \A k \in 1 .. Len(s[i].ids) :
               Answered(s, i, k) \/ Wants(s, i, k)
          /\ \A j \in Positions(s, "tool") : Belongs(s, j)
          /\ \A n \in 1 .. Len(c) : \A j \in Positions(s, "tool") : s[j].ids # <<c[n]>>
          /\ \A m, n \in 1 .. Len(c) : c[m] = c[n] => m = n
          /\ c # <<>> => \E r \in Positions(s, "assistant") : Holds(s, r)
    BY DEF Paired
  <2> HIDE DEF Wants, Holds
  <2>. QED
    BY <2>3, <2>4, <2>5, <2>6, <2>7
<1>. QED
  BY <1>4, <1>5, <1>6, <1>7, <1>10

\* The positions of a kind after a message more.
LEMMA PositionsAppended ==
  ASSUME NEW ms \in Seq(Messages), NEW m \in Messages, NEW kind
  PROVE  /\ m.kind = kind =>
              Positions(Append(ms, m), kind) = Positions(ms, kind) \cup {Len(ms) + 1}
         /\ m.kind # kind => Positions(Append(ms, m), kind) = Positions(ms, kind)
<1> DEFINE ns == Append(ms, m)
<1>1. Len(ms) \in Nat /\ Len(ns) = Len(ms) + 1 /\ ns[Len(ms) + 1] = m
      /\ \A i \in 1 .. Len(ms) : ns[i] = ms[i]
  BY Appended
<1>2. \A i : i \in 1 .. Len(ns) <=> i \in 1 .. Len(ms) \/ i = Len(ms) + 1
  BY <1>1
<1> HIDE DEF ns
<1>. QED
  BY <1>1, <1>2 DEF Positions, ns

LEMMA NeutralAppended ==
  ASSUME NEW ms \in Seq(Messages), NEW m \in Messages, m.kind \notin {"assistant", "tool"}
  PROVE  LET ns == Append(ms, m) IN
         /\ \A c : Paired(ns, c) <=> Paired(ms, c)
         /\ \A t : IdsUpTo(ns, t) <=> IdsUpTo(ms, t)
         /\ ToolTurns(ns) = ToolTurns(ms)
         /\ \A i : LastReply(ns, i) <=> LastReply(ms, i)
         /\ \A i : AllFailed(ns, i) <=> AllFailed(ms, i)
<1> DEFINE ns == Append(ms, m)
<1>1. ns \in Seq(Messages) /\ \A i \in 1 .. Len(ms) : ns[i] = ms[i]
  BY Appended
<1>2. Positions(ns, "assistant") = Positions(ms, "assistant")
      /\ Positions(ns, "tool") = Positions(ms, "tool")
  BY PositionsAppended
<1> HIDE DEF ns
<1>. QED
  BY <1>1, <1>2, SameReplies DEF ns

\* Messages the user injects.
LEMMA SteersAppended ==
  ASSUME NEW ms \in Seq(Messages), NEW q \in Seq(Messages),
         \A i \in 1 .. Len(q) : q[i].kind = "steer"
  PROVE  LET ns == ms \o q IN
         /\ ns \in Seq(Messages)
         /\ \A c : Paired(ns, c) <=> Paired(ms, c)
         /\ \A t : IdsUpTo(ns, t) <=> IdsUpTo(ms, t)
         /\ ToolTurns(ns) = ToolTurns(ms)
         /\ \A i : LastReply(ns, i) <=> LastReply(ms, i)
         /\ \A i : AllFailed(ns, i) <=> AllFailed(ms, i)
<1> DEFINE ns == ms \o q
<1>1. /\ ns \in Seq(Messages) /\ Len(ms) \in Nat /\ Len(q) \in Nat
      /\ Len(ns) = Len(ms) + Len(q)
      /\ \A i \in 1 .. Len(ms) : ns[i] = ms[i]
      /\ \A i \in 1 .. Len(q) : ns[Len(ms) + i] = q[i]
  OBVIOUS
<1>2. ASSUME NEW i \in 1 .. Len(ns) PROVE i \in 1 .. Len(ms) \/ ns[i].kind = "steer"
  <2>1. CASE i > Len(ms)
    <3>1. i - Len(ms) \in 1 .. Len(q) /\ i = Len(ms) + (i - Len(ms))
      BY <1>1, <2>1
    <3>. QED
      BY <1>1, <3>1
  <2>. QED
    BY <1>1, <2>1
<1> HIDE DEF ns
<1>3. \A kind \in {"assistant", "tool"} : Positions(ns, kind) = Positions(ms, kind)
  <2>1. 1 .. Len(ms) \subseteq 1 .. Len(ns)
    BY <1>1
  <2>. QED
    BY <1>1, <1>2, <2>1 DEF Positions
<1>. QED
  BY <1>1, <1>3, SameReplies DEF ns

\* The model's reply: its calls are the ones that want an answer now.
LEMMA ReplyAppended ==
  ASSUME NEW ms \in Seq(Messages), NEW t \in Nat \ {0},
         NEW ids \in Seq(CallIds), NEW text \in Texts,
         \A k \in 1 .. Len(ids) : ids[k] \in {t} \X Nat,
         \A m, n \in 1 .. Len(ids) : ids[m] = ids[n] => m = n,
         Paired(ms, <<>>), IdsUpTo(ms, t - 1)
  PROVE  LET ns == Append(ms, Reply(ids, text)) IN
         /\ ns \in Seq(Messages) /\ LastOf(ns) = Reply(ids, text)
         /\ LastReply(ns, Len(ns))
         /\ Paired(ns, ids) /\ IdsUpTo(ns, t)
         /\ Closed(ns, TRUE) = ToolTurns(ms)
         /\ \A i \in ToolTurns(ms) : AllFailed(ns, i) <=> AllFailed(ms, i)
         /\ AllFailed(ns, Len(ns))
<1> DEFINE m == Reply(ids, text)
           ns == Append(ms, m)
           p  == Len(ms) + 1
           A  == Positions(ms, "assistant")
           T  == Positions(ms, "tool")
<1>0. m \in Messages /\ m.kind = "assistant" /\ m.ids = ids
  BY NewMessages DEF Reply, Message
<1>1. /\ ns \in Seq(Messages) /\ Len(ns) = p /\ ns[p].ids = ids /\ LastOf(ns) = m
      /\ Len(ms) \in Nat /\ p \in Nat
      /\ \A i \in 1 .. Len(ms) : ns[i] = ms[i]
  BY <1>0, Appended
<1> HIDE DEF m
<1>2. Positions(ns, "assistant") = A \cup {p}
  BY <1>0, PositionsAppended, Zenon
<1>3. Positions(ns, "tool") = T
  <2>1. m.kind # "tool"
    BY <1>0
  <2>. QED
    BY <1>0, <2>1, PositionsAppended
<1>4. A \subseteq 1 .. Len(ms) /\ T \subseteq 1 .. Len(ms)
  BY PositionsType
<1> HIDE DEF ns, A, T
<1>5. p \notin A /\ \A i \in A \cup T : i \in Nat /\ i < p /\ ns[i] = ms[i]
  <2>1. \A i \in 1 .. Len(ms) : i \in Nat /\ i < p
    BY <1>1
  <2>2. p \notin 1 .. Len(ms)
    BY <1>1
  <2>. QED
    BY <1>1, <1>4, <2>1, <2>2
<1> HIDE DEF p
<1>6. \A i : LastReply(ns, i) <=> i = p
  BY <1>1, <1>2, <1>5 DEF LastReply
<1>7. \A i : \A j \in T : SameTurn(ns, i, j) <=> SameTurn(ms, i, j)
  BY <1>1, <1>2, <1>5 DEF SameTurn, A
<1>8. \A i \in A : \A k : Answered(ms, i, k) => Answered(ns, i, k)
  <2> SUFFICES ASSUME NEW i \in A, NEW k, Answered(ms, i, k) PROVE Answered(ns, i, k)
    OBVIOUS
  <2>1. PICK j \in T : /\ i < j /\ SameTurn(ms, i, j)
                       /\ ms[j].ids = <<ms[i].ids[k]>>
                       /\ \A l \in T : ms[l].ids = ms[j].ids => l = j
    BY DEF Answered, T
  <2>2. /\ i < j /\ SameTurn(ns, i, j)
        /\ ns[j].ids = <<ns[i].ids[k]>>
        /\ \A l \in T : ns[l].ids = ns[j].ids => l = j
    BY <1>5, <1>7, <2>1
  <2>. QED
    BY <1>3, <2>2 DEF Answered
<1>9. \A j \in T : Belongs(ns, j)
  <2> SUFFICES ASSUME NEW j \in T PROVE Belongs(ns, j)
    OBVIOUS
  <2>1. PICK i \in A : /\ i < j /\ SameTurn(ms, i, j)
                       /\ \E k \in 1 .. Len(ms[i].ids) : ms[j].ids = <<ms[i].ids[k]>>
    BY DEF Paired, Belongs, A, T
  <2>2. /\ i < j /\ SameTurn(ns, i, j)
        /\ \E k \in 1 .. Len(ns[i].ids) : ns[j].ids = <<ns[i].ids[k]>>
    BY <1>5, <1>7, <2>1
  <2>. QED
    BY <1>2, <2>2 DEF Belongs
<1>10. \A n \in 1 .. Len(ids) : \A j \in T : ns[j].ids # <<ids[n]>>
  <2> SUFFICES ASSUME NEW n \in 1 .. Len(ids), NEW j \in T, ns[j].ids = <<ids[n]>>
               PROVE  FALSE
    OBVIOUS
  <2>0. PICK i \in A : \E k \in 1 .. Len(ms[i].ids) : ms[j].ids = <<ms[i].ids[k]>>
    BY DEF Paired, Belongs, A, T
  <2>1. PICK k \in 1 .. Len(ms[i].ids) : ms[j].ids = <<ms[i].ids[k]>>
    BY <2>0
  <2>2. ms[i].ids[k] \in (1 .. t - 1) \X Nat
    BY DEF IdsUpTo, A
  <2>3. ms[i].ids[k] = ids[n]
    BY <1>5, <2>1
  <2>4. ids[n] \in {t} \X Nat
    OBVIOUS
  <2>. QED
    BY <2>2, <2>3, <2>4
<1>11. \A i \in A \cup {p} : \A k \in 1 .. Len(ns[i].ids) :
         \/ Answered(ns, i, k)
         \/ LastReply(ns, i) /\ \E n \in 1 .. Len(ids) : ids[n] = ns[i].ids[k]
  <2>1. ASSUME NEW i \in A, NEW k \in 1 .. Len(ns[i].ids) PROVE Answered(ns, i, k)
    <3>1. Answered(ms, i, k)
      <4>1. k \in 1 .. Len(ms[i].ids) /\ Len(<<>>) = 0
        BY <1>5
      <4>. QED
        BY <4>1 DEF Paired, A
    <3>. QED
      BY <1>8, <3>1
  <2>2. ASSUME NEW k \in 1 .. Len(ns[p].ids)
        PROVE  LastReply(ns, p) /\ \E n \in 1 .. Len(ids) : ids[n] = ns[p].ids[k]
    BY <1>1, <1>6
  <2>. QED
    BY <2>1, <2>2
<1>12. \E r \in A \cup {p} : /\ LastReply(ns, r)
                             /\ \A n \in 1 .. Len(ids) :
                                  \E k \in 1 .. Len(ns[r].ids) : ids[n] = ns[r].ids[k]
  BY <1>1, <1>6
<1>13. Paired(ns, ids)
  <2>1. \A i, n \in 1 .. Len(ids) : ids[i] = ids[n] => i = n
    OBVIOUS
  <2>2. \A i \in Positions(ns, "assistant") : \A k \in 1 .. Len(ns[i].ids) :
          \/ Answered(ns, i, k)
          \/ LastReply(ns, i) /\ \E n \in 1 .. Len(ids) : ids[n] = ns[i].ids[k]
    BY <1>2, <1>11
  <2>3. /\ \A j \in Positions(ns, "tool") : Belongs(ns, j)
        /\ \A n \in 1 .. Len(ids) : \A j \in Positions(ns, "tool") : ns[j].ids # <<ids[n]>>
    BY <1>3, <1>9, <1>10
  <2>4. \E r \in Positions(ns, "assistant") :
          /\ LastReply(ns, r)
          /\ \A n \in 1 .. Len(ids) : \E k \in 1 .. Len(ns[r].ids) : ids[n] = ns[r].ids[k]
    BY <1>2, <1>12
  <2>. QED
    BY <2>1, <2>2, <2>3, <2>4, Zenon DEF Paired
<1>14. IdsUpTo(ns, t)
  <2>1. ASSUME NEW i \in A, NEW k \in 1 .. Len(ns[i].ids) PROVE ns[i].ids[k] \in (1 .. t) \X Nat
    <3>1. ms[i].ids[k] \in (1 .. t - 1) \X Nat
      BY <1>5 DEF IdsUpTo, A
    <3>2. 1 .. t - 1 \subseteq 1 .. t
      OBVIOUS
    <3>3. ns[i].ids[k] = ms[i].ids[k]
      BY <1>5
    <3>. QED
      BY <3>1, <3>2, <3>3
  <2>2. \A k \in 1 .. Len(ids) : ids[k] \in (1 .. t) \X Nat
    OBVIOUS
  <2>. QED
    BY <1>1, <1>2, <2>1, <2>2 DEF IdsUpTo
<1>15. Closed(ns, TRUE) = ToolTurns(ms)
  BY <1>2, <1>5, <1>6 DEF Closed, ToolTurns, A
<1>16. \A i : (\A j \in T : i < j /\ SameTurn(ns, i, j) => ns[j].what # "ok")
              <=> (\A j \in T : i < j /\ SameTurn(ms, i, j) => ms[j].what # "ok")
  BY <1>5, <1>7
<1>17. \A i : AllFailed(ns, i) <=> AllFailed(ms, i)
  BY <1>3, <1>16 DEF AllFailed, T
<1>18. AllFailed(ns, p)
  BY <1>1, <1>3, <1>5 DEF AllFailed
<1>. QED
  BY <1>1, <1>6, <1>13, <1>14, <1>15, <1>17, <1>18 DEF m, ns

\* The result of the first call that wants an answer.
LEMMA ToolAppended ==
  ASSUME NEW ms \in Seq(Messages), NEW c \in Seq(CallIds), c # <<>>, NEW outcome \in Outcomes,
         Paired(ms, c)
  PROVE  LET ns == Append(ms, ToolResult(Head(c), outcome)) IN
         /\ ns \in Seq(Messages)
         /\ Paired(ns, Tail(c))
         /\ \A t : IdsUpTo(ms, t) => IdsUpTo(ns, t)
         /\ ToolTurns(ns) = ToolTurns(ms)
         /\ \A i : LastReply(ns, i) <=> LastReply(ms, i)
         /\ \A i \in ToolTurns(ms) : ~LastReply(ms, i) => (AllFailed(ns, i) <=> AllFailed(ms, i))
         /\ \A r : LastReply(ms, r) =>
              (AllFailed(ns, r) <=> AllFailed(ms, r) /\ outcome # "ok")
<1> DEFINE m == ToolResult(Head(c), outcome)
           ns == Append(ms, m)
           p  == Len(ms) + 1
           A  == Positions(ms, "assistant")
           T  == Positions(ms, "tool")
<1>0. /\ m \in Messages /\ m.kind = "tool" /\ m.ids = <<Head(c)>> /\ m.what = outcome
      /\ Len(c) \in Nat /\ Len(c) >= 1 /\ Head(c) = c[1] /\ Len(Tail(c)) = Len(c) - 1
      /\ \A n \in 1 .. Len(Tail(c)) : Tail(c)[n] = c[n + 1]
  BY NewMessages DEF ToolResult, Message
<1>1. /\ ns \in Seq(Messages) /\ Len(ns) = p /\ ns[p] = m
      /\ Len(ms) \in Nat /\ p \in Nat
      /\ \A i \in 1 .. Len(ms) : ns[i] = ms[i]
  BY <1>0, Appended
<1> HIDE DEF m
<1>2. Positions(ns, "assistant") = A
  BY <1>0, PositionsAppended
<1>3. Positions(ns, "tool") = T \cup {p}
  BY <1>0, PositionsAppended
<1>4. A \subseteq 1 .. Len(ms) /\ T \subseteq 1 .. Len(ms)
  BY PositionsType
<1> HIDE DEF ns, A, T
<1>5. p \notin T /\ \A i \in A \cup T : i \in Nat /\ i < p /\ ns[i] = ms[i]
  BY <1>1, <1>4
<1> HIDE DEF p
<1>6. \A i : LastReply(ns, i) <=> LastReply(ms, i)
  BY <1>2 DEF LastReply, A
<1>7. \A i, j : SameTurn(ns, i, j) <=> SameTurn(ms, i, j)
  BY <1>2 DEF SameTurn, A
<1>8. \A i : LastReply(ms, i) => i \in A /\ SameTurn(ms, i, p)
  BY <1>1, <1>5 DEF LastReply, SameTurn, A
<1>9. \A i \in A : ~LastReply(ms, i) => ~SameTurn(ms, i, p)
  BY <1>1, <1>5 DEF LastReply, SameTurn, A
<1>10. \A j \in T : ns[j].ids # <<Head(c)>>
  BY <1>0, <1>5 DEF Paired, T
<1>11. \A i \in A : \A k : Answered(ms, i, k) => Answered(ns, i, k)
  <2> SUFFICES ASSUME NEW i \in A, NEW k, Answered(ms, i, k) PROVE Answered(ns, i, k)
    OBVIOUS
  <2>1. PICK j \in T : /\ i < j /\ SameTurn(ms, i, j)
                       /\ ms[j].ids = <<ms[i].ids[k]>>
                       /\ \A l \in T : ms[l].ids = ms[j].ids => l = j
    BY DEF Answered, T
  <2>2. /\ i < j /\ SameTurn(ns, i, j)
        /\ ns[j].ids = <<ns[i].ids[k]>>
        /\ \A l \in T : ns[l].ids = ns[j].ids => l = j
    BY <1>5, <1>7, <2>1
  <2>3. ns[p].ids # ns[j].ids
    BY <1>0, <1>1, <1>10
  <2>4. \A l \in T \cup {p} : ns[l].ids = ns[j].ids => l = j
    BY <2>2, <2>3
  <2>. QED
    BY <1>3, <2>2, <2>4 DEF Answered
<1>12. \A i \in A : \A k \in 1 .. Len(ms[i].ids) :
         LastReply(ms, i) /\ ms[i].ids[k] = Head(c) => Answered(ns, i, k)
  <2> SUFFICES ASSUME NEW i \in A, NEW k \in 1 .. Len(ms[i].ids), LastReply(ms, i),
                      ms[i].ids[k] = Head(c)
               PROVE  Answered(ns, i, k)
    OBVIOUS
  <2>1. /\ i < p /\ SameTurn(ns, i, p)
        /\ ns[p].ids = <<ns[i].ids[k]>>
    BY <1>0, <1>1, <1>5, <1>7, <1>8
  <2>2. \A l \in T \cup {p} : ns[l].ids = ns[p].ids => l = p
    BY <1>0, <1>1, <1>10
  <2>. QED
    BY <1>3, <2>1, <2>2 DEF Answered
<1>13. PICK r \in A : /\ LastReply(ms, r)
                      /\ \A n \in 1 .. Len(c) :
                           \E k \in 1 .. Len(ms[r].ids) : c[n] = ms[r].ids[k]
  BY DEF Paired, A
<1>14. \A j \in T \cup {p} : Belongs(ns, j)
  <2>1. ASSUME NEW j \in T PROVE Belongs(ns, j)
    <3>1. PICK i \in A : /\ i < j /\ SameTurn(ms, i, j)
                         /\ \E k \in 1 .. Len(ms[i].ids) : ms[j].ids = <<ms[i].ids[k]>>
      BY DEF Paired, Belongs, A, T
    <3>2. /\ i < j /\ SameTurn(ns, i, j)
          /\ \E k \in 1 .. Len(ns[i].ids) : ns[j].ids = <<ns[i].ids[k]>>
      BY <1>5, <1>7, <3>1
    <3>. QED
      BY <1>2, <3>2 DEF Belongs
  <2>2. Belongs(ns, p)
    <3>1. \E k \in 1 .. Len(ns[r].ids) : ns[p].ids = <<ns[r].ids[k]>>
      <4>1. 1 \in 1 .. Len(c) /\ ns[p].ids = <<c[1]>>
        BY <1>0, <1>1
      <4>2. PICK k \in 1 .. Len(ms[r].ids) : c[1] = ms[r].ids[k]
        BY <1>13, <4>1
      <4>3. ns[r] = ms[r]
        BY <1>5, <1>13
      <4>. QED
        BY <4>1, <4>2, <4>3
    <3>2. r < p /\ SameTurn(ns, r, p)
      BY <1>5, <1>7, <1>8, <1>13
    <3>. QED
      BY <1>2, <3>1, <3>2 DEF Belongs
  <2>. QED
    BY <2>1, <2>2
<1>15. Paired(ns, Tail(c))
  <2> DEFINE d == Tail(c)
  <2>1. \A n \in 1 .. Len(d) : n + 1 \in 1 .. Len(c) /\ d[n] = c[n + 1]
    BY <1>0
  <2>2. \A k, n \in 1 .. Len(c) : c[k] = c[n] => k = n
    BY DEF Paired
  <2>3. \A n \in 2 .. Len(c) : n - 1 \in 1 .. Len(d) /\ c[n] = d[n - 1]
    BY <1>0
  <2> HIDE DEF d
  <2>4. \A k, n \in 1 .. Len(d) : d[k] = d[n] => k = n
    BY <2>1, <2>2
  <2>5. \A n \in 1 .. Len(d) : \A j \in T \cup {p} : ns[j].ids # <<d[n]>>
    <3> SUFFICES ASSUME NEW n \in 1 .. Len(d) PROVE \A j \in T \cup {p} : ns[j].ids # <<d[n]>>
      OBVIOUS
    <3>0. n + 1 \in 1 .. Len(c) /\ d[n] = c[n + 1]
      BY <2>1
    <3>1. \A j \in T : ns[j].ids # <<d[n]>>
      <4>1. \A j \in T : ms[j].ids # <<c[n + 1]>>
        BY <3>0, Zenon DEF Paired, T
      <4>. QED
        BY <1>5, <3>0, <4>1
    <3>2. c[1] # d[n]
      <4>1. n + 1 \in 1 .. Len(c) /\ n + 1 # 1 /\ 1 \in 1 .. Len(c)
        BY <1>0, <2>1
      <4>. QED
        BY <2>1, <2>2, <4>1
    <3>. QED
      BY <1>0, <1>1, <3>1, <3>2
  <2>6. ASSUME NEW i \in A, NEW k \in 1 .. Len(ns[i].ids)
        PROVE  \/ Answered(ns, i, k)
               \/ LastReply(ns, i) /\ \E n \in 1 .. Len(d) : d[n] = ns[i].ids[k]
    <3>1. k \in 1 .. Len(ms[i].ids) /\ ns[i] = ms[i]
      BY <1>5
    <3>2. CASE Answered(ms, i, k)
      BY <1>11, <3>2
    <3>3. CASE LastReply(ms, i) /\ \E n \in 1 .. Len(c) : c[n] = ms[i].ids[k]
      <4>1. PICK n \in 1 .. Len(c) : c[n] = ms[i].ids[k]
        BY <3>3
      <4>2. CASE n = 1
        BY <1>0, <1>12, <3>1, <3>3, <4>1, <4>2
      <4>3. CASE n # 1
        <5>1. n \in 2 .. Len(c)
          BY <1>0, <4>3
        <5>. QED
          BY <1>6, <2>3, <3>1, <3>3, <4>1, <5>1
      <4>. QED
        BY <4>2, <4>3
    <3>. QED
      BY <3>1, <3>2, <3>3 DEF Paired, A
  <2>7. LastReply(ns, r) /\ \A n \in 1 .. Len(d) : \E k \in 1 .. Len(ns[r].ids) : d[n] = ns[r].ids[k]
    <3>1. ns[r] = ms[r] /\ LastReply(ns, r)
      BY <1>5, <1>6, <1>13
    <3>2. ASSUME NEW n \in 1 .. Len(d) PROVE \E k \in 1 .. Len(ms[r].ids) : d[n] = ms[r].ids[k]
      <4>1. n + 1 \in 1 .. Len(c) /\ d[n] = c[n + 1]
        BY <2>1
      <4>. QED
        BY <1>13, <4>1
    <3>. QED
      BY <3>1, <3>2
  <2>8. \A i \in Positions(ns, "assistant") : \A k \in 1 .. Len(ns[i].ids) :
          \/ Answered(ns, i, k)
          \/ LastReply(ns, i) /\ \E n \in 1 .. Len(d) : d[n] = ns[i].ids[k]
    BY <1>2, <2>6
  <2>9. /\ \A j \in Positions(ns, "tool") : Belongs(ns, j)
        /\ \A n \in 1 .. Len(d) : \A j \in Positions(ns, "tool") : ns[j].ids # <<d[n]>>
    BY <1>3, <1>14, <2>5
  <2>10. \E i \in Positions(ns, "assistant") :
          /\ LastReply(ns, i)
          /\ \A n \in 1 .. Len(d) : \E k \in 1 .. Len(ns[i].ids) : d[n] = ns[i].ids[k]
    BY <1>2, <2>7
  <2>11. Paired(ns, d)
    BY <2>4, <2>8, <2>9, <2>10, Zenon DEF Paired
  <2>. QED
    BY <2>11 DEF d
<1>16. \A t : IdsUpTo(ms, t) => IdsUpTo(ns, t)
  BY <1>2, <1>5 DEF IdsUpTo, A
<1>17. ToolTurns(ns) = ToolTurns(ms) /\ ToolTurns(ms) \subseteq A
  BY <1>2, <1>5 DEF ToolTurns, A
<1>18. \A i : (\A j \in T : i < j /\ SameTurn(ns, i, j) => ns[j].what # "ok")
              <=> (\A j \in T : i < j /\ SameTurn(ms, i, j) => ms[j].what # "ok")
  BY <1>5, <1>7
<1>19. \A i \in A : AllFailed(ns, i) <=> AllFailed(ms, i) /\ (SameTurn(ms, i, p) => outcome # "ok")
  BY <1>0, <1>1, <1>3, <1>5, <1>7, <1>18 DEF AllFailed, T
<1>20. /\ \A i \in ToolTurns(ms) : ~LastReply(ms, i) => (AllFailed(ns, i) <=> AllFailed(ms, i))
       /\ \A i : LastReply(ms, i) => (AllFailed(ns, i) <=> AllFailed(ms, i) /\ outcome # "ok")
  BY <1>8, <1>9, <1>17, <1>19
<1>. QED
  BY <1>1, <1>6, <1>15, <1>16, <1>17, <1>20 DEF m, ns

-----------------------------------------------------------------------------
(* Counting the turns that failed.                                          *)

LEMMA ToolTurnsAreFinite ==
  ASSUME NEW ms \in Seq(Messages)
  PROVE  /\ IsFiniteSet(ToolTurns(ms)) /\ ToolTurns(ms) \subseteq 1 .. Len(ms)
         /\ Len(ms) \in Nat /\ \A i \in ToolTurns(ms) : i \in Nat /\ i >= 1
<1>1. ToolTurns(ms) \subseteq 1 .. Len(ms) /\ IsFiniteSet(1 .. Len(ms))
  <2>1. Len(ms) \in Nat /\ Positions(ms, "assistant") \subseteq 1 .. Len(ms)
        /\ ToolTurns(ms) \subseteq Positions(ms, "assistant")
    BY PositionsType
  <2>2. IsFiniteSet(1 .. Len(ms))
    BY <2>1, FS_Interval
  <2>. QED
    BY <2>1, <2>2
<1>2. Len(ms) \in Nat /\ IsFiniteSet(ToolTurns(ms))
  BY <1>1, FS_Subset
<1>. QED
  BY <1>1, <1>2

LEMMA ClosedIsFinite ==
  ASSUME NEW ms \in Seq(Messages), NEW open, NEW b
  PROVE  /\ IsFiniteSet({i \in Closed(ms, open) : i > b})
         /\ Closed(ms, open) \subseteq ToolTurns(ms)
<1>3. Closed(ms, open) \subseteq ToolTurns(ms)
  BY DEF Closed
<1>4. {i \in Closed(ms, open) : i > b} \in SUBSET ToolTurns(ms)
  BY <1>3
<1>. QED
  BY <1>3, <1>4, ToolTurnsAreFinite, FS_Subset

\* The turn is over: it adds to the count, or starts it anew.
LEMMA TurnCounted ==
  ASSUME NEW ms \in Seq(Messages), NEW n \in Nat, NEW r \in ToolTurns(ms),
         LastReply(ms, r), Counted(ms, TRUE, n)
  PROVE  Counted(ms, FALSE, IF AllFailed(ms, r) THEN n + 1 ELSE 0)
<1> DEFINE C == Closed(ms, TRUE)
           D == Closed(ms, FALSE)
<1>1. D = C \cup {r} /\ \A i \in C : i < r
  BY PositionsType DEF Closed, LastReply, ToolTurns
<1>2. r \in 1 .. Len(ms) /\ Len(ms) \in Nat
      /\ r \in Nat /\ r >= 1 /\ \A i \in C : i \in Nat
  BY ToolTurnsAreFinite DEF Closed
<1>3. CASE AllFailed(ms, r)
  <2>1. PICK b \in 0 .. Len(ms) : /\ b # 0 => b \in C /\ ~AllFailed(ms, b)
                                  /\ \A i \in C : i > b => AllFailed(ms, i)
                                  /\ Cardinality({i \in C : i > b}) = n
    BY DEF Counted
  <2> HIDE DEF C, D
  <2>2. b < r
    BY <1>1, <1>2, <2>1
  <2>3. {i \in D : i > b} = {i \in C : i > b} \cup {r} /\ r \notin {i \in C : i > b}
    BY <1>1, <1>2, <2>2
  <2>4. IsFiniteSet({i \in C : i > b})
    BY ClosedIsFinite DEF C
  <2>5. Cardinality({i \in D : i > b}) = n + 1
    BY <2>1, <2>3, <2>4, FS_AddElement
  <2>6. b # 0 => b \in D /\ ~AllFailed(ms, b)
    BY <1>1, <2>1
  <2>7. \A i \in D : i > b => AllFailed(ms, i)
    BY <1>1, <1>3, <2>1
  <2>8. Counted(ms, FALSE, n + 1)
    BY <2>5, <2>6, <2>7 DEF Counted, D
  <2>. QED
    BY <1>3, <2>8
<1>4. CASE ~AllFailed(ms, r)
  <2> HIDE DEF C, D
  <2>1. {i \in D : i > r} = {} /\ r # 0 /\ r \in D
    BY <1>1, <1>2
  <2>2. Cardinality({i \in D : i > r}) = 0
    BY <2>1, FS_EmptySet
  <2>3. \A i \in D : i > r => AllFailed(ms, i)
    BY <2>1
  <2>4. Counted(ms, FALSE, 0)
    <3>1. r \in 0 .. Len(ms)
      BY <1>2
    <3>. QED
      BY <1>4, <2>1, <2>2, <2>3, <3>1 DEF Counted, D
  <2>. QED
    BY <1>4, <2>4
<1>. QED
  BY <1>3, <1>4

\* With every turn over, the count tells whether the last three failed.
LEMMA CountTellsFailures ==
  ASSUME NEW ms \in Seq(Messages), NEW n \in Nat, Counted(ms, FALSE, n)
  PROVE  /\ n < CircuitBreaker => ~ThreeFailed(ms)
         /\ n = CircuitBreaker => ThreeFailed(ms)
<1> DEFINE C == ToolTurns(ms)
<1>1. Closed(ms, FALSE) = C
  BY DEF Closed
<1>2. PICK b \in 0 .. Len(ms) : /\ b # 0 => b \in C /\ ~AllFailed(ms, b)
                                /\ \A i \in C : i > b => AllFailed(ms, i)
                                /\ Cardinality({i \in C : i > b}) = n
  BY <1>1 DEF Counted
<1>3. IsFiniteSet(C) /\ Len(ms) \in Nat /\ b \in Nat /\ (\A i \in C : i \in Nat /\ i >= 1)
      /\ IsFiniteSet({i \in C : i > b})
  <2>1. IsFiniteSet({i \in Closed(ms, FALSE) : i > b})
    BY ClosedIsFinite
  <2>2. IsFiniteSet(C) /\ Len(ms) \in Nat /\ \A i \in C : i \in Nat /\ i >= 1
    BY ToolTurnsAreFinite
  <2>3. IsFiniteSet({i \in C : i > b})
    BY <1>1, <2>1, Zenon
  <2> HIDE DEF C
  <2>. QED
    BY <2>2, <2>3
<1> HIDE DEF C
<1>4. ASSUME n < CircuitBreaker, ThreeFailed(ms) PROVE FALSE
  <2>1. Cardinality(C) >= CircuitBreaker /\ \A i \in LastToolTurns(ms) : AllFailed(ms, i)
    BY <1>4 DEF ThreeFailed, C
  <2>2. CASE b = 0
    <3>1. {i \in C : i > b} = C
      BY <1>3, <2>2
    <3>2. Cardinality(C) = n
      BY <1>2, <3>1
    <3>. QED
      BY <1>4, <2>1, <3>2 DEF CircuitBreaker
  <2>3. CASE b # 0
    <3>1. {j \in C : j >= b} = {i \in C : i > b} \cup {b} /\ b \notin {i \in C : i > b}
      BY <1>2, <1>3, <2>3
    <3>2. Cardinality({j \in C : j >= b}) = n + 1
      BY <1>2, <1>3, <3>1, FS_AddElement
    <3>3. b \in LastToolTurns(ms)
      BY <1>2, <1>4, <2>3, <3>2 DEF LastToolTurns, C, CircuitBreaker
    <3>. QED
      BY <1>2, <2>1, <2>3, <3>3
  <2>. QED
    BY <2>2, <2>3
<1>5. ASSUME n = CircuitBreaker PROVE ThreeFailed(ms)
  <2>1. {i \in C : i > b} \in SUBSET C
    OBVIOUS
  <2>2. Cardinality(C) >= CircuitBreaker
    <3>1. Cardinality({i \in C : i > b}) <= Cardinality(C)
      BY <1>3, <2>1, FS_Subset
    <3>2. Cardinality(C) \in Nat
      BY <1>3, FS_CardinalityType
    <3>. QED
      BY <1>2, <1>5, <3>1, <3>2 DEF CircuitBreaker
  <2>3. ASSUME NEW i \in LastToolTurns(ms) PROVE AllFailed(ms, i)
    <3>1. i \in C /\ i \in Nat /\ Cardinality({j \in C : j >= i}) <= CircuitBreaker
      BY <1>3 DEF LastToolTurns, C
    <3>2. CASE i > b
      BY <1>2, <3>1, <3>2
    <3>3. CASE ~(i > b)
      <4> DEFINE S == {j \in C : j > b} \cup {i}
      <4>1. Cardinality(S) = n + 1 /\ IsFiniteSet(S)
        BY <1>2, <1>3, <3>3, FS_AddElement
      <4>2. S \in SUBSET {j \in C : j >= i}
        <5>1. \A j \in C : j > b => j >= i
          BY <1>3, <3>1, <3>3
        <5>2. i >= i
          BY <3>1
        <5>. QED
          BY <3>1, <5>1, <5>2
      <4>3. IsFiniteSet({j \in C : j >= i})
        <5>1. {j \in C : j >= i} \in SUBSET C
          OBVIOUS
        <5>. QED
          BY <1>3, <5>1, FS_Subset
      <4> HIDE DEF S
      <4>4. Cardinality(S) <= Cardinality({j \in C : j >= i})
            /\ Cardinality({j \in C : j >= i}) \in Nat
        BY <4>2, <4>3, FS_Subset, FS_CardinalityType
      <4>. QED
        BY <1>5, <3>1, <4>1, <4>4 DEF CircuitBreaker
    <3>. QED
      BY <3>2, <3>3
  <2>. QED
    BY <2>2, <2>3 DEF ThreeFailed, C
<1>. QED
  BY <1>4, <1>5

\* The count depends on the turns that are over and on how they ended.
LEMMA CountedAgain ==
  ASSUME NEW ms \in Seq(Messages), NEW ns \in Seq(Messages), Len(ms) <= Len(ns),
         NEW open, NEW more, NEW n,
         Closed(ns, more) = Closed(ms, open),
         \A i \in Closed(ms, open) : AllFailed(ns, i) <=> AllFailed(ms, i),
         Counted(ms, open, n)
  PROVE  Counted(ns, more, n)
<1> DEFINE C == Closed(ms, open)
<1>1. PICK b \in 0 .. Len(ms) : /\ b # 0 => b \in C /\ ~AllFailed(ms, b)
                                /\ \A i \in C : i > b => AllFailed(ms, i)
                                /\ Cardinality({i \in C : i > b}) = n
  BY DEF Counted
<1>2. b \in 0 .. Len(ns)
  OBVIOUS
<1> HIDE DEF C
<1>3. Closed(ns, more) = C /\ \A i \in C : AllFailed(ns, i) <=> AllFailed(ms, i)
  BY DEF C
<1>4. /\ b # 0 => b \in Closed(ns, more) /\ ~AllFailed(ns, b)
      /\ \A i \in Closed(ns, more) : i > b => AllFailed(ns, i)
      /\ Cardinality({i \in Closed(ns, more) : i > b}) = n
  BY <1>1, <1>3
<1>. QED
  BY <1>2, <1>4 DEF Counted

-----------------------------------------------------------------------------
(* The conversation, step by step.                                          *)

LEMMA LastIsReply ==
  ASSUME NEW ms \in Seq(Messages), ms # <<>>, LastOf(ms).kind = "assistant"
  PROVE  /\ LastOf(ms) = ms[Len(ms)] /\ Len(ms) \in Nat /\ Len(ms) >= 1
         /\ LastReply(ms, Len(ms))
         /\ \A r : LastReply(ms, r) => r = Len(ms)
         /\ AllFailed(ms, Len(ms))
<1>1. Len(ms) \in Nat /\ Len(ms) >= 1 /\ LastOf(ms) = ms[Len(ms)]
  BY DEF LastOf
<1>2. Len(ms) \in Positions(ms, "assistant")
  BY <1>1 DEF Positions
<1>3. \A kind : \A i \in Positions(ms, kind) : i \in Nat /\ i <= Len(ms)
  BY <1>1 DEF Positions
<1>4. LastReply(ms, Len(ms))
  BY <1>2, <1>3 DEF LastReply
<1>5. ASSUME NEW r, LastReply(ms, r) PROVE r = Len(ms)
  BY <1>1, <1>2, <1>3, <1>5 DEF LastReply
<1>6. AllFailed(ms, Len(ms))
  BY <1>1, <1>3 DEF AllFailed
<1>. QED
  BY <1>1, <1>4, <1>5, <1>6

LEMMA LastReplyIsOne ==
  ASSUME NEW ms \in Seq(Messages), NEW r, NEW s, LastReply(ms, r), LastReply(ms, s)
  PROVE  r = s /\ r \in 1 .. Len(ms)
<1>1. r \in 1 .. Len(ms) /\ s \in 1 .. Len(ms)
  BY DEF LastReply, Positions
<1>. QED
  BY <1>1 DEF LastReply

\* What the conversation says when the loop acts on the reply at its end.
ReplyReady(ms) ==
  /\ ms # <<>> /\ LastOf(ms).kind = "assistant"
  /\ Paired(ms, LastOf(ms).ids) /\ IdsUpTo(ms, turn)
  /\ Counted(ms, TRUE, invalidTurns)

LEMMA ActKeeps ==
  ASSUME TypeInv, NEW ms \in Seq(Messages), ReplyReady(ms), Act(ms),
         turn' = turn, invalidTurns' = invalidTurns
  PROVE  ConversationInv'
<1> DEFINE reply == LastOf(ms)
<1>1. reply = ms[Len(ms)] /\ \A r : LastReply(ms, r) => r = Len(ms) /\ AllFailed(ms, r)
  BY LastIsReply DEF ReplyReady
<1>2. Paired(ms, reply.ids) /\ IdsUpTo(ms, turn) /\ Counted(ms, TRUE, invalidTurns)
  BY DEF ReplyReady
<1> HIDE DEF reply
<1>3. ASSUME reply.ids = <<>> PROVE Counted(ms, FALSE, invalidTurns)
  <2>1. \A i \in ToolTurns(ms) : ~LastReply(ms, i)
    BY <1>1, <1>3 DEF ToolTurns
  <2>2. Closed(ms, FALSE) = Closed(ms, TRUE)
    BY <2>1 DEF Closed
  <2>3. Len(ms) <= Len(ms)
    OBVIOUS
  <2>. QED
    BY <1>2, <2>2, <2>3, CountedAgain
<1>4. CASE pc' = "raised"
  BY <1>4 DEF ConversationInv, Uncut
<1>5. CASE /\ reply.ids = <<>> /\ NeedsReminder(reply)
           /\ pc' = "head" /\ msgs' = Append(ms, Reminder)
           /\ UNCHANGED <<calls, allInvalid, result>>
  <2> DEFINE ns == Append(ms, Reminder)
  <2>1. Reminder \in Messages /\ Reminder.kind \notin {"assistant", "tool"}
    BY NewMessages DEF Reminder, Message
  <2>2. ns \in Seq(Messages) /\ Len(ms) <= Len(ns)
    BY <2>1, Appended
  <2>3. /\ Paired(ns, <<>>) /\ IdsUpTo(ns, turn)
        /\ Closed(ns, FALSE) = Closed(ms, FALSE)
        /\ \A i : AllFailed(ns, i) <=> AllFailed(ms, i)
    BY <1>2, <1>5, <2>1, NeutralAppended DEF Closed
  <2> HIDE DEF ns
  <2>4. Counted(ns, FALSE, invalidTurns)
    BY <1>3, <1>5, <2>2, <2>3, CountedAgain
  <2>5. turn # Cap
    BY <1>5, Limits DEF NeedsReminder, TypeInv, TypeOK
  <2>6. Pending' = <<>> /\ LastTurn' = turn /\ ReplyIsOpen' = FALSE
    BY <1>5 DEF Pending, ReplyIsOpen, LastTurn
  <2>7. msgs' = ns
    BY <1>5 DEF ns
  <2>8. CallsPaired' /\ FailuresCounted'
    BY <1>5, <2>3, <2>4, <2>6, <2>7 DEF CallsPaired, FailuresCounted
  <2>. QED
    BY <1>5, <2>5, <2>8 DEF ConversationInv, LimitCutsCalls, ReplyIsLast
<1>6. CASE reply.ids = <<>> /\ Return("completed", turn) /\ msgs' = ms
  <2>1. Pending' = <<>> /\ LastTurn' = turn /\ ReplyIsOpen' = FALSE
        /\ pc' = "returned" /\ result'.reason = "completed"
    BY <1>6 DEF Return, Pending, ReplyIsOpen, LastTurn
  <2>2. CallsPaired' /\ FailuresCounted'
    BY <1>2, <1>3, <1>6, <2>1 DEF CallsPaired, FailuresCounted
  <2>. QED
    BY <2>1, <2>2 DEF ConversationInv, LimitCutsCalls, ReplyIsLast
<1>7. CASE pc' = "tools" /\ msgs' = ms /\ calls' = reply.ids /\ allInvalid' = TRUE
  <2>1. Pending' = reply.ids /\ LastTurn' = turn /\ ReplyIsOpen' = TRUE
    BY <1>7 DEF Pending, ReplyIsOpen, LastTurn
  <2>2. CallsPaired'
    BY <1>2, <1>7, <2>1 DEF CallsPaired
  <2>3. FailuresCounted'
    BY <1>1, <1>2, <1>7, <2>1 DEF FailuresCounted
  <2>. QED
    BY <1>7, <2>2, <2>3 DEF ConversationInv, LimitCutsCalls, ReplyIsLast
<1>. QED
  BY <1>4, <1>5, <1>6, <1>7 DEF Act, reply

LEMMA StreamAnswersKeeps ==
  ASSUME TypeInv, ConversationInv, StreamAnswers
  PROVE  ConversationInv'
<1>1. callCount' = callCount /\ pc = "streaming" /\ turn' = turn /\ invalidTurns' = invalidTurns
  BY DEF StreamAnswers, kept
<1>2. CASE callCount # 0
  BY <1>1, <1>2 DEF ConversationInv, Uncut
<1>3. CASE callCount = 0
  <2>1. PICK n \in 0 .. MaxCalls, text \in Texts :
          LET ms == Append(msgs, Reply(CallsOf(n), text)) IN
            \/ Act(ms)
            \/ /\ pc' = "compacting_post"
               /\ msgs' = ms
               /\ UNCHANGED <<calls, allInvalid, result, checkpoint>>
    BY DEF StreamAnswers, CallsOf
  <2> DEFINE m  == Reply(CallsOf(n), text)
             ms == Append(msgs, m)
  <2>2. turn \in Nat \ {0} /\ msgs \in Seq(Messages)
    BY <1>1 DEF TypeInv, TypeOK, TurnBegun
  <2>3. /\ CallsOf(n) \in Seq(CallIds)
        /\ \A k \in 1 .. Len(CallsOf(n)) : CallsOf(n)[k] \in {turn} \X Nat
        /\ \A i, k \in 1 .. Len(CallsOf(n)) : CallsOf(n)[i] = CallsOf(n)[k] => i = k
    <3>1. CallsOf(n) \in Seq(CallIds) /\ Len(CallsOf(n)) = n
      BY CallsOfType DEF TypeInv
    <3>2. \A k \in 1 .. n : CallsOf(n)[k] = <<turn, k>> /\ k \in Nat
      BY Limits DEF CallsOf
    <3>3. \A k \in 1 .. n : CallsOf(n)[k] \in {turn} \X Nat
      BY <3>2
    <3>4. \A i, k \in 1 .. n : CallsOf(n)[i] = CallsOf(n)[k] => i = k
      BY <3>2
    <3>. QED
      BY <3>1, <3>3, <3>4
  <2>4. Paired(msgs, <<>>) /\ IdsUpTo(msgs, turn - 1) /\ Counted(msgs, FALSE, invalidTurns)
    <3>1. Pending = <<>> /\ LastTurn = turn - 1 /\ ReplyIsOpen = FALSE
      BY <1>1 DEF Pending, LastTurn, ReplyIsOpen
    <3>. QED
      BY <1>1, <1>3, <3>1
      DEF ConversationInv, Uncut, CallsPaired, FailuresCounted
  <2>5. m \in Messages /\ m.kind = "assistant" /\ m.ids = CallsOf(n)
    BY <2>3, NewMessages DEF Reply, Message
  <2>6. /\ ms \in Seq(Messages) /\ LastOf(ms) = m
        /\ Paired(ms, CallsOf(n)) /\ IdsUpTo(ms, turn)
        /\ Closed(ms, TRUE) = ToolTurns(msgs)
        /\ \A i \in ToolTurns(msgs) : AllFailed(ms, i) <=> AllFailed(msgs, i)
    <3> DEFINE ids == CallsOf(n)
    <3>1. /\ ids \in Seq(CallIds)
          /\ \A k \in 1 .. Len(ids) : ids[k] \in {turn} \X Nat
          /\ \A i, k \in 1 .. Len(ids) : ids[i] = ids[k] => i = k
      BY <2>3
    <3> HIDE DEF ids
    <3> DEFINE ns == Append(msgs, Reply(ids, text))
    <3>2. /\ ns \in Seq(Messages) /\ LastOf(ns) = Reply(ids, text)
          /\ Paired(ns, ids) /\ IdsUpTo(ns, turn)
          /\ Closed(ns, TRUE) = ToolTurns(msgs)
          /\ \A i \in ToolTurns(msgs) : AllFailed(ns, i) <=> AllFailed(msgs, i)
      <4>1. turn \in Nat \ {0}
        BY <2>2
      <4>2. msgs \in Seq(Messages)
        BY <2>2
      <4>3. Paired(msgs, <<>>) /\ IdsUpTo(msgs, turn - 1)
        BY <2>4
      <4>4. Paired(ns, ids) /\ IdsUpTo(ns, turn)
        BY <3>1, <4>1, <4>2, <4>3, ReplyAppended
      <4>5. ns \in Seq(Messages) /\ LastOf(ns) = Reply(ids, text)
        BY <2>5, <4>2, Appended DEF m, ids
      <4>6. Closed(ns, TRUE) = ToolTurns(msgs)
        BY <3>1, <4>1, <4>2, <4>3, ReplyAppended
      <4>7. \A i \in ToolTurns(msgs) : AllFailed(ns, i) <=> AllFailed(msgs, i)
        BY <3>1, <4>1, <4>2, <4>3, ReplyAppended
      <4>. QED
        BY <4>4, <4>5, <4>6, <4>7
    <3>. QED
      BY <3>2 DEF m, ms, ids
  <2>7. ms # <<>> /\ Len(msgs) <= Len(ms)
    BY <2>2, <2>5, Appended
  <2> HIDE DEF m, ms
  <2>8. Counted(ms, TRUE, invalidTurns)
    <3>1. Closed(msgs, FALSE) = ToolTurns(msgs)
      BY DEF Closed
    <3>. QED
      BY <2>2, <2>4, <2>6, <2>7, <3>1, CountedAgain
  <2>9. ReplyReady(ms)
    BY <2>5, <2>6, <2>7, <2>8 DEF ReplyReady
  <2>10. CASE Act(ms)
    BY <1>1, <2>6, <2>9, <2>10, ActKeeps
  <2>11. CASE /\ pc' = "compacting_post"
              /\ msgs' = ms
              /\ UNCHANGED <<calls, allInvalid, result, checkpoint>>
    <3>1. Pending' = LastOf(ms).ids /\ LastTurn' = turn /\ ReplyIsOpen' = TRUE
      BY <1>1, <2>11 DEF Pending, LastTurn, ReplyIsOpen
    <3>2. CallsPaired' /\ FailuresCounted' /\ ReplyIsLast'
      BY <1>1, <2>9, <2>11, <3>1 DEF ReplyReady, CallsPaired, FailuresCounted, ReplyIsLast
    <3>. QED
      BY <2>11, <3>2 DEF ConversationInv, LimitCutsCalls
  <2>. QED
    BY <2>1, <2>10, <2>11 DEF ms, m
<1>. QED
  BY <1>2, <1>3

LEMMA CompactPostKeeps ==
  ASSUME TypeInv, ConversationInv, CompactPost
  PROVE  ConversationInv'
<1>1. /\ pc = "compacting_post" /\ turn' = turn /\ invalidTurns' = invalidTurns
      /\ msgs \in Seq(Messages) /\ msgs # <<>> /\ callCount \in Nat /\ MaxCompactions \in Nat
  BY Limits DEF CompactPost, TypeInv, TypeOK, TurnBegun
<1>2. CASE callCount' # 0
  BY <1>2 DEF ConversationInv, Uncut
<1>3. CASE callCount' = 0
  <2>1. callCount = 0 /\ Act(msgs)
    BY <1>1, <1>3 DEF CompactPost, CallsOfCompact, Compacted
  <2>2. Pending = LastOf(msgs).ids /\ LastTurn = turn /\ ReplyIsOpen = TRUE
    BY <1>1 DEF Pending, LastTurn, ReplyIsOpen
  <2>3. ReplyReady(msgs)
    BY <1>1, <2>1, <2>2
    DEF ConversationInv, Uncut, CallsPaired, FailuresCounted, ReplyIsLast, ReplyReady
  <2>. QED
    BY <1>1, <2>1, <2>3, ActKeeps
<1>. QED
  BY <1>2, <1>3

\* The loop's answer to the first call that wants one.
LEMMA AnswerAppended ==
  ASSUME NEW ms \in Seq(Messages), NEW c \in Seq(CallIds), c # <<>>, NEW outcome \in Outcomes,
         Paired(ms, c)
  PROVE  LET ns == ms \o Answer(Head(c), outcome) IN
         /\ ns \in Seq(Messages) /\ Len(ms) <= Len(ns)
         /\ Paired(ns, Tail(c))
         /\ \A t : IdsUpTo(ms, t) => IdsUpTo(ns, t)
         /\ ToolTurns(ns) = ToolTurns(ms)
         /\ \A i : LastReply(ns, i) <=> LastReply(ms, i)
         /\ \A i \in ToolTurns(ms) : ~LastReply(ms, i) => (AllFailed(ns, i) <=> AllFailed(ms, i))
         /\ \A r : LastReply(ms, r) =>
              (AllFailed(ns, r) <=> AllFailed(ms, r) /\ outcome # "ok")
<1> DEFINE m  == ToolResult(Head(c), outcome)
           ms1 == Append(ms, m)
           ms2 == Append(ms1, Feedback)
           ns == ms \o Answer(Head(c), outcome)
<1>1. Head(c) \in CallIds
  OBVIOUS
<1>2. m \in Messages
  BY <1>1, NewMessages
<1>3. Feedback \in Messages /\ Feedback.kind \notin {"assistant", "tool"}
  BY NewMessages DEF Feedback, Message
<1>4. ms1 \in Seq(Messages) /\ Len(ms) \in Nat /\ Len(ms1) = Len(ms) + 1
  BY <1>2, Appended
<1>5. ns = IF outcome = "refused" THEN ms2 ELSE ms1
  <2> HIDE DEF m
  <2>1. ms1 = ms \o <<m>>
    BY <1>2
  <2>2. \A x, y \in Messages : ms \o (<<x>> \o <<y>>) = Append(Append(ms, x), y)
    OBVIOUS
  <2>3. <<m>> \o <<>> = <<m>>
    BY <1>2
  <2>. QED
    BY <1>2, <1>3, <2>1, <2>2, <2>3 DEF Answer, m
<1>6. /\ Paired(ms1, Tail(c))
      /\ \A t : IdsUpTo(ms, t) => IdsUpTo(ms1, t)
      /\ ToolTurns(ms1) = ToolTurns(ms)
      /\ \A i : LastReply(ms1, i) <=> LastReply(ms, i)
      /\ \A i \in ToolTurns(ms) : ~LastReply(ms, i) => (AllFailed(ms1, i) <=> AllFailed(ms, i))
      /\ \A r : LastReply(ms, r) =>
           (AllFailed(ms1, r) <=> AllFailed(ms, r) /\ outcome # "ok")
  BY ToolAppended
<1>7. CASE outcome = "refused"
  <2> HIDE DEF ms1
  <2>1. ms2 \in Seq(Messages) /\ Len(ms2) = Len(ms1) + 1
    BY <1>3, <1>4, Appended
  <2>2. /\ \A x : Paired(ms2, x) <=> Paired(ms1, x)
        /\ \A t : IdsUpTo(ms2, t) <=> IdsUpTo(ms1, t)
        /\ ToolTurns(ms2) = ToolTurns(ms1)
        /\ \A i : LastReply(ms2, i) <=> LastReply(ms1, i)
        /\ \A i : AllFailed(ms2, i) <=> AllFailed(ms1, i)
    BY <1>3, <1>4, NeutralAppended
  <2>3. ns = ms2
    BY <1>5, <1>7
  <2> HIDE DEF ms2, ns
  <2>4. Len(ms) <= Len(ns) /\ ns \in Seq(Messages)
    BY <1>4, <2>1, <2>3
  <2>. QED
    BY <1>6, <2>2, <2>3, <2>4 DEF ns
<1>8. CASE outcome # "refused"
  <2>1. ns = ms1
    BY <1>5, <1>8
  <2> HIDE DEF ms1, ns
  <2>2. ns \in Seq(Messages) /\ Len(ms) <= Len(ns)
    BY <1>4, <2>1
  <2>. QED
    BY <1>6, <2>1, <2>2, Zenon DEF ns
<1>. QED
  BY <1>7, <1>8

LEMMA ToolEndsKeeps ==
  ASSUME TypeInv, TypeInv', ConversationInv, ToolEnds
  PROVE  ConversationInv'
<1>1. /\ callCount' = callCount /\ pc = "tools" /\ turn' = turn /\ calls' = Tail(calls)
      /\ msgs \in Seq(Messages) /\ calls \in Seq(CallIds) /\ calls # <<>>
      /\ invalidTurns \in Nat /\ allInvalid \in BOOLEAN /\ invalidTurns' \in 0 .. 3
  BY DEF ToolEnds, TypeInv, TypeOK, CircuitBreaker
<1>2. CASE callCount # 0
  BY <1>1, <1>2 DEF ConversationInv, Uncut
<1>3. CASE callCount = 0
  <2>1. PICK outcome \in Outcomes, write \in BOOLEAN :
          /\ msgs' = msgs \o Answer(Head(calls), outcome)
          /\ allInvalid' = (allInvalid /\ outcome # "ok")
    BY DEF ToolEnds
  <2> DEFINE ns == msgs \o Answer(Head(calls), outcome)
  <2>2. /\ Paired(msgs, calls) /\ IdsUpTo(msgs, turn) /\ Counted(msgs, TRUE, invalidTurns)
        /\ \A r \in 1 .. Len(msgs) : LastReply(msgs, r) => (allInvalid <=> AllFailed(msgs, r))
    <3>1. Pending = calls /\ LastTurn = turn /\ ReplyIsOpen = TRUE
      BY <1>1 DEF Pending, LastTurn, ReplyIsOpen
    <3>. QED
      BY <1>1, <1>3, <3>1 DEF ConversationInv, Uncut, CallsPaired, FailuresCounted
  <2>3. /\ ns \in Seq(Messages) /\ Len(msgs) <= Len(ns)
        /\ Paired(ns, Tail(calls))
        /\ \A t : IdsUpTo(msgs, t) => IdsUpTo(ns, t)
        /\ ToolTurns(ns) = ToolTurns(msgs)
        /\ \A i : LastReply(ns, i) <=> LastReply(msgs, i)
        /\ \A i \in ToolTurns(msgs) : ~LastReply(msgs, i) => (AllFailed(ns, i) <=> AllFailed(msgs, i))
        /\ \A r : LastReply(msgs, r) =>
             (AllFailed(ns, r) <=> AllFailed(msgs, r) /\ outcome # "ok")
    BY <1>1, <2>2, AnswerAppended
  <2>4. msgs' = ns
    BY <2>1
  <2> HIDE DEF ns
  <2>5. IdsUpTo(ns, turn)
    BY <2>2, <2>3
  <2>6. Counted(ns, TRUE, invalidTurns)
    <3>1. Closed(ns, TRUE) = Closed(msgs, TRUE)
      BY <2>3 DEF Closed
    <3>2. \A i \in Closed(msgs, TRUE) : AllFailed(ns, i) <=> AllFailed(msgs, i)
      BY <2>3 DEF Closed
    <3>. QED
      BY <1>1, <2>2, <2>3, <3>1, <3>2, CountedAgain
  <2>7. \A r : LastReply(ns, r) => (allInvalid' <=> AllFailed(ns, r))
    <3>1. \A r : LastReply(msgs, r) => r \in 1 .. Len(msgs)
      BY DEF LastReply, Positions
    <3>2. \A r : LastReply(msgs, r) => (allInvalid <=> AllFailed(msgs, r))
      BY <2>2, <3>1
    <3>. QED
      BY <2>1, <2>3, <3>2
  <2>8. PICK r : LastReply(ns, r) /\ r \in ToolTurns(ns)
    <3>1. PICK r \in Positions(msgs, "assistant") :
            /\ LastReply(msgs, r)
            /\ \A n \in 1 .. Len(calls) : \E k \in 1 .. Len(msgs[r].ids) : calls[n] = msgs[r].ids[k]
      BY <1>1, <2>2 DEF Paired
    <3>2. msgs[r].ids # <<>>
      <4>1. 1 \in 1 .. Len(calls)
        BY <1>1
      <4>. QED
        BY <3>1, <4>1
    <3>. QED
      BY <2>3, <3>1, <3>2 DEF ToolTurns
  <2>9. CASE Len(calls) > 1 /\ UNCHANGED <<pc, invalidTurns, result>>
    <3>1. Pending' = Tail(calls) /\ LastTurn' = turn /\ ReplyIsOpen' = TRUE
      BY <1>1, <2>9 DEF Pending, LastTurn, ReplyIsOpen
    <3>2. CallsPaired' /\ FailuresCounted'
      BY <1>1, <2>3, <2>4, <2>5, <2>6, <2>7, <2>9, <3>1 DEF CallsPaired, FailuresCounted
    <3>. QED
      BY <1>1, <2>9, <3>2 DEF ConversationInv, LimitCutsCalls, ReplyIsLast
  <2>10. CASE Len(calls) = 1 /\ EndTurn(allInvalid')
    <3>1. Tail(calls) = <<>>
      BY <1>1, <2>10
    <3>2. Counted(ns, FALSE, IF AllFailed(ns, r) THEN invalidTurns + 1 ELSE 0)
      BY <1>1, <2>3, <2>6, <2>8, TurnCounted
    <3>3. invalidTurns' = IF AllFailed(ns, r) THEN invalidTurns + 1 ELSE 0
      BY <2>7, <2>8, <2>10 DEF EndTurn
    <3>4. \/ pc' = "returned" /\ result'.reason = "circuit_breaker" /\ invalidTurns' >= 3
          \/ pc' = "head"
      BY <2>10, <3>3 DEF EndTurn, Return, CircuitBreaker
    <3>5. Pending' = <<>> /\ LastTurn' = turn /\ ReplyIsOpen' = FALSE
      BY <1>1, <3>4 DEF Pending, LastTurn, ReplyIsOpen
    <3>6. CallsPaired'
      BY <2>3, <2>4, <2>5, <3>1, <3>5 DEF CallsPaired
    <3>7. FailuresCounted'
      <4>1. Counted(ns, FALSE, invalidTurns')
        BY <3>2, <3>3
      <4>2. pc' = "returned" => invalidTurns' = CircuitBreaker
        BY <1>1, <3>4 DEF CircuitBreaker
      <4>. QED
        BY <2>4, <3>4, <3>5, <4>1, <4>2 DEF FailuresCounted
    <3>8. LimitCutsCalls'
      <4>1. \A s : LastReply(ns, s) => ns[s].ids # <<>>
        BY <2>3, <2>8, LastReplyIsOne DEF ToolTurns
      <4>. QED
        BY <2>4, <4>1 DEF LimitCutsCalls
    <3>. QED
      BY <3>4, <3>6, <3>7, <3>8 DEF ConversationInv, ReplyIsLast
  <2>. QED
    BY <2>9, <2>10 DEF ToolEnds
<1>. QED
  BY <1>2, <1>3

LEMMA BeginTurnKeeps ==
  ASSUME TypeInv, ConversationInv, SteerInv, BeginTurn
  PROVE  ConversationInv'
<1>1. /\ callCount' = callCount /\ pc = "head" /\ turn' = turn + 1 /\ turn \in Nat
      /\ pc' \in {"streaming", "compacting"}
      /\ UNCHANGED <<calls, allInvalid, invalidTurns, result>>
      /\ msgs' = msgs \o queue /\ msgs \in Seq(Messages) /\ queue \in Seq(Messages)
  BY DEF BeginTurn, kept, TypeInv, TypeOK
<1>2. CASE callCount # 0
  BY <1>1, <1>2 DEF ConversationInv, Uncut
<1>3. CASE callCount = 0
  <2> DEFINE ns == msgs \o queue
  <2>1. \A i \in 1 .. Len(queue) : queue[i].kind = "steer"
    <3>1. \A n : SteerText(n).kind = "steer"
      BY DEF SteerText, Message
    <3>. QED
      BY <3>1 DEF SteerInv, QueueIsLast
  <2>2. /\ ns \in Seq(Messages) /\ Paired(ns, <<>>) <=> Paired(msgs, <<>>)
        /\ IdsUpTo(ns, turn) <=> IdsUpTo(msgs, turn)
        /\ ToolTurns(ns) = ToolTurns(msgs)
        /\ \A i : AllFailed(ns, i) <=> AllFailed(msgs, i)
    BY <1>1, <2>1, SteersAppended
  <2>3. Len(msgs) <= Len(ns) /\ ns \in Seq(Messages)
    BY <1>1
  <2>4. msgs' = ns
    BY <1>1
  <2> HIDE DEF ns
  <2>5. Pending = <<>> /\ LastTurn = turn /\ ReplyIsOpen = FALSE
        /\ Pending' = <<>> /\ LastTurn' = turn /\ ReplyIsOpen' = FALSE
    BY <1>1 DEF Pending, LastTurn, ReplyIsOpen
  <2>6. Paired(msgs, <<>>) /\ IdsUpTo(msgs, turn) /\ Counted(msgs, FALSE, invalidTurns)
    BY <1>1, <1>3, <2>5 DEF ConversationInv, Uncut, CallsPaired, FailuresCounted
  <2>7. Counted(ns, FALSE, invalidTurns)
    <3>1. Closed(ns, FALSE) = Closed(msgs, FALSE)
      BY <2>2 DEF Closed
    <3>. QED
      BY <1>1, <2>2, <2>3, <2>6, <3>1, CountedAgain
  <2>8. CallsPaired'
    BY <2>2, <2>4, <2>5, <2>6 DEF CallsPaired
  <2>9. FailuresCounted'
    BY <1>1, <2>4, <2>5, <2>7 DEF FailuresCounted
  <2>. QED
    BY <1>1, <2>8, <2>9 DEF ConversationInv, LimitCutsCalls, ReplyIsLast
<1>. QED
  BY <1>2, <1>3

\* Steps that leave the conversation as it is, and what the loop knows of it.
LEMMA ConversationSame ==
  ASSUME ConversationInv, UNCHANGED <<pc, turn, msgs, calls, allInvalid, invalidTurns, result>>,
         callCount' = 0 => callCount = 0
  PROVE  ConversationInv'
BY DEF ConversationInv, Uncut, CallsPaired, FailuresCounted, LimitCutsCalls, ReplyIsLast,
       Pending, LastTurn, ReplyIsOpen

LEMMA ReturnKeeps ==
  ASSUME TypeInv, ConversationInv, StopAborted \/ HitMaxTurns \/ StreamFails
  PROVE  ConversationInv'
<1>1. /\ callCount' = callCount /\ pc \in {"head", "streaming"} /\ pc' = "returned"
      /\ UNCHANGED <<turn, msgs, calls, allInvalid, invalidTurns>> /\ turn \in Nat
      /\ result'.reason \in {"aborted", "max_turns", "error"}
      /\ result'.reason = "max_turns" => pc = "head" /\ turn = Cap
  BY DEF StopAborted, HitMaxTurns, StreamFails, Return, kept, TypeInv, TypeOK
<1>2. CASE callCount # 0
  BY <1>1, <1>2 DEF ConversationInv, Uncut
<1>3. CASE callCount = 0
  <2>1. Pending = <<>> /\ ReplyIsOpen = FALSE /\ LastTurn \in {turn, turn - 1}
        /\ Pending' = <<>> /\ LastTurn' = turn /\ ReplyIsOpen' = FALSE
    BY <1>1 DEF Pending, LastTurn, ReplyIsOpen
  <2>2. CallsPaired /\ FailuresCounted /\ LimitCutsCalls
    BY <1>1, <1>3 DEF ConversationInv, Uncut
  <2>3. IdsUpTo(msgs, turn)
    <3>1. (1 .. LastTurn) \X Nat \subseteq (1 .. turn) \X Nat
      BY <1>1, <2>1
    <3>. QED
      BY <2>2, <3>1 DEF CallsPaired, IdsUpTo
  <2>4. CallsPaired'
    BY <1>1, <2>1, <2>2, <2>3 DEF CallsPaired
  <2>5. FailuresCounted'
    BY <1>1, <2>1, <2>2 DEF FailuresCounted
  <2>6. LimitCutsCalls'
    BY <1>1, <2>2 DEF LimitCutsCalls
  <2>. QED
    BY <1>1, <2>4, <2>5, <2>6 DEF ConversationInv, ReplyIsLast
<1>. QED
  BY <1>2, <1>3

\* A conversation of one prompt.
LEMMA RunKeeps ==
  ASSUME Run PROVE ConversationInv'
<1>1. /\ msgs' = <<UserMessage>> /\ pc' = "head" /\ turn' = 0 /\ invalidTurns' = 0
  BY DEF Run
<1> DEFINE ns == <<UserMessage>>
<1>2. Positions(ns, "assistant") = {} /\ Positions(ns, "tool") = {}
  BY DEF Positions, UserMessage, Message
<1> HIDE DEF ns
<1>3. Paired(ns, <<>>) /\ IdsUpTo(ns, 0)
  BY <1>2 DEF Paired, IdsUpTo
<1>4. Counted(ns, FALSE, 0)
  <2>1. Closed(ns, FALSE) = {}
    BY <1>2 DEF Closed, ToolTurns
  <2>2. Cardinality({i \in Closed(ns, FALSE) : i > 0}) = 0
    BY <2>1, FS_EmptySet
  <2>3. 0 \in 0 .. Len(ns)
    BY DEF ns
  <2>. QED
    BY <2>1, <2>2, <2>3 DEF Counted
<1>5. Pending' = <<>> /\ LastTurn' = 0 /\ ReplyIsOpen' = FALSE
  BY <1>1 DEF Pending, LastTurn, ReplyIsOpen
<1>6. CallsPaired' /\ FailuresCounted'
  BY <1>1, <1>3, <1>4, <1>5 DEF CallsPaired, FailuresCounted, ns
<1>7. turn' # Cap
  BY <1>1, Limits
<1>. QED
  BY <1>1, <1>6, <1>7 DEF ConversationInv, LimitCutsCalls, ReplyIsLast

LEMMA CompactKeeps ==
  ASSUME TypeInv, ConversationInv, Compact
  PROVE  ConversationInv'
<1>1. /\ pc = "compacting" /\ pc' = "streaming" /\ callCount \in Nat
      /\ UNCHANGED <<turn, calls, allInvalid, invalidTurns, result>>
  BY Limits DEF Compact, TypeInv, TypeOK
<1>2. callCount' = 0 => callCount = 0 /\ msgs' = msgs
  BY <1>1 DEF Compact, CallsOfCompact, Compacted
<1>3. LastTurn' = LastTurn /\ Pending' = Pending /\ ReplyIsOpen' = ReplyIsOpen
  BY <1>1 DEF LastTurn, Pending, ReplyIsOpen
<1>. QED
  BY <1>1, <1>2, <1>3
  DEF ConversationInv, Uncut, CallsPaired, FailuresCounted, LimitCutsCalls, ReplyIsLast

LEMMA ConversationInit == Init => ConversationInv
<1> SUFFICES ASSUME Init PROVE ConversationInv
  OBVIOUS
<1>1. pc = "idle" /\ turn = 0 /\ msgs = <<>> /\ invalidTurns = 0
  BY DEF Init
<1>2. Positions(msgs, "assistant") = {} /\ Positions(msgs, "tool") = {} /\ Len(msgs) = 0
  BY <1>1 DEF Positions
<1>3. Paired(msgs, <<>>) /\ IdsUpTo(msgs, 0)
  BY <1>2 DEF Paired, IdsUpTo
<1>4. Counted(msgs, FALSE, 0)
  <2>1. Closed(msgs, FALSE) = {}
    BY <1>2 DEF Closed, ToolTurns
  <2>2. Cardinality({i \in Closed(msgs, FALSE) : i > 0}) = 0
    BY <2>1, FS_EmptySet
  <2>3. 0 \in 0 .. Len(msgs)
    BY <1>2
  <2>. QED
    BY <2>1, <2>2, <2>3 DEF Counted
<1>5. Pending = <<>> /\ LastTurn = 0 /\ ReplyIsOpen = FALSE
  BY <1>1 DEF Pending, LastTurn, ReplyIsOpen
<1>. QED
  BY <1>1, <1>3, <1>4, <1>5
  DEF ConversationInv, CallsPaired, FailuresCounted, LimitCutsCalls, ReplyIsLast

LEMMA ConversationNext ==
  ASSUME TypeInv, ConversationInv, SteerInv, [Next]_vars
  PROVE  ConversationInv'
<1>1. CASE Run
  BY <1>1, RunKeeps
<1>2. CASE Steer \/ Abort \/ UNCHANGED vars
  BY <1>2, ConversationSame DEF Steer, Abort, kept, vars
<1>3. CASE StopAborted \/ HitMaxTurns \/ StreamFails
  BY <1>3, ReturnKeeps
<1>4. CASE BeginTurn
  BY <1>4, BeginTurnKeeps
<1>5. CASE Compact
  BY <1>5, CompactKeeps
<1>6. CASE CompactPost
  BY <1>6, CompactPostKeeps
<1>7. CASE SummaryRaises \/ CallbackRaises \/ AssemblyRaises
  BY <1>7 DEF SummaryRaises, CallbackRaises, AssemblyRaises, Raise, ConversationInv, Uncut
<1>8. CASE StreamAnswers
  BY <1>8, StreamAnswersKeeps
<1>9. CASE ToolEnds
  BY <1>9, ToolEndsKeeps, TypeNext
<1>. QED
  BY <1>1, <1>2, <1>3, <1>4, <1>5, <1>6, <1>7, <1>8, <1>9 DEF Next, Loop

-----------------------------------------------------------------------------
(* The places of the results, step by step.                                 *)

\* A message more, which is no result or may have its place at the end.
LEMMA ResultsAppended ==
  ASSUME NEW ms \in Seq(Messages), NEW m \in Messages, ResultsFollow(ms),
         m.kind = "tool" => MayFollow(ms, Len(ms)) /\ ms # <<>>
  PROVE  LET ns == Append(ms, m) IN
         /\ ResultsFollow(ns)
         /\ m.kind \in {"assistant", "tool"} => MayFollow(ns, Len(ns))
<1> DEFINE ns == Append(ms, m)
           L  == Len(ms)
<1>1. /\ L \in Nat /\ Len(ns) = L + 1 /\ ns[L + 1] = m
      /\ \A i \in 1 .. L : ns[i] = ms[i]
  BY Appended
<1>2. ms # <<>> => L >= 1
  OBVIOUS
<1> HIDE DEF ns, L
<1>3. \A n \in 1 .. L : MayFollow(ms, n) => MayFollow(ns, n)
  <2> SUFFICES ASSUME NEW n \in 1 .. L, MayFollow(ms, n) PROVE MayFollow(ns, n)
    OBVIOUS
  <2>1. n > 1 => n - 1 \in 1 .. L
    BY <1>1
  <2>. QED
    BY <1>1, <2>1 DEF MayFollow
<1>4. ASSUME NEW j \in Positions(ns, "tool") PROVE j > 1 /\ MayFollow(ns, j - 1)
  <2>1. j \in 1 .. L + 1 /\ ns[j].kind = "tool"
    BY <1>1 DEF Positions
  <2>2. CASE j = L + 1
    <3>1. L >= 1 /\ MayFollow(ms, L)
      BY <1>1, <1>2, <2>1, <2>2 DEF L
    <3>2. j - 1 = L /\ L \in 1 .. L /\ j > 1
      BY <1>1, <2>2, <3>1
    <3>. QED
      BY <1>3, <3>1, <3>2
  <2>3. CASE j \in 1 .. L
    <3>1. j \in Positions(ms, "tool")
      BY <1>1, <2>1, <2>3 DEF Positions, L
    <3>2. j > 1 /\ MayFollow(ms, j - 1)
      BY <3>1 DEF ResultsFollow
    <3>3. j - 1 \in 1 .. L
      BY <1>1, <2>3, <3>2
    <3>. QED
      BY <1>3, <3>2, <3>3
  <2>. QED
    BY <1>1, <2>1, <2>2, <2>3
<1>5. m.kind \in {"assistant", "tool"} => MayFollow(ns, Len(ns))
  BY <1>1 DEF MayFollow
<1>. QED
  BY <1>4, <1>5 DEF ResultsFollow, ns

\* A call's result, and its explanation.
LEMMA ResultsAnswered ==
  ASSUME NEW ms \in Seq(Messages), NEW id \in CallIds, NEW outcome \in Outcomes,
         ResultsFollow(ms), MayFollow(ms, Len(ms)), ms # <<>>
  PROVE  LET ns == ms \o Answer(id, outcome) IN
         ResultsFollow(ns) /\ MayFollow(ns, Len(ns)) /\ ns # <<>>
<1> DEFINE m   == ToolResult(id, outcome)
           ms1 == Append(ms, m)
           ms2 == Append(ms1, Feedback)
           ns  == ms \o Answer(id, outcome)
<1>1. m \in Messages /\ m.kind = "tool" /\ m.what = outcome
  BY NewMessages DEF ToolResult, Message
<1>2. Feedback \in Messages /\ Feedback.kind # "tool"
  BY NewMessages DEF Feedback, Message
<1>3. ns = IF outcome = "refused" THEN ms2 ELSE ms1
  <2> HIDE DEF m
  <2>1. ms1 = ms \o <<m>>
    BY <1>1
  <2>2. \A x, y \in Messages : ms \o (<<x>> \o <<y>>) = Append(Append(ms, x), y)
    OBVIOUS
  <2>3. <<m>> \o <<>> = <<m>>
    BY <1>1
  <2>. QED
    BY <1>1, <1>2, <2>1, <2>2, <2>3 DEF Answer, m
<1> HIDE DEF m, ns
<1>4. /\ ResultsFollow(ms1) /\ MayFollow(ms1, Len(ms1))
      /\ ms1 \in Seq(Messages) /\ ms1 # <<>> /\ ms1[Len(ms1)] = m /\ Len(ms1) \in Nat
  BY <1>1, Appended, ResultsAppended
<1> HIDE DEF ms1
<1>5. CASE outcome = "refused"
  <2>1. ResultsFollow(ms2)
    BY <1>2, <1>4, ResultsAppended
  <2>2. /\ ms2 # <<>> /\ Len(ms2) = Len(ms1) + 1 /\ ms2[Len(ms1) + 1] = Feedback
        /\ \A i \in 1 .. Len(ms1) : ms2[i] = ms1[i]
    BY <1>2, <1>4, Appended
  <2>3. Len(ms1) >= 1
    BY <1>4
  <2> HIDE DEF ms2
  <2>4. Len(ms2) > 1 /\ Len(ms2) - 1 = Len(ms1) /\ Len(ms1) \in 1 .. Len(ms1)
    BY <1>4, <2>2, <2>3
  <2>5. ms2[Len(ms2)] = Feedback /\ ms2[Len(ms2) - 1] = m
    BY <1>4, <2>2, <2>4
  <2>6. MayFollow(ms2, Len(ms2))
    BY <1>1, <1>5, <2>4, <2>5 DEF MayFollow
  <2>. QED
    BY <1>3, <1>5, <2>1, <2>2, <2>6 DEF ns
<1>6. CASE outcome # "refused"
  BY <1>3, <1>4, <1>6 DEF ns
<1>. QED
  BY <1>5, <1>6

\* Acting on a reply.
LEMMA ActKeepsResults ==
  ASSUME NEW ms \in Seq(Messages), ms # <<>>, LastOf(ms).kind = "assistant",
         ResultsFollow(ms), Act(ms)
  PROVE  /\ ResultsFollow(msgs')
         /\ pc' = "tools" => MayFollow(msgs', Len(msgs')) /\ msgs' # <<>>
<1>1. msgs' \in {ms, Append(ms, Reminder)} /\ (pc' = "tools" => msgs' = ms)
  BY DEF Act, Return
<1>2. Reminder \in Messages /\ Reminder.kind # "tool"
  BY NewMessages DEF Reminder, Message
<1>3. ResultsFollow(Append(ms, Reminder))
  BY <1>2, ResultsAppended
<1>4. MayFollow(ms, Len(ms))
  BY DEF MayFollow, LastOf
<1>. QED
  BY <1>1, <1>3, <1>4

\* The steers that begin a turn.
LEMMA ResultsBeforeSteers ==
  ASSUME NEW ms \in Seq(Messages), NEW q \in Seq(Messages), ResultsFollow(ms),
         \A i \in 1 .. Len(q) : q[i].kind = "steer"
  PROVE  ResultsFollow(ms \o q)
<1> DEFINE ns == ms \o q
<1>1. /\ Len(ms) \in Nat /\ Len(q) \in Nat /\ Len(ns) = Len(ms) + Len(q)
      /\ \A i \in 1 .. Len(ms) : ns[i] = ms[i]
      /\ \A i \in 1 .. Len(q) : ns[Len(ms) + i] = q[i]
  OBVIOUS
<1> HIDE DEF ns
<1>2. ASSUME NEW j \in Positions(ns, "tool") PROVE j > 1 /\ MayFollow(ns, j - 1)
  <2>1. j \in 1 .. Len(ns) /\ ns[j].kind = "tool"
    BY DEF Positions
  <2>2. CASE j > Len(ms)
    <3>1. j - Len(ms) \in 1 .. Len(q) /\ j = Len(ms) + (j - Len(ms))
      BY <1>1, <2>1, <2>2
    <3>. QED
      BY <1>1, <2>1, <3>1
  <2>3. CASE j <= Len(ms)
    <3>1. j \in 1 .. Len(ms)
      BY <1>1, <2>1, <2>3
    <3>2. j \in Positions(ms, "tool")
      BY <1>1, <2>1, <3>1 DEF Positions
    <3>3. j > 1 /\ MayFollow(ms, j - 1)
      BY <3>2 DEF ResultsFollow
    <3>4. j - 1 \in 1 .. Len(ms) /\ (j - 1 > 1 => (j - 1) - 1 \in 1 .. Len(ms))
      BY <1>1, <3>1, <3>3
    <3>. QED
      BY <1>1, <3>3, <3>4 DEF MayFollow
  <2>. QED
    BY <1>1, <2>1, <2>2, <2>3
<1>. QED
  BY <1>2 DEF ResultsFollow, ns

LEMMA ResultsInit == Init => ResultsInv
<1> SUFFICES ASSUME Init PROVE ResultsInv
  OBVIOUS
<1>1. pc = "idle" /\ msgs = <<>> /\ Positions(<<>>, "tool") = {}
  BY DEF Init, Positions
<1>. QED
  BY <1>1 DEF ResultsInv, ResultsFollow

LEMMA ResultsNext ==
  ASSUME TypeInv, ConversationInv, ResultsInv, SteerInv, [Next]_vars
  PROVE  ResultsInv'
<1>0. msgs \in Seq(Messages) /\ queue \in Seq(Messages) /\ callCount \in Nat
  BY Limits DEF TypeInv, TypeOK
<1>1. CASE Run
  <2>1. msgs' = <<UserMessage>> /\ pc' = "head"
    BY <1>1 DEF Run
  <2>2. Positions(<<UserMessage>>, "tool") = {}
    BY DEF Positions, UserMessage, Message
  <2>. QED
    BY <2>1, <2>2 DEF ResultsInv, ResultsFollow
<1>2. CASE Steer \/ Abort \/ StopAborted \/ HitMaxTurns \/ StreamFails \/ UNCHANGED vars
  <2>1. UNCHANGED <<msgs, callCount>> /\ (pc' = pc \/ (pc # "raised" /\ pc' = "returned"))
    BY <1>2 DEF Steer, Abort, StopAborted, HitMaxTurns, StreamFails, Return, kept, vars
  <2>. QED
    BY <2>1 DEF ResultsInv, Uncut
<1>3. CASE BeginTurn
  <2>1. msgs' = msgs \o queue /\ callCount' = callCount /\ pc = "head" /\ pc' # "tools"
    BY <1>3 DEF BeginTurn, kept
  <2>2. \A i \in 1 .. Len(queue) : queue[i].kind = "steer"
    <3>1. \A n : SteerText(n).kind = "steer"
      BY DEF SteerText, Message
    <3>. QED
      BY <3>1 DEF SteerInv, QueueIsLast
  <2>3. ResultsFollow(msgs) => ResultsFollow(msgs \o queue)
    BY <1>0, <2>2, ResultsBeforeSteers
  <2>. QED
    BY <2>1, <2>3 DEF ResultsInv, Uncut
<1>4. CASE Compact
  <2>1. pc = "compacting" /\ pc' = "streaming" /\ (callCount' = 0 => callCount = 0 /\ msgs' = msgs)
    BY <1>0, <1>4 DEF Compact, CallsOfCompact, Compacted
  <2>. QED
    BY <2>1 DEF ResultsInv, Uncut
<1>5. CASE SummaryRaises \/ CallbackRaises \/ AssemblyRaises
  BY <1>5 DEF SummaryRaises, CallbackRaises, AssemblyRaises, Raise, ResultsInv, Uncut
<1>6. CASE CompactPost
  <2>1. pc = "compacting_post" /\ (callCount' = 0 => callCount = 0 /\ Act(msgs))
    BY <1>0, <1>6 DEF CompactPost, CallsOfCompact, Compacted
  <2>2. msgs # <<>>
    BY <2>1 DEF TypeInv, TurnBegun
  <2>3. callCount = 0 => LastOf(msgs).kind = "assistant" /\ ResultsFollow(msgs)
    BY <2>1 DEF ConversationInv, Uncut, ReplyIsLast, ResultsInv
  <2>4. callCount' = 0 => /\ ResultsFollow(msgs')
                          /\ pc' = "tools" => MayFollow(msgs', Len(msgs')) /\ msgs' # <<>>
    BY <1>0, <2>1, <2>2, <2>3, ActKeepsResults
  <2>. QED
    BY <2>4 DEF ResultsInv, Uncut
<1>7. CASE StreamAnswers
  <2>1. PICK n \in 0 .. MaxCalls, text \in Texts :
          LET ms == Append(msgs, Reply(CallsOf(n), text)) IN
            Act(ms) \/ (pc' = "compacting_post" /\ msgs' = ms)
    BY <1>7 DEF StreamAnswers, CallsOf
  <2>2. pc = "streaming" /\ callCount' = callCount
    BY <1>7 DEF StreamAnswers, kept
  <2> DEFINE reply == Reply(CallsOf(n), text)
             ms    == Append(msgs, reply)
  <2>3. reply \in Messages /\ reply.kind = "assistant"
    BY CallsOfType, NewMessages DEF TypeInv, Reply, Message
  <2> HIDE DEF reply
  <2>4. /\ ms \in Seq(Messages) /\ ms # <<>> /\ LastOf(ms).kind = "assistant"
        /\ ResultsFollow(msgs) => ResultsFollow(ms)
    BY <1>0, <2>3, Appended, ResultsAppended
  <2> HIDE DEF ms
  <2>5. ASSUME Act(ms), callCount = 0
        PROVE  /\ ResultsFollow(msgs')
               /\ pc' = "tools" => MayFollow(msgs', Len(msgs')) /\ msgs' # <<>>
    <3>1. ResultsFollow(ms)
      BY <2>2, <2>4, <2>5 DEF ResultsInv, Uncut
    <3>. QED
      BY <2>4, <2>5, <3>1, ActKeepsResults
  <2>6. CASE Act(ms)
    BY <2>2, <2>5, <2>6 DEF ResultsInv, Uncut
  <2>7. CASE pc' = "compacting_post" /\ msgs' = ms
    BY <2>2, <2>4, <2>7 DEF ResultsInv, Uncut
  <2>. QED
    BY <2>1, <2>6, <2>7 DEF ms, reply
<1>8. CASE ToolEnds
  <2>1. PICK outcome \in Outcomes : msgs' = msgs \o Answer(Head(calls), outcome)
    BY <1>8 DEF ToolEnds
  <2>2. Head(calls) \in CallIds /\ pc = "tools" /\ callCount' = callCount
    BY <1>8 DEF ToolEnds, TypeInv, TypeOK
  <2>3. ASSUME callCount = 0
        PROVE  ResultsFollow(msgs') /\ MayFollow(msgs', Len(msgs')) /\ msgs' # <<>>
    <3>1. ResultsFollow(msgs) /\ MayFollow(msgs, Len(msgs)) /\ msgs # <<>>
      BY <2>2, <2>3 DEF ResultsInv, Uncut
    <3>. QED
      BY <1>0, <2>1, <2>2, <3>1, ResultsAnswered
  <2>. QED
    BY <2>2, <2>3 DEF ResultsInv, Uncut
<1>. QED
  BY <1>1, <1>2, <1>3, <1>4, <1>5, <1>6, <1>7, <1>8 DEF Next, Loop

-----------------------------------------------------------------------------
(* The steers, step by step.                                                *)

\* ns has the steers of ms, at the same places.
SameSteers(ms, ns) ==
  /\ Positions(ns, "steer") = Positions(ms, "steer")
  /\ \A i \in Positions(ms, "steer") : ns[i] = ms[i]

LEMMA SameSteersKept ==
  ASSUME NEW ms, NEW ns, SameSteers(ms, ns)
  PROVE  \A d : (InOrder(ms, d) => InOrder(ns, d)) /\ (AllIn(ms, d) => AllIn(ns, d))
<1>1. \A n : HasSteer(ns, n) <=> HasSteer(ms, n)
  BY DEF SameSteers, HasSteer
<1>. QED
  BY <1>1 DEF SameSteers, InOrder, AllIn

LEMMA NoSteerAppended ==
  ASSUME NEW ms \in Seq(Messages), NEW m \in Messages, m.kind # "steer"
  PROVE  SameSteers(ms, Append(ms, m))
<1>1. Positions(Append(ms, m), "steer") = Positions(ms, "steer")
  BY PositionsAppended
<1>2. \A i \in 1 .. Len(ms) : Append(ms, m)[i] = ms[i]
  BY Appended
<1>. QED
  BY <1>1, <1>2 DEF SameSteers, Positions

\* The messages of the queue after the conversation.
LEMMA QueueAppended ==
  ASSUME NEW ms \in Seq(Messages), NEW q \in Seq(Messages), NEW s \in Nat, Len(q) <= s,
         \A i \in 1 .. Len(q) : q[i] = SteerText(s - Len(q) + i),
         InOrder(ms, s - Len(q))
  PROVE  /\ InOrder(ms \o q, s)
         /\ AllIn(ms, s - Len(q)) => AllIn(ms \o q, s)
<1> DEFINE ns == ms \o q
           L  == Len(ms)
           d  == s - Len(q)
           S  == Positions(ms, "steer")
           S2 == Positions(ns, "steer")
<1>1. /\ L \in Nat /\ Len(q) \in Nat /\ d \in Nat /\ d + Len(q) = s
      /\ Len(ns) = L + Len(q)
      /\ \A i \in 1 .. L : ns[i] = ms[i]
      /\ \A i \in 1 .. Len(q) : ns[L + i] = q[i]
  OBVIOUS
<1>2. \A i \in 1 .. Len(q) : ns[L + i] = SteerText(d + i)
  BY <1>1
<1>3. \A n : SteerText(n).kind = "steer" /\ SteerText(n).ids[1][2] = n
  BY DEF SteerText, Message
<1> HIDE DEF ns
<1>4. \A i : i \in S2 => (i \in S /\ i \in 1 .. L /\ ns[i] = ms[i])
                         \/ \E k \in 1 .. Len(q) : i = L + k /\ ns[i] = SteerText(d + k)
  <2> SUFFICES ASSUME NEW i \in S2
               PROVE  \/ i \in S /\ i \in 1 .. L /\ ns[i] = ms[i]
                      \/ \E k \in 1 .. Len(q) : i = L + k /\ ns[i] = SteerText(d + k)
    OBVIOUS
  <2>1. i \in 1 .. L + Len(q) /\ ns[i].kind = "steer"
    BY <1>1 DEF Positions
  <2>2. CASE i <= L
    <3>1. i \in 1 .. L
      BY <1>1, <2>1, <2>2
    <3>. QED
      BY <1>1, <2>1, <3>1 DEF Positions
  <2>3. CASE i > L
    <3>1. i - L \in 1 .. Len(q) /\ i = L + (i - L)
      BY <1>1, <2>1, <2>3
    <3>. QED
      BY <1>2, <3>1
  <2>. QED
    BY <1>1, <2>1, <2>2, <2>3
<1>5. \A i \in S : i \in S2 /\ ns[i] = ms[i]
  BY <1>1 DEF Positions
<1>6. \A k \in 1 .. Len(q) : L + k \in S2
  <2> SUFFICES ASSUME NEW k \in 1 .. Len(q) PROVE L + k \in S2
    OBVIOUS
  <2>1. L + k \in 1 .. Len(ns)
    BY <1>1
  <2>. QED
    BY <1>2, <1>3, <2>1 DEF Positions
<1>7. \A i \in S : \E n \in 1 .. d : ms[i] = SteerText(n)
  BY DEF InOrder
<1>8. \A i, j \in S : i < j => ms[i].ids[1][2] < ms[j].ids[1][2]
  BY DEF InOrder
<1>9. \A m, n \in 1 .. d : m < n /\ HasSteer(ms, m) => HasSteer(ms, n)
  BY DEF InOrder
<1> HIDE DEF S, S2, L, d
<1>10. \A i \in S2 : \E n \in 1 .. s : ns[i] = SteerText(n)
  <2> SUFFICES ASSUME NEW i \in S2 PROVE \E n \in 1 .. s : ns[i] = SteerText(n)
    OBVIOUS
  <2>1. CASE i \in S /\ ns[i] = ms[i]
    <3>1. PICK n \in 1 .. d : ms[i] = SteerText(n)
      BY <1>7, <2>1
    <3>2. n \in 1 .. s
      BY <1>1
    <3>. QED
      BY <2>1, <3>1, <3>2
  <2>2. ASSUME NEW k \in 1 .. Len(q), ns[i] = SteerText(d + k)
        PROVE  \E n \in 1 .. s : ns[i] = SteerText(n)
    <3>1. d + k \in 1 .. s
      BY <1>1
    <3>. QED
      BY <2>2, <3>1
  <2>. QED
    BY <1>4, <2>1, <2>2
<1>11. \A i, j \in S2 : i < j => ns[i].ids[1][2] < ns[j].ids[1][2]
  <2> SUFFICES ASSUME NEW i \in S2, NEW j \in S2, i < j
               PROVE  ns[i].ids[1][2] < ns[j].ids[1][2]
    OBVIOUS
  <2>1. CASE i \in S /\ ns[i] = ms[i] /\ j \in S /\ ns[j] = ms[j]
    BY <1>8, <2>1
  <2>2. ASSUME i \in S, i \in 1 .. L, ns[i] = ms[i],
               NEW k \in 1 .. Len(q), ns[j] = SteerText(d + k)
        PROVE  ns[i].ids[1][2] < ns[j].ids[1][2]
    <3>1. PICK n \in 1 .. d : ns[i] = SteerText(n)
      BY <1>7, <2>2
    <3>2. ns[i].ids[1][2] = n /\ ns[j].ids[1][2] = d + k
      BY <1>3, <2>2, <3>1
    <3>3. n < d + k
      BY <1>1
    <3>. QED
      BY <3>2, <3>3
  <2>3. ASSUME NEW k \in 1 .. Len(q), i = L + k, ns[i] = SteerText(d + k),
               NEW l \in 1 .. Len(q), j = L + l, ns[j] = SteerText(d + l)
        PROVE  ns[i].ids[1][2] < ns[j].ids[1][2]
    <3>1. ns[i].ids[1][2] = d + k /\ ns[j].ids[1][2] = d + l
      BY <1>3, <2>3
    <3>2. d + k < d + l
      BY <1>1, <2>3
    <3>. QED
      BY <3>1, <3>2
  <2>4. ASSUME NEW k \in 1 .. Len(q), i = L + k, j \in 1 .. L PROVE FALSE
    BY <1>1, <2>4
  <2>5. CASE i \in S /\ i \in 1 .. L /\ ns[i] = ms[i]
    BY <1>4, <2>1, <2>2, <2>5
  <2>6. ASSUME NEW k \in 1 .. Len(q), i = L + k, ns[i] = SteerText(d + k)
        PROVE  ns[i].ids[1][2] < ns[j].ids[1][2]
    BY <1>4, <2>3, <2>4, <2>6
  <2>. QED
    BY <1>4, <2>5, <2>6
<1>12. \A n \in 1 .. s : n > d => \E i \in S2 : ns[i] = SteerText(n)
  <2> SUFFICES ASSUME NEW n \in 1 .. s, n > d PROVE \E i \in S2 : ns[i] = SteerText(n)
    OBVIOUS
  <2>1. n - d \in 1 .. Len(q) /\ d + (n - d) = n
    BY <1>1
  <2>2. L + (n - d) \in S2 /\ ns[L + (n - d)] = SteerText(n)
    BY <1>2, <1>6, <2>1
  <2>. QED
    BY <2>2
<1>13. \A n : HasSteer(ms, n) => \E i \in S2 : ns[i] = SteerText(n)
  BY <1>5 DEF HasSteer, S
<1>14. \A n \in 1 .. d : (\E i \in S2 : ns[i] = SteerText(n)) => HasSteer(ms, n)
  <2> SUFFICES ASSUME NEW n \in 1 .. d, NEW i \in S2, ns[i] = SteerText(n)
               PROVE  HasSteer(ms, n)
    OBVIOUS
  <2>1. ASSUME NEW k \in 1 .. Len(q), ns[i] = SteerText(d + k) PROVE FALSE
    <3>1. n = d + k
      <4>1. SteerText(n) = SteerText(d + k)
        BY <2>1
      <4>2. SteerText(n).ids[1][2] = n /\ SteerText(d + k).ids[1][2] = d + k
        BY <1>3
      <4>. QED
        BY <4>1, <4>2
    <3>. QED
      BY <1>1, <3>1
  <2>2. i \in S /\ ns[i] = ms[i]
    BY <1>4, <2>1
  <2>. QED
    BY <2>2 DEF HasSteer, S
<1>15. \A n : HasSteer(ns, n) <=> \E i \in S2 : ns[i] = SteerText(n)
  BY DEF HasSteer, S2
<1>16. \A n : n \in 1 .. s => n \in 1 .. d \/ n > d
  BY <1>1
<1>17. \A m, n \in 1 .. s : m < n /\ HasSteer(ns, m) => HasSteer(ns, n)
  <2> SUFFICES ASSUME NEW m \in 1 .. s, NEW n \in 1 .. s, m < n, HasSteer(ns, m)
               PROVE  HasSteer(ns, n)
    OBVIOUS
  <2>1. CASE n > d
    BY <1>12, <1>15, <2>1
  <2>2. CASE n \in 1 .. d
    <3>1. m \in 1 .. d
      BY <1>1, <2>2
    <3>. QED
      BY <1>9, <1>13, <1>14, <1>15, <2>2, <3>1
  <2>. QED
    BY <1>16, <2>1, <2>2
<1>18. InOrder(ns, s)
  BY <1>10, <1>11, <1>17 DEF InOrder, S2
<1>19. ASSUME AllIn(ms, d) PROVE AllIn(ns, s)
  BY <1>12, <1>13, <1>15, <1>16, <1>19 DEF AllIn
<1>. QED
  BY <1>18, <1>19 DEF ns, d

\* Acting on a reply puts no steer in the conversation and takes none away.
LEMMA ActKeepsSteers ==
  ASSUME NEW ms \in Seq(Messages), Act(ms)
  PROVE  SameSteers(ms, msgs')
<1>1. msgs' = ms \/ msgs' = Append(ms, Reminder)
  BY DEF Act
<1>2. SameSteers(ms, ms)
  BY DEF SameSteers
<1>3. SameSteers(ms, Append(ms, Reminder))
  <2>1. Reminder \in Messages /\ Reminder.kind # "steer"
    BY NewMessages DEF Reminder, Message
  <2>. QED
    BY <2>1, NoSteerAppended
<1>. QED
  BY <1>1, <1>2, <1>3

LEMMA SameSteersTransitive ==
  ASSUME NEW a, NEW b, NEW c, SameSteers(a, b), SameSteers(b, c)
  PROVE  SameSteers(a, c)
BY DEF SameSteers

LEMMA LoopKeepsSteers ==
  ASSUME TypeInv, Loop, ~BeginTurn, callCount' = 0
  PROVE  callCount = 0 /\ SameSteers(msgs, msgs')
<1>1. msgs \in Seq(Messages) /\ callCount \in Nat /\ SameSteers(msgs, msgs)
  BY Limits DEF TypeInv, TypeOK, SameSteers
<1>2. CASE StopAborted \/ HitMaxTurns \/ StreamFails \/ SummaryRaises \/ CallbackRaises
           \/ AssemblyRaises
  BY <1>1, <1>2
  DEF StopAborted, HitMaxTurns, StreamFails, SummaryRaises, CallbackRaises, AssemblyRaises,
      Raise, kept
<1>3. CASE Compact
  BY <1>1, <1>3 DEF Compact, CallsOfCompact, Compacted
<1>4. CASE CompactPost
  <2>1. callCount = 0 /\ Act(msgs)
    BY <1>1, <1>4 DEF CompactPost, CallsOfCompact, Compacted
  <2>. QED
    BY <1>1, <2>1, ActKeepsSteers
<1>5. CASE StreamAnswers
  <2>1. PICK n \in 0 .. MaxCalls, text \in Texts :
          LET ms == Append(msgs, Reply(CallsOf(n), text)) IN Act(ms) \/ msgs' = ms
    BY <1>5 DEF StreamAnswers, CallsOf
  <2> DEFINE m  == Reply(CallsOf(n), text)
             ms == Append(msgs, m)
  <2>2. m \in Messages /\ m.kind # "steer"
    <3>1. CallsOf(n) \in Seq(CallIds)
      BY CallsOfType DEF TypeInv
    <3>. QED
      BY <3>1, NewMessages DEF Reply, Message
  <2>3. SameSteers(msgs, ms) /\ ms \in Seq(Messages)
    <3> HIDE DEF m
    <3>. QED
      BY <1>1, <2>2, NoSteerAppended, Appended
  <2> HIDE DEF ms
  <2>4. ASSUME Act(ms) PROVE SameSteers(msgs, msgs')
    BY <2>3, <2>4, ActKeepsSteers, SameSteersTransitive
  <2>5. ASSUME msgs' = ms PROVE SameSteers(msgs, msgs')
    BY <2>3, <2>5
  <2>6. callCount = 0
    BY <1>5 DEF StreamAnswers, kept
  <2>. QED
    BY <2>1, <2>4, <2>5, <2>6 DEF ms
<1>6. CASE ToolEnds
  <2>1. PICK outcome \in Outcomes : msgs' = msgs \o Answer(Head(calls), outcome)
    BY <1>6 DEF ToolEnds
  <2> DEFINE m   == ToolResult(Head(calls), outcome)
             ms1 == Append(msgs, m)
             ms2 == Append(ms1, Feedback)
  <2>2. m \in Messages /\ m.kind # "steer" /\ Feedback \in Messages /\ Feedback.kind # "steer"
    <3>1. Head(calls) \in CallIds
      BY <1>6 DEF ToolEnds, TypeInv, TypeOK
    <3>. QED
      BY <3>1, NewMessages DEF ToolResult, Feedback, Message
  <2>3. msgs' = IF outcome = "refused" THEN ms2 ELSE ms1
    <3>1. Answer(Head(calls), outcome)
            = <<m>> \o (IF outcome = "refused" THEN <<Feedback>> ELSE <<>>)
      BY DEF Answer
    <3> HIDE DEF m
    <3>2. \A x, y \in Messages : msgs \o (<<x>> \o <<y>>) = Append(Append(msgs, x), y)
      BY <1>1
    <3>3. \A x \in Messages : msgs \o (<<x>> \o <<>>) = Append(msgs, x)
      BY <1>1
    <3>. QED
      BY <2>1, <2>2, <3>1, <3>2, <3>3
  <2>4. SameSteers(msgs, ms1) /\ ms1 \in Seq(Messages)
    <3> HIDE DEF m
    <3>. QED
      BY <1>1, <2>2, NoSteerAppended, Appended
  <2> HIDE DEF ms1
  <2>5. SameSteers(ms1, ms2)
    BY <2>2, <2>4, NoSteerAppended
  <2> HIDE DEF ms2
  <2>6. SameSteers(msgs, msgs')
    BY <2>3, <2>4, <2>5, SameSteersTransitive
  <2>7. callCount = 0
    BY <1>6 DEF ToolEnds
  <2>. QED
    BY <2>6, <2>7
<1>. QED
  BY <1>2, <1>3, <1>4, <1>5, <1>6 DEF Loop

LEMMA SteerInit == Init => SteerInv
<1> SUFFICES ASSUME Init PROVE SteerInv
  OBVIOUS
<1>1. msgs = <<>> /\ queue = <<>> /\ sent = 0 /\ Len(<<>>) = 0 /\ pc = "idle"
  BY DEF Init
<1>2. Positions(msgs, "steer") = {}
  BY <1>1 DEF Positions
<1>3. Delivered = 0 /\ Len(queue) = 0
  <2>1. Len(queue) = 0 /\ 0 - 0 = 0
    BY <1>1
  <2>. QED
    BY <1>1, <2>1 DEF Delivered
<1>4. 1 .. 0 = {}
  OBVIOUS
<1>. QED
  BY <1>1, <1>2, <1>3, <1>4
  DEF SteerInv, QueueIsLast, SteersDelivered, InOrder, AllIn

LEMMA SteerNext ==
  ASSUME TypeInv, SteerInv, [Next]_vars
  PROVE  SteerInv'
<1>1. msgs \in Seq(Messages) /\ queue \in Seq(Messages) /\ sent \in Nat /\ Len(queue) \in Nat
      /\ runs \in Nat /\ Delivered \in Nat
  BY Limits DEF TypeInv, TypeOK, SteerInv, QueueIsLast, Delivered
<1>2. CASE Run
  <2>1. /\ msgs' = <<UserMessage>> /\ UNCHANGED <<queue, sent, callCount>> /\ runs' = runs + 1
    BY <1>2 DEF Run, kept
  <2>2. Positions(<<UserMessage>>, "steer") = {}
    BY DEF Positions, UserMessage, Message
  <2>3. \A d : InOrder(<<UserMessage>>, d)
    BY <2>2 DEF InOrder, HasSteer
  <2>4. runs' = 1 => Delivered = 0
    BY <1>1, <2>1 DEF SteerInv
  <2>5. Delivered' = Delivered /\ QueueIsLast'
    BY <2>1 DEF SteerInv, Delivered, QueueIsLast
  <2>6. 1 .. 0 = {}
    OBVIOUS
  <2>7. SteersDelivered'
    BY <2>1, <2>3, <2>4, <2>5, <2>6 DEF SteersDelivered, AllIn
  <2>. QED
    BY <1>1, <2>1, <2>5, <2>7 DEF SteerInv
<1>3. CASE Steer
  <2>1. /\ sent' = sent + 1 /\ queue' = Append(queue, SteerText(sent + 1))
        /\ UNCHANGED <<msgs, callCount, runs, pc>>
    BY <1>3 DEF Steer, kept
  <2>2. SteerText(sent + 1) \in Messages
    BY <1>1, NewMessages
  <2>3. /\ Len(queue') = Len(queue) + 1 /\ queue'[Len(queue) + 1] = SteerText(sent + 1)
        /\ \A i \in 1 .. Len(queue) : queue'[i] = queue[i]
    BY <1>1, <2>1, <2>2, Appended
  <2>4. sent' - Len(queue') = sent - Len(queue)
    BY <1>1, <2>1, <2>3
  <2>5. QueueIsLast'
    <3>1. ASSUME NEW i \in 1 .. Len(queue')
          PROVE  queue'[i] = SteerText(sent' - Len(queue') + i)
      <4>1. CASE i \in 1 .. Len(queue)
        BY <2>3, <2>4, <4>1 DEF SteerInv, QueueIsLast
      <4>2. CASE i = Len(queue) + 1
        <5>1. sent' - Len(queue') + i = sent + 1
          BY <1>1, <2>4, <4>2
        <5>. QED
          BY <2>3, <4>2, <5>1
      <4>. QED
        BY <1>1, <2>3, <4>1, <4>2
    <3>2. Len(queue') <= sent'
      BY <1>1, <2>1, <2>3 DEF SteerInv, QueueIsLast
    <3>. QED
      BY <3>1, <3>2 DEF QueueIsLast
  <2>6. Delivered' = Delivered
    BY <2>4 DEF Delivered
  <2>. QED
    BY <2>1, <2>5, <2>6 DEF SteerInv, SteersDelivered
<1>4. CASE BeginTurn
  <2>1. /\ pc = "head" /\ msgs' = msgs \o queue /\ queue' = <<>>
        /\ UNCHANGED <<sent, callCount, runs>>
    BY <1>4 DEF BeginTurn, kept
  <2>2. runs # 0
    BY <2>1 DEF SteerInv
  <2>3. Len(queue') = 0 /\ Delivered' = sent
    BY <1>1, <2>1 DEF Delivered
  <2>4. QueueIsLast'
    BY <1>1, <2>1, <2>3 DEF QueueIsLast
  <2>5. callCount = 0 => InOrder(msgs \o queue, sent) /\ (runs = 1 => AllIn(msgs \o queue, sent))
    BY <1>1, QueueAppended DEF SteerInv, QueueIsLast, SteersDelivered, Delivered
  <2>. QED
    BY <2>1, <2>2, <2>3, <2>4, <2>5 DEF SteerInv, SteersDelivered
<1>5. CASE Loop /\ ~BeginTurn
  <2>1. UNCHANGED <<queue, sent, runs>> /\ pc # "idle"
    BY <1>5 DEF Loop, StopAborted, HitMaxTurns, StreamFails, SummaryRaises, CallbackRaises,
                AssemblyRaises, Raise, Compact, CompactPost, StreamAnswers, ToolEnds, user
  <2>2. callCount' = 0 => callCount = 0 /\ SameSteers(msgs, msgs')
    BY <1>5, LoopKeepsSteers
  <2>3. Delivered' = Delivered /\ QueueIsLast'
    BY <2>1 DEF SteerInv, Delivered, QueueIsLast
  <2>4. callCount' = 0 => SteersDelivered'
    BY <2>1, <2>2, <2>3, SameSteersKept DEF SteerInv, SteersDelivered
  <2>. QED
    BY <2>1, <2>3, <2>4 DEF SteerInv
<1>6. CASE Abort \/ UNCHANGED vars
  BY <1>6 DEF Abort, vars, kept, SteerInv, QueueIsLast, SteersDelivered, Delivered
<1>. QED
  BY <1>2, <1>3, <1>4, <1>5, <1>6 DEF Next

-----------------------------------------------------------------------------
(* The theorems.                                                            *)

\* Types, the conversation and the steers hold together in every state the
\* loop reaches (AIAgentLoop.run with its queue, compactor and checkpointer).
THEOREM Invariant == Spec => []IInv
<1>1. Init => IInv
  BY TypeInit, ConversationInit, ResultsInit, SteerInit DEF IInv
<1>2. IInv /\ [Next]_vars => IInv'
  BY TypeNext, ConversationNext, ResultsNext, SteerNext DEF IInv
<1>. QED
  BY <1>1, <1>2, PTL DEF Spec

LEMMA PairedIsWellFormed ==
  ASSUME NEW ms, Paired(ms, <<>>), ResultsFollow(ms)
  PROVE  WellFormed(ms)
<1>1. \A i \in Positions(ms, "assistant") : \A k \in 1 .. Len(ms[i].ids) : Answered(ms, i, k)
  <2>1. ~ \E n \in 1 .. Len(<<>>) : TRUE
    OBVIOUS
  <2>. QED
    BY <2>1 DEF Paired
<1>2. \A j \in Positions(ms, "tool") : Belongs(ms, j)
  BY DEF Paired
<1>. QED
  BY <1>1, <1>2 DEF WellFormed, Answered, Belongs

LEMMA RequestIsWellFormed ==
  ASSUME IInv, callCount = 0, pc \in {"streaming", "returned"}
  PROVE  WellFormed(msgs)
<1>1. Pending = <<>> /\ Uncut
  BY DEF Pending, Uncut
<1>2. Paired(msgs, <<>>) /\ ResultsFollow(msgs)
  BY <1>1 DEF IInv, ConversationInv, ResultsInv, CallsPaired
<1>. QED
  BY <1>2, PairedIsWellFormed

\* Every request the loop makes, and every conversation it returns, answers
\* each call once, in its turn, and nothing else, with nothing but explanations
\* of refused calls between the results, until a compaction has cut the
\* conversation (the messages AIAgentLoop.run appends).
THEOREM ConversationAlwaysWellFormed == Spec => []ConversationWellFormed
<1>1. IInv => ConversationWellFormed
  BY RequestIsWellFormed DEF ConversationWellFormed
<1>. QED
  BY <1>1, Invariant, PTL

\* A run stopped at max_turns made tool calls in its last turn: an answer in
\* words is never reported as a run cut off (the guard of the reminder).
THEOREM CapNeverHidesAnswer == Spec => []CapHidesNoAnswer
<1>1. IInv => CapHidesNoAnswer
  <2> SUFFICES ASSUME IInv, callCount = 0, pc = "returned", result.reason = "max_turns",
                      NEW i \in Positions(msgs, "assistant"),
                      \A j \in Positions(msgs, "assistant") : j <= i
               PROVE  msgs[i].ids # <<>>
    BY DEF CapHidesNoAnswer
  <2>1. LimitCutsCalls
    BY DEF IInv, ConversationInv, Uncut
  <2>2. LastReply(msgs, i) /\ i \in 1 .. Len(msgs)
    BY DEF LastReply, Positions
  <2>. QED
    BY <2>1, <2>2 DEF LimitCutsCalls
<1>. QED
  BY <1>1, Invariant, PTL

\* The circuit breaker ends a run after three turns in a row all of whose calls
\* failed, and after nothing less (consecutive_invalid_turns).
THEOREM BreakerAlwaysExact == Spec => []BreakerIsExact
<1>1. IInv => BreakerIsExact
  <2> SUFFICES ASSUME IInv, callCount = 0
               PROVE  /\ pc = "streaming" => ~ThreeFailed(msgs)
                      /\ pc = "returned" /\ result.reason = "circuit_breaker" => ThreeFailed(msgs)
    BY DEF BreakerIsExact
  <2>1. msgs \in Seq(Messages) /\ invalidTurns \in Nat
        /\ (pc = "streaming" => invalidTurns < CircuitBreaker)
    BY DEF IInv, TypeInv, TypeOK, Live
  <2>2. CASE pc \in {"streaming", "returned"}
    <3>1. FailuresCounted /\ ReplyIsOpen = FALSE
      BY <2>2 DEF IInv, ConversationInv, Uncut, ReplyIsOpen
    <3>2. Counted(msgs, FALSE, invalidTurns)
      BY <3>1 DEF FailuresCounted
    <3>3. /\ invalidTurns < CircuitBreaker => ~ThreeFailed(msgs)
          /\ invalidTurns = CircuitBreaker => ThreeFailed(msgs)
      BY <2>1, <3>2, CountTellsFailures
    <3>. QED
      BY <2>1, <3>1, <3>3 DEF FailuresCounted
  <2>. QED
    BY <2>2
<1>. QED
  BY <1>1, Invariant, PTL

\* What the user injects reaches the conversation in order, none twice, and in
\* the first run none is lost (SteerQueue.put and the drain at a turn's head).
THEOREM SteersAlwaysInOrder == Spec => []SteersKeepOrder
<1>1. IInv => SteersKeepOrder
  <2> SUFFICES ASSUME IInv, callCount = 0 PROVE SteersKeepOrder
    BY DEF SteersKeepOrder
  <2> DEFINE all == msgs \o queue
  <2>1. msgs \in Seq(Messages) /\ queue \in Seq(Messages) /\ sent \in Nat
    BY Limits DEF IInv, TypeInv, TypeOK
  <2>2. /\ InOrder(all, sent)
        /\ runs = 1 => AllIn(all, sent)
    BY <2>1, QueueAppended DEF IInv, SteerInv, QueueIsLast, SteersDelivered, Delivered
  <2> HIDE DEF all
  <2>3. /\ \A i, j \in Positions(all, "steer") : i < j => all[i].ids[1][2] < all[j].ids[1][2]
        /\ \A m, n \in 1 .. sent : m < n /\ HasSteer(all, m) => HasSteer(all, n)
        /\ runs = 1 => \A n \in 1 .. sent : HasSteer(all, n)
    BY <2>2 DEF InOrder, AllIn
  <2>. QED
    BY <2>3, Zenon DEF SteersKeepOrder, HasSteer, all
<1>. QED
  BY <1>1, Invariant, PTL

-----------------------------------------------------------------------------
(* The end of a run.  StepsLeft by the place, the turn and the number of    *)
(* calls: a turn to come weighs as much as the steps it may take.           *)

Left(p, t, n) ==
  IF p \in {"idle", "returned", "raised"} THEN 0
  ELSE 1 + (Cap - t) * (MaxCalls + 4)
         + CASE p = "head"            -> 0
             [] p = "tools"           -> n
             [] p = "compacting_post" -> MaxCalls + 1
             [] p = "streaming"       -> MaxCalls + 2
             [] p = "compacting"      -> MaxCalls + 3

LEMMA StepsLeftIs ==
  ASSUME TypeOK, TypeOK'
  PROVE
  /\ StepsLeft = Left(pc, turn, Len(calls))
  /\ StepsLeft' = Left(pc', turn', Len(calls'))
<1>0. LET Places == {"idle", "head", "compacting", "streaming", "compacting_post", "tools",
                     "returned", "raised"}
      IN  pc \in Places /\ pc' \in Places
  BY DEF TypeOK
<1>1. /\ Live <=> pc \notin {"idle", "returned", "raised"}
      /\ Live' <=> pc' \notin {"idle", "returned", "raised"}
  BY DEF Live
<1>2. StepsLeft = Left(pc, turn, Len(calls))
  <2>1. CASE Live
    BY <1>0, <1>1, <2>1 DEF StepsLeft, Left
  <2>2. CASE ~Live
    BY <1>1, <2>2 DEF StepsLeft, Left
  <2>. QED
    BY <2>1, <2>2
<1>3. StepsLeft' = Left(pc', turn', Len(calls'))
  <2>1. CASE Live'
    BY <1>0, <1>1, <2>1 DEF StepsLeft, Left
  <2>2. CASE ~Live'
    BY <1>1, <2>2 DEF StepsLeft, Left
  <2>. QED
    BY <2>1, <2>2
<1>. QED
  BY <1>2, <1>3

LEMMA LeftInTurn ==
  ASSUME NEW t \in 0 .. Cap, NEW n \in Nat
  PROVE  LET worth == (Cap - t) * (MaxCalls + 4) IN
         /\ worth \in Nat
         /\ Left("head", t, n) = 1 + worth
         /\ Left("tools", t, n) = 1 + worth + n
         /\ Left("compacting_post", t, n) = 1 + worth + MaxCalls + 1
         /\ Left("streaming", t, n) = 1 + worth + MaxCalls + 2
         /\ Left("compacting", t, n) = 1 + worth + MaxCalls + 3
         /\ \A p \in {"idle", "returned", "raised"} : Left(p, t, n) = 0
<1> DEFINE worth == (Cap - t) * (MaxCalls + 4)
<1>1. Cap - t \in Nat /\ MaxCalls + 4 \in Nat /\ MaxCalls \in Nat
  BY Limits
<1>2. worth \in Nat
  BY <1>1
<1> HIDE DEF worth
<1>3. \A p : Left(p, t, n) =
        IF p \in {"idle", "returned", "raised"} THEN 0
        ELSE 1 + worth
               + CASE p = "head"            -> 0
                   [] p = "tools"           -> n
                   [] p = "compacting_post" -> MaxCalls + 1
                   [] p = "streaming"       -> MaxCalls + 2
                   [] p = "compacting"      -> MaxCalls + 3
  BY DEF Left, worth
<1>4. /\ Left("head", t, n) = 1 + worth
      /\ Left("tools", t, n) = 1 + worth + n
      /\ Left("compacting_post", t, n) = 1 + worth + MaxCalls + 1
      /\ Left("streaming", t, n) = 1 + worth + MaxCalls + 2
      /\ Left("compacting", t, n) = 1 + worth + MaxCalls + 3
      /\ \A p \in {"idle", "returned", "raised"} : Left(p, t, n) = 0
  BY <1>1, <1>2, <1>3
<1>. QED
  BY <1>2, <1>4 DEF worth

LEMMA NextTurnIsWorthLess ==
  ASSUME NEW t \in 0 .. Cap, t < Cap
  PROVE  (Cap - t) * (MaxCalls + 4) = (Cap - (t + 1)) * (MaxCalls + 4) + MaxCalls + 4
<1>1. \A a, w \in Nat : (a + 1) * w = a * w + w
  OBVIOUS
<1>2. PICK a \in Nat : a = Cap - (t + 1)
  BY Limits
<1>3. Cap - t = a + 1 /\ MaxCalls + 4 \in Nat
  BY <1>2, Limits
<1>4. (a + 1) * (MaxCalls + 4) = a * (MaxCalls + 4) + (MaxCalls + 4)
  BY <1>1, <1>3
<1>5. a * (MaxCalls + 4) \in Nat /\ MaxCalls \in Nat
  BY <1>3, Limits
<1>. QED
  BY <1>2, <1>3, <1>4, <1>5

\* No reply makes more calls than a reply may.
FewCalls ==
  /\ pc = "tools" => Len(calls) <= MaxCalls
  /\ pc = "compacting_post" => Len(LastOf(msgs).ids) <= MaxCalls

LEMMA CompactedLast ==
  ASSUME NEW ms \in Seq(Messages), ms # <<>>
  PROVE  LastOf(Compacted(ms)) \in {LastOf(ms), Summary}
<1>1. CASE TooShort(ms)
  BY <1>1 DEF Compacted
<1>2. CASE ~TooShort(ms)
  <2>1. KeepLast \in Nat /\ Len(ms) \in Nat /\ Len(ms) > KeepLast + 1
    BY <1>2, Limits DEF TooShort
  <2> DEFINE head == IF ms[1].kind = "system" THEN <<ms[1]>> ELSE <<>>
             tail == SubSeq(ms, Len(ms) - KeepLast + 1, Len(ms))
             hs   == head \o <<Summary>>
  <2>2. head \in Seq(Messages) /\ <<Summary>> \in Seq(Messages)
    BY <2>1, NewMessages
  <2>3. tail \in Seq(Messages) /\ Len(tail) = KeepLast
        /\ (KeepLast >= 1 => tail[KeepLast] = ms[Len(ms)])
    BY <2>1
  <2>4. Compacted(ms) = hs \o tail
    BY <1>2 DEF Compacted
  <2> HIDE DEF head, tail
  <2>5. hs \in Seq(Messages) /\ Len(hs) = Len(head) + 1 /\ Len(head) \in Nat
        /\ hs[Len(hs)] = Summary
    BY <2>2
  <2> HIDE DEF hs
  <2>6. CASE KeepLast = 0
    <3>1. hs \o tail = hs
      BY <2>3, <2>5, <2>6
    <3>. QED
      BY <2>4, <2>5, <3>1 DEF LastOf
  <2>7. CASE KeepLast >= 1
    <3>1. Len(hs \o tail) = Len(hs) + KeepLast /\ Len(hs) \in Nat
      BY <2>1, <2>3, <2>5
    <3>2. (hs \o tail)[Len(hs) + KeepLast] = tail[KeepLast]
      <4>1. /\ Len(hs) + KeepLast \in 1 .. Len(hs) + Len(tail)
            /\ Len(hs) + KeepLast > Len(hs)
            /\ Len(hs) + KeepLast - Len(hs) = KeepLast
        BY <2>1, <2>3, <2>7, <3>1
      <4>2. (hs \o tail)[Len(hs) + KeepLast] = tail[Len(hs) + KeepLast - Len(hs)]
        BY <2>3, <2>5, <4>1
      <4>. QED
        BY <4>1, <4>2
    <3>. QED
      BY <2>3, <2>4, <2>7, <3>1, <3>2 DEF LastOf
  <2>. QED
    BY <2>1, <2>6, <2>7
<1>. QED
  BY <1>1, <1>2

LEMMA ActsOnFewCalls ==
  ASSUME NEW ms, Act(ms), Len(LastOf(ms).ids) <= MaxCalls
  PROVE  FewCalls'
BY DEF Act, FewCalls, Return

LEMMA ReplyHasFewCalls ==
  ASSUME TypeInv, NEW n \in 0 .. MaxCalls, NEW text \in Texts
  PROVE  Len(LastOf(Append(msgs, Reply(CallsOf(n), text))).ids) <= MaxCalls
<1>1. CallsOf(n) \in Seq(CallIds) /\ Len(CallsOf(n)) = n /\ n <= MaxCalls
  BY CallsOfType, Limits DEF TypeInv
<1>2. Reply(CallsOf(n), text) \in Messages /\ Reply(CallsOf(n), text).ids = CallsOf(n)
  BY <1>1, NewMessages DEF Reply, Message
<1>3. msgs \in Seq(Messages)
  BY DEF TypeInv, TypeOK
<1>. QED
  BY <1>1, <1>2, <1>3, Appended

LEMMA CompactedHasFewCalls ==
  ASSUME TypeInv, FewCalls, pc = "compacting_post", NEW ms \in {msgs, Compacted(msgs)}
  PROVE  Len(LastOf(ms).ids) <= MaxCalls
<1>1. msgs \in Seq(Messages) /\ msgs # <<>> /\ Len(LastOf(msgs).ids) <= MaxCalls
  BY DEF TypeInv, TypeOK, TurnBegun, FewCalls
<1>2. LastOf(ms) \in {LastOf(msgs), Summary}
  BY <1>1, CompactedLast
<1>3. Len(Summary.ids) = 0
  BY DEF Summary, Message
<1>. QED
  BY <1>1, <1>2, <1>3, Limits

LEMMA FewCallsNext ==
  ASSUME TypeInv, FewCalls, [Next]_vars
  PROVE  FewCalls'
<1>1. CASE StreamAnswers
  <2>1. PICK n \in 0 .. MaxCalls, text \in Texts :
          LET ms == Append(msgs, Reply(CallsOf(n), text)) IN
            Act(ms) \/ (pc' = "compacting_post" /\ msgs' = ms)
    BY <1>1 DEF StreamAnswers, CallsOf
  <2> DEFINE ms == Append(msgs, Reply(CallsOf(n), text))
  <2>2. Len(LastOf(ms).ids) <= MaxCalls
    BY ReplyHasFewCalls
  <2> HIDE DEF ms
  <2>3. CASE Act(ms)
    BY <2>2, <2>3, ActsOnFewCalls
  <2>4. CASE pc' = "compacting_post" /\ msgs' = ms
    BY <2>2, <2>4 DEF FewCalls
  <2>. QED
    BY <2>1, <2>3, <2>4 DEF ms
<1>2. CASE CompactPost
  <2>1. PICK ms \in {msgs, Compacted(msgs)} : Act(ms)
    BY <1>2 DEF CompactPost
  <2>2. Len(LastOf(ms).ids) <= MaxCalls
    BY <1>2, <2>1, CompactedHasFewCalls DEF CompactPost
  <2>. QED
    BY <2>1, <2>2, ActsOnFewCalls
<1>3. CASE ToolEnds
  <2>1. pc = "tools" /\ calls \in Seq(CallIds) /\ calls # <<>> /\ Len(calls) <= MaxCalls
        /\ calls' = Tail(calls) /\ pc' \in {"tools", "head", "returned"}
    BY <1>3 DEF ToolEnds, EndTurn, Return, TypeInv, TypeOK, FewCalls
  <2>2. Len(calls') = Len(calls) - 1 /\ Len(calls) \in Nat /\ MaxCalls \in Nat
    BY <2>1, Limits
  <2>. QED
    BY <2>1, <2>2 DEF FewCalls
<1>4. CASE Run \/ BeginTurn \/ Compact \/ StopAborted \/ HitMaxTurns \/ StreamFails
           \/ SummaryRaises \/ CallbackRaises \/ AssemblyRaises
  BY <1>4 DEF Run, BeginTurn, Compact, StopAborted, HitMaxTurns, StreamFails,
              SummaryRaises, CallbackRaises, AssemblyRaises, Raise, Return, FewCalls
<1>5. CASE Steer \/ Abort \/ UNCHANGED vars
  BY <1>5 DEF Steer, Abort, vars, FewCalls
<1>. QED
  BY <1>1, <1>2, <1>3, <1>4, <1>5 DEF Next, Loop

\* What a step of the loop leaves of the run, action by action.
LEMMA LoopShortens ==
  ASSUME TypeInv, TypeInv', FewCalls, Loop
  PROVE  StepsLeft' < StepsLeft
<1> DEFINE W(t) == (Cap - t) * (MaxCalls + 4)
<1>1. StepsLeft = Left(pc, turn, Len(calls)) /\ StepsLeft' = Left(pc', turn', Len(calls'))
  BY StepsLeftIs DEF TypeInv
<1>2. turn \in 0 .. Cap /\ Len(calls) \in Nat /\ turn' \in 0 .. Cap /\ Len(calls') \in Nat
      /\ MaxCalls \in Nat /\ Cap \in Nat
  <2>1. turn \in 0 .. Cap /\ turn' \in 0 .. Cap
    BY DEF TypeInv, TypeOK
  <2>2. calls \in Seq(CallIds) /\ calls' \in Seq(CallIds)
    BY DEF TypeInv, TypeOK
  <2>3. Len(calls) \in Nat /\ Len(calls') \in Nat
    BY <2>2
  <2>. QED
    BY <2>1, <2>3, Limits
<1>3. \A t \in 0 .. Cap, n \in Nat :
        /\ W(t) \in Nat
        /\ Left("head", t, n) = 1 + W(t)
        /\ Left("tools", t, n) = 1 + W(t) + n
        /\ Left("compacting_post", t, n) = 1 + W(t) + MaxCalls + 1
        /\ Left("streaming", t, n) = 1 + W(t) + MaxCalls + 2
        /\ Left("compacting", t, n) = 1 + W(t) + MaxCalls + 3
        /\ \A p \in {"idle", "returned", "raised"} : Left(p, t, n) = 0
  BY LeftInTurn, Zenon
<1>4. turn < Cap => W(turn) = W(turn + 1) + MaxCalls + 4
  BY <1>2, NextTurnIsWorthLess
<1> HIDE DEF W
<1>placesNow.  /\ W(turn) \in Nat
               /\ Left("head", turn, Len(calls)) = 1 + W(turn)
               /\ Left("tools", turn, Len(calls)) = 1 + W(turn) + Len(calls)
               /\ Left("compacting_post", turn, Len(calls)) = 1 + W(turn) + MaxCalls + 1
               /\ Left("streaming", turn, Len(calls)) = 1 + W(turn) + MaxCalls + 2
               /\ Left("compacting", turn, Len(calls)) = 1 + W(turn) + MaxCalls + 3
  BY <1>2, <1>3, Zenon
<1>placesThen. /\ W(turn') \in Nat
               /\ Left("head", turn', Len(calls')) = 1 + W(turn')
               /\ Left("tools", turn', Len(calls')) = 1 + W(turn') + Len(calls')
               /\ Left("compacting_post", turn', Len(calls')) = 1 + W(turn') + MaxCalls + 1
               /\ Left("streaming", turn', Len(calls')) = 1 + W(turn') + MaxCalls + 2
               /\ Left("compacting", turn', Len(calls')) = 1 + W(turn') + MaxCalls + 3
               /\ \A p \in {"idle", "returned", "raised"} : Left(p, turn', Len(calls')) = 0
  BY <1>2, <1>3, Zenon
<1>now. /\ W(turn) \in Nat
        /\ pc = "head" => StepsLeft = 1 + W(turn)
        /\ pc = "tools" => StepsLeft = 1 + W(turn) + Len(calls)
        /\ pc = "compacting_post" => StepsLeft = 1 + W(turn) + MaxCalls + 1
        /\ pc = "streaming" => StepsLeft = 1 + W(turn) + MaxCalls + 2
        /\ pc = "compacting" => StepsLeft = 1 + W(turn) + MaxCalls + 3
  BY <1>1, <1>placesNow
<1>then. /\ W(turn') \in Nat
         /\ pc' = "head" => StepsLeft' = 1 + W(turn')
         /\ pc' = "tools" => StepsLeft' = 1 + W(turn') + Len(calls')
         /\ pc' = "compacting_post" => StepsLeft' = 1 + W(turn') + MaxCalls + 1
         /\ pc' = "streaming" => StepsLeft' = 1 + W(turn') + MaxCalls + 2
         /\ pc' = "compacting" => StepsLeft' = 1 + W(turn') + MaxCalls + 3
         /\ pc' \in {"idle", "returned", "raised"} => StepsLeft' = 0
  BY <1>1, <1>placesThen
<1>5. CASE StopAborted \/ HitMaxTurns
  <2>1. pc = "head" /\ pc' = "returned"
    BY <1>5 DEF StopAborted, HitMaxTurns, Return
  <2>. QED
    BY <1>2, <1>now, <1>then, <2>1
<1>6. CASE BeginTurn
  <2>1. pc = "head" /\ turn < Cap /\ turn' = turn + 1 /\ pc' \in {"streaming", "compacting"}
    BY <1>6 DEF BeginTurn
  <2>2. StepsLeft = 1 + W(turn + 1) + MaxCalls + 4
    BY <1>2, <1>now, <1>then, <1>4, <2>1
  <2>3. W(turn + 1) \in Nat
        /\ StepsLeft' \in {1 + W(turn + 1) + MaxCalls + 2, 1 + W(turn + 1) + MaxCalls + 3}
    BY <1>2, <1>now, <1>then, <2>1
  <2>. QED
    BY <1>2, <2>2, <2>3
<1>7. CASE Compact
  <2>1. pc = "compacting" /\ pc' = "streaming" /\ turn' = turn
    BY <1>7 DEF Compact
  <2>. QED
    BY <1>2, <1>now, <1>then, <2>1
<1>8. CASE SummaryRaises \/ CallbackRaises \/ AssemblyRaises
  <2>1. pc \in {"compacting", "compacting_post", "streaming", "tools"} /\ pc' = "raised"
    BY <1>8 DEF SummaryRaises, CallbackRaises, AssemblyRaises, Raise
  <2>. QED
    BY <1>2, <1>now, <1>then, <2>1
<1>9. CASE StreamFails
  <2>1. pc = "streaming" /\ pc' = "returned"
    BY <1>9 DEF StreamFails, Return
  <2>. QED
    BY <1>2, <1>now, <1>then, <2>1
<1>10. ASSUME NEW ms, Act(ms), Len(LastOf(ms).ids) <= MaxCalls, turn' = turn,
              pc \in {"streaming", "compacting_post"}
       PROVE  StepsLeft' < StepsLeft
  <2>1. pc' \in {"raised", "head", "returned"} \/ (pc' = "tools" /\ Len(calls') <= MaxCalls)
    BY <1>10 DEF Act, Return
  <2>2. StepsLeft \in {1 + W(turn) + MaxCalls + 1, 1 + W(turn) + MaxCalls + 2} /\ W(turn) \in Nat
    BY <1>2, <1>now, <1>then, <1>10
  <2>3. CASE pc' \in {"raised", "head", "returned"}
    <3>1. StepsLeft' \in {0, 1 + W(turn)}
      BY <1>2, <1>now, <1>then, <1>10, <2>3
    <3>. QED
      BY <1>2, <2>2, <3>1
  <2>4. CASE pc' = "tools" /\ Len(calls') <= MaxCalls
    <3>1. StepsLeft' = 1 + W(turn) + Len(calls')
      BY <1>2, <1>now, <1>then, <1>10, <2>4
    <3>. QED
      BY <1>2, <2>2, <2>4, <3>1
  <2>. QED
    BY <2>1, <2>3, <2>4
<1>11. CASE StreamAnswers
  <2>1. PICK n \in 0 .. MaxCalls, text \in Texts :
          LET ms == Append(msgs, Reply(CallsOf(n), text)) IN
            Act(ms) \/ pc' = "compacting_post"
    BY <1>11 DEF StreamAnswers, CallsOf
  <2>2. pc = "streaming" /\ turn' = turn
    BY <1>11 DEF StreamAnswers
  <2> DEFINE ms == Append(msgs, Reply(CallsOf(n), text))
  <2>3. Len(LastOf(ms).ids) <= MaxCalls
    BY <1>2, ReplyHasFewCalls DEF TypeInv
  <2> HIDE DEF ms
  <2>4. CASE Act(ms)
    BY <1>10, <2>2, <2>3, <2>4
  <2>5. CASE pc' = "compacting_post"
    BY <1>2, <1>now, <1>then, <2>2, <2>5
  <2>. QED
    BY <2>1, <2>4, <2>5 DEF ms
<1>12. CASE CompactPost
  <2>1. PICK ms \in {msgs, Compacted(msgs)} : Act(ms)
    BY <1>12 DEF CompactPost
  <2>2. Len(LastOf(ms).ids) <= MaxCalls
    BY <1>12, <2>1, CompactedHasFewCalls DEF CompactPost
  <2>3. pc = "compacting_post" /\ turn' = turn
    BY <1>12 DEF CompactPost
  <2>. QED
    BY <1>10, <2>1, <2>2, <2>3
<1>13. CASE ToolEnds
  <2>1. pc = "tools" /\ turn' = turn /\ calls \in Seq(CallIds) /\ calls # <<>>
        /\ calls' = Tail(calls) /\ pc' \in {"tools", "head", "returned"}
    BY <1>13 DEF ToolEnds, EndTurn, Return, TypeInv, TypeOK
  <2>2. Len(calls') = Len(calls) - 1 /\ Len(calls) \in Nat /\ Len(calls) >= 1
    BY <2>1
  <2>3. StepsLeft = 1 + W(turn) + Len(calls) /\ W(turn) \in Nat
    BY <1>2, <1>now, <1>then, <2>1
  <2>4. StepsLeft' \in {0, 1 + W(turn), 1 + W(turn) + Len(calls')}
    BY <1>2, <1>now, <1>then, <2>1
  <2>. QED
    BY <2>2, <2>3, <2>4
<1>. QED
  BY <1>5, <1>6, <1>7, <1>8, <1>9, <1>11, <1>12, <1>13 DEF Loop

\* A run of the loop ends after a number of steps that the limits fix: each step
\* uses one up, and neither the user nor the model can give one back (the turns,
\* the calls of a reply and the compactions of AIAgentLoop.run).
THEOREM RunAlwaysBounded == Spec => RunIsBounded /\ [](StepsLeft \in Nat)
<1>1. Init => FewCalls
  BY DEF Init, FewCalls
<1>2. TypeInv /\ FewCalls /\ [Next]_vars => FewCalls'
  BY FewCallsNext
<1>3. TypeInv /\ TypeInv' /\ FewCalls /\ [Next]_vars
        => [IF Loop THEN StepsLeft' < StepsLeft ELSE Run \/ StepsLeft' = StepsLeft]_vars
  <2> SUFFICES ASSUME TypeInv, TypeInv', FewCalls, [Next]_vars, ~Loop, ~Run
               PROVE  StepsLeft' = StepsLeft
    BY LoopShortens, Zenon
  <2>1. pc' = pc /\ turn' = turn /\ calls' = calls
    BY DEF Next, Steer, Abort, vars
  <2>. QED
    BY <2>1, StepsLeftIs DEF TypeInv
<1>4. TypeInv => StepsLeft \in Nat
  <2> SUFFICES ASSUME TypeInv PROVE StepsLeft \in Nat
    OBVIOUS
  <2>1. turn \in 0 .. Cap /\ Len(calls) \in Nat /\ MaxCalls \in Nat
        /\ pc \in {"idle", "head", "compacting", "streaming", "compacting_post", "tools",
                   "returned", "raised"}
    BY Limits DEF TypeInv, TypeOK
  <2> DEFINE worth == (Cap - turn) * (MaxCalls + 4)
  <2>2. worth \in Nat /\ Cap \in Nat
    BY <2>1, LeftInTurn, Limits
  <2> HIDE DEF worth
  <2>3. CASE Live
    <3>1. StepsLeft = 1 + worth + CASE pc = "head"            -> 0
                                    [] pc = "tools"           -> Len(calls)
                                    [] pc = "compacting_post" -> MaxCalls + 1
                                    [] pc = "streaming"       -> MaxCalls + 2
                                    [] pc = "compacting"      -> MaxCalls + 3
      BY <2>3 DEF StepsLeft, worth
    <3>. QED
      BY <2>1, <2>2, <2>3, <3>1 DEF Live
  <2>4. CASE ~Live
    BY <2>4 DEF StepsLeft
  <2>. QED
    BY <2>3, <2>4
<1>5. TypeInv /\ [Next]_vars => TypeInv'
  BY TypeNext
<1>. QED
  BY <1>1, <1>2, <1>3, <1>4, <1>5, TypeInit, PTL DEF Spec, RunIsBounded

-----------------------------------------------------------------------------
(* The checkpoint.                                                          *)

AllButLast(ms) == SubSeq(ms, 1, Len(ms) - 1)

LacksOnlyResults(c) ==
  c # <<>> => LastOf(c).kind = "assistant" /\ WellFormed(AllButLast(c))

Begins(c, ms) == Len(c) <= Len(ms) /\ \A i \in 1 .. Len(c) : c[i] = ms[i]

\* Besides the checkpoint itself: in the first run it begins the conversation,
\* and so does what comes before a reply that is not saved yet.
CheckpointInv ==
  /\ callCount = 0 => LacksOnlyResults(checkpoint)
  /\ callCount = 0 /\ runs <= 1 => Begins(checkpoint, msgs)
  /\ callCount = 0 /\ pc = "compacting_post" => WellFormed(AllButLast(msgs))
  /\ runs = 0 => checkpoint = <<>>

LEMMA BeginsLonger ==
  ASSUME NEW c \in Seq(Messages), NEW ms \in Seq(Messages), NEW more \in Seq(Messages),
         Begins(c, ms)
  PROVE  Begins(c, ms \o more)
<1>1. Len(ms \o more) = Len(ms) + Len(more) /\ Len(ms) \in Nat /\ Len(more) \in Nat
      /\ Len(c) \in Nat
  OBVIOUS
<1>2. ASSUME NEW i \in 1 .. Len(c) PROVE (ms \o more)[i] = ms[i]
  BY <1>1, <1>2 DEF Begins
<1>. QED
  BY <1>1, <1>2 DEF Begins

LEMMA BeginsAppended ==
  ASSUME NEW c \in Seq(Messages), NEW ms \in Seq(Messages), NEW m \in Messages, Begins(c, ms)
  PROVE  Begins(c, Append(ms, m))
<1>1. Len(c) \in Nat
  OBVIOUS
<1>. QED
  BY <1>1, Appended DEF Begins

LEMMA AllButLastAppended ==
  ASSUME NEW ms \in Seq(Messages), NEW m \in Messages
  PROVE  AllButLast(Append(ms, m)) = ms
<1> DEFINE n == Len(ms)
<1>1. n \in Nat /\ Len(Append(ms, m)) - 1 = n
      /\ \A i \in 1 .. n : Append(ms, m)[i] = ms[i]
  BY Appended
<1>2. AllButLast(Append(ms, m)) = [i \in 1 .. n |-> Append(ms, m)[i]]
  BY <1>1, Appended DEF AllButLast
<1>3. ms = [i \in 1 .. n |-> ms[i]]
  OBVIOUS
<1> HIDE DEF n
<1>. QED
  BY <1>1, <1>2, <1>3

\* What is saved is the conversation up to the reply.
LEMMA ActSaves ==
  ASSUME NEW ms \in Seq(Messages), ms # <<>>, checkpoint \in Seq(Messages), Act(ms),
         LastOf(ms).kind = "assistant", WellFormed(AllButLast(ms)),
         LacksOnlyResults(checkpoint)
  PROVE  /\ LacksOnlyResults(checkpoint')
         /\ Begins(checkpoint, ms) => Begins(checkpoint', msgs')
         /\ pc' # "compacting_post"
<1>1. /\ checkpoint' \in {ms, checkpoint}
      /\ msgs' \in {ms, Append(ms, Reminder)}
      /\ pc' # "compacting_post"
  BY DEF Act, Save, Return
<1>2. Begins(ms, ms)
  <2>1. Len(ms) \in Nat
    OBVIOUS
  <2>. QED
    BY <2>1 DEF Begins
<1>3. Begins(checkpoint, ms) => Begins(checkpoint', ms) /\ checkpoint' \in Seq(Messages)
  BY <1>1, <1>2
<1>4. Reminder \in Messages
  BY NewMessages
<1>. QED
  BY <1>1, <1>3, <1>4, BeginsAppended DEF LacksOnlyResults

LEMMA CheckpointNext ==
  ASSUME IInv, CheckpointInv, [Next]_vars
  PROVE  CheckpointInv'
<1>1. msgs \in Seq(Messages) /\ checkpoint \in Seq(Messages) /\ queue \in Seq(Messages)
      /\ callCount \in Nat /\ runs \in Nat
  BY Limits DEF IInv, TypeInv, TypeOK
<1>2. CASE Run
  <2>1. UNCHANGED <<callCount, checkpoint>> /\ pc' = "head" /\ runs' = runs + 1
    BY <1>2 DEF Run, kept
  <2>2. runs' <= 1 => checkpoint = <<>>
    BY <1>1, <2>1 DEF CheckpointInv
  <2>3. runs' <= 1 => Begins(checkpoint', msgs')
    <3>1. ASSUME runs' <= 1 PROVE Len(checkpoint') = 0 /\ msgs' = <<UserMessage>>
      BY <1>2, <2>1, <2>2, <3>1 DEF Run
    <3>2. Len(<<UserMessage>>) = 1
      OBVIOUS
    <3>. QED
      BY <3>1, <3>2 DEF Begins
  <2>. QED
    BY <1>1, <2>1, <2>3 DEF CheckpointInv
<1>3. CASE Steer \/ Abort \/ StopAborted \/ HitMaxTurns \/ StreamFails \/ SummaryRaises
           \/ CallbackRaises \/ AssemblyRaises \/ UNCHANGED vars
  <2>1. UNCHANGED <<callCount, checkpoint, runs, msgs>>
        /\ (pc' = "compacting_post" => pc = "compacting_post")
    BY <1>3 DEF Steer, Abort, StopAborted, HitMaxTurns, StreamFails, SummaryRaises,
                CallbackRaises, AssemblyRaises, Raise, Return, kept, vars
  <2>. QED
    BY <2>1 DEF CheckpointInv
<1>4. CASE BeginTurn
  <2>1. UNCHANGED <<callCount, checkpoint, runs>> /\ pc' # "compacting_post"
        /\ msgs' = msgs \o queue
    BY <1>4 DEF BeginTurn, kept
  <2>2. Begins(checkpoint, msgs) => Begins(checkpoint, msgs \o queue)
    BY <1>1, BeginsLonger
  <2>. QED
    BY <2>1, <2>2 DEF CheckpointInv
<1>5. CASE Compact
  <2>1. UNCHANGED <<checkpoint, runs>> /\ pc' # "compacting_post"
        /\ (callCount' = 0 => callCount = 0 /\ msgs' = msgs)
    BY <1>1, <1>5 DEF Compact, CallsOfCompact, Compacted
  <2>. QED
    BY <2>1 DEF CheckpointInv
<1>6. CASE ToolEnds
  <2>1. UNCHANGED <<callCount, checkpoint, runs>> /\ pc' # "compacting_post"
    BY <1>6 DEF ToolEnds, EndTurn, Return
  <2>2. PICK outcome \in Outcomes : msgs' = msgs \o Answer(Head(calls), outcome)
    BY <1>6 DEF ToolEnds
  <2>3. Head(calls) \in CallIds
    BY <1>6 DEF ToolEnds, IInv, TypeInv, TypeOK
  <2>4. Answer(Head(calls), outcome) \in Seq(Messages)
    BY <2>3, AnswerType
  <2>5. Begins(checkpoint, msgs) => Begins(checkpoint, msgs')
    BY <1>1, <2>2, <2>4, BeginsLonger
  <2>. QED
    BY <2>1, <2>5 DEF CheckpointInv
<1>7. CASE StreamAnswers
  <2>1. PICK n \in 0 .. MaxCalls, text \in Texts :
          LET ms == Append(msgs, Reply(CallsOf(n), text)) IN
            Act(ms) \/ (pc' = "compacting_post" /\ msgs' = ms /\ checkpoint' = checkpoint)
    BY <1>7 DEF StreamAnswers, CallsOf
  <2>2. pc = "streaming" /\ UNCHANGED <<callCount, runs>> /\ runs # 0
    BY <1>7 DEF StreamAnswers, kept, IInv, SteerInv
  <2> DEFINE reply == Reply(CallsOf(n), text)
             ms    == Append(msgs, reply)
  <2>3. reply \in Messages /\ reply.kind = "assistant"
    BY CallsOfType, NewMessages DEF IInv, TypeInv, Reply, Message
  <2> HIDE DEF reply
  <2>4. /\ ms \in Seq(Messages) /\ ms # <<>> /\ LastOf(ms).kind = "assistant"
        /\ AllButLast(ms) = msgs
        /\ Begins(checkpoint, msgs) => Begins(checkpoint, ms)
    BY <1>1, <2>3, Appended, AllButLastAppended, BeginsAppended
  <2>5. callCount = 0 => WellFormed(AllButLast(ms))
    BY <2>2, <2>4, RequestIsWellFormed
  <2> HIDE DEF ms
  <2>6. CASE Act(ms)
    BY <1>1, <2>2, <2>4, <2>5, <2>6, ActSaves DEF CheckpointInv
  <2>7. CASE pc' = "compacting_post" /\ msgs' = ms /\ checkpoint' = checkpoint
    BY <2>2, <2>4, <2>5, <2>7 DEF CheckpointInv
  <2>. QED
    BY <2>1, <2>6, <2>7 DEF ms, reply
<1>8. CASE CompactPost
  <2>1. UNCHANGED runs /\ pc = "compacting_post" /\ runs # 0
        /\ (callCount' = 0 => callCount = 0 /\ Act(msgs))
    BY <1>1, <1>8 DEF CompactPost, CallsOfCompact, Compacted, IInv, SteerInv
  <2>2. callCount = 0 => LastOf(msgs).kind = "assistant" /\ msgs # <<>>
    BY <2>1 DEF IInv, ConversationInv, Uncut, ReplyIsLast, TypeInv, TurnBegun
  <2>3. CASE callCount' = 0
    BY <1>1, <2>1, <2>2, <2>3, ActSaves DEF CheckpointInv
  <2>4. CASE callCount' # 0
    BY <2>1, <2>4 DEF CheckpointInv
  <2>. QED
    BY <2>3, <2>4
<1>. QED
  BY <1>2, <1>3, <1>4, <1>5, <1>6, <1>7, <1>8 DEF Next, Loop

\* A checkpoint is a beginning of the conversation that ends with a reply and
\* lacks at most that reply's results: every earlier call is answered in it,
\* and every result in it has its call (the save AIAgentLoop.run makes between
\* the reply and its tool calls).
THEOREM CheckpointAlwaysLacksOnlyResults == Spec => []CheckpointLacksOnlyResults
<1>1. Init => CheckpointInv
  <2> SUFFICES ASSUME Init PROVE CheckpointInv
    OBVIOUS
  <2>1. checkpoint = <<>> /\ msgs = <<>> /\ pc = "idle"
    BY DEF Init
  <2>2. Begins(<<>>, <<>>)
    BY DEF Begins
  <2>. QED
    BY <2>1, <2>2 DEF CheckpointInv, LacksOnlyResults
<1>2. IInv /\ CheckpointInv /\ [Next]_vars => CheckpointInv'
  BY CheckpointNext
<1>3. IInv /\ CheckpointInv => CheckpointLacksOnlyResults
  <2> SUFFICES ASSUME IInv, CheckpointInv, callCount = 0, checkpoint # <<>>
               PROVE  /\ LastOf(checkpoint).kind = "assistant"
                      /\ WellFormed(AllButLast(checkpoint))
                      /\ runs = 1 => checkpoint = SubSeq(msgs, 1, Len(checkpoint))
    BY DEF CheckpointLacksOnlyResults, AllButLast
  <2>1. ASSUME runs = 1 PROVE checkpoint = SubSeq(msgs, 1, Len(checkpoint))
    <3>1. checkpoint \in Seq(Messages) /\ msgs \in Seq(Messages)
      BY DEF IInv, TypeInv, TypeOK
    <3>2. Len(checkpoint) \in Nat /\ Len(msgs) \in Nat /\ Len(checkpoint) <= Len(msgs)
          /\ \A i \in 1 .. Len(checkpoint) : checkpoint[i] = msgs[i]
      BY <2>1, <3>1 DEF CheckpointInv, Begins
    <3>3. SubSeq(msgs, 1, Len(checkpoint)) = [i \in 1 .. Len(checkpoint) |-> msgs[i]]
      BY <3>1, <3>2
    <3>4. checkpoint = [i \in 1 .. Len(checkpoint) |-> checkpoint[i]]
      BY <3>1
    <3>. QED
      BY <3>2, <3>3, <3>4
  <2>. QED
    BY <2>1 DEF CheckpointInv, LacksOnlyResults
<1>. QED
  BY <1>1, <1>2, <1>3, Invariant, PTL DEF Spec

=============================================================================

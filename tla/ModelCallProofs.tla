--------------------------- MODULE ModelCallProofs ---------------------------
(***************************************************************************)
(* Theorems about ModelCall, for any tool calls, lines of a stream, limits  *)
(* of the budget and number of attempts.                                   *)
(***************************************************************************)
EXTENDS ModelCall, FiniteSetTheorems, TLAPS

Slot == [idx : Nat, id : Ids \cup {NoId}, n : Nat]

\* BooksBalance is not inductive: a step may only be opened, and the plan's
\* counter only reset, when the last step has been flushed.
NoStepBetween == pc = "closed" => step = Closed

IInv == TypeOK /\ BooksBalance /\ NoStepBetween

LEMMA InvInit == Init => IInv
<1>. SUFFICES ASSUME Init PROVE IInv
  OBVIOUS
<1>1. TypeOK
  <2>1. /\ attempt \in 0 .. MaxRetries /\ turn \in 0 .. MaxTurns /\ steps \in 0 .. MaxSteps
    BY ModelCallAssumption DEF Init
  <2>2. /\ step \in [planned : BOOLEAN, used : Nat]
        /\ counted \in [session : Nat, plan : Nat] /\ rows \in [session : Nat, plan : Nat]
    BY DEF Init, Closed
  <2>3. DOMAIN reply = {} /\ reply = NoCalls
    BY DEF Init, NoCalls
  <2>4. wire \in Seq(Lines) /\ slots \in Seq(Slot) /\ text \in Seq(0 .. MaxRetries) /\ tokens \in Nat
    BY DEF Init
  <2>. QED
    BY <2>1, <2>2, <2>3, <2>4 DEF Init, TypeOK, Slot
<1>2. BooksBalance /\ NoStepBetween
  BY DEF Init, BooksBalance, NoStepBetween, Closed
<1>. QED
  BY <1>1, <1>2 DEF IInv

-----------------------------------------------------------------------------
(* Types.                                                                   *)

\* A line leaves slots of the right type.
LEMMA TakeType ==
  ASSUME TypeOK, NEW l \in Line
  PROVE  Take(l) \in Seq(Slot)
<1>1. slots \in Seq(Slot)
  BY DEF TypeOK, Slot
<1>2. CASE \E i \in DOMAIN slots : slots[i].idx = l.idx
  <2> DEFINE At(i) == IF slots[i].idx # l.idx THEN slots[i]
                      ELSE [slots[i] EXCEPT !.id = IF l.id # NoId THEN l.id ELSE @, !.n = @ + l.n]
  <2>1. Take(l) = [i \in 1 .. Len(slots) |-> At(i)]
    <3>1. Take(l) = [i \in DOMAIN slots |-> At(i)]
      BY <1>2, Zenon DEF Take
    <3>2. DOMAIN slots = 1 .. Len(slots)
      BY <1>1
    <3>. QED
      BY <3>1, <3>2
  <2>2. \A i \in 1 .. Len(slots) : At(i) \in Slot
    <3>. SUFFICES ASSUME NEW i \in 1 .. Len(slots) PROVE At(i) \in Slot
      OBVIOUS
    <3>1. slots[i] \in Slot
      BY <1>1
    <3>2. CASE slots[i].idx = l.idx
      <4>1. At(i) = [idx |-> slots[i].idx, id |-> IF l.id # NoId THEN l.id ELSE slots[i].id,
                     n |-> slots[i].n + l.n]
        BY <3>1, <3>2 DEF Slot
      <4>. QED
        BY <3>1, <4>1 DEF Slot, Line
    <3>. QED
      BY <3>1, <3>2
  <2>3. Len(slots) \in Nat
    BY <1>1
  <2>. HIDE DEF At
  <2>. QED
    BY <2>1, <2>2, <2>3
<1>3. CASE ~ \E i \in DOMAIN slots : slots[i].idx = l.idx
  <2>1. [idx |-> l.idx, id |-> l.id, n |-> l.n] \in Slot
    BY DEF Slot, Line
  <2>. QED
    BY <1>1, <1>3, <2>1 DEF Take
<1>. QED
  BY <1>2, <1>3

\* A set of numbers up to n that is not empty has a largest element.
LEMMA LargestExists ==
  ASSUME NEW n \in Nat, NEW S \in SUBSET (1 .. n), S # {}
  PROVE  \E x \in S : \A y \in S : y <= x
<1> DEFINE R == OpToRel(<, Nat)
           T == {n - x : x \in S}
<1>1. IsWellFoundedOn(R, Nat)
  BY NatLessThanWellFounded
<1>2. R = {ss \in Nat \X Nat : ss[1] < ss[2]}
  BY Zenon DEF OpToRel
<1>3. \A x, y \in Nat : x < y => <<x, y>> \in R
  BY <1>2
<1>4. T \subseteq Nat /\ T # {}
  <2>1. \A x \in S : x \in Nat /\ x <= n /\ n - x \in Nat
    OBVIOUS
  <2>. QED
    BY <2>1
<1>. HIDE DEF R
<1>5. PICK t \in T : \A u \in T : ~ (<<u, t>> \in R)
  <2>. HIDE DEF T
  <2>. QED
    BY <1>1, <1>4, WFMin
<1>6. PICK x \in S : t = n - x
  BY <1>5
<1>7. ASSUME NEW y \in S PROVE y <= x
  <2>1. n - y \in T /\ n - y \in Nat /\ n - x \in Nat
    BY <1>4
  <2>2. ~ (n - y < n - x)
    BY <1>3, <1>5, <1>6, <2>1
  <2>. QED
    BY <2>2
<1>. QED
  BY <1>7

\* The calls that are handed on have ids and a number of pieces.
LEMMA AssembledType ==
  ASSUME TypeOK
  PROVE  DOMAIN Assembled \subseteq Ids /\ \A id \in DOMAIN Assembled : Assembled[id] \in Nat
<1> DEFINE Of(id) == {i \in DOMAIN slots : slots[i].id = id}
           LastOf(id) == CHOOSE i \in Of(id) : \A k \in Of(id) : k <= i
<1>1. slots \in Seq(Slot)
  BY DEF TypeOK, Slot
<1>2. DOMAIN Assembled = {slots[i].id : i \in DOMAIN slots} \ {NoId}
  BY DEF Assembled
<1>3. \A i \in DOMAIN slots : slots[i].id \in Ids \cup {NoId}
  <2>1. \A i \in DOMAIN slots : slots[i] \in Slot
    BY <1>1
  <2>. QED
    BY <2>1 DEF Slot
<1>4. ASSUME NEW id \in DOMAIN Assembled PROVE Assembled[id] \in Nat
  <2>1. Assembled[id] = slots[LastOf(id)].n
    BY <1>2 DEF Assembled
  <2>2. Of(id) \in SUBSET (1 .. Len(slots)) /\ Of(id) # {} /\ Len(slots) \in Nat
    BY <1>1, <1>2
  <2>3. \E i \in Of(id) : \A k \in Of(id) : k <= i
    <3>. HIDE DEF Of
    <3>. QED
      BY <2>2, LargestExists
  <2>4. LastOf(id) \in Of(id)
    BY <2>3
  <2>5. slots[LastOf(id)] \in Slot
    BY <1>1, <2>2, <2>4
  <2>. QED
    BY <2>1, <2>5 DEF Slot
<1>5. DOMAIN Assembled \subseteq Ids
  BY <1>2, <1>3
<1>. QED
  BY <1>4, <1>5

\* The parts of the state that no action changes keep their types.
LEMMA BooksType ==
  ASSUME TypeOK, UNCHANGED books
  PROVE  /\ steps' \in 0 .. MaxSteps /\ step' \in [planned : BOOLEAN, used : Nat]
         /\ counted' \in [session : Nat, plan : Nat] /\ rows' \in [session : Nat, plan : Nat]
BY DEF TypeOK, books

\* What the error event leaves.
LEMMA FailsType ==
  ASSUME TypeOK, Fails, failed' \in BOOLEAN
  PROVE  TypeOK'
<1>1. DOMAIN NoCalls = {}
  BY DEF NoCalls
<1>2. wire' \in Seq(Lines) /\ slots' \in Seq(Slot) /\ text' \in Seq(0 .. MaxRetries)
  BY DEF Fails
<1>. QED
  BY <1>1, <1>2, BooksType DEF Fails, TypeOK, Slot

LEMMA AttemptNat ==
  ASSUME TypeOK
  PROVE  attempt \in 0 .. MaxRetries /\ MaxRetries \in Nat
<1>1. attempt \in 0 .. MaxRetries
  BY DEF TypeOK
<1>. QED
  BY <1>1, ModelCallAssumption

\* The next attempt is one that max_retries allows.
LEMMA AgainType ==
  ASSUME TypeOK, Again, attempt + 1 <= MaxRetries, reply = NoCalls
  PROVE  TypeOK'
<1>1. attempt' \in 0 .. MaxRetries
  <2>1. attempt' = attempt + 1 /\ attempt \in 0 .. MaxRetries /\ MaxRetries \in Nat
    BY ModelCallAssumption DEF Again, TypeOK
  <2>. QED
    BY <2>1
<1>. QED
  BY <1>1, BooksType DEF Again, TypeOK

LEMMA StreamingType ==
  ASSUME TypeOK, Streaming
  PROVE  TypeOK'
<1>1. CASE Refused
  BY <1>1, FailsType DEF Refused, TypeOK
<1>2. CASE Busy
  <2>1. attempt + 1 <= MaxRetries
    BY <1>2, AttemptNat DEF Busy, Posting
  <2>2. reply = NoCalls
    BY <1>2 DEF Busy, Posting, TypeOK
  <2>. QED
    BY <1>2, <2>1, <2>2, AgainType DEF Busy
<1>3. CASE Dropped
  <2>1. reply = NoCalls
    BY <1>3 DEF Dropped, Posting, TypeOK
  <2>2. CASE attempt + 1 < MaxRetries
    <3>1. attempt + 1 <= MaxRetries
      BY <2>2, AttemptNat
    <3>. QED
      BY <1>3, <2>1, <2>2, <3>1, AgainType DEF Dropped
  <2>3. CASE ~ (attempt + 1 < MaxRetries)
    BY <1>3, <2>3, FailsType DEF Dropped
  <2>. QED
    BY <2>2, <2>3
<1>4. CASE Raises
  BY <1>4, FailsType DEF Raises, TypeOK
<1>5. CASE RunsOut
  <2>1. CASE failed
    BY <1>5, <2>1, FailsType DEF RunsOut, TypeOK
  <2>2. CASE ~failed
    <3>1. pc' = "answered" /\ UNCHANGED <<stream, text, reply, turn, books>>
      BY <1>5, <2>2 DEF RunsOut
    <3>. QED
      BY <3>1, BooksType DEF TypeOK, stream
  <2>. QED
    BY <2>1, <2>2
<1>6. CASE Connected
  <2>1. wire' \in Seq(Lines) /\ slots' \in Seq(Slot) /\ reply' = NoCalls /\ attempt' < MaxRetries
    BY <1>6 DEF Connected, Posting, TypeOK
  <2>. QED
    BY <1>6, <2>1, BooksType DEF Connected, TypeOK, Slot
<1>7. CASE Finish
  <2>1. DOMAIN reply' \subseteq Ids /\ \A id \in DOMAIN reply' : reply'[id] \in Nat
    BY <1>7, AssembledType DEF Finish
  <2>. QED
    BY <1>7, <2>1, BooksType DEF Finish, TypeOK, stream
<1>8. ASSUME NEW l \in Lines, Read(l)
      PROVE  TypeOK'
  <2>1. l \in Line
    BY ModelCallAssumption
  <2>2. wire' \in Seq(Lines) /\ tokens' \in Nat
    BY <1>8, <2>1 DEF Read, TypeOK, Line
  <2>3. slots' \in Seq(Slot)
    BY <1>8, <2>1, TakeType DEF Read, TypeOK, Slot
  <2>4. text' \in Seq(0 .. MaxRetries)
    <3> DEFINE A == 0 .. MaxRetries
    <3>1. attempt \in A /\ text \in Seq(A)
      BY DEF TypeOK
    <3>2. text' \in {text, Append(text, attempt)}
      BY <1>8 DEF Read
    <3>. HIDE DEF A
    <3>3. text' \in Seq(A)
      BY <3>1, <3>2
    <3>. QED
      BY <3>3 DEF A
  <2>. QED
    BY <1>8, <2>2, <2>3, <2>4, BooksType DEF Read, TypeOK, Slot
<1>. QED
  BY <1>1, <1>2, <1>3, <1>4, <1>5, <1>6, <1>7, <1>8 DEF Streaming

\* A request ends, and with it what it has worked with.
LEMMA ClearedType ==
  ASSUME attempt' = 0, failed' = FALSE, wire' = <<>>, slots' = <<>>, tokens' = 0,
         text' = <<>>, reply' = NoCalls
  PROVE  /\ attempt' \in 0 .. MaxRetries /\ failed' \in BOOLEAN
         /\ wire' \in Seq(Lines) /\ slots' \in Seq([idx : Nat, id : Ids \cup {NoId}, n : Nat])
         /\ tokens' \in Nat /\ text' \in Seq(0 .. MaxRetries)
         /\ DOMAIN reply' \subseteq Ids /\ \A id \in DOMAIN reply' : reply'[id] \in Nat
<1>1. 0 \in 0 .. MaxRetries
  BY ModelCallAssumption
<1>2. DOMAIN reply' = {}
  BY DEF NoCalls
<1>3. wire' \in Seq(Lines) /\ slots' \in Seq(Slot) /\ text' \in Seq(0 .. MaxRetries)
  OBVIOUS
<1>. QED
  BY <1>1, <1>2, <1>3 DEF Slot

LEMMA ChargedType ==
  ASSUME TypeOK, Charged
  PROVE  step' \in [planned : BOOLEAN, used : Nat] /\ counted' \in [session : Nat, plan : Nat]
<1>1. tokens \in Nat /\ step.used \in Nat /\ step.planned \in BOOLEAN
      /\ counted.session \in Nat /\ counted.plan \in Nat
  BY DEF TypeOK
<1>2. step' = [planned |-> step.planned, used |-> step.used + tokens]
  BY DEF Charged, TypeOK
<1>3. counted' = [session |-> counted.session + tokens,
                  plan |-> counted.plan + (IF step.planned THEN tokens ELSE 0)]
  BY DEF Charged
<1>. QED
  BY <1>1, <1>2, <1>3

LEMMA TypeNext ==
  ASSUME TypeOK, [Next]_vars
  PROVE  TypeOK'
<1>1. CASE Request
  <2>1. turn' \in 0 .. MaxTurns
    <3>1. turn' = turn + 1 /\ turn < MaxTurns
      BY <1>1 DEF Request
    <3>2. turn \in 0 .. MaxTurns /\ MaxTurns \in Nat
      BY ModelCallAssumption DEF TypeOK
    <3>. QED
      BY <3>1, <3>2
  <2>. QED
    BY <1>1, <2>1, BooksType, ClearedType DEF Request, TypeOK
<1>2. CASE Streaming
  BY <1>2, StreamingType
<1>3. CASE ResetPlan
  <2>1. counted' \in [session : Nat, plan : Nat] /\ rows' \in [session : Nat, plan : Nat]
    BY <1>3 DEF ResetPlan, TypeOK
  <2>. QED
    BY <1>3, <2>1 DEF ResetPlan, TypeOK, stream
<1>4. ASSUME NEW planned \in BOOLEAN, OpenStep(planned)
      PROVE  TypeOK'
  <2>1. steps' \in 0 .. MaxSteps /\ turn' \in 0 .. MaxTurns
    <3>1. /\ steps' = steps + 1 /\ steps < MaxSteps /\ turn' = 0
          /\ steps \in 0 .. MaxSteps /\ MaxSteps \in Nat /\ MaxTurns \in Nat
      BY <1>4, ModelCallAssumption DEF OpenStep, TypeOK
    <3>. QED
      BY <3>1
  <2>2. step' \in [planned : BOOLEAN, used : Nat]
    BY <1>4 DEF OpenStep
  <2>. QED
    BY <1>4, <2>1, <2>2 DEF OpenStep, TypeOK, stream
<1>5. CASE Account
  BY <1>5, ChargedType, ClearedType DEF Account, TypeOK
<1>6. CASE LastTurn
  BY <1>6, BooksType DEF LastTurn, TypeOK, stream
<1>7. CASE CloseStep
  <2>1. rows' \in [session : Nat, plan : Nat] /\ step' \in [planned : BOOLEAN, used : Nat]
    BY <1>7 DEF CloseStep, Flush, Record, TypeOK, Closed
  <2>. QED
    BY <1>7, <2>1 DEF CloseStep, TypeOK, stream
<1>8. CASE UNCHANGED vars
  BY <1>8 DEF TypeOK, vars
<1>9. CASE AssemblyRaises
  <2>1. pc' = "over" /\ UNCHANGED <<turn, books>> /\ reply' = NoCalls
    BY <1>9 DEF AssemblyRaises
  <2>. QED
    BY <1>9, <2>1, BooksType, ClearedType DEF AssemblyRaises, TypeOK
<1>. QED
  BY <1>1, <1>2, <1>3, <1>4, <1>5, <1>6, <1>7, <1>8, <1>9 DEF Next

\* Whatever the limits and the lines, the state is of its types, no request
\* makes more than MaxRetries attempts, and only an answered one has calls.
THEOREM Typed == Spec => []TypeOK
<1>1. TypeOK /\ [Next]_vars => TypeOK'
  BY TypeNext
<1>. QED
  BY InvInit, <1>1, PTL DEF Spec, IInv

-----------------------------------------------------------------------------
(* The books.                                                               *)

\* What leaves the books alone leaves them balanced.
LEMMA BooksUntouched ==
  ASSUME BooksBalance, NoStepBetween, UNCHANGED books, pc' = "closed" => pc = "closed"
  PROVE  BooksBalance' /\ NoStepBetween'
BY DEF BooksBalance, NoStepBetween, books

LEMMA BooksNext ==
  ASSUME IInv, [Next]_vars
  PROVE  BooksBalance' /\ NoStepBetween'
<1>. USE DEF IInv
<1>0. /\ tokens \in Nat /\ step.used \in Nat /\ step.planned \in BOOLEAN
      /\ counted = [session |-> counted.session, plan |-> counted.plan]
      /\ rows = [session |-> rows.session, plan |-> rows.plan]
      /\ step = [planned |-> step.planned, used |-> step.used]
      /\ {counted.session, counted.plan, rows.session, rows.plan} \subseteq Nat
  BY DEF TypeOK
<1>1. CASE Request
  BY <1>1, BooksUntouched DEF Request
<1>2. CASE Streaming
  <2>1. UNCHANGED books /\ pc' # "closed"
    BY <1>2 DEF Streaming, Refused, Busy, Dropped, Raises, RunsOut, Connected, Finish, Read,
                Fails, Again, Posting
  <2>. QED
    BY <2>1, BooksUntouched
<1>3. CASE ResetPlan
  <2>1. step = Closed /\ step' = Closed
    BY <1>3 DEF ResetPlan, NoStepBetween
  <2>2. /\ counted' = [session |-> counted.session, plan |-> 0]
        /\ rows' = [session |-> rows.session, plan |-> 0]
    BY <1>0, <1>3 DEF ResetPlan
  <2>. QED
    BY <1>0, <2>1, <2>2 DEF BooksBalance, NoStepBetween, Closed
<1>4. ASSUME NEW planned \in BOOLEAN, OpenStep(planned)
      PROVE  BooksBalance' /\ NoStepBetween'
  <2>1. step = Closed /\ step' = [planned |-> planned, used |-> 0] /\ pc' = "turn"
    BY <1>4 DEF OpenStep, NoStepBetween
  <2>. QED
    BY <1>0, <1>4, <2>1 DEF OpenStep, BooksBalance, NoStepBetween, Closed
<1>5. CASE Account
  <2>1. /\ step' = [planned |-> step.planned, used |-> step.used + tokens]
        /\ counted' = [session |-> counted.session + tokens,
                       plan |-> counted.plan + (IF step.planned THEN tokens ELSE 0)]
        /\ rows' = rows /\ pc' # "closed"
    BY <1>0, <1>5 DEF Account, Charged
  <2>. QED
    BY <1>0, <2>1 DEF BooksBalance, NoStepBetween
<1>6. CASE LastTurn
  BY <1>6, BooksUntouched DEF LastTurn
<1>7. CASE CloseStep
  <2>1. /\ rows'.session = rows.session + step.used
        /\ rows'.plan = rows.plan + (IF step.planned THEN step.used ELSE 0)
    <3>1. CASE step.used = 0
      BY <1>0, <1>7, <3>1 DEF CloseStep, Flush, TypeOK
    <3>2. CASE step.used # 0
      BY <1>7, <3>2 DEF CloseStep, Flush, Record
    <3>. QED
      BY <3>1, <3>2
  <2>2. step' = Closed /\ counted' = counted
    BY <1>7 DEF CloseStep
  <2>. QED
    BY <1>0, <2>1, <2>2 DEF BooksBalance, NoStepBetween, Closed
<1>8. CASE UNCHANGED vars
  BY <1>8, BooksUntouched DEF vars, books
<1>9. CASE AssemblyRaises
  BY <1>9, BooksUntouched DEF AssemblyRaises
<1>. QED
  BY <1>1, <1>2, <1>3, <1>4, <1>5, <1>6, <1>7, <1>8, <1>9 DEF Next

\* The counters of the budget agree with the rows of token_usage and the open
\* step, for any limits, any tokens of a request and any failure of a run:
\* TokenBudget.add counts before it checks, and step() flushes in a finally.
THEOREM BooksAlwaysBalance == Spec => []BooksBalance
<1>1. IInv /\ [Next]_vars => IInv'
  BY TypeNext, BooksNext DEF IInv
<1>. QED
  BY InvInit, <1>1, PTL DEF Spec, IInv
-----------------------------------------------------------------------------
(* Counting pieces.                                                         *)

\* What the k-th line adds to the pieces at idxs.
Adds(l, idxs) == IF l.kind = "call" /\ l.idx \in idxs THEN l.n ELSE 0

Sums(t, lines, idxs, m) ==
  t = [k \in 0 .. m |-> IF k = 0 THEN 0 ELSE t[k - 1] + Adds(lines[k], idxs)]

LEMMA SmallestExists ==
  ASSUME NEW S, S \subseteq Nat, S # {}
  PROVE  \E i \in S : \A j \in S : i <= j
<1> DEFINE R == OpToRel(<, Nat)
<1>1. IsWellFoundedOn(R, Nat)
  BY NatLessThanWellFounded
<1>2. R = {ss \in Nat \X Nat : ss[1] < ss[2]}
  BY Zenon DEF OpToRel
<1>3. \A x, y \in Nat : x < y => <<x, y>> \in R
  BY <1>2
<1>. HIDE DEF R
<1>4. PICK x \in S : \A y \in S : ~ (<<y, x>> \in R)
  BY <1>1, WFMin
<1>5. ASSUME NEW y \in S PROVE x <= y
  <2>1. x \in Nat /\ y \in Nat /\ ~ (y < x)
    BY <1>3, <1>4
  <2>. QED
    BY <2>1
<1>. QED
  BY <1>5

\* The sum over the lines is defined.
LEMMA SumsExist ==
  ASSUME NEW lines, NEW idxs, NEW m \in Nat
  PROVE  \E t : Sums(t, lines, idxs, m)
<1> DEFINE Bad == {i \in Nat : ~ \E t : Sums(t, lines, idxs, i)}
<1>1. SUFFICES ASSUME Bad # {} PROVE FALSE
  OBVIOUS
<1>2. PICK i \in Bad : \A j \in Bad : i <= j
  BY <1>1, SmallestExists
<1>3. i \in Nat /\ ~ \E t : Sums(t, lines, idxs, i)
  OBVIOUS
<1>4. CASE i = 0
  <2> DEFINE t == [k \in 0 .. 0 |-> 0]
  <2>1. \A k \in 0 .. 0 : k = 0
    OBVIOUS
  <2>2. Sums(t, lines, idxs, 0)
    BY <2>1 DEF Sums
  <2>. QED
    BY <1>3, <1>4, <2>2
<1>5. CASE i # 0
  <2>1. i - 1 \in Nat /\ ~ (i <= i - 1)
    BY <1>3, <1>5
  <2>2. PICK f : Sums(f, lines, idxs, i - 1)
    BY <1>2, <2>1
  <2> DEFINE Value(g, k) == IF k = 0 THEN 0 ELSE g[k - 1] + Adds(lines[k], idxs)
             t == [k \in 0 .. i |-> IF k = i THEN Value(f, i) ELSE f[k]]
  <2>3. \A k \in 0 .. i - 1 : f[k] = Value(f, k)
    BY <2>2 DEF Sums
  <2>4. \A k \in 0 .. i : t[k] = IF k = i THEN Value(f, i) ELSE f[k]
    OBVIOUS
  <2>5. t = [k \in 0 .. i |-> t[k]]
    OBVIOUS
  <2>. HIDE DEF t, Bad
  <2>6. \A k \in 0 .. i : k = i \/ k \in 0 .. i - 1
    BY <1>3
  <2>7. \A k \in 0 .. i : k = 0 \/ (k - 1 \in 0 .. i /\ k - 1 # i)
    BY <1>3
  <2>8. \A k \in 0 .. i : Value(t, k) = Value(f, k)
    BY <2>4, <2>7
  <2>9. \A k \in 0 .. i : t[k] = Value(f, k)
    BY <2>3, <2>4, <2>6
  <2>10. Sums(t, lines, idxs, i)
    BY <2>5, <2>8, <2>9 DEF Sums
  <2>. QED
    BY <1>3, <2>10
<1>. QED
  BY <1>4, <1>5

SumOf(lines, idxs) == CHOOSE t : Sums(t, lines, idxs, Len(lines))

LEMMA PiecesUnfold ==
  ASSUME NEW lines, Len(lines) \in Nat, NEW idxs
  PROVE  /\ PiecesAt(lines, idxs) = SumOf(lines, idxs)[Len(lines)]
         /\ SumOf(lines, idxs)[0] = 0
         /\ \A k \in 1 .. Len(lines) :
              SumOf(lines, idxs)[k] = SumOf(lines, idxs)[k - 1] + Adds(lines[k], idxs)
<1> DEFINE s == SumOf(lines, idxs)
           m == Len(lines)
<1>1. PiecesAt(lines, idxs) = s[m]
  BY DEF PiecesAt, SumOf, Sums, Adds
<1>2. \E t : Sums(t, lines, idxs, m)
  BY SumsExist
<1>3. Sums(s, lines, idxs, m)
  BY <1>2 DEF SumOf
<1>. HIDE DEF s, m
<1>4. \A k \in 0 .. m : s[k] = IF k = 0 THEN 0 ELSE s[k - 1] + Adds(lines[k], idxs)
  BY <1>3 DEF Sums
<1>5. 0 \in 0 .. m /\ \A k \in 1 .. m : k \in 0 .. m /\ k # 0
  BY DEF m
<1>. QED
  BY <1>1, <1>4, <1>5 DEF s, m

LEMMA PiecesOfNone ==
  ASSUME NEW idxs
  PROVE  PiecesAt(<<>>, idxs) = 0
<1>1. Len(<<>>) = 0
  OBVIOUS
<1>. QED
  BY <1>1, PiecesUnfold

\* One more line.
LEMMA PiecesOfAppend ==
  ASSUME NEW lines \in Seq(Lines), NEW l \in Lines, NEW idxs
  PROVE  PiecesAt(Append(lines, l), idxs) = PiecesAt(lines, idxs) + Adds(l, idxs)
<1> DEFINE w == Append(lines, l)
           m == Len(lines)
           s == SumOf(lines, idxs)
           u == SumOf(w, idxs)
           Bad == {k \in 0 .. m : u[k] # s[k]}
<1>1. m \in Nat /\ Len(w) = m + 1 /\ Len(w) \in Nat /\ w[m + 1] = l /\ \A k \in 1 .. m : w[k] = lines[k]
  OBVIOUS
<1>2. /\ PiecesAt(lines, idxs) = s[m] /\ s[0] = 0
      /\ \A k \in 1 .. m : s[k] = s[k - 1] + Adds(lines[k], idxs)
  BY <1>1, PiecesUnfold
<1>3. /\ PiecesAt(w, idxs) = u[m + 1] /\ u[0] = 0
      /\ \A k \in 1 .. m + 1 : u[k] = u[k - 1] + Adds(w[k], idxs)
  <2>. HIDE DEF w, m
  <2>. QED
    BY <1>1, PiecesUnfold
<1>. HIDE DEF w, m, s, u
<1>4. Bad = {}
  <2>. SUFFICES ASSUME Bad # {} PROVE FALSE
    OBVIOUS
  <2>1. PICK k \in Bad : \A j \in Bad : k <= j
    <3>1. Bad \subseteq Nat
      BY <1>1
    <3>. QED
      BY <3>1, SmallestExists
  <2>2. k \in 0 .. m /\ u[k] # s[k]
    OBVIOUS
  <2>3. k # 0
    BY <1>2, <1>3, <2>2
  <2>4. k \in 1 .. m /\ k \in 1 .. m + 1 /\ k - 1 \in 0 .. m /\ ~ (k <= k - 1)
    BY <1>1, <2>2, <2>3
  <2>5. u[k - 1] = s[k - 1]
    BY <2>1, <2>4
  <2>. QED
    BY <1>1, <1>2, <1>3, <2>2, <2>4, <2>5
<1>5. u[m] = s[m]
  <2>1. m \in 0 .. m
    BY <1>1
  <2>. QED
    BY <1>4, <2>1
<1>6. m + 1 \in 1 .. m + 1 /\ (m + 1) - 1 = m
  BY <1>1
<1>7. u[m + 1] = u[m] + Adds(l, idxs)
  BY <1>1, <1>3, <1>6
<1>. QED
  BY <1>2, <1>3, <1>5, <1>7 DEF w

-----------------------------------------------------------------------------
(* The reply and the attempt.                                               *)

\* The lines of tool calls.
CallLines == {j \in DOMAIN wire : wire[j].kind = "call"}

\* While an attempt is read, its slots are the indexes of its call lines, each
\* with the pieces of the lines at its index, and with an id of one of them if
\* any has one.
SlotsDiffer == \A i, j \in DOMAIN slots : slots[i].idx = slots[j].idx => i = j
SlotsCount ==
  /\ \A i \in DOMAIN slots : slots[i].n = PiecesAt(wire, {slots[i].idx})
  /\ \A k \in Nat : (\A i \in DOMAIN slots : slots[i].idx # k) => PiecesAt(wire, {k}) = 0
SlotsAreLines ==
  /\ \A i \in DOMAIN slots : \E j \in CallLines : wire[j].idx = slots[i].idx
  /\ \A j \in CallLines : \E i \in DOMAIN slots : slots[i].idx = wire[j].idx
SlotsAreNamed ==
  /\ \A i \in DOMAIN slots : slots[i].id # NoId =>
       \E j \in CallLines : wire[j].idx = slots[i].idx /\ wire[j].id = slots[i].id
  /\ \A j \in CallLines : wire[j].id # NoId =>
       \A i \in DOMAIN slots : slots[i].idx = wire[j].idx => slots[i].id # NoId
SlotsTell == SlotsDiffer /\ SlotsCount /\ SlotsAreLines /\ SlotsAreNamed

\* The text of the reply ends with that of the attempt.
TextTells ==
  /\ Cardinality(TextLines(wire)) <= Len(text)
  /\ \A k \in DOMAIN text : k > Len(text) - Cardinality(TextLines(wire)) => text[k] = attempt

\* A request that has failed never has read nothing.
AttemptInv ==
  /\ pc = "reading" => SlotsTell /\ TextTells
  /\ pc = "post" /\ ~failed => wire = <<>>
  /\ ReplyTellsAttempt

\* Nothing read yet.
LEMMA NothingTells ==
  ASSUME wire' = <<>>, slots' = <<>>, text' \in Seq(0 .. MaxRetries)
  PROVE  SlotsTell' /\ TextTells'
<1>1. DOMAIN wire' = {} /\ DOMAIN slots' = {}
  OBVIOUS
<1>2. \A k \in Nat : PiecesAt(wire', {k}) = 0
  BY PiecesOfNone
<1>3. TextLines(wire') = {} /\ Len(text') \in Nat /\ DOMAIN text' = 1 .. Len(text')
  BY <1>1 DEF TextLines
<1>4. Cardinality(TextLines(wire')) = 0
  BY <1>3, FS_EmptySet
<1>5. TextTells'
  BY <1>3, <1>4 DEF TextTells
<1>6. CallLines' = {}
  BY <1>1 DEF CallLines
<1>. QED
  BY <1>1, <1>2, <1>5, <1>6 DEF SlotsTell, SlotsDiffer, SlotsCount, SlotsAreLines, SlotsAreNamed

LEMMA SlotShape ==
  ASSUME TypeOK
  PROVE  \A i \in DOMAIN slots :
           /\ slots[i] = [idx |-> slots[i].idx, id |-> slots[i].id, n |-> slots[i].n]
           /\ slots[i].idx \in Nat /\ slots[i].n \in Nat /\ slots[i].id \in Ids \cup {NoId}
<1>1. slots \in Seq(Slot)
  BY DEF TypeOK, Slot
<1>2. \A i \in DOMAIN slots : slots[i] \in Slot
  BY <1>1
<1>. QED
  BY <1>2 DEF Slot

\* The slots s have the line l of a call at m: a slot of old, or a new one.
ToOld(l, m, s) ==
  /\ m \in DOMAIN slots /\ slots[m].idx = l.idx
  /\ DOMAIN s = DOMAIN slots
  /\ \A i \in DOMAIN slots : i # m => s[i] = slots[i]
  /\ s[m] = [idx |-> l.idx, n |-> slots[m].n + l.n,
             id |-> IF l.id # NoId THEN l.id ELSE slots[m].id]

ToNew(l, m, s) ==
  /\ m \notin DOMAIN slots /\ \A i \in DOMAIN slots : slots[i].idx # l.idx
  /\ DOMAIN s = DOMAIN slots \cup {m}
  /\ \A i \in DOMAIN slots : s[i] = slots[i]
  /\ s[m] = [idx |-> l.idx, id |-> l.id, n |-> l.n]

\* The slots after a line of a call: the slot at its index, one of old or a
\* new one at the end, and the others as they were.
LEMMA TakeSlots ==
  ASSUME TypeOK, SlotsDiffer, NEW l \in Line
  PROVE  \E m : ToOld(l, m, Take(l)) \/ ToNew(l, m, Take(l))
<1>1. slots \in Seq(Slot)
  BY DEF TypeOK, Slot
<1>2. CASE \E i \in DOMAIN slots : slots[i].idx = l.idx
  <2>1. PICK m \in DOMAIN slots : slots[m].idx = l.idx
    BY <1>2
  <2>2. Take(l) = [i \in DOMAIN slots |->
         IF slots[i].idx # l.idx THEN slots[i]
         ELSE [slots[i] EXCEPT !.id = IF l.id # NoId THEN l.id ELSE @, !.n = @ + l.n]]
    BY <1>2, Zenon DEF Take
  <2>3. \A i \in DOMAIN slots : i # m => slots[i].idx # l.idx
    BY <2>1 DEF SlotsDiffer
  <2>4. \A i \in DOMAIN slots : i # m => Take(l)[i] = slots[i]
    BY <2>2, <2>3
  <2>5. slots[m] = [idx |-> slots[m].idx, id |-> slots[m].id, n |-> slots[m].n]
    BY <2>1, SlotShape
  <2>6. Take(l)[m] = [slots[m] EXCEPT !.id = IF l.id # NoId THEN l.id ELSE @, !.n = @ + l.n]
    BY <2>1, <2>2
  <2>7. Take(l)[m] = [idx |-> l.idx, n |-> slots[m].n + l.n,
                      id |-> IF l.id # NoId THEN l.id ELSE slots[m].id]
    BY <2>1, <2>5, <2>6
  <2>8. DOMAIN Take(l) = DOMAIN slots
    BY <2>2
  <2>. QED
    BY <2>1, <2>4, <2>7, <2>8 DEF ToOld
<1>3. CASE ~ \E i \in DOMAIN slots : slots[i].idx = l.idx
  <2> DEFINE new == [idx |-> l.idx, id |-> l.id, n |-> l.n]
             m == Len(slots) + 1
  <2>1. Take(l) = Append(slots, new)
    BY <1>3, Zenon DEF Take
  <2>. HIDE DEF new
  <2>2. new \in Slot
    BY DEF new, Slot, Line
  <2>3. /\ m \notin DOMAIN slots /\ DOMAIN Append(slots, new) = DOMAIN slots \cup {m}
        /\ \A i \in DOMAIN slots : Append(slots, new)[i] = slots[i]
        /\ Append(slots, new)[m] = new
    BY <1>1, <2>2
  <2>. QED
    BY <1>3, <2>1, <2>3 DEF new, ToNew
<1>. QED
  BY <1>2, <1>3

\* A line is read.
LEMMA WireGrows ==
  ASSUME TypeOK, NEW l \in Lines, wire' = Append(wire, l)
  PROVE  /\ wire \in Seq(Lines) /\ Len(wire) + 1 \notin DOMAIN wire
         /\ DOMAIN wire' = DOMAIN wire \cup {Len(wire) + 1}
         /\ \A j \in DOMAIN wire : wire'[j] = wire[j]
         /\ wire'[Len(wire) + 1] = l
         /\ CallLines' = IF l.kind = "call" THEN CallLines \cup {Len(wire) + 1} ELSE CallLines
         /\ TextLines(wire') = IF l.kind = "text" THEN TextLines(wire) \cup {Len(wire) + 1}
                               ELSE TextLines(wire)
         /\ \A idxs : PiecesAt(wire', idxs) = PiecesAt(wire, idxs) + Adds(l, idxs)
<1>1. wire \in Seq(Lines)
  BY DEF TypeOK
<1>2. /\ Len(wire) + 1 \notin DOMAIN wire
      /\ DOMAIN wire' = DOMAIN wire \cup {Len(wire) + 1}
      /\ \A j \in DOMAIN wire : wire'[j] = wire[j]
      /\ wire'[Len(wire) + 1] = l
  BY <1>1
<1>3. CallLines' = IF l.kind = "call" THEN CallLines \cup {Len(wire) + 1} ELSE CallLines
  BY <1>2 DEF CallLines
<1>4. TextLines(wire') = IF l.kind = "text" THEN TextLines(wire) \cup {Len(wire) + 1} ELSE TextLines(wire)
  BY <1>2 DEF TextLines
<1>5. \A idxs : PiecesAt(wire', idxs) = PiecesAt(wire, idxs) + Adds(l, idxs)
  BY <1>1, PiecesOfAppend
<1>. QED
  BY <1>1, <1>2, <1>3, <1>4, <1>5

LEMMA ReadText ==
  ASSUME TypeOK, TextTells, NEW l \in Lines, wire' = Append(wire, l), attempt' = attempt,
         text' = IF l.kind = "text" THEN Append(text, attempt) ELSE text
  PROVE  TextTells'
<1> DEFINE c == Cardinality(TextLines(wire))
<1>1. wire \in Seq(Lines) /\ Len(wire) + 1 \notin DOMAIN wire
  BY WireGrows
<1>2. IsFiniteSet(TextLines(wire)) /\ c \in Nat
  <2>1. 1 \in Int /\ Len(wire) \in Int /\ DOMAIN wire = 1 .. Len(wire)
    BY <1>1
  <2>2. IsFiniteSet(DOMAIN wire)
    BY <2>1, FS_Interval
  <2>3. TextLines(wire) \in SUBSET DOMAIN wire
    BY DEF TextLines
  <2>4. IsFiniteSet(TextLines(wire))
    BY <2>2, <2>3, FS_Subset
  <2>. QED
    BY <2>4, FS_CardinalityType
<1>3. Len(text) \in Nat /\ DOMAIN text = 1 .. Len(text) /\ text \in Seq(0 .. MaxRetries)
  BY DEF TypeOK
<1>4. c <= Len(text) /\ \A k \in 1 .. Len(text) : k > Len(text) - c => text[k] = attempt
  BY <1>3 DEF TextTells
<1>5. CASE l.kind # "text"
  <2>1. TextLines(wire') = TextLines(wire) /\ text' = text
    BY <1>5, WireGrows
  <2>. QED
    BY <2>1 DEF TextTells
<1>6. CASE l.kind = "text"
  <2>1. TextLines(wire') = TextLines(wire) \cup {Len(wire) + 1}
    BY <1>6, WireGrows
  <2>2. Len(wire) + 1 \notin TextLines(wire)
    BY <1>1 DEF TextLines
  <2>3. Cardinality(TextLines(wire')) = c + 1
    BY <1>2, <2>1, <2>2, FS_AddElement
  <2>. HIDE DEF c
  <2>4. /\ Len(text') = Len(text) + 1 /\ DOMAIN text' = 1 .. Len(text) + 1
        /\ \A k \in 1 .. Len(text) : text'[k] = text[k]
        /\ text'[Len(text) + 1] = attempt
    <3> DEFINE A == 0 .. MaxRetries
    <3>1. text \in Seq(A) /\ attempt \in A /\ text' = Append(text, attempt)
      BY <1>3, <1>6 DEF TypeOK
    <3>. HIDE DEF A
    <3>. QED
      BY <3>1
  <2>5. \A k \in 1 .. Len(text) + 1 : k = Len(text) + 1 \/ k \in 1 .. Len(text)
    BY <1>3
  <2>6. (Len(text) + 1) - (c + 1) = Len(text) - c /\ c + 1 <= Len(text) + 1
    BY <1>2, <1>3, <1>4
  <2>7. \A k \in 1 .. Len(text) + 1 : k > Len(text) - c => text'[k] = attempt
    BY <1>4, <2>4, <2>5
  <2>. QED
    BY <2>3, <2>4, <2>6, <2>7 DEF TextTells
<1>. QED
  BY <1>5, <1>6

\* A line that is no call leaves the slots and what they count.
LEMMA ReadOther ==
  ASSUME TypeOK, SlotsTell, NEW l \in Lines, wire' = Append(wire, l), slots' = slots,
         l.kind # "call"
  PROVE  SlotsTell'
<1>1. CallLines' = CallLines /\ \A j \in CallLines : wire'[j] = wire[j]
  BY WireGrows DEF CallLines
<1>2. \A i \in DOMAIN slots : slots[i].idx \in Nat /\ slots[i].n \in Nat
  BY SlotShape
<1>3. \A idxs : PiecesAt(wire', idxs) = PiecesAt(wire, idxs) + 0
  BY WireGrows DEF Adds
<1>4. SlotsCount'
  <2>1. \A i \in DOMAIN slots : slots[i].n = PiecesAt(wire', {slots[i].idx})
    BY <1>2, <1>3 DEF SlotsTell, SlotsCount
  <2>2. \A k \in Nat : (\A i \in DOMAIN slots : slots[i].idx # k) => PiecesAt(wire', {k}) = 0
    BY <1>3 DEF SlotsTell, SlotsCount
  <2>. QED
    BY <2>1, <2>2 DEF SlotsCount
<1>5. SlotsDiffer'
  BY DEF SlotsTell, SlotsDiffer
<1>6. SlotsAreLines'
  <2>1. ASSUME NEW i \in DOMAIN slots PROVE \E j \in CallLines' : wire'[j].idx = slots[i].idx
    <3>1. PICK j \in CallLines : wire[j].idx = slots[i].idx
      BY DEF SlotsTell, SlotsAreLines
    <3>. QED
      BY <1>1, <3>1
  <2>2. ASSUME NEW j \in CallLines' PROVE \E i \in DOMAIN slots : slots[i].idx = wire'[j].idx
    <3>1. j \in CallLines /\ wire'[j] = wire[j]
      BY <1>1
    <3>2. PICK i \in DOMAIN slots : slots[i].idx = wire[j].idx
      BY <3>1 DEF SlotsTell, SlotsAreLines
    <3>. QED
      BY <3>1, <3>2
  <2>. QED
    BY <2>1, <2>2 DEF SlotsAreLines
<1>7. SlotsAreNamed'
  <2>1. ASSUME NEW i \in DOMAIN slots, slots[i].id # NoId
        PROVE  \E j \in CallLines' : wire'[j].idx = slots[i].idx /\ wire'[j].id = slots[i].id
    <3>1. PICK j \in CallLines : wire[j].idx = slots[i].idx /\ wire[j].id = slots[i].id
      BY <2>1 DEF SlotsTell, SlotsAreNamed
    <3>. QED
      BY <1>1, <3>1
  <2>2. ASSUME NEW j \in CallLines', wire'[j].id # NoId, NEW i \in DOMAIN slots,
               slots[i].idx = wire'[j].idx
        PROVE  slots[i].id # NoId
    <3>1. j \in CallLines /\ wire'[j] = wire[j]
      BY <1>1
    <3>. QED
      BY <2>2, <3>1 DEF SlotsTell, SlotsAreNamed
  <2>. QED
    BY <2>1, <2>2 DEF SlotsAreNamed
<1>. QED
  BY <1>4, <1>5, <1>6, <1>7 DEF SlotsTell

\* A line of a call, which goes to the slot m at its index: the facts that do
\* not depend on whether the slot is new.
LEMMA ReadCallAt ==
  ASSUME TypeOK, SlotsTell, NEW l \in Lines, wire' = Append(wire, l), l.kind = "call",
         NEW m, DOMAIN slots' = DOMAIN slots \cup {m},
         \A i \in DOMAIN slots : i # m => slots'[i] = slots[i] /\ slots[i].idx # l.idx,
         slots'[m].idx = l.idx,
         slots'[m].n = PiecesAt(wire, {l.idx}) + l.n,
         slots'[m].id = (IF l.id # NoId \/ m \notin DOMAIN slots THEN l.id ELSE slots[m].id),
         m \in DOMAIN slots => slots[m].idx = l.idx
  PROVE  SlotsTell'
<1> DEFINE new == Len(wire) + 1
<1>1. /\ CallLines' = CallLines \cup {new} /\ new \notin DOMAIN wire
      /\ \A j \in CallLines : wire'[j] = wire[j]
      /\ wire'[new] = l
  BY WireGrows DEF CallLines
<1>. HIDE DEF new
<1>2. l.idx \in Nat /\ l.n \in Nat
  BY ModelCallAssumption DEF Line
<1>3. /\ \A idxs : l.idx \in idxs => PiecesAt(wire', idxs) = PiecesAt(wire, idxs) + l.n
      /\ \A idxs : l.idx \notin idxs => PiecesAt(wire', idxs) = PiecesAt(wire, idxs) + 0
  BY WireGrows DEF Adds
<1>4. \A i \in DOMAIN slots : slots[i].idx \in Nat /\ slots[i].n \in Nat
  BY SlotShape
<1>5. SlotsDiffer'
  BY DEF SlotsTell, SlotsDiffer
<1>6. SlotsCount'
  <2>1. ASSUME NEW i \in DOMAIN slots' PROVE slots'[i].n = PiecesAt(wire', {slots'[i].idx})
    <3>1. CASE i = m
      BY <1>3, <3>1
    <3>2. CASE i # m
      <4>1. i \in DOMAIN slots /\ slots'[i] = slots[i] /\ l.idx \notin {slots[i].idx}
        BY <2>1, <3>2
      <4>2. slots[i].n = PiecesAt(wire, {slots[i].idx}) /\ slots[i].n \in Nat
        BY <1>4, <4>1 DEF SlotsTell, SlotsCount
      <4>. QED
        BY <1>3, <4>1, <4>2
    <3>. QED
      BY <3>1, <3>2
  <2>2. ASSUME NEW k \in Nat, \A i \in DOMAIN slots' : slots'[i].idx # k
        PROVE  PiecesAt(wire', {k}) = 0
    <3>1. l.idx \notin {k}
      BY <2>2
    <3>2. \A i \in DOMAIN slots : slots[i].idx # k
      BY <2>2
    <3>3. PiecesAt(wire, {k}) = 0
      BY <3>2 DEF SlotsTell, SlotsCount
    <3>. QED
      BY <1>3, <3>1, <3>3
  <2>. QED
    BY <2>1, <2>2 DEF SlotsCount
<1>7. SlotsAreLines'
  <2>1. ASSUME NEW i \in DOMAIN slots' PROVE \E j \in CallLines' : wire'[j].idx = slots'[i].idx
    <3>1. CASE i = m
      BY <1>1, <3>1
    <3>2. CASE i # m
      <4>1. i \in DOMAIN slots /\ slots'[i] = slots[i]
        BY <2>1, <3>2
      <4>2. PICK j \in CallLines : wire[j].idx = slots[i].idx
        BY <4>1 DEF SlotsTell, SlotsAreLines
      <4>. QED
        BY <1>1, <4>1, <4>2
    <3>. QED
      BY <3>1, <3>2
  <2>2. ASSUME NEW j \in CallLines' PROVE \E i \in DOMAIN slots' : slots'[i].idx = wire'[j].idx
    <3>1. CASE j = new
      BY <1>1, <3>1
    <3>2. CASE j \in CallLines
      <4>1. PICK i \in DOMAIN slots : slots[i].idx = wire[j].idx
        BY <3>2 DEF SlotsTell, SlotsAreLines
      <4>2. slots'[i].idx = slots[i].idx
        BY <4>1
      <4>. QED
        BY <1>1, <3>2, <4>1, <4>2
    <3>. QED
      BY <1>1, <3>1, <3>2
  <2>. QED
    BY <2>1, <2>2 DEF SlotsAreLines
<1>8. SlotsAreNamed'
  <2>1. ASSUME NEW i \in DOMAIN slots', slots'[i].id # NoId
        PROVE  \E j \in CallLines' : wire'[j].idx = slots'[i].idx /\ wire'[j].id = slots'[i].id
    <3>1. CASE i # m
      <4>1. i \in DOMAIN slots /\ slots'[i] = slots[i]
        BY <2>1, <3>1
      <4>2. PICK j \in CallLines : wire[j].idx = slots[i].idx /\ wire[j].id = slots[i].id
        BY <2>1, <4>1 DEF SlotsTell, SlotsAreNamed
      <4>. QED
        BY <1>1, <4>1, <4>2
    <3>2. CASE i = m /\ slots'[m].id = l.id
      <4>1. new \in CallLines'
        BY <1>1
      <4>. QED
        BY <1>1, <3>2, <4>1
    <3>3. CASE i = m /\ m \in DOMAIN slots /\ slots'[m].id = slots[m].id
      <4>1. PICK j \in CallLines : wire[j].idx = slots[m].idx /\ wire[j].id = slots[m].id
        BY <2>1, <3>3 DEF SlotsTell, SlotsAreNamed
      <4>2. j \in CallLines' /\ wire'[j] = wire[j]
        BY <1>1
      <4>. QED
        BY <3>3, <4>1, <4>2
    <3>. QED
      BY <3>1, <3>2, <3>3
  <2>2. ASSUME NEW j \in CallLines', wire'[j].id # NoId, NEW i \in DOMAIN slots',
               slots'[i].idx = wire'[j].idx
        PROVE  slots'[i].id # NoId
    <3>1. CASE i # m
      <4>1. i \in DOMAIN slots /\ slots'[i] = slots[i] /\ slots[i].idx # l.idx
        BY <2>2, <3>1
      <4>2. j \in CallLines /\ wire'[j] = wire[j]
        BY <1>1, <2>2, <4>1
      <4>. QED
        BY <2>2, <4>1, <4>2 DEF SlotsTell, SlotsAreNamed
    <3>2. CASE i = m /\ l.id # NoId
      BY <3>2
    <3>3. CASE i = m /\ l.id = NoId
      <4>1. j \in CallLines /\ wire'[j] = wire[j]
        BY <1>1, <2>2, <3>3
      <4>2. PICK q \in DOMAIN slots : slots[q].idx = wire[j].idx
        BY <4>1 DEF SlotsTell, SlotsAreLines
      <4>3. q = m
        BY <2>2, <3>3, <4>1, <4>2
      <4>4. slots[m].id # NoId
        BY <2>2, <4>1, <4>2, <4>3 DEF SlotsTell, SlotsAreNamed
      <4>. QED
        BY <3>3, <4>2, <4>3, <4>4
    <3>. QED
      BY <3>1, <3>2, <3>3
  <2>. QED
    BY <2>1, <2>2 DEF SlotsAreNamed
<1>. QED
  BY <1>5, <1>6, <1>7, <1>8 DEF SlotsTell

LEMMA ReadTells ==
  ASSUME TypeOK, SlotsTell, TextTells, NEW l \in Lines, Read(l)
  PROVE  SlotsTell' /\ TextTells'
<1>1. l \in Line /\ wire' = Append(wire, l)
  BY ModelCallAssumption DEF Read
<1>2. TextTells'
  BY ReadText DEF Read
<1>3. CASE l.kind # "call"
  <2>1. slots' = slots
    BY <1>3 DEF Read
  <2>. QED
    BY <1>1, <1>2, <1>3, <2>1, ReadOther
<1>4. CASE l.kind = "call"
  <2>1. slots' = Take(l) /\ SlotsDiffer
    BY <1>4 DEF Read, SlotsTell
  <2>2. ASSUME NEW m, ToOld(l, m, slots')
        PROVE  SlotsTell'
    <3>1. \A i \in DOMAIN slots : i # m => slots'[i] = slots[i] /\ slots[i].idx # l.idx
      BY <2>1, <2>2 DEF SlotsDiffer, ToOld
    <3>2. m \in DOMAIN slots /\ slots[m].idx = l.idx /\ slots[m].n = PiecesAt(wire, {l.idx})
      BY <2>2 DEF SlotsTell, SlotsCount, ToOld
    <3>3. DOMAIN slots' = DOMAIN slots \cup {m}
      BY <2>2, <3>2 DEF ToOld
    <3>4. /\ slots'[m].idx = l.idx
          /\ slots'[m].n = PiecesAt(wire, {l.idx}) + l.n
          /\ slots'[m].id = IF l.id # NoId \/ m \notin DOMAIN slots THEN l.id ELSE slots[m].id
      BY <2>2, <3>2 DEF ToOld
    <3>. QED
      BY <1>1, <1>4, <3>1, <3>2, <3>3, <3>4, ReadCallAt
  <2>3. ASSUME NEW m, ToNew(l, m, slots')
        PROVE  SlotsTell'
    <3>1. l.idx \in Nat /\ l.n \in Nat
      BY <1>1 DEF Line
    <3>2. PiecesAt(wire, {l.idx}) = 0
      BY <2>3, <3>1 DEF SlotsTell, SlotsCount, ToNew
    <3>3. /\ slots'[m].idx = l.idx
          /\ slots'[m].n = PiecesAt(wire, {l.idx}) + l.n
          /\ slots'[m].id = IF l.id # NoId \/ m \notin DOMAIN slots THEN l.id ELSE slots[m].id
      BY <2>3, <3>1, <3>2 DEF ToNew
    <3>. QED
      BY <1>1, <1>4, <2>3, <3>3, ReadCallAt DEF ToNew
  <2>4. \E m : ToOld(l, m, slots') \/ ToNew(l, m, slots')
    BY <1>1, <2>1, TakeSlots
  <2>. QED
    BY <1>2, <2>2, <2>3, <2>4
<1>. QED
  BY <1>2, <1>3, <1>4

\* The ids that the call lines at the index k name.
NamedAt(k) == {wire[i].id : i \in {j \in CallLines : wire[j].idx = k}} \ {NoId}

LEMMA ConformsUnfold ==
  ASSUME Conforms(wire)
  PROVE  /\ \A i \in CallLines : \E id \in Ids : NamedAt(wire[i].idx) = {id}
         /\ \A i, j \in CallLines : NamedAt(wire[i].idx) = NamedAt(wire[j].idx)
                                     => wire[i].idx = wire[j].idx
BY DEF Conforms, NamedAt, CallLines

\* A slot has the one id that the lines at its index name.
LEMMA SlotNamed ==
  ASSUME SlotsTell, Conforms(wire), NEW i \in DOMAIN slots
  PROVE  slots[i].id \in Ids /\ NamedAt(slots[i].idx) = {slots[i].id}
<1>1. PICK j \in CallLines : wire[j].idx = slots[i].idx
  BY DEF SlotsTell, SlotsAreLines
<1>2. PICK id \in Ids : NamedAt(slots[i].idx) = {id}
  BY <1>1, ConformsUnfold
<1>3. PICK k \in CallLines : wire[k].idx = slots[i].idx /\ wire[k].id = id /\ id # NoId
  BY <1>2 DEF NamedAt
<1>4. slots[i].id # NoId
  BY <1>3 DEF SlotsTell, SlotsAreNamed
<1>5. PICK q \in CallLines : wire[q].idx = slots[i].idx /\ wire[q].id = slots[i].id
  BY <1>4 DEF SlotsTell, SlotsAreNamed
<1>6. slots[i].id \in NamedAt(slots[i].idx)
  BY <1>4, <1>5 DEF NamedAt
<1>. QED
  BY <1>2, <1>6

\* The calls that are handed on are those the attempt has sent.
LEMMA AssembledTells ==
  ASSUME TypeOK, SlotsTell, Conforms(wire)
  PROVE  /\ DOMAIN Assembled = {wire[i].id : i \in CallLines} \ {NoId}
         /\ \A id \in DOMAIN Assembled : Assembled[id] = Pieces(wire, id)
<1> DEFINE Of(id) == {i \in DOMAIN slots : slots[i].id = id}
<1>1. DOMAIN Assembled = {slots[i].id : i \in DOMAIN slots} \ {NoId}
  BY DEF Assembled
<1>2. \A id \in DOMAIN Assembled :
        Assembled[id] = slots[CHOOSE i \in Of(id) : \A k \in Of(id) : k <= i].n
  BY DEF Assembled
<1>3. \A j \in CallLines : wire[j].id # NoId =>
        \E i \in DOMAIN slots : slots[i].idx = wire[j].idx /\ slots[i].id = wire[j].id
  <2>1. SUFFICES ASSUME NEW j \in CallLines, wire[j].id # NoId
                 PROVE  \E i \in DOMAIN slots : slots[i].idx = wire[j].idx /\ slots[i].id = wire[j].id
    OBVIOUS
  <2>2. PICK i \in DOMAIN slots : slots[i].idx = wire[j].idx
    BY DEF SlotsTell, SlotsAreLines
  <2>3. wire[j].id \in NamedAt(slots[i].idx)
    BY <2>1, <2>2 DEF NamedAt
  <2>. QED
    BY <2>2, <2>3, SlotNamed
<1>4. DOMAIN Assembled = {wire[i].id : i \in CallLines} \ {NoId}
  <2>1. ASSUME NEW i \in DOMAIN slots, slots[i].id # NoId
        PROVE  slots[i].id \in {wire[j].id : j \in CallLines}
    BY <2>1 DEF SlotsTell, SlotsAreNamed
  <2>2. ASSUME NEW j \in CallLines, wire[j].id # NoId
        PROVE  wire[j].id \in {slots[i].id : i \in DOMAIN slots}
    <3>1. PICK i \in DOMAIN slots : slots[i].id = wire[j].id
      BY <1>3, <2>2
    <3>. QED
      BY <3>1
  <2>. QED
    BY <1>1, <2>1, <2>2
<1>5. ASSUME NEW i \in DOMAIN slots, NEW k \in DOMAIN slots, slots[i].id = slots[k].id
      PROVE  i = k
  <2>1. NamedAt(slots[i].idx) = NamedAt(slots[k].idx)
    BY <1>5, SlotNamed
  <2>2. PICK j \in CallLines : wire[j].idx = slots[i].idx
    BY DEF SlotsTell, SlotsAreLines
  <2>3. PICK q \in CallLines : wire[q].idx = slots[k].idx
    BY DEF SlotsTell, SlotsAreLines
  <2>4. slots[i].idx = slots[k].idx
    BY <2>1, <2>2, <2>3, ConformsUnfold
  <2>. QED
    BY <2>4 DEF SlotsTell, SlotsDiffer
<1>6. ASSUME NEW id \in DOMAIN Assembled PROVE Assembled[id] = Pieces(wire, id)
  <2>1. PICK i \in DOMAIN slots : slots[i].id = id
    BY <1>1
  <2>2. Of(id) = {i}
    BY <1>5, <2>1
  <2>3. i \in Nat
    <3>1. slots \in Seq(Slot)
      BY DEF TypeOK, Slot
    <3>2. DOMAIN slots = 1 .. Len(slots) /\ Len(slots) \in Nat
      BY <3>1
    <3>. QED
      BY <3>2
  <2>4. (CHOOSE k \in Of(id) : \A q \in Of(id) : q <= k) = i
    BY <2>2, <2>3
  <2>5. Assembled[id] = PiecesAt(wire, {slots[i].idx})
    BY <1>2, <2>4 DEF SlotsTell, SlotsCount
  <2> DEFINE At == {wire[k].idx : k \in {j \in DOMAIN wire : wire[j].kind = "call" /\ wire[j].id = id}}
  <2>6. id # NoId
    BY <1>1
  <2>7. slots[i].idx \in At
    <3>1. PICK j \in CallLines : wire[j].idx = slots[i].idx /\ wire[j].id = id
      BY <2>1, <2>6 DEF SlotsTell, SlotsAreNamed
    <3>. QED
      BY <3>1 DEF CallLines
  <2>8. ASSUME NEW j \in DOMAIN wire, wire[j].kind = "call", wire[j].id = id
        PROVE  wire[j].idx = slots[i].idx
    <3>1. j \in CallLines
      BY <2>8 DEF CallLines
    <3>2. PICK k \in DOMAIN slots : slots[k].idx = wire[j].idx /\ slots[k].id = wire[j].id
      BY <1>3, <2>6, <2>8, <3>1
    <3>. QED
      BY <1>5, <2>1, <2>8, <3>2
  <2>9. At = {slots[i].idx}
    BY <2>7, <2>8
  <2>. QED
    BY <2>5, <2>9 DEF Pieces
<1>. QED
  BY <1>4, <1>6

LEMMA AttemptNext ==
  ASSUME TypeOK, AttemptInv, [Next]_vars, TypeOK'
  PROVE  AttemptInv'
<1>1. ASSUME pc' \notin {"reading", "post", "answered"}
      PROVE  AttemptInv'
  BY <1>1 DEF AttemptInv, ReplyTellsAttempt
<1>2. CASE Request
  BY <1>2 DEF Request, AttemptInv, ReplyTellsAttempt
<1>3. ASSUME Again PROVE AttemptInv'
  BY <1>3 DEF Again, AttemptInv, ReplyTellsAttempt
<1>4. ASSUME Fails PROVE AttemptInv'
  BY <1>1, <1>4 DEF Fails
<1>5. CASE Refused \/ Busy \/ Dropped \/ Raises
  BY <1>3, <1>4, <1>5 DEF Refused, Busy, Dropped, Raises
<1>6. CASE RunsOut
  <2>1. CASE failed
    BY <1>4, <1>6, <2>1 DEF RunsOut
  <2>2. CASE ~failed
    <3>1. /\ pc = "post" /\ pc' = "answered" /\ wire' = wire /\ text' = text
          /\ reply' = reply /\ attempt' = attempt
      BY <1>6, <2>2 DEF RunsOut, stream
    <3>2. wire' = <<>> /\ reply' = NoCalls /\ text' \in Seq(0 .. MaxRetries)
      BY <2>2, <3>1 DEF AttemptInv, TypeOK
    <3>3. DOMAIN wire' = {} /\ DOMAIN reply' = {} /\ TextLines(wire') = {}
      BY <3>2 DEF TextLines, NoCalls
    <3>4. Cardinality(TextLines(wire')) = 0
      BY <3>3, FS_EmptySet
    <3>5. Len(text') \in Nat /\ DOMAIN text' = 1 .. Len(text')
      BY <3>2
    <3>6. ReplyTellsAttempt'
      BY <3>3, <3>4, <3>5 DEF ReplyTellsAttempt
    <3>. QED
      BY <3>1, <3>6 DEF AttemptInv
  <2>. QED
    BY <2>1, <2>2
<1>7. CASE Connected
  <2>1. /\ wire' = <<>> /\ slots' = <<>> /\ text' \in Seq(0 .. MaxRetries) /\ pc' = "reading"
    BY <1>7 DEF Connected, TypeOK
  <2>. QED
    BY <2>1, NothingTells DEF AttemptInv, ReplyTellsAttempt
<1>8. CASE Finish
  <2>1. /\ pc = "reading" /\ pc' = "answered" /\ wire' = wire /\ text' = text
        /\ attempt' = attempt /\ reply' = Assembled
    BY <1>8 DEF Finish, stream
  <2>2. SlotsTell /\ TextTells
    BY <2>1 DEF AttemptInv
  <2>3. CallLines = {j \in DOMAIN wire : wire[j].kind = "call"}
    BY DEF CallLines
  <2>4. ReplyTellsAttempt'
    <3>1. ASSUME Conforms(wire)
          PROVE  /\ DOMAIN reply' = {wire[i].id : i \in CallLines} \ {NoId}
                 /\ \A id \in DOMAIN reply' : reply'[id] = Pieces(wire, id)
      BY <2>1, <2>2, <3>1, AssembledTells
    <3>2. /\ Cardinality(TextLines(wire)) <= Len(text')
          /\ \A k \in DOMAIN text' : k > Len(text') - Cardinality(TextLines(wire)) => text'[k] = attempt'
      BY <2>1, <2>2 DEF TextTells
    <3>. QED
      BY <2>1, <2>3, <3>1, <3>2 DEF ReplyTellsAttempt
  <2>. QED
    BY <2>1, <2>4 DEF AttemptInv
<1>9. ASSUME NEW l \in Lines, Read(l) PROVE AttemptInv'
  <2>1. pc = "reading" /\ pc' = "reading"
    BY <1>9 DEF Read
  <2>. QED
    BY <1>9, <2>1, ReadTells DEF AttemptInv, ReplyTellsAttempt
<1>10. CASE ResetPlan \/ (\E planned \in BOOLEAN : OpenStep(planned)) \/ Account
            \/ AssemblyRaises \/ LastTurn \/ CloseStep
  BY <1>1, <1>10 DEF ResetPlan, OpenStep, Account, AssemblyRaises, LastTurn, CloseStep
<1>11. CASE UNCHANGED vars
  <2>1. /\ pc' = pc /\ wire' = wire /\ slots' = slots /\ text' = text
        /\ reply' = reply /\ attempt' = attempt /\ failed' = failed
    BY <1>11 DEF vars
  <2>2. CallLines' = CallLines
    BY <2>1 DEF CallLines
  <2>3. SlotsDiffer' = SlotsDiffer
    BY <2>1, Zenon DEF SlotsDiffer
  <2>4. SlotsCount' = SlotsCount
    BY <2>1, Zenon DEF SlotsCount
  <2>5. SlotsAreLines' = SlotsAreLines
    BY <2>1, <2>2, Zenon DEF SlotsAreLines
  <2>6. SlotsAreNamed' = SlotsAreNamed
    BY <2>1, <2>2, Zenon DEF SlotsAreNamed
  <2>7. TextTells' = TextTells
    BY <2>1, Zenon DEF TextTells
  <2>8. ReplyTellsAttempt' = ReplyTellsAttempt
    BY <2>1, Zenon DEF ReplyTellsAttempt
  <2>. QED
    BY <2>1, <2>3, <2>4, <2>5, <2>6, <2>7, <2>8 DEF AttemptInv, SlotsTell
<1>. QED
  BY <1>2, <1>5, <1>6, <1>7, <1>8, <1>9, <1>10, <1>11 DEF Next, Streaming

\* An answered request has exactly the tool calls its last attempt has sent,
\* whatever the lines of the server, however many attempts broke off before
\* and whatever they had sent: stream() keeps the calls of an attempt apart
\* and emits them only when it is over.
THEOREM ReplyAlwaysTellsAttempt == Spec => []ReplyTellsAttempt
<1>1. Init => AttemptInv
  BY DEF Init, AttemptInv, ReplyTellsAttempt
<1>2. IInv /\ IInv' /\ AttemptInv /\ [Next]_vars => AttemptInv'
  BY AttemptNext DEF IInv
<1>3. IInv /\ [Next]_vars => IInv'
  BY TypeNext, BooksNext DEF IInv
<1>4. AttemptInv => ReplyTellsAttempt
  BY DEF AttemptInv
<1>. QED
  BY InvInit, <1>1, <1>2, <1>3, <1>4, PTL DEF Spec

-----------------------------------------------------------------------------
(* The end of a request.                                                    *)

\* The lines of an attempt are as many as an attempt may have.
WireIsShort == pc = "reading" => Len(wire) <= MaxLines

LEMMA WireNext ==
  ASSUME TypeOK, WireIsShort, [Next]_vars
  PROVE  WireIsShort'
<1>1. CASE Connected
  <2>1. wire' = <<>> /\ MaxLines \in Nat
    BY <1>1, ModelCallAssumption DEF Connected
  <2>. QED
    BY <2>1 DEF WireIsShort
<1>2. ASSUME NEW l \in Lines, Read(l) PROVE WireIsShort'
  <2>1. wire' = Append(wire, l) /\ wire \in Seq(Lines) /\ Len(wire) < MaxLines
        /\ MaxLines \in Nat
    BY <1>2, ModelCallAssumption DEF Read, TypeOK
  <2>2. Len(wire') = Len(wire) + 1 /\ Len(wire) \in Nat
    BY <2>1
  <2>. QED
    BY <2>1, <2>2 DEF WireIsShort
<1>3. CASE Refused \/ Busy \/ Dropped \/ Raises \/ RunsOut \/ Finish
  BY <1>3 DEF Refused, Busy, Dropped, Raises, RunsOut, Finish, Fails, Again, WireIsShort
<1>4. CASE Request \/ ResetPlan \/ (\E planned \in BOOLEAN : OpenStep(planned)) \/ Account
           \/ AssemblyRaises \/ LastTurn \/ CloseStep
  BY <1>4 DEF Request, ResetPlan, OpenStep, Account, AssemblyRaises, LastTurn, CloseStep,
              WireIsShort
<1>5. CASE UNCHANGED vars
  BY <1>5 DEF vars, WireIsShort
<1>. QED
  BY <1>1, <1>2, <1>3, <1>4, <1>5 DEF Next, Streaming

\* What the attempts from the a-th on may still cost.
Worth(a) == (MaxRetries - a) * (MaxLines + 2)

LEMMA AttemptIsWorth ==
  ASSUME NEW a \in 0 .. MaxRetries
  PROVE  /\ Worth(a) \in Nat
         /\ a < MaxRetries => Worth(a) = Worth(a + 1) + MaxLines + 2 /\ Worth(a + 1) \in Nat
<1>1. \A k, w \in Nat : k * w \in Nat /\ (k + 1) * w = k * w + w
  OBVIOUS
<1>2. MaxRetries \in Nat /\ MaxLines \in Nat /\ MaxLines + 2 \in Nat /\ MaxRetries - a \in Nat
  BY ModelCallAssumption
<1>3. Worth(a) \in Nat
  BY <1>1, <1>2 DEF Worth
<1>4. ASSUME a < MaxRetries
      PROVE  Worth(a) = Worth(a + 1) + MaxLines + 2 /\ Worth(a + 1) \in Nat
  <2>1. PICK k \in Nat : k = MaxRetries - (a + 1)
    BY <1>2, <1>4
  <2>2. MaxRetries - a = k + 1
    BY <1>2, <2>1
  <2>3. (k + 1) * (MaxLines + 2) = k * (MaxLines + 2) + (MaxLines + 2) /\ k * (MaxLines + 2) \in Nat
    BY <1>1, <1>2
  <2>4. Worth(a) = (k + 1) * (MaxLines + 2) /\ Worth(a + 1) = k * (MaxLines + 2)
    BY <2>1, <2>2 DEF Worth
  <2>. QED
    BY <1>2, <2>3, <2>4
<1>. QED
  BY <1>3, <1>4

LEMMA StepsLeftIs ==
  /\ /\ pc = "post" => StepsLeft = 1 + Worth(attempt)
     /\ pc = "reading" => StepsLeft = Worth(attempt) - Len(wire)
     /\ pc \notin {"post", "reading"} => StepsLeft = 0
  /\ /\ pc' = "post" => StepsLeft' = 1 + Worth(attempt')
     /\ pc' = "reading" => StepsLeft' = Worth(attempt') - Len(wire')
     /\ pc' \notin {"post", "reading"} => StepsLeft' = 0
BY DEF StepsLeft, Worth

LEMMA AwaitTypes ==
  ASSUME TypeOK, WireIsShort
  PROVE  /\ attempt \in 0 .. MaxRetries /\ MaxRetries \in Nat /\ MaxLines \in Nat
         /\ wire \in Seq(Lines) /\ Len(wire) \in Nat
         /\ pc = "reading" => attempt < MaxRetries /\ Len(wire) <= MaxLines
<1>1. wire \in Seq(Lines) /\ (pc = "reading" => attempt < MaxRetries)
  BY DEF TypeOK
<1>2. Len(wire) \in Nat
  BY <1>1
<1>3. MaxLines \in Nat
  BY ModelCallAssumption
<1>. QED
  BY <1>1, <1>2, <1>3, AttemptNat DEF WireIsShort

LEMMA StreamingShortens ==
  ASSUME TypeOK, WireIsShort, Streaming
  PROVE  StepsLeft' < StepsLeft
<1>1. /\ attempt \in 0 .. MaxRetries /\ MaxRetries \in Nat /\ MaxLines \in Nat
      /\ wire \in Seq(Lines) /\ Len(wire) \in Nat
      /\ pc = "reading" => attempt < MaxRetries /\ Len(wire) <= MaxLines
  BY AwaitTypes
<1>2. /\ Worth(attempt) \in Nat
      /\ attempt < MaxRetries => Worth(attempt) = Worth(attempt + 1) + MaxLines + 2
                                 /\ Worth(attempt + 1) \in Nat
  BY <1>1, AttemptIsWorth
<1>3. pc \in {"post", "reading"} => StepsLeft > 0 /\ StepsLeft \in Nat
  BY <1>1, <1>2, StepsLeftIs
<1>4. ASSUME pc \in {"post", "reading"}, pc' \in {"error", "answered"}
      PROVE  StepsLeft' < StepsLeft
  BY <1>3, <1>4, StepsLeftIs
<1>5. ASSUME pc \in {"post", "reading"}, Again, attempt < MaxRetries
      PROVE  StepsLeft' < StepsLeft
  <2>1. pc' = "post" /\ attempt' = attempt + 1
    BY <1>5 DEF Again
  <2>2. StepsLeft' = 1 + Worth(attempt + 1)
    BY <2>1, StepsLeftIs
  <2>3. StepsLeft > 1 + Worth(attempt + 1)
    BY <1>1, <1>2, <1>5, StepsLeftIs
  <2>. QED
    BY <1>2, <1>5, <2>2, <2>3
<1>6. CASE Refused \/ Raises \/ Finish \/ RunsOut
  <2>1. pc \in {"post", "reading"} /\ pc' \in {"error", "answered"}
    BY <1>6 DEF Refused, Raises, Finish, RunsOut, Posting, Fails
  <2>. QED
    BY <1>4, <2>1
<1>7. CASE Busy
  BY <1>5, <1>7 DEF Busy, Posting
<1>8. CASE Dropped
  <2>1. pc \in {"post", "reading"} /\ attempt < MaxRetries
    BY <1>1, <1>8 DEF Dropped, Posting
  <2>2. Again \/ pc' = "error"
    BY <1>8 DEF Dropped, Fails
  <2>. QED
    BY <1>4, <1>5, <2>1, <2>2
<1>9. CASE Connected
  <2>1. pc = "post" /\ pc' = "reading" /\ attempt' = attempt /\ wire' = <<>>
    BY <1>9 DEF Connected, Posting
  <2>2. StepsLeft = 1 + Worth(attempt) /\ StepsLeft' = Worth(attempt) - Len(wire')
    BY <2>1, StepsLeftIs
  <2>3. Len(wire') = 0
    BY <2>1
  <2>. QED
    BY <1>2, <2>2, <2>3
<1>10. ASSUME NEW l \in Lines, Read(l) PROVE StepsLeft' < StepsLeft
  <2>1. pc = "reading" /\ pc' = "reading" /\ attempt' = attempt /\ wire' = Append(wire, l)
    BY <1>10 DEF Read
  <2>2. StepsLeft = Worth(attempt) - Len(wire) /\ StepsLeft' = Worth(attempt) - Len(wire')
    BY <2>1, StepsLeftIs
  <2>3. Len(wire') = Len(wire) + 1
    BY <1>1, <2>1
  <2>. QED
    BY <1>1, <1>2, <2>2, <2>3
<1>. QED
  BY <1>6, <1>7, <1>8, <1>9, <1>10 DEF Streaming

\* However the server answers, refuses or breaks off, a request ends after a
\* number of awaits that the attempts and the lines fix: only the next request
\* has its attempts again (the loop over range(max_retries) in stream()).
THEOREM RequestAlwaysBounded == Spec => RequestIsBounded /\ [](StepsLeft \in Nat)
<1>1. Init => WireIsShort
  BY DEF Init, WireIsShort
<1>2. TypeOK /\ WireIsShort /\ [Next]_vars => WireIsShort'
  BY WireNext
<1>3. TypeOK /\ WireIsShort => StepsLeft \in Nat
  <2> SUFFICES ASSUME TypeOK, WireIsShort PROVE StepsLeft \in Nat
    OBVIOUS
  <2>1. /\ attempt \in 0 .. MaxRetries /\ MaxLines \in Nat /\ Len(wire) \in Nat
        /\ pc = "reading" => attempt < MaxRetries /\ Len(wire) <= MaxLines
    BY AwaitTypes
  <2>2. /\ Worth(attempt) \in Nat
        /\ attempt < MaxRetries => Worth(attempt) = Worth(attempt + 1) + MaxLines + 2
                                   /\ Worth(attempt + 1) \in Nat
    BY <2>1, AttemptIsWorth
  <2>. QED
    BY <2>1, <2>2, StepsLeftIs
<1>4. TypeOK /\ WireIsShort /\ [Next]_vars =>
        [IF Streaming THEN StepsLeft' < StepsLeft ELSE Request \/ StepsLeft' = StepsLeft]_vars
  <2> SUFFICES ASSUME TypeOK, WireIsShort, [Next]_vars, ~Streaming, ~Request
               PROVE  StepsLeft' = StepsLeft
    BY StreamingShortens, Zenon
  <2>1. CASE UNCHANGED vars
    <3>1. pc' = pc /\ attempt' = attempt /\ wire' = wire
      BY <2>1 DEF vars
    <3>. QED
      BY <3>1 DEF StepsLeft
  <2>2. CASE ~UNCHANGED vars
    <3>1. pc \notin {"post", "reading"} /\ pc' \notin {"post", "reading"}
      BY <2>2 DEF Next, ResetPlan, OpenStep, Account, AssemblyRaises, LastTurn, CloseStep
    <3>. QED
      BY <3>1, StepsLeftIs
  <2>. QED
    BY <2>1, <2>2
<1>5. TypeOK /\ [Next]_vars => TypeOK'
  BY TypeNext
<1>. QED
  BY InvInit, <1>1, <1>2, <1>3, <1>4, <1>5, PTL DEF Spec, IInv, RequestIsBounded

=============================================================================

--------------------------- MODULE McpClientProofs ---------------------------
(***************************************************************************)
(* Theorems about McpClient, for any number of subagents and of coroutines   *)
(* that start the server, of starts, requests and lines in a pipe.          *)
(***************************************************************************)
EXTENDS McpClient, TLAPS

UserType == [pc : {"idle", "sent", "waiting", "woken", "ok", "failed"},
             id : Nat, q : Nat, g : 0 .. MaxStarts]

\* What holds of the request of a coroutine: under way, its id is its number,
\* and answered, it has its own answer.
GoodRequest(r) ==
  /\ r \in UserType
  /\ r.pc \in {"waiting", "woken"} => r.g \in Gens
  /\ r.pc \in {"sent", "waiting", "woken", "ok"} => r.id = r.q

\* The coroutines and the readers of the pipes.
UsersOK ==
  /\ user \in [Users -> UserType] /\ \A u \in Users : GoodRequest(user[u])
  /\ reader \in [Gens -> Users \cup {Nobody}]
  /\ \A g \in Gens, u \in Users : reader[g] = u <=> user[u].pc = "waiting" /\ user[u].g = g

\* The process and its pipes: every id is the number of its request, and no
\* number is given twice, whatever is lost in between.
NumberedReply == {r \in Reply : r.id = r.q}
NumberedRequest == {r \in Request : r.id = r.q}

ServerOK ==
  /\ held \in BOOLEAN /\ gen \in 0 .. MaxStarts /\ alive \subseteq 1 .. gen
  /\ stage \in [Starters -> {"no", "initialize", "list", "ready", "failed"}]
  /\ asked \in 0 .. MaxAsks /\ nextId = asked + 1
  /\ inbox \subseteq NumberedRequest /\ out \in [Gens -> Seq(NumberedReply)]
  /\ sub \in [Agents -> {"idle", "running"}]
  /\ held => gen \in Gens

\* Only the pipe of a running process has a reader that waits.
ReadersOK == \A g \in Gens : reader[g] # Nobody => g \in alive

IInv == UsersOK /\ ServerOK /\ ReadersOK

LEMMA InvInit == Init => IInv
<1>. SUFFICES ASSUME Init PROVE IInv
  OBVIOUS
<1>1. UsersOK
  BY McpAssumption DEF Init, UsersOK, GoodRequest, UserType, NoRequest, Gens, Users
<1>2. ReadersOK
  BY DEF Init, ReadersOK
<1>3. \A g \in Gens : out[g] \in Seq(NumberedReply)
  BY DEF Init
<1>4. out \in [Gens -> Seq(NumberedReply)] /\ inbox \subseteq NumberedRequest
  BY <1>3 DEF Init
<1>5. ServerOK
  <2>1. 0 \in 0 .. MaxStarts /\ 0 \in 0 .. MaxAsks
    BY McpAssumption
  <2>2. stage \in [Starters -> {"no", "initialize", "list", "ready", "failed"}]
        /\ sub \in [Agents -> {"idle", "running"}]
    BY DEF Init
  <2>3. held \in BOOLEAN /\ (held => gen \in Gens) /\ alive \subseteq 1 .. gen
    BY Zenon DEF Init
  <2>4. gen = 0 /\ asked = 0 /\ nextId = asked + 1
    BY DEF Init
  <2>. QED
    BY <1>4, <2>1, <2>2, <2>3, <2>4 DEF ServerOK
<1>. QED
  BY <1>1, <1>2, <1>5 DEF IInv

LEMMA InvImplies == IInv => TypeOK /\ OwnAnswers
<1>. SUFFICES ASSUME IInv PROVE TypeOK /\ OwnAnswers
  OBVIOUS
<1>1. user \in [Users -> UserType]
  BY DEF IInv, UsersOK, GoodRequest, Users
<1>2. inbox \subseteq Request /\ out \in [Gens -> Seq(Reply)]
  <2>1. NumberedReply \subseteq Reply /\ NumberedRequest \subseteq Request
    BY DEF NumberedReply, NumberedRequest
  <2>2. \A g \in Gens : out[g] \in Seq(Reply)
    BY <2>1 DEF IInv, ServerOK
  <2>. QED
    BY <2>1, <2>2 DEF IInv, ServerOK
<1>3. nextId \in Nat \ {0}
  BY McpAssumption DEF IInv, ServerOK
<1>4. \A u \in Users : user[u].pc = "waiting" => user[u].g \in alive
  <2>. SUFFICES ASSUME NEW u \in Users, user[u].pc = "waiting"
                PROVE  user[u].g \in alive
    OBVIOUS
  <2>1. user[u].g \in Gens
    BY DEF IInv, UsersOK, GoodRequest
  <2>2. reader[user[u].g] = u
    BY <2>1 DEF IInv, UsersOK
  <2>3. u # Nobody
    BY McpAssumption
  <2>. QED
    BY <2>1, <2>2, <2>3 DEF IInv, ReadersOK
<1>. QED
  BY <1>1, <1>2, <1>3, <1>4
  DEF IInv, UsersOK, ServerOK, GoodRequest, UserType, TypeOK, OwnAnswers

-----------------------------------------------------------------------------
(* Steps of coroutines.                                                     *)

\* A step of u gives it the request new; u waits where new says, and who else
\* waits still does.
LEMMA UserStep ==
  ASSUME UsersOK, NEW u \in Users, NEW new, GoodRequest(new),
         user' = [user EXCEPT ![u] = new],
         reader' \in [Gens -> Users \cup {Nobody}],
         \A g \in Gens : reader'[g] = u <=> new.pc = "waiting" /\ new.g = g,
         \A g \in Gens : \A v \in Users \ {u} : reader'[g] = v <=> reader[g] = v
  PROVE  UsersOK'
<1>1. user' \in [Users -> UserType]
  BY DEF UsersOK, GoodRequest
<1>2. \A v \in Users : user'[v] = IF v = u THEN new ELSE user[v]
  BY DEF UsersOK
<1>3. \A v \in Users : GoodRequest(user'[v])
  BY <1>2 DEF UsersOK
<1>4. ASSUME NEW g \in Gens, NEW v \in Users
      PROVE  reader'[g] = v <=> user'[v].pc = "waiting" /\ user'[v].g = g
  BY <1>2 DEF UsersOK
<1>. QED
  BY <1>1, <1>3, <1>4 DEF UsersOK, GoodRequest

\* A coroutine that waits nowhere goes on without waiting.
LEMMA UserGoesOn ==
  ASSUME UsersOK, NEW u \in Users, NEW new, GoodRequest(new), new.pc # "waiting",
         user[u].pc # "waiting", user' = [user EXCEPT ![u] = new], UNCHANGED reader
  PROVE  UsersOK'
<1>1. \A g \in Gens : reader'[g] = u <=> new.pc = "waiting" /\ new.g = g
  BY DEF UsersOK
<1>2. reader' \in [Gens -> Users \cup {Nobody}]
  BY DEF UsersOK
<1>. QED
  BY <1>1, <1>2, UserStep

\* A coroutine that is cut leaves the pipe it waits for.
LEMMA UserLeaves ==
  ASSUME UsersOK, ReadersOK, NEW u \in Users, NEW new, GoodRequest(new), new.pc # "waiting",
         user' = [user EXCEPT ![u] = new], Released(u), UNCHANGED server
  PROVE  UsersOK' /\ ReadersOK'
<1>0. u # Nobody
  BY McpAssumption
<1>1. \A g \in Gens : reader'[g] = IF reader[g] = u THEN Nobody ELSE reader[g]
  BY DEF Released
<1>2. reader' \in [Gens -> Users \cup {Nobody}]
  BY DEF Released, UsersOK
<1>3. \A g \in Gens : \A v \in Users \ {u} : reader'[g] = v <=> reader[g] = v
  BY <1>1, McpAssumption
<1>4. UsersOK'
  <2>1. \A g \in Gens : reader'[g] = u <=> new.pc = "waiting" /\ new.g = g
    BY <1>0, <1>1
  <2>. QED
    BY <1>2, <1>3, <2>1, UserStep
<1>5. ReadersOK'
  BY <1>1 DEF ReadersOK, server
<1>. QED
  BY <1>4, <1>5

LEMMA GoodFailed == GoodRequest([NoRequest EXCEPT !.pc = "failed"]) /\ GoodRequest(NoRequest)
BY McpAssumption DEF GoodRequest, UserType, NoRequest

LEMMA AliveIsSpawned == ServerOK => alive \subseteq Gens
BY McpAssumption DEF ServerOK, Gens

\* Data, or the end of the stream, wakes who waits for the pipe of p.
LEMMA WakeKeeps ==
  ASSUME IInv, NEW p \in Gens, Wake(p)
  PROVE  UsersOK' /\ \A g \in Gens : reader'[g] = IF g = p THEN Nobody ELSE reader[g]
<1>1. \A g \in Gens : reader'[g] = IF g = p THEN Nobody ELSE reader[g]
  BY DEF Wake, IInv, UsersOK
<1>2. reader' \in [Gens -> Users \cup {Nobody}]
  BY DEF Wake, IInv, UsersOK
<1>3. ASSUME NEW u \in Users
      PROVE  user'[u] = IF reader[p] = u THEN [user[u] EXCEPT !.pc = "woken"] ELSE user[u]
  BY DEF Wake
<1>4. ASSUME NEW u \in Users
      PROVE  /\ GoodRequest(user'[u])
             /\ \A g \in Gens : reader'[g] = u <=> user'[u].pc = "waiting" /\ user'[u].g = g
  <2>0. u # Nobody
    BY McpAssumption
  <2>1. GoodRequest(user[u])
    BY DEF IInv, UsersOK
  <2>2. \A g \in Gens : reader[g] = u <=> user[u].pc = "waiting" /\ user[u].g = g
    BY DEF IInv, UsersOK
  <2>3. CASE reader[p] = u
    <3>1. user[u].pc = "waiting" /\ user[u].g = p
      BY <2>2, <2>3
    <3>2. user'[u] = [user[u] EXCEPT !.pc = "woken"] /\ user'[u].pc = "woken"
      BY <1>3, <2>1, <2>3 DEF GoodRequest, UserType
    <3>3. GoodRequest(user'[u])
      BY <2>1, <3>1, <3>2 DEF GoodRequest, UserType
    <3>4. \A g \in Gens : reader'[g] # u
      BY <1>1, <2>0, <2>2, <3>1
    <3>. QED
      BY <3>2, <3>3, <3>4
  <2>4. CASE reader[p] # u
    <3>1. user'[u] = user[u]
      BY <1>3, <2>4
    <3>2. \A g \in Gens : reader'[g] = u <=> reader[g] = u
      BY <1>1, <2>0, <2>4
    <3>. QED
      BY <2>1, <2>2, <3>1, <3>2
  <2>. QED
    BY <2>3, <2>4
<1>5. user' \in [Users -> UserType]
  <2>1. user' = [u \in Users |-> user'[u]]
    BY DEF Wake
  <2>. QED
    BY <1>4, <2>1 DEF GoodRequest
<1>6. UsersOK'
  BY <1>2, <1>4, <1>5 DEF UsersOK
<1>. QED
  BY <1>1, <1>6

-----------------------------------------------------------------------------
(* The processes and their pipes.                                           *)

LEMMA WritesKeeps ==
  ASSUME IInv, NEW p, NEW line \in NumberedReply, Writes(p, line), inbox' \subseteq inbox
  PROVE  IInv'
<1>0. p \in Gens /\ p \in alive /\ UNCHANGED <<held, gen, alive, start, sub>>
  BY AliveIsSpawned DEF Writes, IInv
<1>1. UsersOK' /\ \A g \in Gens : reader'[g] = IF g = p THEN Nobody ELSE reader[g]
  BY <1>0, WakeKeeps DEF Writes
<1>2. out' \in [Gens -> Seq(NumberedReply)]
  <2>1. out' = [out EXCEPT ![p] = Append(@, line)] /\ out[p] \in Seq(NumberedReply)
    BY <1>0 DEF Writes, IInv, ServerOK
  <2>2. Append(out[p], line) \in Seq(NumberedReply)
    BY <2>1
  <2>. QED
    BY <1>0, <2>1, <2>2 DEF IInv, ServerOK
<1>3. ServerOK'
  BY <1>0, <1>2 DEF IInv, ServerOK, start
<1>4. ReadersOK'
  BY <1>0, <1>1 DEF IInv, ReadersOK
<1>. QED
  BY <1>1, <1>3, <1>4 DEF IInv

LEMMA ServerSteps ==
  ASSUME IInv, (\E g \in alive : Chatter(g) \/ Exits(g)) \/ \E r \in inbox : Answer(r)
  PROVE  IInv'
<1>. USE DEF IInv
<1>1. ASSUME NEW g \in alive, Chatter(g)
      PROVE  IInv'
  <2>1. PICK kind \in {"note", "junk"} : Writes(g, [kind |-> kind, id |-> 0, q |-> 0])
    BY <1>1 DEF Chatter
  <2>2. [kind |-> kind, id |-> 0, q |-> 0] \in NumberedReply
    BY DEF NumberedReply, Reply
  <2>. QED
    BY <1>1, <2>1, <2>2, WritesKeeps DEF Chatter
<1>2. ASSUME NEW p \in alive, Exits(p)
      PROVE  IInv'
  <2>1. p \in Gens
    BY AliveIsSpawned
  <2>2. UsersOK' /\ \A g \in Gens : reader'[g] = IF g = p THEN Nobody ELSE reader[g]
    BY <1>2, <2>1, WakeKeeps DEF Exits
  <2>3. ServerOK'
    BY <1>2 DEF Exits, ServerOK, start
  <2>4. ReadersOK'
    BY <1>2, <2>2 DEF Exits, ReadersOK
  <2>. QED
    BY <2>2, <2>3, <2>4
<1>3. ASSUME NEW r \in inbox, Answer(r)
      PROVE  IInv'
  <2>1. PICK kind \in {"result", "error"} : Writes(r.g, [kind |-> kind, id |-> r.id, q |-> r.q])
    BY <1>3 DEF Answer
  <2>2. [kind |-> kind, id |-> r.id, q |-> r.q] \in NumberedReply
    BY DEF NumberedReply, Reply, NumberedRequest, Request, ServerOK
  <2>3. inbox' \subseteq inbox
    BY <1>3 DEF Answer
  <2>. QED
    BY <2>1, <2>2, <2>3, WritesKeeps
<1>. QED
  BY <1>1, <1>2, <1>3

-----------------------------------------------------------------------------
(* Requests.                                                                *)

LEMMA AskKeeps ==
  ASSUME IInv, NEW u \in Users, Ask(u)
  PROVE  IInv'
<1>. USE DEF IInv
<1>1. user[u].pc = "idle" /\ nextId = asked + 1 /\ asked \in Nat
      /\ UNCHANGED <<held, gen, alive, stage, out, reader, sub>>
  BY McpAssumption DEF Ask, ServerOK
<1>2. ServerOK'
  <2>1. asked' \in 0 .. MaxAsks /\ nextId' = asked' + 1
    BY <1>1, McpAssumption DEF Ask, NewId, ServerOK
  <2>2. held => [id |-> nextId, q |-> asked + 1, g |-> gen] \in NumberedRequest
    BY <1>1 DEF NumberedRequest, Request, ServerOK
  <2>3. inbox' \subseteq NumberedRequest
    BY <2>2 DEF Ask, ServerOK
  <2>. QED
    BY <1>1, <2>1, <2>3 DEF ServerOK
<1>3. PICK new : new = (IF held THEN [pc |-> "sent", id |-> nextId, q |-> asked + 1, g |-> 0]
                        ELSE [NoRequest EXCEPT !.pc = "failed"])
  OBVIOUS
<1>4. GoodRequest(new) /\ new.pc # "waiting"
  BY <1>1, <1>3, GoodFailed, McpAssumption DEF GoodRequest, UserType, NoRequest
<1>5. UsersOK'
  BY <1>1, <1>3, <1>4, UserGoesOn DEF Ask
<1>6. ReadersOK'
  BY <1>1 DEF ReadersOK
<1>. QED
  BY <1>2, <1>5, <1>6

\* The pipe a coroutine reads is one there is, and it does not wait.
LEMMA ReadKeeps ==
  ASSUME IInv, NEW u \in Users, Read(u)
  PROVE  IInv'
<1>. USE DEF IInv
<1>1. user[u].pc \in {"sent", "woken"} /\ UNCHANGED <<server, start, sub>> /\ GoodRequest(user[u])
  BY DEF Read, UsersOK
<1>2. CASE user[u].pc = "sent" /\ ~held /\ Fails(u) /\ UNCHANGED <<out, reader>>
  <2>1. UsersOK'
    BY <1>1, <1>2, GoodFailed, UserGoesOn DEF Fails, NoRequest
  <2>2. ServerOK' /\ ReadersOK'
    BY <1>1, <1>2 DEF ServerOK, ReadersOK, server, start
  <2>. QED
    BY <2>1, <2>2
<1>3. ASSUME NEW g \in Gens, ReadFrom(u, g)
      PROVE  IInv'
  <2>1. CASE out[g] # <<>> /\ Take(u, g)
    <3> DEFINE line == Head(out[g])
    <3>1. out[g] \in Seq(NumberedReply) /\ line \in NumberedReply
      BY <2>1 DEF ServerOK
    <3>2. out' \in [Gens -> Seq(NumberedReply)]
      <4>1. out' = [out EXCEPT ![g] = Tail(out[g])] /\ Tail(out[g]) \in Seq(NumberedReply)
        BY <2>1, <3>1 DEF Take
      <4>. QED
        BY <4>1 DEF ServerOK
    <3>3. PICK new \in {[NoRequest EXCEPT !.pc = "failed"],
                        [user[u] EXCEPT !.pc = "sent", !.g = 0],
                        [user[u] EXCEPT !.pc = "ok", !.id = line.q, !.g = 0]} :
             /\ user' = [user EXCEPT ![u] = new]
             /\ new.pc = "ok" => line.id = user[u].id
      <4>1. [NoRequest EXCEPT !.pc = "failed"].pc = "failed"
            /\ [user[u] EXCEPT !.pc = "sent", !.g = 0].pc = "sent"
        BY <1>1 DEF NoRequest, GoodRequest, UserType
      <4>. QED
        BY <2>1, <4>1 DEF Take, Fails
    <3>4. GoodRequest(new) /\ new.pc # "waiting"
      <4>1. user[u] \in UserType /\ user[u].id = user[u].q /\ 0 \in 0 .. MaxStarts
        BY <1>1, McpAssumption DEF GoodRequest
      <4>2. line.q \in Nat /\ line.id = line.q
        BY <3>1 DEF NumberedReply, Reply
      <4>3. CASE new = [NoRequest EXCEPT !.pc = "failed"]
        BY <4>3, GoodFailed DEF NoRequest
      <4>4. CASE new = [user[u] EXCEPT !.pc = "sent", !.g = 0]
        BY <4>1, <4>4 DEF GoodRequest, UserType
      <4>5. CASE new = [user[u] EXCEPT !.pc = "ok", !.id = line.q, !.g = 0]
        <5>1. /\ new.pc = "ok" /\ new.id = line.q /\ new.q = user[u].q
              /\ new \in UserType
          BY <4>1, <4>2, <4>5 DEF UserType
        <5>. QED
          BY <3>3, <4>1, <4>2, <5>1 DEF GoodRequest
      <4>. QED
        BY <3>3, <4>3, <4>4, <4>5
    <3>5. UsersOK'
      BY <1>1, <2>1, <3>3, <3>4, UserGoesOn DEF Take
    <3>6. ServerOK' /\ ReadersOK'
      BY <1>1, <2>1, <3>2 DEF Take, ServerOK, ReadersOK, server, start
    <3>. QED
      BY <3>5, <3>6
  <2>2. CASE out[g] = <<>> /\ Await(u, g) /\ (g \notin alive \/ reader[g] # Nobody)
    <3>1. Fails(u) /\ UNCHANGED <<reader, out>>
      BY <2>2 DEF Await
    <3>2. UsersOK'
      BY <1>1, <3>1, GoodFailed, UserGoesOn DEF Fails, NoRequest
    <3>3. ServerOK' /\ ReadersOK'
      BY <1>1, <3>1 DEF ServerOK, ReadersOK, server, start
    <3>. QED
      BY <3>2, <3>3
  <2>3. CASE Await(u, g) /\ g \in alive /\ reader[g] = Nobody
    <3>1. PICK new : new = [user[u] EXCEPT !.pc = "waiting", !.g = g]
      OBVIOUS
    <3>2. /\ user' = [user EXCEPT ![u] = new] /\ reader' = [reader EXCEPT ![g] = u]
          /\ UNCHANGED out
      BY <2>3, <3>1 DEF Await
    <3>3. GoodRequest(new) /\ new.pc = "waiting" /\ new.g = g
      <4>1. new = [pc |-> "waiting", id |-> user[u].id, q |-> user[u].q, g |-> g]
        BY <1>1, <3>1 DEF GoodRequest, UserType
      <4>2. user[u].id \in Nat /\ user[u].q \in Nat /\ user[u].id = user[u].q
        BY <1>1 DEF GoodRequest, UserType
      <4>3. g \in 0 .. MaxStarts
        BY McpAssumption DEF Gens
      <4>. QED
        BY <4>1, <4>2, <4>3 DEF GoodRequest, UserType
    <3>4. reader' \in [Gens -> Users \cup {Nobody}]
          /\ \A h \in Gens : reader'[h] = IF h = g THEN u ELSE reader[h]
      BY <3>2 DEF UsersOK
    <3>5. \A h \in Gens : reader'[h] = u <=> new.pc = "waiting" /\ new.g = h
      BY <1>1, <3>3, <3>4 DEF UsersOK
    <3>6. \A h \in Gens : \A v \in Users \ {u} : reader'[h] = v <=> reader[h] = v
      BY <2>3, <3>4, McpAssumption
    <3>7. UsersOK'
      BY <3>2, <3>3, <3>4, <3>5, <3>6, UserStep
    <3>8. ServerOK' /\ ReadersOK'
      BY <1>1, <2>3, <3>2, <3>4 DEF ServerOK, ReadersOK, server, start
    <3>. QED
      BY <3>7, <3>8
  <2>. QED
    BY <1>3, <2>1, <2>2, <2>3 DEF ReadFrom
<1>4. CASE user[u].pc = "sent" /\ held /\ ReadFrom(u, gen)
  BY <1>3, <1>4 DEF ServerOK
<1>5. CASE user[u].pc = "woken" /\ ReadFrom(u, user[u].g)
  BY <1>1, <1>3, <1>5 DEF GoodRequest
<1>. QED
  BY <1>2, <1>4, <1>5 DEF Read

-----------------------------------------------------------------------------
(* Subagents, timeouts and start().                                         *)

LEMMA CutKeeps ==
  ASSUME IInv, NEW u \in Users, NEW new, GoodRequest(new), new.pc # "waiting",
         user' = [user EXCEPT ![u] = new], Released(u), UNCHANGED <<server, start, out>>,
         sub' \in [Agents -> {"idle", "running"}]
  PROVE  IInv'
<1>1. UsersOK' /\ ReadersOK'
  BY UserLeaves DEF IInv
<1>2. ServerOK'
  BY DEF IInv, ServerOK, server, start
<1>. QED
  BY <1>1, <1>2 DEF IInv

LEMMA AgentSteps ==
  ASSUME IInv, NEW a \in Agents, Agent(a)
  PROVE  IInv'
<1>. USE DEF IInv
<1>0. a \in Users
  BY DEF Users
<1>1. CASE Launch(a) \/ RunEnds(a)
  <2>1. sub' \in [Agents -> {"idle", "running"}] /\ UNCHANGED <<server, start, out, reader, user>>
    BY <1>1 DEF Launch, RunEnds, ServerOK
  <2>2. UsersOK' /\ ReadersOK'
    BY <2>1 DEF UsersOK, ReadersOK, server
  <2>3. ServerOK'
    BY <2>1 DEF ServerOK, server, start
  <2>. QED
    BY <2>2, <2>3
<1>2. CASE Call(a)
  BY <1>0, <1>2, AskKeeps DEF Call
<1>3. CASE Returns(a)
  <2>1. UsersOK'
    BY <1>0, <1>3, GoodFailed, UserGoesOn DEF Returns, NoRequest
  <2>2. ServerOK' /\ ReadersOK'
    BY <1>3 DEF Returns, ServerOK, ReadersOK, server, start
  <2>. QED
    BY <2>1, <2>2
<1>4. CASE SubTimesOut(a)
  <2>1. NoRequest.pc # "waiting"
    BY DEF NoRequest
  <2>2. sub' \in [Agents -> {"idle", "running"}]
    BY <1>4 DEF SubTimesOut, ServerOK
  <2>. QED
    BY <1>0, <1>4, <2>1, <2>2, GoodFailed, CutKeeps DEF SubTimesOut
<1>. QED
  BY <1>1, <1>2, <1>3, <1>4 DEF Agent

\* The steps of a call of start().
LEMMA StarterSteps ==
  ASSUME IInv, NEW s \in Starters,
         Spawn(s) \/ StartRaises(s) \/ StartAsks(s) \/ StartGoesOn(s) \/ Stop(s)
  PROVE  IInv'
<1>. USE DEF IInv
<1>0. s \in Users
  BY DEF Users
<1>1. CASE Spawn(s)
  <2>1. gen' \in Gens /\ gen' \in 0 .. MaxStarts /\ alive' \subseteq 1 .. gen'
    BY <1>1, McpAssumption DEF Spawn, Gens, ServerOK
  <2>2. ServerOK'
    BY <1>1, <2>1 DEF Spawn, ServerOK
  <2>3. UsersOK' /\ ReadersOK'
    BY <1>1 DEF Spawn, UsersOK, ReadersOK
  <2>. QED
    BY <2>2, <2>3
<1>2. CASE StartRaises(s)
  <2>1. ServerOK'
    BY <1>2 DEF StartRaises, ServerOK, server
  <2>2. UsersOK' /\ ReadersOK'
    BY <1>2 DEF StartRaises, UsersOK, ReadersOK, server
  <2>. QED
    BY <2>1, <2>2
<1>3. CASE StartAsks(s)
  BY <1>0, <1>3, AskKeeps DEF StartAsks
<1>4. CASE StartGoesOn(s)
  <2>1. UsersOK'
    BY <1>0, <1>4, GoodFailed, UserGoesOn DEF StartGoesOn, NoRequest
  <2>2. stage' \in [Starters -> {"no", "initialize", "list", "ready", "failed"}]
    BY <1>4 DEF StartGoesOn, ServerOK
  <2>3. ServerOK' /\ ReadersOK'
    BY <1>4, <2>2 DEF StartGoesOn, ServerOK, ReadersOK, server
  <2>. QED
    BY <2>1, <2>3
<1>5. CASE Stop(s)
  <2>1. ServerOK'
    BY <1>5 DEF Stop, ServerOK
  <2>2. UsersOK' /\ ReadersOK'
    BY <1>5 DEF Stop, UsersOK, ReadersOK
  <2>. QED
    BY <2>1, <2>2
<1>. QED
  BY <1>1, <1>2, <1>3, <1>4, <1>5

LEMMA InvNext ==
  ASSUME IInv, [Next]_vars
  PROVE  IInv'
<1>1. CASE (\E g \in alive : Chatter(g) \/ Exits(g)) \/ \E r \in inbox : Answer(r)
  BY <1>1, ServerSteps
<1>2. ASSUME NEW s \in Starters,
             Spawn(s) \/ StartRaises(s) \/ StartAsks(s) \/ StartGoesOn(s) \/ Stop(s)
      PROVE  IInv'
  BY <1>2, StarterSteps
<1>4. ASSUME NEW u \in Users, Read(u) PROVE IInv'
  BY <1>4, ReadKeeps
<1>5. ASSUME NEW u \in Users, TimesOut(u) \/ Cut(u) PROVE IInv'
  <2>1. [NoRequest EXCEPT !.pc = "failed"].pc # "waiting"
    BY DEF NoRequest
  <2>2. sub' \in [Agents -> {"idle", "running"}]
    BY <1>5 DEF TimesOut, Cut, IInv, ServerOK
  <2>. QED
    BY <1>5, <2>1, <2>2, GoodFailed, CutKeeps DEF TimesOut, Cut, Fails
<1>6. ASSUME NEW a \in Agents, Agent(a) PROVE IInv'
  BY <1>6, AgentSteps
<1>7. CASE UNCHANGED vars
  <2>1. UsersOK' /\ ReadersOK'
    BY <1>7 DEF vars, server, start, IInv, UsersOK, ReadersOK
  <2>2. ServerOK'
    BY <1>7 DEF vars, server, start, IInv, ServerOK
  <2>. QED
    BY <2>1, <2>2 DEF IInv
<1>. QED
  BY <1>1, <1>2, <1>4, <1>5, <1>6, <1>7 DEF Next

LEMMA Invariance == Spec => []IInv
<1>1. IInv /\ [Next]_vars => IInv'
  BY InvNext
<1>. QED
  BY InvInit, <1>1, PTL DEF Spec

\* The types, and the reader of a pipe is the coroutine that waits for it, for
\* any number of callers: no cancelled or timed out call leaves itself behind
\* in the reader.
THEOREM Typed == Spec => []TypeOK
<1>1. IInv => TypeOK
  BY InvImplies
<1>. QED
  BY Invariance, <1>1, PTL

\* Every call gets the answer to its own question or none, for any number of
\* callers, restarts and lines: _next_id is never reset.
THEOREM AnswersAreOwn == Spec => []OwnAnswers
<1>1. IInv => OwnAnswers
  BY InvImplies
<1>. QED
  BY Invariance, <1>1, PTL
=============================================================================

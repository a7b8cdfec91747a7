------------------------------ MODULE McpClient ------------------------------
(***************************************************************************)
(* Subagents of agent/subagent.py that call a tool of one MCP server: the   *)
(* processes mcp.py starts and stops, their pipes, the requests that share  *)
(* them, and the two timeouts around a call: the one of a read in _request, *)
(* and the watchdog of the agent loop.                                      *)
(*                                                                         *)
(* The server answers each request at most once, in any order and at any    *)
(* time, and may send notifications, text that is no JSON, or exit.  It     *)
(* gives requests of its own ids no request of ours has: they are as        *)
(* notifications here.  The reader of a pipe is asyncio's: one coroutine    *)
(* may wait for data, a second that tries to gets a RuntimeError.           *)
(***************************************************************************)
EXTENDS Naturals, Sequences

CONSTANTS
  Agents,    \* subagents
  Starters,  \* coroutines that call MCPServer.start
  Nobody,    \* no coroutine
  MaxStarts, \* bound: starts of the server
  MaxAsks,   \* bound: requests
  MaxOut     \* bound: lines in a pipe

Users == Agents \cup Starters

ASSUME McpAssumption ==
  /\ Starters \cap Agents = {} /\ Nobody \notin Users
  /\ {MaxStarts, MaxAsks, MaxOut} \subseteq Nat

VARIABLES
  held,   \* _proc is set; it is the process spawned last
  gen,    \* processes spawned so far
  alive,  \* those of them that run
  stage,  \* how far each call of start() is
  nextId, \* _next_id
  asked,  \* requests made
  inbox,  \* requests not answered: id, which it was, and the process
  out,    \* the lines in each process's stdout
  reader, \* the coroutine that waits for data of each
  user,   \* each coroutine's request: where it is, id, which it is, and the
          \* pipe it waits for
  sub     \* the subagents' runs

vars == <<held, gen, alive, stage, nextId, asked, inbox, out, reader, user, sub>>
server == <<held, gen, alive, inbox>>
start == <<stage, nextId, asked>>

Gens == 1 .. MaxStarts
Request == [id : Nat, q : Nat, g : Gens]
Reply == [kind : {"result", "error", "note", "junk"}, id : Nat, q : Nat]
NoRequest == [pc |-> "idle", id |-> 0, q |-> 0, g |-> 0]

Init ==
  /\ held = FALSE /\ gen = 0 /\ alive = {} /\ stage = [s \in Starters |-> "no"]
  /\ nextId = 1 /\ asked = 0
  /\ inbox = {} /\ out = [g \in Gens |-> <<>>]
  /\ reader = [g \in Gens |-> Nobody]
  /\ user = [u \in Users |-> NoRequest]
  /\ sub = [a \in Agents |-> "idle"]

-----------------------------------------------------------------------------
(* The processes and their pipes.                                           *)

Starting(s) == stage[s] \in {"initialize", "list"}

\* start() looks at nothing: called again, after it has failed or while it is
\* under way, it replaces _proc and leaves the process before to itself.
Spawn(s) ==
  /\ ~Starting(s) /\ gen < MaxStarts
  /\ held' = TRUE /\ gen' = gen + 1 /\ alive' = alive \cup {gen + 1}
  /\ stage' = [stage EXCEPT ![s] = "initialize"]
  /\ UNCHANGED <<nextId, asked, inbox, out, reader, user, sub>>

\* Data or the end of the stream wakes the coroutine that waits.
Wake(g) ==
  /\ user' = [u \in Users |-> IF reader[g] = u THEN [user[u] EXCEPT !.pc = "woken"]
                                               ELSE user[u]]
  /\ reader' = [reader EXCEPT ![g] = Nobody]

Writes(g, line) ==
  /\ g \in alive /\ Len(out[g]) < MaxOut
  /\ out' = [out EXCEPT ![g] = Append(@, line)]
  /\ Wake(g)
  /\ UNCHANGED <<held, gen, alive, start, sub>>

Answer(r) ==
  /\ r \in inbox /\ inbox' = inbox \ {r}
  /\ \E kind \in {"result", "error"} : Writes(r.g, [kind |-> kind, id |-> r.id, q |-> r.q])

Chatter(g) ==
  /\ \E kind \in {"note", "junk"} : Writes(g, [kind |-> kind, id |-> 0, q |-> 0])
  /\ UNCHANGED inbox

\* On its own, or terminated or killed by stop().
Exits(g) ==
  /\ g \in alive /\ alive' = alive \ {g} /\ inbox' = {r \in inbox : r.g # g}
  /\ Wake(g)
  /\ UNCHANGED <<held, gen, start, out, sub>>

\* The end of stop(), called by who has called start(): the process has exited
\* or is killed and not waited for.
Stop(s) ==
  /\ held /\ stage[s] \in {"ready", "failed"}
  /\ held' = FALSE /\ stage' = [stage EXCEPT ![s] = "no"]
  /\ UNCHANGED <<gen, alive, inbox, nextId, asked, out, reader, user, sub>>

-----------------------------------------------------------------------------
(* _request.                                                                *)

\* Mutant: a request takes the id of the one before.
NewId_Reused == nextId' = IF asked % 2 = 1 THEN nextId + 1 ELSE nextId

NewId == nextId' = nextId + 1

\* The id is taken and the line written, if there is a process: to one that
\* has exited in vain.
Ask(u) ==
  /\ user[u].pc = "idle" /\ asked < MaxAsks
  /\ NewId /\ asked' = asked + 1
  /\ user' = [user EXCEPT ![u] =
       IF held THEN [pc |-> "sent", id |-> nextId, q |-> asked + 1, g |-> 0]
       ELSE [NoRequest EXCEPT !.pc = "failed"]]
  /\ inbox' = IF held /\ gen \in alive
              THEN inbox \cup {[id |-> nextId, q |-> asked + 1, g |-> gen]} ELSE inbox
  /\ UNCHANGED <<held, gen, alive, stage, out, reader, sub>>

Fails(u) == user' = [user EXCEPT ![u] = [NoRequest EXCEPT !.pc = "failed"]]

\* A line: other ids are passed over, and the next line is read.
Take(u, g) ==
  LET line == Head(out[g])
  IN  /\ out' = [out EXCEPT ![g] = Tail(@)]
      /\ \/ line.kind = "junk" /\ Fails(u)
         \/ line.kind # "junk" /\ line.id # user[u].id
            /\ user' = [user EXCEPT ![u] = [@ EXCEPT !.pc = "sent", !.g = 0]]
         \/ line.kind = "error" /\ line.id = user[u].id /\ Fails(u)
         \/ line.kind = "result" /\ line.id = user[u].id
            /\ user' = [user EXCEPT ![u] = [@ EXCEPT !.pc = "ok", !.id = line.q, !.g = 0]]
      /\ UNCHANGED reader

\* Nothing to read: the stream has ended, or the coroutine waits for data,
\* if no other does.
Await(u, g) ==
  /\ IF g \notin alive \/ reader[g] # Nobody
     THEN Fails(u) /\ UNCHANGED reader
     ELSE /\ user' = [user EXCEPT ![u] = [@ EXCEPT !.pc = "waiting", !.g = g]]
          /\ reader' = [reader EXCEPT ![g] = u]
  /\ UNCHANGED out

ReadFrom(u, g) ==
  \/ out[g] # <<>> /\ Take(u, g)
  \/ out[g] = <<>> /\ Await(u, g)

\* Each turn of the loop in _request reads from the process there is by then;
\* a coroutine that has waited goes on with the pipe it has waited for.
Read(u) ==
  /\ \/ user[u].pc = "sent" /\ ~held /\ Fails(u) /\ UNCHANGED <<out, reader>>
     \/ user[u].pc = "sent" /\ held /\ ReadFrom(u, gen)
     \/ user[u].pc = "woken" /\ ReadFrom(u, user[u].g)
  /\ UNCHANGED <<server, start, sub>>

\* The coroutine no longer waits for data.
Released(u) == reader' = [g \in Gens |-> IF reader[g] = u THEN Nobody ELSE reader[g]]

InCall(u) == user[u].pc \in {"sent", "waiting", "woken"}

\* The timeout of one read, which starts anew with each line.
TimesOut(u) ==
  /\ user[u].pc \in {"waiting", "woken"} /\ Fails(u) /\ Released(u)
  /\ UNCHANGED <<server, start, out, sub>>

-----------------------------------------------------------------------------
(* start(), and the subagents.                                              *)

\* The command is not found, or the process cannot be made: _proc stays.
StartRaises(s) ==
  /\ ~Starting(s) /\ stage' = [stage EXCEPT ![s] = "failed"]
  /\ UNCHANGED <<server, nextId, asked, out, reader, user, sub>>

StartAsks(s) == Starting(s) /\ Ask(s)

\* initialize is answered before tools/list is asked; an error, or the watchdog
\* of the tool call start() is part of, ends it and leaves the process as it is.
StartGoesOn(s) ==
  /\ user[s].pc \in {"ok", "failed"}
  /\ stage' = [stage EXCEPT ![s] = IF user[s].pc = "failed" THEN "failed"
                                   ELSE IF @ = "initialize" THEN "list" ELSE "ready"]
  /\ user' = [user EXCEPT ![s] = NoRequest]
  /\ UNCHANGED <<server, nextId, asked, out, reader, sub>>

Launch(a) ==
  /\ sub[a] = "idle" /\ sub' = [sub EXCEPT ![a] = "running"]
  /\ UNCHANGED <<server, start, out, reader, user>>

\* The loop executes the server's tool: MCPToolAdapter.execute.
Call(a) == sub[a] = "running" /\ Ask(a)

\* Its result, of code mcp_error if the call has raised, goes to the loop.
Returns(a) ==
  /\ user[a].pc \in {"ok", "failed"}
  /\ user' = [user EXCEPT ![a] = NoRequest]
  /\ UNCHANGED <<server, start, out, reader, sub>>

\* The watchdog of the loop cancels a call that takes too long.
Cut(u) ==
  /\ InCall(u) /\ Fails(u) /\ Released(u)
  /\ UNCHANGED <<server, start, out, sub>>

\* The run ends or raises (DONE, FAILED); an exception of a tool does not
\* reach it.
RunEnds(a) ==
  /\ sub[a] = "running" /\ user[a].pc = "idle"
  /\ sub' = [sub EXCEPT ![a] = "idle"]
  /\ UNCHANGED <<server, start, out, reader, user>>

\* Mutant: the timeout leaves the call where it was.
SubTimesOut_LeavesCall(a) ==
  /\ sub[a] = "running" /\ sub' = [sub EXCEPT ![a] = "idle"]
  /\ user' = [user EXCEPT ![a] = NoRequest]
  /\ UNCHANGED <<server, start, out, reader>>

\* The timeout of the run (TIMEOUT) cancels it wherever it is.
SubTimesOut(a) ==
  /\ sub[a] = "running" /\ sub' = [sub EXCEPT ![a] = "idle"]
  /\ user' = [user EXCEPT ![a] = NoRequest]
  /\ Released(a)
  /\ UNCHANGED <<server, start, out>>

Agent(a) ==
  Launch(a) \/ Call(a) \/ Returns(a) \/ RunEnds(a) \/ SubTimesOut(a)

Next ==
  \/ \E s \in Starters : Spawn(s) \/ StartRaises(s) \/ StartAsks(s) \/ StartGoesOn(s) \/ Stop(s)
  \/ \E g \in alive : Chatter(g) \/ Exits(g)
  \/ \E r \in inbox : Answer(r)
  \/ \E u \in Users : Read(u) \/ TimesOut(u) \/ Cut(u)
  \/ \E a \in Agents : Agent(a)

Spec == Init /\ [][Next]_vars

-----------------------------------------------------------------------------
(* Properties.                                                              *)

\* Who waits for a pipe's data is who the pipe wakes, when the process writes
\* or ends: a cancelled or timed out call leaves no trace in the reader, which
\* the next call would run into, and none waits for a process that has ended.
TypeOK ==
  /\ held \in BOOLEAN /\ gen \in 0 .. MaxStarts /\ alive \subseteq 1 .. gen
  /\ stage \in [Starters -> {"no", "initialize", "list", "ready", "failed"}]
  /\ nextId \in Nat \ {0} /\ asked \in 0 .. MaxAsks
  /\ inbox \subseteq Request /\ out \in [Gens -> Seq(Reply)]
  /\ user \in [Users -> [pc : {"idle", "sent", "waiting", "woken", "ok", "failed"},
                         id : Nat, q : Nat, g : 0 .. MaxStarts]]
  /\ sub \in [Agents -> {"idle", "running"}]
  /\ \A g \in Gens, u \in Users : reader[g] = u <=> user[u].pc = "waiting" /\ user[u].g = g
  /\ \A u \in Users : user[u].pc = "waiting" => user[u].g \in alive

\* A call gets the answer to its own question or none, whatever came late,
\* was swallowed by another call, or belongs to an earlier process, also one
\* that was replaced and runs on: _next_id grows over the life of the
\* MCPServer, all its processes included.
\* (id holds the question the answer was made for.)
OwnAnswers == \A u \in Users : user[u].pc = "ok" => user[u].id = user[u].q
=============================================================================

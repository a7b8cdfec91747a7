------------------------------- MODULE Gateway -------------------------------
(***************************************************************************)
(* The gateway of server/gateway.py over SessionManager of                  *)
(* server/sessions.py: sessions in memory and in the table sessions, chats  *)
(* over REST and over a WebSocket, and the life of the server.              *)
(*                                                                         *)
(* The server is one asyncio loop, and a handler gives it up only while it  *)
(* awaits AIAgentLoop.run or the next message of a socket: each action is   *)
(* the code between two awaits.  A session in memory is an object that      *)
(* handlers keep across their awaits, whether it is deleted or not; object  *)
(* n of an id is the n-th SessionState made for it.                         *)
(***************************************************************************)
EXTENDS Naturals

CONSTANTS
  Ids,      \* session ids
  Chats,    \* POST .../chat requests and socket connections
  NoChat,   \* the conversation of a session nobody has chatted in
  MaxMade   \* bound: SessionStates made for one id

ASSUME GatewayAssumption == NoChat \notin Chats /\ MaxMade \in Nat

VARIABLES
  server,   \* "up", "down" after an orderly stop, "failed"
  live,     \* title of the session in memory, "none" without one
  made,     \* SessionStates made for the id
  messages, \* whose conversation the live session holds
  built,    \* objects whose ContextBuilder holds a rendered text, as <<id, n>>
  row,      \* sessions.name, "none" without a row
  facts,    \* ids with rows in memory_episodic
  chat      \* the requests: where they are and the object they hold

vars == <<server, live, made, messages, built, row, facts, chat>>
database == <<row, facts>>

\* A session made by create has the title it was given, one made by
\* get_or_create has its id for a title.
Titles == {"named", "id"}
NewChat == [pc |-> "idle", id |-> NoChat, object |-> 0]

Init ==
  /\ server = "down"
  /\ live = [id \in Ids |-> "none"]
  /\ made = [id \in Ids |-> 0]
  /\ messages = [id \in Ids |-> NoChat]
  /\ built = {}
  /\ row = [id \in Ids |-> "none"]
  /\ facts = {}
  /\ chat = [c \in Chats |-> NewChat]

IsUp == server = "up"
InMemory == {id \in Ids : live[id] # "none"}
Fresh == {id \in Ids : made[id] = 0 /\ row[id] = "none"}

\* A SessionState with no messages and an empty ContextBuilder is registered
\* for each id of titles' domain.
Register(titles) ==
  /\ \A id \in DOMAIN titles : made[id] < MaxMade
  /\ live' = [id \in Ids |-> IF id \in DOMAIN titles THEN titles[id] ELSE live[id]]
  /\ made' = [id \in Ids |-> IF id \in DOMAIN titles THEN made[id] + 1 ELSE made[id]]
  /\ messages' = [id \in Ids |-> IF id \in DOMAIN titles THEN NoChat ELSE messages[id]]

-----------------------------------------------------------------------------
(* Sessions.                                                                *)

\* POST /sessions: the id is a new uuid.
Create(id) ==
  /\ IsUp /\ id \in Fresh
  /\ Register([i \in {id} |-> "named"])
  /\ UNCHANGED <<server, built, database, chat>>

\* DELETE: the session leaves the memory; its row, if any, stays.
Delete(id) ==
  /\ IsUp /\ id \in InMemory
  /\ live' = [live EXCEPT ![id] = "none"]
  /\ messages' = [messages EXCEPT ![id] = NoChat]
  /\ UNCHANGED <<server, made, built, database, chat>>

GetOrCreate(id) ==
  \/ id \in InMemory /\ UNCHANGED <<live, made, messages>>
  \/ id \notin InMemory /\ Register([i \in {id} |-> "id"])

Holds(c, id, n, pc) == chat' = [chat EXCEPT ![c] = [pc |-> pc, id |-> id, object |-> n]]

-----------------------------------------------------------------------------
(* A chat up to the await of loop.run: the provider is built, then the      *)
(* system prompt with the memory of the session.                            *)

\* Mutant: the layer does not make the row its facts refer to.
EnsureRow_NoInsert(id) == row' = [row EXCEPT ![id] = @]

\* EpisodicMemory.__init__: INSERT OR IGNORE of the session's row.
EnsureRow(id) == row' = [row EXCEPT ![id] = IF @ = "none" THEN "id" ELSE @]

\* ContextBuilder.build from the text of the last minute.
BuildFromCache(id, n) == <<id, n>> \in built /\ UNCHANGED <<built, database>>

\* ContextBuilder.build from the memory layers, of a session without facts.
BuildAnew(id, n) ==
  /\ id \notin facts
  /\ EnsureRow(id)
  /\ built' = built \cup {<<id, n>>}
  /\ UNCHANGED facts

\* l2_getter reads f.text of the dicts that EpisodicMemory.recent returns:
\* with a fact in the session, build raises.  So does a provider without key.
BuildRaises(id) ==
  /\ UNCHANGED <<built, facts>>
  /\ \/ id \in facts /\ EnsureRow(id)
     \/ UNCHANGED row

\* The handler of POST .../chat takes its session and starts the loop.
Chat(c, id) ==
  /\ IsUp /\ chat[c].pc = "idle"
  /\ GetOrCreate(id)
  /\ \/ /\ BuildFromCache(id, made'[id]) \/ BuildAnew(id, made'[id])
        /\ Holds(c, id, made'[id], "running")
     \/ BuildRaises(id) /\ Holds(c, id, made'[id], "over")
  /\ UNCHANGED server

\* Mutant: the session is looked up again after the await.
ChatEnds_LooksUpAgain(c) ==
  LET id == chat[c].id IN
  /\ IsUp /\ chat[c].pc = "running"
  /\ messages' = [messages EXCEPT ![id] = IF id \in InMemory THEN c ELSE @]
  /\ chat' = [chat EXCEPT ![c].pc = "over"]
  /\ UNCHANGED <<server, live, made, built, database>>

\* loop.run has started from this one message, and its conversation replaces
\* that of the object, which may have been deleted meanwhile.
ChatEnds(c) ==
  LET id == chat[c].id IN
  /\ IsUp /\ chat[c].pc = "running"
  /\ messages' = [messages EXCEPT ![id] =
       IF id \in InMemory /\ made[id] = chat[c].object THEN c ELSE @]
  /\ chat' = [chat EXCEPT ![c].pc = "over"]
  /\ UNCHANGED <<server, live, made, built, database>>

\* loop.run raises: the client gets a 500, the session stays as it was.
ChatRaises(c) ==
  /\ IsUp /\ chat[c].pc = "running"
  /\ chat' = [chat EXCEPT ![c].pc = "over"]
  /\ UNCHANGED <<server, live, made, messages, built, database>>

-----------------------------------------------------------------------------
(* A socket takes its session once and keeps it; what its chats say is sent *)
(* but never stored, and ping, steer and abort are answered and no more.    *)

SocketOpens(c, id) ==
  /\ IsUp /\ chat[c].pc = "idle"
  /\ GetOrCreate(id)
  /\ Holds(c, id, made'[id], "listening")
  /\ UNCHANGED <<server, built, database>>

SocketChats(c) ==
  LET id == chat[c].id  n == chat[c].object IN
  /\ IsUp /\ chat[c].pc = "listening"
  /\ \/ (BuildFromCache(id, n) \/ BuildAnew(id, n)) /\ Holds(c, id, n, "streaming")
     \/ BuildRaises(id) /\ Holds(c, id, n, "over")
  /\ UNCHANGED <<server, live, made, messages>>

\* The result or the error of the run is sent.
SocketAnswers(c) ==
  /\ IsUp /\ chat[c].pc = "streaming"
  /\ chat' = [chat EXCEPT ![c].pc = "listening"]
  /\ UNCHANGED <<server, live, made, messages, built, database>>

SocketCloses(c) ==
  /\ IsUp /\ chat[c].pc \in {"listening", "streaming"}
  /\ chat' = [chat EXCEPT ![c].pc = "over"]
  /\ UNCHANGED <<server, live, made, messages, built, database>>

-----------------------------------------------------------------------------
(* Plan runs and other users of the memory layers, in any process.          *)

\* PlanRunner._store_step_facts opens the layer, which makes the session's
\* row, and calls add with a keyword it does not have: the TypeError is
\* dropped, and so is the fact.
StoreStepFacts(id) ==
  /\ EnsureRow(id)
  /\ UNCHANGED <<server, live, made, messages, built, facts, chat>>

\* EpisodicMemory.add.
AddFact(id) ==
  /\ EnsureRow(id)
  /\ facts' = facts \cup {id}
  /\ UNCHANGED <<server, live, made, messages, built, chat>>

\* EpisodicMemory.purge_older_than, of all facts.
PurgeFacts(id) ==
  /\ EnsureRow(id)
  /\ facts' = facts \ {id}
  /\ UNCHANGED <<server, live, made, messages, built, chat>>

-----------------------------------------------------------------------------
(* The life of the server.                                                  *)

\* Mutant: sessions that have a row are not written again.
Persist_OrIgnore(saved) ==
  /\ row' = [id \in Ids |-> IF id \in saved /\ row[id] = "none" THEN live[id] ELSE row[id]]
  /\ UNCHANGED facts

\* INSERT OR REPLACE deletes the old row first, and ON DELETE CASCADE with it
\* the facts of the session.
Persist(saved) ==
  /\ row' = [id \in Ids |-> IF id \in saved THEN live[id] ELSE row[id]]
  /\ facts' = {id \in facts : id \notin saved \/ row[id] = "none"}

\* The memory of the process is gone.
Forget ==
  /\ live' = [id \in Ids |-> "none"]
  /\ messages' = [id \in Ids |-> NoChat]
  /\ built' = {}
  /\ chat' = [c \in Chats |-> IF chat[c].pc = "idle" THEN chat[c]
                                                     ELSE [chat[c] EXCEPT !.pc = "over"]]
  /\ UNCHANGED made

\* The end of lifespan, or the exit handler; what persist does after the
\* connection is closed raises and is dropped.
Shutdown ==
  /\ IsUp /\ server' = "down"
  /\ Persist(InMemory)
  /\ Forget

\* persist raises half-way, which is dropped as well, or the process dies
\* before it.
Fail ==
  /\ IsUp /\ server' = "failed"
  /\ \E saved \in SUBSET InMemory : Persist(saved)
  /\ Forget

Stored == [id \in {i \in Ids : row[i] # "none"} |-> row[id]]

CreateDefault == \E id \in Fresh : Register([i \in {id} |-> "named"])

\* lifespan: load_persisted, and a default session if there is none; when the
\* table cannot be read the exception is dropped.
Start ==
  /\ ~IsUp /\ server' = "up"
  /\ \/ Stored # <<>> /\ Register(Stored)
     \/ CreateDefault
  /\ UNCHANGED <<built, database, chat>>

-----------------------------------------------------------------------------
ChatStep(c) ==
  \/ \E id \in Ids : Chat(c, id) \/ SocketOpens(c, id)
  \/ ChatEnds(c) \/ ChatRaises(c)
  \/ SocketChats(c) \/ SocketAnswers(c) \/ SocketCloses(c)

SessionStep(id) ==
  Create(id) \/ Delete(id) \/ StoreStepFacts(id) \/ AddFact(id) \/ PurgeFacts(id)

Next ==
  \/ \E c \in Chats : ChatStep(c)
  \/ \E id \in Ids : SessionStep(id)
  \/ Shutdown \/ Fail \/ Start

Spec == Init /\ [][Next]_vars

-----------------------------------------------------------------------------
\* The types, and the foreign key: facts, and rendered contexts, belong to a
\* session that has a row.
TypeOK ==
  /\ server \in {"up", "down", "failed"}
  /\ live \in [Ids -> Titles \cup {"none"}]
  /\ made \in [Ids -> 0 .. MaxMade]
  /\ messages \in [Ids -> Chats \cup {NoChat}]
  /\ built \subseteq Ids \X (1 .. MaxMade)
  /\ row \in [Ids -> Titles \cup {"none"}]
  /\ facts \subseteq Ids
  /\ chat \in [Chats -> [pc : {"idle", "running", "listening", "streaming", "over"},
                         id : Ids \cup {NoChat}, object : 0 .. MaxMade]]
  /\ \A id \in facts \cup {b[1] : b \in built} : row[id] # "none"

\* The conversation a client reads in a session is that of a REST chat that
\* was begun in this very session and has ended: none of a session that was
\* deleted under the same id, or that lived before a restart, and none of a
\* chat in another session, whatever the order in which runs end
\* (gateway.chat keeps the object across its await).
ConversationsStayHome ==
  \A id \in Ids : messages[id] # NoChat =>
    /\ live[id] # "none"
    /\ chat[messages[id]] = [pc |-> "over", id |-> id, object |-> made[id]]

\* A restart keeps what an orderly stop has found: the gateway implements the
\* directory of SessionDirectory, in memory while it is up, in the table
\* while it is not (persist and load_persisted).
Directory == INSTANCE SessionDirectory
  WITH directory <- IF IsUp THEN live ELSE row

ImplementsDirectory == Directory!Spec
=============================================================================

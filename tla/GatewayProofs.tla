---------------------------- MODULE GatewayProofs ----------------------------
(***************************************************************************)
(* Theorems about Gateway, for any session ids and any number of chats.     *)
(***************************************************************************)
EXTENDS Gateway, TLAPS

Entry == [pc : {"idle", "running", "listening", "streaming", "over"},
          id : Ids \cup {NoChat}, object : 0 .. MaxMade]

\* A session in memory has been made, and none is there while the server is
\* down: without this a restart could find more than the table holds.
MemoryOK ==
  \A id \in Ids : live[id] # "none" => IsUp /\ made[id] > 0

\* A request that has begun holds an object of a session.
ChatType ==
  /\ chat \in [Chats -> Entry]
  /\ \A c \in Chats : chat[c].pc # "idle" => chat[c].id \in Ids /\ chat[c].object # 0

IInv == TypeOK /\ ChatType /\ MemoryOK /\ ConversationsStayHome

LEMMA InvInit == Init => IInv
<1>. SUFFICES ASSUME Init PROVE IInv
  OBVIOUS
<1>1. TypeOK
  BY GatewayAssumption DEF Init, TypeOK, NewChat
<1>2. MemoryOK /\ ConversationsStayHome
  BY DEF Init, MemoryOK, ConversationsStayHome
<1>3. ChatType
  BY <1>1 DEF Init, NewChat, ChatType, TypeOK, Entry
<1>. QED
  BY <1>1, <1>2, <1>3 DEF IInv

-----------------------------------------------------------------------------
(* What the operators the actions are made of keep.                         *)

\* Rows are made, and facts only in sessions that have one.
RowsKept == \A id \in Ids : row[id] # "none" => row'[id] # "none"

RowsOK == row \in [Ids -> Titles \cup {"none"}]

LEMMA EnsureRowKeeps ==
  ASSUME RowsOK, NEW id \in Ids, EnsureRow(id)
  PROVE  RowsOK' /\ RowsKept /\ row'[id] # "none"
BY DEF RowsOK, RowsKept, EnsureRow, Titles

LEMMA PersistKeeps ==
  ASSUME TypeOK, NEW saved \in SUBSET InMemory, Persist(saved)
  PROVE  RowsOK' /\ RowsKept /\ facts' \subseteq facts
<1>1. saved \subseteq Ids /\ \A id \in saved : live[id] \in Titles
  BY DEF InMemory, TypeOK, Titles
<1>2. ASSUME NEW id \in Ids
      PROVE  row'[id] \in Titles \cup {"none"} /\ (row[id] # "none" => row'[id] # "none")
  <2>1. row'[id] = IF id \in saved THEN live[id] ELSE row[id]
    BY DEF Persist
  <2>. QED
    BY <1>1, <2>1 DEF TypeOK, Titles
<1>3. row' = [id \in Ids |-> row'[id]]
  BY DEF Persist
<1>4. facts' \subseteq facts
  BY DEF Persist
<1>. QED
  BY <1>2, <1>3, <1>4 DEF RowsOK, RowsKept

\* The sessions in memory, as Register leaves them.
MemoryType ==
  /\ live \in [Ids -> Titles \cup {"none"}]
  /\ made \in [Ids -> 0 .. MaxMade]
  /\ messages \in [Ids -> Chats \cup {NoChat}]

\* A registered session is made anew and has no messages, others stay.
LEMMA RegisterKeeps ==
  ASSUME IInv, NEW titles, DOMAIN titles \subseteq Ids,
         \A id \in DOMAIN titles : titles[id] \in Titles /\ live[id] = "none",
         Register(titles)
  PROVE  /\ MemoryType'
         /\ \A id \in Ids : live'[id] # "none" =>
              IF id \in DOMAIN titles
              THEN made'[id] > 0 /\ messages'[id] = NoChat
              ELSE live[id] # "none" /\ UNCHANGED <<made[id], messages[id]>>
         /\ \A id \in Ids : messages'[id] # NoChat =>
              live'[id] = live[id] /\ UNCHANGED <<made[id], messages[id]>>
<1>1. ASSUME NEW id \in Ids
      PROVE  /\ live'[id] = IF id \in DOMAIN titles THEN titles[id] ELSE live[id]
             /\ made'[id] = IF id \in DOMAIN titles THEN made[id] + 1 ELSE made[id]
             /\ messages'[id] = IF id \in DOMAIN titles THEN NoChat ELSE messages[id]
  BY DEF Register
<1>2. ASSUME NEW id \in Ids
      PROVE  /\ live'[id] \in Titles \cup {"none"} /\ made'[id] \in 0 .. MaxMade
             /\ messages'[id] \in Chats \cup {NoChat}
             /\ id \in DOMAIN titles => made'[id] > 0
  <2>1. live[id] \in Titles \cup {"none"} /\ made[id] \in 0 .. MaxMade
        /\ messages[id] \in Chats \cup {NoChat}
    BY DEF IInv, TypeOK
  <2>2. id \in DOMAIN titles => made[id] < MaxMade /\ MaxMade \in Nat
    BY GatewayAssumption DEF Register
  <2>. QED
    BY <1>1, <2>1, <2>2
<1>3. /\ live' = [id \in Ids |-> live'[id]] /\ made' = [id \in Ids |-> made'[id]]
      /\ messages' = [id \in Ids |-> messages'[id]]
  BY DEF Register
<1>4. MemoryType'
  BY <1>2, <1>3 DEF MemoryType
<1>. QED
  BY <1>1, <1>2, <1>4

\* The session a handler gets is in memory.
LEMMA GetOrCreateKeeps ==
  ASSUME IInv, IsUp, NEW id \in Ids, GetOrCreate(id)
  PROVE  /\ MemoryType'
         /\ \A i \in Ids : live'[i] # "none" => made'[i] > 0
         /\ \A i \in Ids : messages'[i] # NoChat =>
              live'[i] = live[i] /\ UNCHANGED <<made[i], messages[i]>>
         /\ live'[id] # "none"
         /\ made'[id] \in 1 .. MaxMade
<1>1. CASE id \in InMemory /\ UNCHANGED <<live, made, messages>>
  BY <1>1, GatewayAssumption DEF IInv, TypeOK, MemoryType, MemoryOK, InMemory
<1>2. CASE id \notin InMemory /\ Register([i \in {id} |-> "id"])
  <2> DEFINE titles == [i \in {id} |-> "id"]
  <2>1. DOMAIN titles = {id} /\ titles[id] = "id" /\ live[id] = "none"
    BY <1>2 DEF InMemory
  <2>2. live'[id] = "id"
    BY <1>2 DEF Register
  <2>. HIDE DEF titles
  <2>3. Register(titles)
    BY <1>2 DEF titles
  <2>4. /\ MemoryType'
        /\ \A i \in Ids : live'[i] # "none" =>
              IF i \in DOMAIN titles
              THEN made'[i] > 0 /\ messages'[i] = NoChat
              ELSE live[i] # "none" /\ UNCHANGED <<made[i], messages[i]>>
        /\ \A i \in Ids : messages'[i] # NoChat =>
              live'[i] = live[i] /\ UNCHANGED <<made[i], messages[i]>>
    BY <2>1, <2>3, RegisterKeeps DEF Titles
  <2>5. \A i \in Ids : live'[i] # "none" => made'[i] > 0
    BY <2>1, <2>4 DEF IInv, MemoryOK
  <2>6. made'[id] \in 1 .. MaxMade
    BY <2>2, <2>4, <2>5, GatewayAssumption DEF MemoryType
  <2>. QED
    BY <2>2, <2>4, <2>5, <2>6
<1>. QED
  BY <1>1, <1>2 DEF GetOrCreate

\* The part of TypeOK about the database.
StoreOK ==
  /\ RowsOK /\ built \subseteq Ids \X (1 .. MaxMade) /\ facts \subseteq Ids
  /\ \A id \in facts \cup {b[1] : b \in built} : row[id] # "none"

LEMMA TypeParts == TypeOK => MemoryType /\ StoreOK
BY DEF TypeOK, MemoryType, StoreOK, RowsOK

LEMMA TypeFromParts ==
  ASSUME server' \in {"up", "down", "failed"}, MemoryType', StoreOK', ChatType'
  PROVE  TypeOK'
BY DEF TypeOK, MemoryType, StoreOK, RowsOK, ChatType, Entry

\* Facts and rendered contexts stay with a session that has a row.
LEMMA StoreKept ==
  ASSUME StoreOK, RowsOK', RowsKept, built' \subseteq built, facts' \subseteq facts
  PROVE  StoreOK'
BY DEF StoreOK, RowsKept

LEMMA HoldsKeeps ==
  ASSUME ChatType, NEW c \in Chats, NEW id \in Ids, NEW n \in 1 .. MaxMade,
         NEW pc \in {"running", "listening", "streaming", "over"},
         Holds(c, id, n, pc)
  PROVE  ChatType' /\ \A d \in Chats \ {c} : chat'[d] = chat[d]
<1>1. [pc |-> pc, id |-> id, object |-> n] \in Entry /\ n # 0
  BY GatewayAssumption DEF Entry
<1>. QED
  BY <1>1 DEF ChatType, Holds

LEMMA PcKeeps ==
  ASSUME ChatType, NEW c \in Chats, chat[c].pc # "idle",
         NEW pc \in {"running", "listening", "streaming", "over"},
         chat' = [chat EXCEPT ![c].pc = pc]
  PROVE  /\ ChatType' /\ \A d \in Chats \ {c} : chat'[d] = chat[d]
         /\ chat'[c] = [pc |-> pc, id |-> chat[c].id, object |-> chat[c].object]
BY DEF ChatType, Entry

\* What build does to the store, for an object of a session.
LEMMA BuildKeeps ==
  ASSUME StoreOK, NEW id \in Ids, NEW n \in 1 .. MaxMade,
         BuildFromCache(id, n) \/ BuildAnew(id, n) \/ BuildRaises(id)
  PROVE  StoreOK'
<1>1. CASE BuildFromCache(id, n)
  BY <1>1 DEF BuildFromCache, database, StoreOK, RowsOK
<1>2. CASE BuildAnew(id, n)
  <2>1. RowsOK' /\ RowsKept /\ row'[id] # "none"
    BY <1>2, EnsureRowKeeps DEF BuildAnew, StoreOK
  <2>2. built' \subseteq Ids \X (1 .. MaxMade)
    BY <1>2 DEF BuildAnew, StoreOK
  <2>3. \A b \in built' : row'[b[1]] # "none"
    BY <1>2, <2>1 DEF BuildAnew, StoreOK, RowsKept
  <2>. QED
    BY <1>2, <2>1, <2>2, <2>3 DEF BuildAnew, StoreOK, RowsKept
<1>3. CASE BuildRaises(id)
  <2>1. CASE EnsureRow(id)
    BY <1>3, <2>1, EnsureRowKeeps, StoreKept DEF BuildRaises, StoreOK
  <2>2. CASE UNCHANGED row
    BY <1>3, <2>2 DEF BuildRaises, StoreOK, RowsOK
  <2>. QED
    BY <1>3, <2>1, <2>2 DEF BuildRaises
<1>. QED
  BY <1>1, <1>2, <1>3

\* The conversations that stay where they are are still at home, if the chats
\* they are of do.
LEMMA ConversationsKept ==
  ASSUME ConversationsStayHome,
         \A id \in Ids : messages'[id] # NoChat =>
            /\ messages'[id] = messages[id]
            /\ live'[id] = live[id] /\ made'[id] = made[id],
         \A c \in Chats : chat[c].pc = "over" => chat'[c] = chat[c],
         TypeOK
  PROVE  ConversationsStayHome'
<1>. SUFFICES ASSUME NEW id \in Ids, messages'[id] # NoChat
              PROVE  /\ live'[id] # "none"
                     /\ chat'[messages'[id]] = [pc |-> "over", id |-> id, object |-> made'[id]]
  BY DEF ConversationsStayHome
<1>1. messages[id] # NoChat /\ messages'[id] = messages[id] /\ live'[id] = live[id] /\ made'[id] = made[id]
  OBVIOUS
<1>2. messages[id] \in Chats
  BY <1>1 DEF TypeOK
<1>3. live[id] # "none" /\ chat[messages[id]] = [pc |-> "over", id |-> id, object |-> made[id]]
  BY <1>1 DEF ConversationsStayHome
<1>. QED
  BY <1>1, <1>2, <1>3

-----------------------------------------------------------------------------
(* The actions.                                                             *)

LEMMA SessionSteps ==
  ASSUME IInv, NEW id \in Ids, SessionStep(id)
  PROVE  IInv'
<1>. USE DEF IInv
<1>0. MemoryType /\ StoreOK /\ ChatType /\ server \in {"up", "down", "failed"}
  BY TypeParts DEF TypeOK
<1>1. CASE Create(id)
  <2> DEFINE titles == [i \in {id} |-> "named"]
  <2>1. DOMAIN titles = {id} /\ titles[id] = "named" /\ live[id] = "none" /\ Register(titles)
    BY <1>1 DEF Create, Fresh, MemoryOK, TypeOK
  <2>. HIDE DEF titles
  <2>2. /\ MemoryType'
        /\ \A i \in Ids : live'[i] # "none" =>
              IF i \in DOMAIN titles
              THEN made'[i] > 0 /\ messages'[i] = NoChat
              ELSE live[i] # "none" /\ UNCHANGED <<made[i], messages[i]>>
        /\ \A i \in Ids : messages'[i] # NoChat =>
              live'[i] = live[i] /\ UNCHANGED <<made[i], messages[i]>>
    BY <2>1, RegisterKeeps DEF Titles
  <2>3. UNCHANGED <<server, built, database, chat>> /\ IsUp
    BY <1>1 DEF Create
  <2>4. TypeOK'
    BY <1>0, <2>2, <2>3, TypeFromParts DEF StoreOK, RowsOK, ChatType, database
  <2>5. MemoryOK'
    BY <2>1, <2>2, <2>3 DEF MemoryOK, IsUp
  <2>6. ConversationsStayHome'
    BY <2>2, <2>3, ConversationsKept
  <2>. QED
    BY <1>0, <2>3, <2>4, <2>5, <2>6 DEF ChatType
<1>2. CASE Delete(id)
  <2>1. MemoryType' /\ UNCHANGED <<server, made, built, database, chat>>
    BY <1>0, <1>2 DEF Delete, MemoryType
  <2>2. TypeOK'
    BY <1>0, <2>1, TypeFromParts DEF StoreOK, RowsOK, ChatType, database
  <2>3. MemoryOK'
    BY <1>2 DEF Delete, MemoryOK, IsUp, TypeOK
  <2>4. ConversationsStayHome'
    BY <1>2, <2>1, ConversationsKept DEF Delete, TypeOK
  <2>. QED
    BY <1>0, <2>1, <2>2, <2>3, <2>4 DEF ChatType
<1>3. CASE StoreStepFacts(id) \/ AddFact(id) \/ PurgeFacts(id)
  <2>1. EnsureRow(id) /\ UNCHANGED <<server, live, made, messages, built, chat>>
        /\ facts' \subseteq facts \cup {id}
    BY <1>3 DEF StoreStepFacts, AddFact, PurgeFacts
  <2>2. RowsOK' /\ RowsKept /\ row'[id] # "none"
    BY <1>0, <2>1, EnsureRowKeeps DEF StoreOK
  <2>3. StoreOK'
    BY <1>0, <2>1, <2>2 DEF StoreOK, RowsKept
  <2>4. TypeOK'
    BY <1>0, <2>1, <2>3, TypeFromParts DEF MemoryType, ChatType
  <2>5. MemoryOK'
    BY <2>1 DEF MemoryOK, IsUp
  <2>6. ConversationsStayHome'
    BY <2>1, ConversationsKept
  <2>. QED
    BY <1>0, <2>1, <2>4, <2>5, <2>6 DEF ChatType
<1>. QED
  BY <1>1, <1>2, <1>3 DEF SessionStep

LEMMA ChatBegins ==
  ASSUME IInv, NEW c \in Chats, NEW id \in Ids, Chat(c, id) \/ SocketOpens(c, id)
  PROVE  IInv'
<1>. USE DEF IInv
<1>0. MemoryType /\ StoreOK /\ ChatType /\ server \in {"up", "down", "failed"}
  BY TypeParts DEF TypeOK
<1>1. IsUp /\ chat[c].pc = "idle" /\ GetOrCreate(id) /\ UNCHANGED server
  BY DEF Chat, SocketOpens
<1>2. /\ MemoryType'
      /\ \A i \in Ids : live'[i] # "none" => made'[i] > 0
      /\ \A i \in Ids : messages'[i] # NoChat =>
            live'[i] = live[i] /\ UNCHANGED <<made[i], messages[i]>>
      /\ made'[id] \in 1 .. MaxMade /\ made'[id] \in 0 .. MaxMade
  BY <1>1, GetOrCreateKeeps
<1>3. StoreOK'
  <2>1. CASE Chat(c, id)
    BY <1>0, <1>2, <2>1, BuildKeeps DEF Chat
  <2>2. CASE SocketOpens(c, id)
    BY <1>0, <2>2 DEF SocketOpens, StoreOK, RowsOK, database
  <2>. QED
    BY <2>1, <2>2
<1>4. ChatType' /\ \A d \in Chats \ {c} : chat'[d] = chat[d]
  <2>1. PICK pc \in {"running", "over", "listening"} : Holds(c, id, made'[id], pc)
    BY DEF Chat, SocketOpens
  <2>. QED
    BY <1>0, <1>2, <2>1, HoldsKeeps
<1>5. TypeOK'
  BY <1>0, <1>1, <1>2, <1>3, <1>4, TypeFromParts
<1>6. MemoryOK'
  BY <1>1, <1>2 DEF MemoryOK, IsUp
<1>7. ConversationsStayHome'
  BY <1>1, <1>2, <1>4, ConversationsKept
<1>. QED
  BY <1>4, <1>5, <1>6, <1>7

LEMMA ChatGoesOn ==
  ASSUME IInv, NEW c \in Chats,
         ChatEnds(c) \/ ChatRaises(c) \/ SocketChats(c) \/ SocketAnswers(c) \/ SocketCloses(c)
  PROVE  IInv'
<1>. USE DEF IInv
<1>0. MemoryType /\ StoreOK /\ ChatType /\ server \in {"up", "down", "failed"}
  BY TypeParts DEF TypeOK
<1>1. IsUp /\ UNCHANGED <<server, live, made>> /\ chat[c].pc \notin {"idle", "over"}
  BY DEF ChatEnds, ChatRaises, SocketChats, SocketAnswers, SocketCloses
<1>2. MemoryOK'
  BY <1>1 DEF MemoryOK, IsUp
<1>3. CASE ChatEnds(c)
  <2> DEFINE id == chat[c].id
  <2>1. /\ ChatType' /\ \A d \in Chats \ {c} : chat'[d] = chat[d]
        /\ chat'[c] = [pc |-> "over", id |-> id, object |-> chat[c].object]
    BY <1>0, <1>3, PcKeeps DEF ChatEnds
  <2>2. \A i \in Ids : messages'[i] =
           IF i = id /\ i \in InMemory /\ made[i] = chat[c].object THEN c ELSE messages[i]
    BY <1>3 DEF ChatEnds, TypeOK
  <2>3. MemoryType'
    BY <1>0, <1>1, <1>3 DEF ChatEnds, MemoryType
  <2>4. StoreOK'
    BY <1>0, <1>3 DEF ChatEnds, StoreOK, RowsOK, database
  <2>5. TypeOK'
    BY <1>0, <1>1, <2>1, <2>3, <2>4, TypeFromParts
  <2>6. ASSUME NEW i \in Ids, messages'[i] # NoChat
        PROVE  /\ live'[i] # "none"
               /\ chat'[messages'[i]] = [pc |-> "over", id |-> i, object |-> made'[i]]
    <3>1. CASE i = id /\ i \in InMemory /\ made[i] = chat[c].object
      BY <1>1, <2>1, <2>2, <3>1 DEF InMemory
    <3>2. CASE ~ (i = id /\ i \in InMemory /\ made[i] = chat[c].object)
      <4>1. messages'[i] = messages[i] /\ messages[i] \in Chats
        BY <2>2, <2>6, <3>2 DEF TypeOK
      <4>2. live[i] # "none" /\ chat[messages[i]] = [pc |-> "over", id |-> i, object |-> made[i]]
        BY <2>6, <4>1 DEF ConversationsStayHome
      <4>3. messages[i] # c
        BY <1>1, <4>2
      <4>. QED
        BY <1>1, <2>1, <4>1, <4>2, <4>3
    <3>. QED
      BY <3>1, <3>2
  <2>. QED
    BY <1>2, <2>1, <2>5, <2>6 DEF ConversationsStayHome
<1>4. CASE ChatRaises(c) \/ SocketAnswers(c) \/ SocketCloses(c)
  <2>1. UNCHANGED <<messages, built, database>>
    BY <1>4 DEF ChatRaises, SocketAnswers, SocketCloses
  <2>2. PICK pc \in {"over", "listening"} : chat' = [chat EXCEPT ![c].pc = pc]
    BY <1>4 DEF ChatRaises, SocketAnswers, SocketCloses
  <2>3. ChatType' /\ \A d \in Chats \ {c} : chat'[d] = chat[d]
    BY <1>0, <1>1, <2>2, PcKeeps
  <2>4. TypeOK'
    BY <1>0, <1>1, <2>1, <2>3, TypeFromParts DEF MemoryType, StoreOK, RowsOK, database
  <2>5. ConversationsStayHome'
    BY <1>1, <2>1, <2>3, ConversationsKept
  <2>. QED
    BY <1>2, <2>3, <2>4, <2>5
<1>5. CASE SocketChats(c)
  <2> DEFINE id == chat[c].id
             n == chat[c].object
  <2>1. UNCHANGED messages
    BY <1>5 DEF SocketChats
  <2>2. id \in Ids /\ n \in 1 .. MaxMade
    BY <1>0, <1>1 DEF ChatType, Entry
  <2>3. StoreOK'
    BY <1>0, <1>5, <2>2, BuildKeeps DEF SocketChats
  <2>4. ChatType' /\ \A d \in Chats \ {c} : chat'[d] = chat[d]
    <3>1. PICK pc \in {"streaming", "over"} : Holds(c, id, n, pc)
      BY <1>5 DEF SocketChats
    <3>. QED
      BY <1>0, <2>2, <3>1, HoldsKeeps
  <2>5. TypeOK'
    BY <1>0, <1>1, <2>1, <2>3, <2>4, TypeFromParts DEF MemoryType
  <2>6. ConversationsStayHome'
    BY <1>1, <2>1, <2>4, ConversationsKept
  <2>. QED
    BY <1>2, <2>4, <2>5, <2>6
<1>. QED
  BY <1>3, <1>4, <1>5

\* The memory is empty after a stop of either kind.
LEMMA Stops ==
  ASSUME IInv, NEW saved \in SUBSET InMemory, Persist(saved), Forget,
         server' \in {"down", "failed"}
  PROVE  IInv'
<1>. USE DEF IInv
<1>0. MemoryType /\ StoreOK /\ ChatType
  BY TypeParts
<1>1. RowsOK' /\ RowsKept /\ facts' \subseteq facts
  BY PersistKeeps
<1>2. StoreOK'
  BY <1>0, <1>1 DEF Forget, StoreOK, RowsKept
<1>3. MemoryType'
  BY <1>0 DEF Forget, MemoryType
<1>4. ChatType'
  <2>1. ASSUME NEW c \in Chats
        PROVE  /\ chat'[c] \in Entry
               /\ chat'[c].pc # "idle" => chat'[c].id \in Ids /\ chat'[c].object # 0
    <3>1. chat'[c] = IF chat[c].pc = "idle" THEN chat[c] ELSE [chat[c] EXCEPT !.pc = "over"]
      BY DEF Forget
    <3>. QED
      BY <1>0, <3>1 DEF ChatType, Entry
  <2>2. chat' = [c \in Chats |-> chat'[c]]
    BY DEF Forget
  <2>. QED
    BY <2>1, <2>2 DEF ChatType
<1>5. TypeOK'
  BY <1>2, <1>3, <1>4, TypeFromParts
<1>6. MemoryOK' /\ ConversationsStayHome'
  BY DEF Forget, MemoryOK, ConversationsStayHome
<1>. QED
  BY <1>4, <1>5, <1>6

LEMMA Starts ==
  ASSUME IInv, Start
  PROVE  IInv'
<1>. USE DEF IInv
<1>0. MemoryType /\ StoreOK /\ ChatType
  BY TypeParts
<1>1. PICK titles : /\ Register(titles) /\ DOMAIN titles \subseteq Ids
                    /\ \A id \in DOMAIN titles : titles[id] \in Titles
  <2>1. CASE Register(Stored)
    <3>1. DOMAIN Stored \subseteq Ids
      BY DEF Stored
    <3>2. \A id \in DOMAIN Stored : Stored[id] = row[id] /\ row[id] # "none"
      BY DEF Stored
    <3>3. \A id \in DOMAIN Stored : Stored[id] \in Titles
      BY <3>1, <3>2 DEF TypeOK
    <3>. QED
      BY <2>1, <3>1, <3>3
  <2>2. CASE CreateDefault
    BY <2>2 DEF CreateDefault, Fresh, Titles
  <2>. QED
    BY <2>1, <2>2 DEF Start
<1>2. \A id \in Ids : live[id] = "none"
  BY DEF Start, MemoryOK
<1>3. UNCHANGED <<built, database, chat>> /\ server' = "up"
  BY DEF Start
<1>4. /\ MemoryType'
      /\ \A id \in Ids : live'[id] # "none" =>
              IF id \in DOMAIN titles
              THEN made'[id] > 0 /\ messages'[id] = NoChat
              ELSE live[id] # "none" /\ UNCHANGED <<made[id], messages[id]>>
      /\ \A id \in Ids : messages'[id] # NoChat =>
              live'[id] = live[id] /\ UNCHANGED <<made[id], messages[id]>>
  BY <1>1, <1>2, RegisterKeeps
<1>5. StoreOK' /\ ChatType'
  BY <1>0, <1>3 DEF StoreOK, RowsOK, ChatType, database
<1>6. TypeOK'
  BY <1>3, <1>4, <1>5, TypeFromParts
<1>7. MemoryOK'
  BY <1>2, <1>3, <1>4 DEF MemoryOK, IsUp
<1>8. ConversationsStayHome'
  BY <1>3, <1>4, ConversationsKept
<1>. QED
  BY <1>5, <1>6, <1>7, <1>8

LEMMA InvNext ==
  ASSUME IInv, [Next]_vars
  PROVE  IInv'
<1>1. ASSUME NEW c \in Chats, ChatStep(c) PROVE IInv'
  BY <1>1, ChatBegins, ChatGoesOn DEF ChatStep
<1>2. ASSUME NEW id \in Ids, SessionStep(id) PROVE IInv'
  BY <1>2, SessionSteps
<1>3. CASE Shutdown
  BY <1>3, Stops DEF Shutdown
<1>4. CASE Fail
  BY <1>4, Stops DEF Fail
<1>5. CASE Start
  BY <1>5, Starts
<1>6. CASE UNCHANGED vars
  <2>1. TypeOK' /\ ChatType'
    BY <1>6 DEF vars, database, IInv, TypeOK, ChatType
  <2>2. MemoryOK' /\ ConversationsStayHome'
    BY <1>6 DEF vars, IInv, MemoryOK, ConversationsStayHome, IsUp
  <2>. QED
    BY <2>1, <2>2 DEF IInv
<1>. QED
  BY <1>1, <1>2, <1>3, <1>4, <1>5, <1>6 DEF Next

LEMMA Invariance == Spec => []IInv
<1>1. IInv /\ [Next]_vars => IInv'
  BY InvNext
<1>. QED
  BY InvInit, <1>1, PTL DEF Spec

\* The types, and the foreign key of memory_episodic, for any number of
\* sessions and chats.
THEOREM Typed == Spec => []TypeOK
<1>1. IInv => TypeOK
  BY DEF IInv
<1>. QED
  BY Invariance, <1>1, PTL

\* The conversation of a session is that of a chat begun in this very session
\* which has ended, for any number of chats, deletions and restarts:
\* gateway.chat keeps the object it has taken across its await.
THEOREM ConversationsAlwaysHome == Spec => []ConversationsStayHome
<1>1. IInv => ConversationsStayHome
  BY DEF IInv
<1>. QED
  BY Invariance, <1>1, PTL

-----------------------------------------------------------------------------
(* The gateway implements SessionDirectory.                                 *)

dir == IF IsUp THEN live ELSE row

LEMMA DirectoryInit == Init => Directory!Init
BY DEF Init, Directory!Init, Directory!Empty, IsUp

\* What the directory does not see.
LEMMA Stutters ==
  ASSUME UNCHANGED server, IsUp, UNCHANGED live
  PROVE  UNCHANGED Directory!vars
BY DEF Directory!vars, IsUp

LEMMA OpensOne ==
  ASSUME TypeOK, IsUp, UNCHANGED server, NEW id \in Ids, NEW title \in Titles,
         live[id] = "none", Register([i \in {id} |-> title])
  PROVE  Directory!Open
<1>1. live' = [live EXCEPT ![id] = title]
  BY DEF Register, TypeOK
<1>. QED
  BY <1>1, Zenon DEF Directory!Open, Directory!Titles, Titles, IsUp

\* While the gateway is not up, a row that appears is a session that does.
LEMMA RowAppears ==
  ASSUME TypeOK, NEW id \in Ids, EnsureRow(id), UNCHANGED <<server, live>>
  PROVE  Directory!Appear \/ UNCHANGED Directory!vars
<1>1. CASE IsUp
  BY <1>1, Stutters
<1>2. CASE ~IsUp /\ row[id] # "none"
  BY <1>2 DEF EnsureRow, Directory!vars, IsUp, TypeOK
<1>3. CASE ~IsUp /\ row[id] = "none"
  <2>1. row' = [row EXCEPT ![id] = "id"]
    BY <1>3 DEF EnsureRow
  <2>. QED
    BY <1>3, <2>1 DEF Directory!Appear, IsUp
<1>. QED
  BY <1>1, <1>2, <1>3

LEMMA DirectoryNext ==
  ASSUME IInv, [Next]_vars
  PROVE  [Directory!Next]_(Directory!vars)
<1>. USE DEF IInv
<1>1. ASSUME NEW c \in Chats, ChatStep(c)
      PROVE  Directory!Open \/ UNCHANGED Directory!vars
  <2>1. ASSUME NEW id \in Ids, Chat(c, id) \/ SocketOpens(c, id)
        PROVE  Directory!Open \/ UNCHANGED Directory!vars
    <3>1. IsUp /\ UNCHANGED server /\ GetOrCreate(id)
      BY <2>1 DEF Chat, SocketOpens
    <3>2. CASE UNCHANGED live
      BY <3>1, <3>2, Stutters
    <3>3. CASE id \notin InMemory /\ Register([i \in {id} |-> "id"])
      <4>1. live[id] = "none" /\ "id" \in Titles
        BY <3>3 DEF InMemory, Titles
      <4>. QED
        BY <3>1, <3>3, <4>1, OpensOne
    <3>. QED
      BY <3>1, <3>2, <3>3 DEF GetOrCreate
  <2>2. CASE ChatEnds(c) \/ ChatRaises(c) \/ SocketChats(c) \/ SocketAnswers(c) \/ SocketCloses(c)
    BY <2>2, Stutters DEF ChatEnds, ChatRaises, SocketChats, SocketAnswers, SocketCloses
  <2>. QED
    BY <1>1, <2>1, <2>2 DEF ChatStep
<1>2. ASSUME NEW id \in Ids, SessionStep(id)
      PROVE  Directory!Next \/ UNCHANGED Directory!vars
  <2>1. CASE Create(id)
    <3>1. live[id] = "none" /\ "named" \in Titles
      BY <2>1 DEF Create, Fresh, MemoryOK, TypeOK, Titles
    <3>. QED
      BY <2>1, <3>1, OpensOne DEF Create, Directory!Next
  <2>2. CASE Delete(id)
    BY <2>2 DEF Delete, InMemory, Directory!Next, Directory!Delete, IsUp
  <2>3. CASE StoreStepFacts(id) \/ AddFact(id) \/ PurgeFacts(id)
    BY <2>3, RowAppears DEF StoreStepFacts, AddFact, PurgeFacts, Directory!Next
  <2>. QED
    BY <1>2, <2>1, <2>2, <2>3 DEF SessionStep
<1>3. CASE Shutdown
  <2>1. /\ dir = live /\ dir' = row' /\ server = "up" /\ server' = "down"
        /\ Persist(InMemory)
    BY <1>3 DEF Shutdown, IsUp, dir
  <2>2. row' \in [Ids -> Titles \cup {"none"}]
    BY <2>1, PersistKeeps DEF RowsOK
  <2>3. \A id \in Ids : live[id] # "none" => row'[id] = live[id]
    BY <2>1 DEF Persist, InMemory
  <2>4. Directory!Stop
    BY <2>1, <2>2, <2>3 DEF Directory!Stop, Directory!Entries, Directory!Titles, Titles, dir
  <2>. QED
    BY <2>4 DEF Directory!Next
<1>4. CASE Fail
  <2>1. PICK saved \in SUBSET InMemory : Persist(saved)
    BY <1>4 DEF Fail
  <2>2. row' \in [Ids -> Titles \cup {"none"}]
    BY <2>1, PersistKeeps DEF RowsOK
  <2>3. Directory!Fail
    BY <1>4, <2>2 DEF Fail, IsUp, Directory!Fail, Directory!Entries, Directory!Titles, Titles
  <2>. QED
    BY <2>3 DEF Directory!Next
<1>5. CASE Start
  <2>1. server # "up" /\ server' = "up" /\ \A id \in Ids : live[id] = "none"
    BY <1>5 DEF Start, IsUp, MemoryOK
  <2>2. CASE Stored # <<>> /\ Register(Stored)
    <3>1. \A id \in Ids : live'[id] = row[id]
      <4>1. \A id \in Ids : live'[id] = IF id \in DOMAIN Stored THEN Stored[id] ELSE live[id]
        BY <2>2 DEF Register
      <4>2. \A id \in Ids : id \in DOMAIN Stored <=> row[id] # "none"
        BY DEF Stored
      <4>3. \A id \in DOMAIN Stored : Stored[id] = row[id]
        BY DEF Stored
      <4>. QED
        BY <2>1, <4>1, <4>2, <4>3
    <3>2. live' = row
      BY <2>2, <3>1 DEF Register, TypeOK
    <3>3. row # [id \in Ids |-> "none"]
      <4>1. SUFFICES ASSUME row = [id \in Ids |-> "none"] PROVE FALSE
        OBVIOUS
      <4>2. DOMAIN Stored = {}
        BY <4>1 DEF Stored
      <4>3. Stored = <<>>
        BY <4>2 DEF Stored
      <4>. QED
        BY <2>2, <4>3
    <3>4. Directory!Start
      BY <2>1, <3>2, <3>3 DEF Directory!Start, Directory!Empty, IsUp
    <3>. QED
      BY <3>4 DEF Directory!Next
  <2>3. CASE CreateDefault
    <3>1. PICK id \in Ids : Register([i \in {id} |-> "named"])
      BY <2>3 DEF CreateDefault, Fresh
    <3>2. live' = [[i \in Ids |-> "none"] EXCEPT ![id] = "named"]
      BY <2>1, <3>1 DEF Register
    <3>3. Directory!OnlyDefault(live')
      BY <3>2, Zenon DEF Directory!OnlyDefault, Directory!Empty
    <3>4. Directory!Start
      BY <2>1, <3>3 DEF Directory!Start, IsUp
    <3>. QED
      BY <3>4 DEF Directory!Next
  <2>. QED
    BY <1>5, <2>2, <2>3 DEF Start
<1>6. CASE UNCHANGED vars
  BY <1>6 DEF vars, database, Directory!vars, IsUp
<1>. QED
  BY <1>1, <1>2, <1>3, <1>4, <1>5, <1>6 DEF Next, Directory!Next

\* For a client, the memory and the table together are a directory that an
\* orderly stop and a restart keep, for any sessions, chats and programs that
\* use the database meanwhile (SessionManager.persist and load_persisted).
THEOREM DirectoryIsImplemented == Spec => ImplementsDirectory
<1>1. Init => Directory!Init
  BY DirectoryInit
<1>2. IInv /\ [Next]_vars => [Directory!Next]_(Directory!vars)
  BY DirectoryNext
<1>. QED
  BY Invariance, <1>1, <1>2, PTL DEF Spec, ImplementsDirectory, Directory!Spec
=============================================================================

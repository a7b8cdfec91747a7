--------------------------- MODULE WebSearchProofs ---------------------------
(***************************************************************************)
(* Theorems about WebSearch, for any processes, searches, queries and       *)
(* providers, any interval and any TTL of the cache.                        *)
(***************************************************************************)
EXTENDS WebSearch, TLAPS

Places == {"idle", "look", "queue", "sleep", "asking", "done"} \cup Saving

\* A search starts with its first provider, and under way it is at one.
AskOK ==
  /\ ask \in [Searches -> Asks \cup {NoAsk}] /\ turn \in [Searches -> Nat \ {0}]
  /\ \A s \in Searches : pc[s] \notin {"idle", "done"} =>
       ask[s] \in Ask /\ turn[s] \in 1 .. Len(ask[s].order)
  /\ \A s \in Searches : pc[s] = "idle" => turn[s] = 1

\* One search of a process at most saves.
SaveOK ==
  /\ pc \in [Searches -> Places]
  /\ \A s, r \in Searches : s # r /\ ProcOf[s] = ProcOf[r] => ~ {pc[s], pc[r]} \subseteq Saving

\* The lock of a process is held by the search that sleeps under it, and that
\* one sleeps until the next request is due.
RateOK ==
  /\ wake \in [Searches -> Nat] /\ next \in [Procs -> Nat]
  /\ holder \in [Procs -> Searches \cup {Nobody}]
  /\ \A p \in Procs, s \in Searches : holder[p] = s <=> ProcOf[s] = p /\ pc[s] = "sleep"
  /\ \A s \in Searches : pc[s] = "sleep" => wake[s] >= next[ProcOf[s]]

\* The entry under a key is the answer of the key's provider to its query.
GoodData(d) ==
  /\ DOMAIN d \subseteq Providers \X Queries
  /\ \A k \in DOMAIN d : d[k] \in Entry /\ d[k].payload = k

GoodFile(f) == GoodData(f.data) /\ (~f.whole => f.data = NoData) /\ (f.whole => f.text)

FileFields == {"there", "text", "whole", "mixed", "data"}

DiskOK ==
  /\ DOMAIN copy = Searches /\ \A s \in Searches : GoodData(copy[s])
  /\ GoodFile(cache) /\ GoodFile(tmp)
  /\ DOMAIN cache = FileFields /\ DOMAIN tmp = FileFields
  /\ fd \in [Searches -> {"none", "tmp", "cache"}]

\* Only a search that is over has an answer.
AnswersOK ==
  /\ DOMAIN answer = Searches
  /\ \A s \in Searches : answer[s].code = "ok" => pc[s] = "done" /\ answer[s].payload = Payload(s)

IInv ==
  /\ clock \in 0 .. MaxTime /\ raced \in BOOLEAN
  /\ AskOK /\ SaveOK /\ RateOK /\ DiskOK /\ AnswersOK

LEMMA InvImplies == IInv => TypeOK /\ AnswersAreOwn
<1>. SUFFICES ASSUME IInv PROVE TypeOK /\ AnswersAreOwn
  OBVIOUS
<1>1. \A d : GoodData(d) => IsData(d)
  BY DEF GoodData, IsData
<1>. QED
  BY <1>1 DEF IInv, AskOK, SaveOK, RateOK, DiskOK, GoodFile, AnswersOK, Places, TypeOK, AnswersAreOwn

LEMMA NoDataIsGood == GoodData(NoData)
BY DEF GoodData, NoData

LEMMA InvInit == Init => IInv
<1>. SUFFICES ASSUME Init PROVE IInv
  OBVIOUS
<1>1. AskOK /\ SaveOK
  BY SearchAssumption DEF Init, AskOK, SaveOK, Places, Saving
<1>2. RateOK
  BY SearchAssumption DEF Init, RateOK
<1>3. DiskOK
  BY NoDataIsGood DEF Init, DiskOK, GoodFile, NoFile, FileFields
<1>4. AnswersOK
  BY DEF Init, AnswersOK, Nothing
<1>5. clock \in 0 .. MaxTime
  BY SearchAssumption DEF Init
<1>6. raced \in BOOLEAN
  BY DEF Init
<1>. QED
  BY <1>1, <1>2, <1>3, <1>4, <1>5, <1>6 DEF IInv

-----------------------------------------------------------------------------
(* What most steps keep.                                                    *)

\* A search moves, and the others of its process save nothing meanwhile.
LEMMA GoesKeeps ==
  ASSUME SaveOK, NEW s \in Searches, NEW from, NEW to \in Places, Goes(s, from, to)
  PROVE  /\ SaveOK' /\ pc[s] = from
         /\ \A r \in Searches : pc'[r] = IF r = s THEN to ELSE pc[r]
<1>1. pc' \in [Searches -> Places] /\ pc[s] = from
      /\ \A r \in Searches : pc'[r] = IF r = s THEN to ELSE pc[r]
  BY DEF Goes, SaveOK
<1>2. ASSUME NEW q \in Searches, NEW r \in Searches, q # r, ProcOf[q] = ProcOf[r]
      PROVE  ~ {pc'[q], pc'[r]} \subseteq Saving
  <2>1. CASE q = s
    BY <1>1, <1>2, <2>1 DEF Goes, Runs
  <2>2. CASE r = s
    BY <1>1, <1>2, <2>2 DEF Goes, Runs
  <2>3. CASE q # s /\ r # s
    BY <1>1, <1>2, <2>3 DEF SaveOK
  <2>. QED
    BY <2>1, <2>2, <2>3
<1>. QED
  BY <1>1, <1>2 DEF SaveOK

\* A search that neither sleeps nor starts to leaves the lock alone.
LEMMA RateKept ==
  ASSUME RateOK, UNCHANGED rate, NEW s \in Searches, pc[s] # "sleep", pc'[s] # "sleep",
         \A r \in Searches \ {s} : pc'[r] = pc[r]
  PROVE  RateOK'
<1>1. \A r \in Searches : pc'[r] = "sleep" <=> pc[r] = "sleep"
  OBVIOUS
<1>. QED
  BY <1>1 DEF RateOK, rate

\* A search that goes on to another place keeps its ask and its turn.
LEMMA AskKept ==
  ASSUME AskOK, UNCHANGED <<ask, turn>>, NEW s \in Searches,
         pc[s] \notin {"idle", "done"}, pc'[s] # "idle",
         \A r \in Searches \ {s} : pc'[r] = pc[r]
  PROVE  AskOK'
BY DEF AskOK

\* Answers that are not touched stay, and so does what they are the answer to.
LEMMA AnswersKept ==
  ASSUME AnswersOK, UNCHANGED answer, NEW s \in Searches, pc[s] # "done",
         \A r \in Searches \ {s} : pc'[r] = pc[r] /\ ask'[r] = ask[r] /\ turn'[r] = turn[r]
  PROVE  AnswersOK'
<1>1. \A r \in Searches : answer[r].code = "ok" => r # s
  BY DEF AnswersOK
<1>. QED
  BY <1>1 DEF AnswersOK, Payload, Provider

\* A search returns a result that is its own.
LEMMA ReturnsOwn ==
  ASSUME AnswersOK, NEW s \in Searches, NEW result, Returns(s, result),
         pc'[s] = "done", UNCHANGED <<ask, turn>>,
         result.code = "ok" => result.payload = Payload(s),
         \A r \in Searches \ {s} : pc'[r] = pc[r]
  PROVE  AnswersOK'
<1>1. DOMAIN answer' = Searches
      /\ \A r \in Searches : answer'[r] = IF r = s THEN result ELSE answer[r]
  BY DEF Returns, AnswersOK
<1>2. \A r \in Searches : Payload(r)' = Payload(r)
  BY DEF Payload, Provider
<1>. QED
  BY <1>1, <1>2 DEF AnswersOK

-----------------------------------------------------------------------------
(* The steps of a search up to a request.                                   *)

LEMMA DiskKept ==
  ASSUME DiskOK, UNCHANGED <<copy, fd, disk>>
  PROVE  DiskOK'
BY DEF DiskOK, GoodFile, GoodData, Entry, disk

LEMMA MaxOfTwo ==
  ASSUME NEW a \in Nat, NEW b \in Nat
  PROVE  Max({a, b}) \in Nat /\ Max({a, b}) >= a /\ Max({a, b}) >= b
<1>1. \E x \in {a, b} : \A y \in {a, b} : x >= y
  OBVIOUS
<1>2. Max({a, b}) \in {a, b} /\ \A y \in {a, b} : Max({a, b}) >= y
  BY <1>1, Zenon DEF Max
<1>. QED
  BY <1>2

LEMMA BeginKeeps ==
  ASSUME IInv, NEW s \in Searches, NEW a \in Asks, Begin(s, a)
  PROVE  IInv'
<1>. USE DEF IInv
<1> DEFINE to == IF a.order = <<>> THEN "done" ELSE "look"
<1>1. Goes(s, "idle", to)
  BY DEF Begin
<1>2. /\ SaveOK' /\ pc[s] = "idle"
      /\ \A r \in Searches : pc'[r] = IF r = s THEN to ELSE pc[r]
  BY <1>1, GoesKeeps DEF Places
<1>3. /\ ask' = [ask EXCEPT ![s] = a] /\ UNCHANGED <<clock, turn, raced>>
      /\ UNCHANGED rate /\ UNCHANGED <<copy, fd, disk>>
  BY DEF Begin
<1>4. AskOK'
  <2>1. a \in Ask /\ a.order \in Seq(Providers)
    BY SearchAssumption DEF Ask
  <2>2. \A r \in Searches : ask'[r] = IF r = s THEN a ELSE ask[r]
    BY <1>3 DEF AskOK
  <2>3. ask' \in [Searches -> Asks \cup {NoAsk}]
    BY <1>3 DEF AskOK
  <2>4. a.order # <<>> => turn'[s] \in 1 .. Len(a.order)
    BY <1>2, <1>3, <2>1 DEF AskOK
  <2>. QED
    BY <1>2, <1>3, <2>1, <2>2, <2>3, <2>4 DEF AskOK
<1>5. RateOK'
  BY <1>2, <1>3, RateKept
<1>6. DiskOK'
  BY <1>3, DiskKept
<1>7. AnswersOK'
  <2>1. CASE a.order # <<>>
    BY <1>2, <1>3, <2>1, AnswersKept DEF Begin, AskOK
  <2>2. CASE a.order = <<>>
    <3>1. DOMAIN answer' = Searches
          /\ \A r \in Searches : answer'[r] = IF r = s THEN Code("no_provider") ELSE answer[r]
      BY <2>2 DEF Begin, Returns, AnswersOK
    <3>2. Code("no_provider").code # "ok"
      BY DEF Code, Nothing
    <3>3. \A r \in Searches \ {s} : Payload(r)' = Payload(r)
      BY <1>3 DEF Payload, Provider, AskOK
    <3>. QED
      BY <1>2, <3>1, <3>2, <3>3 DEF AnswersOK
  <2>. QED
    BY <2>1, <2>2
<1>. QED
  BY <1>2, <1>3, <1>4, <1>5, <1>6, <1>7

LEMMA LookKeeps ==
  ASSUME IInv, NEW s \in Searches, Look(s)
  PROVE  IInv'
<1>. USE DEF IInv
<1> DEFINE to == IF cache.text /\ ~Cached(s) THEN "queue" ELSE "done"
<1>1. Goes(s, "look", to)
  BY DEF Look
<1>2. /\ SaveOK' /\ pc[s] = "look"
      /\ \A r \in Searches : pc'[r] = IF r = s THEN to ELSE pc[r]
  BY <1>1, GoesKeeps DEF Places
<1>3. UNCHANGED <<clock, ask, turn, raced>> /\ UNCHANGED rate /\ UNCHANGED <<copy, fd, disk>>
  BY DEF Look
<1>4. AskOK' /\ RateOK' /\ DiskOK'
  BY <1>2, <1>3, AskKept, RateKept, DiskKept
<1>5. AnswersOK'
  <2>1. CASE cache.text /\ ~Cached(s)
    BY <1>2, <1>3, <2>1, AnswersKept DEF Look
  <2>2. CASE cache.text /\ Cached(s)
    <3> DEFINE result == [code |-> "ok", cached |-> TRUE, payload |-> cache.data[Key(s)].payload]
    <3>1. Returns(s, result)
      BY <2>2 DEF Look
    <3>2. result.payload = Payload(s)
      BY <2>2 DEF Cached, DiskOK, GoodFile, GoodData, Key, Payload
    <3>. HIDE DEF result
    <3>. QED
      BY <1>2, <1>3, <2>2, <3>1, <3>2, ReturnsOwn
  <2>3. CASE ~cache.text
    <3>1. Returns(s, Code("raised"))
      BY <2>3 DEF Look
    <3>2. Code("raised").code # "ok"
      BY DEF Code, Nothing
    <3>3. pc'[s] = "done" /\ \A r \in Searches \ {s} : pc'[r] = pc[r]
      BY <1>2, <2>3
    <3>. QED
      BY <1>3, <3>1, <3>2, <3>3, ReturnsOwn
  <2>. QED
    BY <2>1, <2>2, <2>3
<1>. QED
  BY <1>2, <1>3, <1>4, <1>5

LEMMA AcquireKeeps ==
  ASSUME IInv, NEW s \in Searches, Acquire(s)
  PROVE  IInv'
<1>. USE DEF IInv
<1> DEFINE p == ProcOf[s]
<1>1. /\ SaveOK' /\ pc[s] = "queue"
      /\ \A r \in Searches : pc'[r] = IF r = s THEN "sleep" ELSE pc[r]
  BY GoesKeeps DEF Acquire, Places
<1>2. UNCHANGED <<clock, ask, turn, raced, answer>> /\ UNCHANGED <<copy, fd, disk>>
  BY DEF Acquire, disk
<1>3. AskOK' /\ AnswersOK' /\ DiskOK'
  BY <1>1, <1>2, AskKept, AnswersKept, DiskKept
<1>4. RateOK'
  <2>1. p \in Procs /\ clock \in Nat /\ next[p] \in Nat
    BY SearchAssumption DEF RateOK
  <2>2. Max({clock, next[p]}) \in Nat /\ Max({clock, next[p]}) >= next[p]
    BY <2>1, MaxOfTwo
  <2>3. /\ wake' \in [Searches -> Nat] /\ UNCHANGED next
        /\ \A r \in Searches : wake'[r] = IF r = s THEN Max({clock, next[p]}) ELSE wake[r]
    BY <2>2 DEF Acquire, RateOK
  <2>4. /\ holder' \in [Procs -> Searches \cup {Nobody}] /\ holder[p] = Nobody
        /\ \A q \in Procs : holder'[q] = IF q = p THEN s ELSE holder[q]
    BY <2>1 DEF Acquire, RateOK
  <2>5. ASSUME NEW q \in Procs, NEW r \in Searches
        PROVE  holder'[q] = r <=> ProcOf[r] = q /\ pc'[r] = "sleep"
    <3>1. r # Nobody
      BY SearchAssumption
    <3>2. holder[q] = r <=> ProcOf[r] = q /\ pc[r] = "sleep"
      BY DEF RateOK
    <3>. QED
      BY <1>1, <2>4, <3>1, <3>2
  <2>6. \A r \in Searches : pc'[r] = "sleep" => wake'[r] >= next'[ProcOf[r]]
    BY <1>1, <2>2, <2>3 DEF RateOK
  <2>. QED
    BY <2>3, <2>4, <2>5, <2>6 DEF RateOK
<1>. QED
  BY <1>1, <1>2, <1>3, <1>4

\* Who leaves the lock, in whichever way, leaves it to nobody.
LEMMA ReleaseKeeps ==
  ASSUME RateOK, NEW s \in Searches, Release(s), pc'[s] # "sleep",
         \A r \in Searches \ {s} : pc'[r] = pc[r],
         next' \in [Procs -> Nat],
         \A r \in Searches \ {s} : pc[r] = "sleep" => next'[ProcOf[r]] = next[ProcOf[r]]
  PROVE  RateOK'
<1>0. ProcOf[s] \in Procs /\ Nobody \notin Searches
  BY SearchAssumption
<1>1. /\ wake' \in [Searches -> Nat]
      /\ \A r \in Searches \ {s} : wake'[r] = wake[r]
  BY DEF Release, RateOK
<1>2. /\ holder' \in [Procs -> Searches \cup {Nobody}]
      /\ \A q \in Procs : holder'[q] = IF holder[q] = s THEN Nobody ELSE holder[q]
  <2>1. \A q \in Procs : holder[q] = s => q = ProcOf[s]
    BY DEF RateOK
  <2>. QED
    BY <1>0, <2>1 DEF Release, RateOK
<1>3. ASSUME NEW q \in Procs, NEW r \in Searches
      PROVE  holder'[q] = r <=> ProcOf[r] = q /\ pc'[r] = "sleep"
  <2>1. holder[q] = r <=> ProcOf[r] = q /\ pc[r] = "sleep"
    BY DEF RateOK
  <2>. QED
    BY <1>0, <1>2, <2>1
<1>4. \A r \in Searches : pc'[r] = "sleep" => wake'[r] >= next'[ProcOf[r]]
  BY <1>1 DEF RateOK
<1>. QED
  BY <1>1, <1>2, <1>3, <1>4 DEF RateOK

LEMMA SendKeeps ==
  ASSUME IInv, NEW s \in Searches, Send(s)
  PROVE  IInv'
<1>. USE DEF IInv
<1>1. /\ SaveOK' /\ pc[s] = "sleep"
      /\ \A r \in Searches : pc'[r] = IF r = s THEN "asking" ELSE pc[r]
  BY GoesKeeps DEF Send, Places
<1>2. UNCHANGED <<clock, ask, turn, raced, answer>> /\ UNCHANGED <<copy, fd, disk>>
  BY DEF Send, disk
<1>3. AskOK' /\ AnswersOK' /\ DiskOK'
  BY <1>1, <1>2, AskKept, AnswersKept, DiskKept
<1>4. RateOK'
  <2>1. clock + Interval \in Nat /\ ProcOf[s] \in Procs
    BY SearchAssumption
  <2>2. next' \in [Procs -> Nat]
        /\ \A q \in Procs \ {ProcOf[s]} : next'[q] = next[q]
    BY <2>1 DEF Send, RateOK
  <2>3. ASSUME NEW r \in Searches \ {s}, pc[r] = "sleep"
        PROVE  next'[ProcOf[r]] = next[ProcOf[r]]
    <3>1. ProcOf[r] \in Procs /\ holder[ProcOf[r]] = r
      BY <2>3, SearchAssumption DEF RateOK
    <3>2. holder[ProcOf[s]] = s
      BY <1>1, <2>1 DEF RateOK
    <3>. QED
      BY <2>2, <3>1, <3>2
  <2>. QED
    BY <1>1, <2>2, <2>3, ReleaseKeeps DEF Send
<1>. QED
  BY <1>1, <1>2, <1>3, <1>4

LEMMA CutKeeps ==
  ASSUME IInv, NEW s \in Searches, Cut(s)
  PROVE  IInv'
<1>. USE DEF IInv
<1>1. /\ SaveOK' /\ pc[s] \in {"queue", "sleep", "asking"}
      /\ \A r \in Searches : pc'[r] = IF r = s THEN "done" ELSE pc[r]
  <2>1. PICK from \in {"queue", "sleep", "asking"} : Goes(s, from, "done")
    BY DEF Cut
  <2>. QED
    BY <2>1, GoesKeeps DEF Places
<1>2. UNCHANGED <<clock, ask, turn, raced, next>> /\ UNCHANGED <<copy, fd, disk>>
  BY DEF Cut, disk
<1>3. AskOK' /\ DiskOK'
  BY <1>1, <1>2, AskKept, DiskKept
<1>4. AnswersOK'
  <2>1. Code("timeout").code # "ok"
    BY DEF Code, Nothing
  <2>. QED
    BY <1>1, <1>2, <2>1, ReturnsOwn DEF Cut
<1>5. RateOK'
  BY <1>1, <1>2, ReleaseKeeps DEF Cut, RateOK
<1>. QED
  BY <1>1, <1>2, <1>3, <1>4, <1>5

-----------------------------------------------------------------------------
(* The answer of a provider, and the cache.                                 *)

LEMMA NextProviderKeeps ==
  ASSUME IInv, NEW s \in Searches, NEW from \in {"asking"} \cup Saving,
         NextProvider(s, from), UNCHANGED <<disk, raced>>
  PROVE  IInv'
<1>. USE DEF IInv
<1> DEFINE last == turn[s] = Len(ask[s].order)
           to == IF last THEN "done" ELSE "look"
<1>1. /\ SaveOK' /\ pc[s] = from
      /\ \A r \in Searches : pc'[r] = IF r = s THEN to ELSE pc[r]
  <2>1. Goes(s, from, to)
    BY DEF NextProvider
  <2>. QED
    BY <2>1, GoesKeeps DEF Places
<1>2. from \notin {"idle", "look", "queue", "sleep", "done"}
  BY DEF Saving
<1>3. /\ UNCHANGED <<clock, ask, raced, disk>> /\ UNCHANGED rate
      /\ \A r \in Searches \ {s} : turn'[r] = turn[r]
      /\ turn' \in [Searches -> Nat \ {0}]
      /\ to = "look" => turn'[s] = turn[s] + 1
  BY DEF NextProvider, AskOK
<1>4. AskOK'
  <2>1. ask[s] \in Ask /\ turn[s] \in 1 .. Len(ask[s].order)
    BY <1>1, <1>2 DEF AskOK
  <2>2. Len(ask[s].order) \in Nat
    BY <2>1 DEF Ask
  <2>3. to = "look" => turn'[s] \in 1 .. Len(ask[s].order)
    BY <1>3, <2>1, <2>2
  <2>. QED
    BY <1>1, <1>3, <2>1, <2>3 DEF AskOK
<1>5. RateOK'
  BY <1>1, <1>2, <1>3, RateKept
<1>6. DiskOK'
  BY <1>3, NoDataIsGood DEF NextProvider, DiskOK, GoodFile, disk
<1>7. AnswersOK'
  <2>1. CASE ~last
    BY <1>1, <1>2, <1>3, <2>1, AnswersKept DEF NextProvider
  <2>2. CASE last
    <3>1. Code("search_failed").code # "ok"
      BY DEF Code, Nothing
    <3>2. UNCHANGED turn /\ Returns(s, Code("search_failed"))
      BY <2>2 DEF NextProvider
    <3>. QED
      BY <1>1, <1>3, <2>2, <3>1, <3>2, ReturnsOwn
  <2>. QED
    BY <2>1, <2>2
<1>. QED
  BY <1>1, <1>3, <1>4, <1>5, <1>6, <1>7

\* A step of saving leaves everything but the files alone.
LEMMA SavingKeeps ==
  ASSUME IInv, NEW s \in Searches, NEW from \in {"asking"} \cup Saving, NEW to \in Saving,
         Goes(s, from, to), UNCHANGED <<clock, ask, turn, answer>>, UNCHANGED rate,
         raced' \in BOOLEAN, DiskOK'
  PROVE  IInv'
<1>. USE DEF IInv
<1>1. /\ SaveOK' /\ pc[s] = from
      /\ \A r \in Searches : pc'[r] = IF r = s THEN to ELSE pc[r]
  BY GoesKeeps DEF Places
<1>2. from \notin {"idle", "sleep", "done"} /\ to \notin {"idle", "sleep", "done"}
  BY DEF Saving
<1>3. AskOK' /\ RateOK' /\ AnswersOK'
  BY <1>1, <1>2, AskKept, RateKept, AnswersKept
<1>. QED
  BY <1>1, <1>3

\* The key of a search under way.
LEMMA KeyType ==
  ASSUME IInv, NEW s \in Searches, pc[s] \notin {"idle", "done"}
  PROVE  Key(s) \in Providers \X Queries /\ Payload(s) = Key(s)
<1>1. ask[s] \in Ask /\ turn[s] \in 1 .. Len(ask[s].order)
  BY DEF IInv, AskOK
<1>2. ask[s].order[turn[s]] \in Providers /\ ask[s].query \in Queries
  BY <1>1 DEF Ask
<1>. QED
  BY <1>2 DEF Key, Payload, Provider

LEMMA ReadCacheKeeps ==
  ASSUME IInv, NEW s \in Searches, ReadCache(s)
  PROVE  IInv'
<1> DEFINE old == IF cache.there /\ cache.whole THEN cache.data ELSE NoData
           new == [k \in DOMAIN old \cup {Key(s)} |->
                     IF k = Key(s) THEN [ts |-> clock, payload |-> Payload(s)] ELSE old[k]]
<1>1. pc[s] = "read"
  BY DEF ReadCache, Goes
<1>2. Key(s) \in Providers \X Queries /\ Payload(s) = Key(s)
  BY <1>1, KeyType
<1>3. GoodData(old)
  BY NoDataIsGood DEF IInv, DiskOK, GoodFile
<1>4. GoodData(new)
  <2>1. [ts |-> clock, payload |-> Payload(s)] \in Entry
    BY <1>2 DEF IInv, Entry
  <2>2. DOMAIN new = DOMAIN old \cup {Key(s)}
    OBVIOUS
  <2>3. \A k \in DOMAIN new : new[k] = IF k = Key(s) THEN [ts |-> clock, payload |-> Payload(s)] ELSE old[k]
    OBVIOUS
  <2>. HIDE DEF old, new
  <2>. QED
    BY <1>2, <1>3, <2>1, <2>2, <2>3 DEF GoodData
<1>5. copy' = [copy EXCEPT ![s] = new] /\ UNCHANGED <<fd, disk>>
  BY DEF ReadCache
<1>6. DiskOK'
  <2>1. \A r \in Searches : copy'[r] = IF r = s THEN new ELSE copy[r]
    BY <1>5 DEF IInv, DiskOK
  <2>. HIDE DEF old, new
  <2>. QED
    BY <1>4, <1>5, <2>1 DEF IInv, DiskOK, GoodFile, disk
<1>7. raced' \in BOOLEAN
  BY DEF ReadCache, IInv
<1>. QED
  BY <1>6, <1>7, SavingKeeps DEF ReadCache, Saving

\* A file that was opened is not JSON yet, and one that was written is, or
\* holds nothing.
LEMMA OpenedIsGood ==
  ASSUME NEW mixed
  PROVE  GoodFile(Emptied(mixed)) /\ DOMAIN Emptied(mixed) = FileFields
         /\ Emptied(mixed).mixed = mixed
BY NoDataIsGood DEF GoodFile, Emptied, NoFile, FileFields

LEMMA WrittenIsGood ==
  ASSUME NEW f, NEW d, GoodData(d), NEW g \in Written(f, d), DOMAIN f = FileFields
  PROVE  /\ GoodFile(g) /\ DOMAIN g = FileFields
         /\ g.there = f.there /\ g.mixed = f.mixed
         /\ ~f.mixed => g.whole /\ g.data = d
<1> DEFINE good == [f EXCEPT !.whole = TRUE, !.text = TRUE, !.data = d]
           bad(t) == [f EXCEPT !.whole = FALSE, !.text = t, !.data = NoData]
<1>1. g = good \/ (f.mixed /\ \E t \in BOOLEAN : g = bad(t))
  BY Zenon DEF Written
<1>2. /\ DOMAIN good = FileFields /\ good.there = f.there /\ good.mixed = f.mixed
      /\ good.whole /\ good.text /\ good.data = d
  BY DEF FileFields
<1>3. ASSUME NEW t \in BOOLEAN
      PROVE  /\ DOMAIN bad(t) = FileFields /\ bad(t).there = f.there /\ bad(t).mixed = f.mixed
             /\ ~bad(t).whole /\ bad(t).data = NoData
  BY DEF FileFields
<1>. HIDE DEF good, bad
<1>4. GoodFile(good) /\ \A t \in BOOLEAN : GoodFile(bad(t))
  BY <1>2, <1>3, NoDataIsGood DEF GoodFile
<1>. QED
  BY <1>1, <1>2, <1>3, <1>4

-----------------------------------------------------------------------------
LEMMA AnsweredKeeps ==
  ASSUME IInv, NEW s \in Searches, Answered(s)
  PROVE  IInv'
<1>1. DiskOK'
  BY DiskKept DEF Answered, IInv
<1>2. raced' \in BOOLEAN
  BY DEF Answered, IInv
<1>. QED
  BY <1>1, <1>2, SavingKeeps DEF Answered, Saving

LEMMA OpenKeeps ==
  ASSUME IInv, NEW s \in Searches, Open(s)
  PROVE  IInv'
<1>1. GoodFile(tmp') /\ DOMAIN tmp' = FileFields
  BY OpenedIsGood DEF Open, FileFields
<1>2. DiskOK'
  BY <1>1 DEF Open, IInv, DiskOK
<1>3. raced' \in BOOLEAN
  BY DEF Open, IInv
<1>. QED
  BY <1>2, <1>3, SavingKeeps DEF Open, Saving

LEMMA WriteKeeps ==
  ASSUME IInv, NEW s \in Searches, Write(s)
  PROVE  IInv'
<1>1. GoodData(copy[s])
  BY DEF IInv, DiskOK
<1>2. GoodFile(tmp') /\ DOMAIN tmp' = FileFields
  BY <1>1, WrittenIsGood DEF Write, IInv, DiskOK
<1>3. GoodFile(cache') /\ DOMAIN cache' = FileFields
  BY <1>1, WrittenIsGood DEF Write, IInv, DiskOK
<1>4. DiskOK'
  BY <1>2, <1>3 DEF Write, IInv, DiskOK
<1>5. raced' \in BOOLEAN
  BY DEF Write, IInv
<1>. QED
  BY <1>4, <1>5, SavingKeeps DEF Write, Saving

LEMMA ReplaceKeeps ==
  ASSUME IInv, NEW s \in Searches, Replace(s)
  PROVE  IInv'
<1>. USE DEF IInv
<1>1. /\ SaveOK' /\ pc[s] = "replace"
      /\ \A r \in Searches : pc'[r] = IF r = s THEN "done" ELSE pc[r]
  BY GoesKeeps DEF Replace, Places
<1>2. UNCHANGED <<clock, ask, turn, raced>> /\ UNCHANGED rate
  BY DEF Replace
<1>3. AskOK' /\ RateOK'
  BY <1>1, <1>2, AskKept, RateKept
<1>4. DiskOK'
  <2>1. GoodFile(NoFile) /\ DOMAIN NoFile = FileFields
    BY NoDataIsGood DEF GoodFile, NoFile, FileFields
  <2>2. /\ DOMAIN copy' = Searches /\ \A r \in Searches : GoodData(copy'[r])
    BY NoDataIsGood DEF Replace, DiskOK
  <2>3. cache' = tmp /\ tmp' = NoFile /\ fd' \in [Searches -> {"none", "tmp", "cache"}]
    BY DEF Replace
  <2>. QED
    BY <2>1, <2>2, <2>3 DEF DiskOK
<1>5. AnswersOK'
  <2> DEFINE result == [code |-> "ok", cached |-> FALSE, payload |-> Payload(s)]
  <2>1. Returns(s, result) /\ result.payload = Payload(s)
    BY DEF Replace
  <2>. HIDE DEF result
  <2>. QED
    BY <1>1, <1>2, <2>1, ReturnsOwn
<1>. QED
  BY <1>1, <1>2, <1>3, <1>4, <1>5

LEMMA DieKeeps ==
  ASSUME IInv, NEW p \in Procs, Die(p)
  PROVE  IInv'
<1>. USE DEF IInv
<1> DEFINE own(r) == ProcOf[r] = p /\ pc[r] # "idle"
<1>1. /\ UNCHANGED <<clock, ask, turn, answer, disk, raced>>
      /\ \A r \in Searches : pc'[r] = IF own(r) THEN "done" ELSE pc[r]
      /\ pc' \in [Searches -> Places]
  BY DEF Die, SaveOK, Places
<1>2. SaveOK'
  BY <1>1 DEF SaveOK, Saving
<1>3. AskOK'
  BY <1>1 DEF AskOK
<1>4. AnswersOK'
  BY <1>1 DEF AnswersOK, Payload, Provider
<1>5. DiskOK'
  <2>1. /\ DOMAIN copy' = Searches /\ \A r \in Searches : GoodData(copy'[r])
    BY NoDataIsGood DEF Die, DiskOK
  <2>2. fd' \in [Searches -> {"none", "tmp", "cache"}]
    BY DEF Die, DiskOK
  <2>. QED
    BY <1>1, <2>1, <2>2 DEF DiskOK, disk, GoodFile, GoodData, Entry
<1>6. RateOK'
  <2>1. /\ wake' \in [Searches -> Nat]
        /\ \A r \in Searches : ProcOf[r] # p => wake'[r] = wake[r]
    BY DEF Die, RateOK
  <2>2. /\ next' \in [Procs -> Nat] /\ \A q \in Procs \ {p} : next'[q] = next[q]
    BY DEF Die, RateOK
  <2>3. /\ holder' \in [Procs -> Searches \cup {Nobody}]
        /\ \A q \in Procs : holder'[q] = IF q = p THEN Nobody ELSE holder[q]
    BY DEF Die, RateOK
  <2>4. \A r \in Searches : pc'[r] = "sleep" <=> pc[r] = "sleep" /\ ProcOf[r] # p
    BY <1>1
  <2>5. ASSUME NEW q \in Procs, NEW r \in Searches
        PROVE  holder'[q] = r <=> ProcOf[r] = q /\ pc'[r] = "sleep"
    <3>1. r # Nobody /\ (holder[q] = r <=> ProcOf[r] = q /\ pc[r] = "sleep")
      BY SearchAssumption DEF RateOK
    <3>. QED
      BY <2>3, <2>4, <3>1
  <2>6. \A r \in Searches : pc'[r] = "sleep" => wake'[r] >= next'[ProcOf[r]]
    BY <2>1, <2>2, <2>4, SearchAssumption DEF RateOK
  <2>. QED
    BY <2>1, <2>2, <2>3, <2>5, <2>6 DEF RateOK
<1>. QED
  BY <1>1, <1>2, <1>3, <1>4, <1>5, <1>6

LEMMA SearchKeeps ==
  ASSUME IInv, NEW s \in Searches, Search(s)
  PROVE  IInv'
<1>1. CASE Refused(s)
  BY <1>1, NextProviderKeeps DEF Refused
<1>2. CASE SetFails(s)
  BY <1>2, NextProviderKeeps DEF SetFails
<1>. QED
  BY <1>1, <1>2, BeginKeeps, LookKeeps, AcquireKeeps, SendKeeps, AnsweredKeeps, ReadCacheKeeps,
     OpenKeeps, WriteKeeps, ReplaceKeeps, CutKeeps DEF Search

LEMMA InvNext ==
  ASSUME IInv, [Next]_vars
  PROVE  IInv'
<1>1. CASE Tick
  <2>1. clock' \in 0 .. MaxTime
    BY <1>1, SearchAssumption DEF Tick, IInv
  <2>2. UNCHANGED <<pc, ask, turn, copy, fd, answer, rate, disk, raced>>
    BY <1>1 DEF Tick
  <2>3. AskOK' /\ SaveOK' /\ AnswersOK'
    BY <2>2 DEF IInv, AskOK, SaveOK, AnswersOK, Payload, Provider
  <2>4. RateOK' /\ DiskOK'
    BY <2>2, DiskKept DEF IInv, RateOK, rate
  <2>. QED
    BY <2>1, <2>2, <2>3, <2>4 DEF IInv
<1>2. ASSUME NEW s \in Searches, Search(s) PROVE IInv'
  BY <1>2, SearchKeeps
<1>3. ASSUME NEW p \in Procs, Die(p) PROVE IInv'
  BY <1>3, DieKeeps
<1>4. CASE UNCHANGED vars
  <2>1. UNCHANGED <<pc, ask, turn, copy, fd, answer, rate, disk, raced, clock>>
    BY <1>4 DEF vars, rate, disk
  <2>2. AskOK' /\ SaveOK' /\ AnswersOK'
    BY <2>1 DEF IInv, AskOK, SaveOK, AnswersOK, Payload, Provider
  <2>3. RateOK' /\ DiskOK'
    BY <2>1, DiskKept DEF IInv, RateOK, rate
  <2>. QED
    BY <2>1, <2>2, <2>3 DEF IInv
<1>. QED
  BY <1>1, <1>2, <1>3, <1>4 DEF Next

LEMMA Invariance == Spec => []IInv
<1>1. IInv /\ [Next]_vars => IInv'
  BY InvNext
<1>. QED
  BY InvInit, <1>1, PTL DEF Spec

\* The types and the lock, for any processes and searches: a lock is held by
\* the one search that sleeps under it, and one search of a process saves.
THEOREM Typed == Spec => []TypeOK
<1>1. IInv => TypeOK
  BY InvImplies
<1>. QED
  BY Invariance, <1>1, PTL

\* A search that succeeds returns what the provider it names has answered to
\* this very query, for any processes that share the cache file.
THEOREM AnswersAlwaysOwn == Spec => []AnswersAreOwn
<1>1. IInv => AnswersAreOwn
  BY InvImplies
<1>. QED
  BY Invariance, <1>1, PTL

\* Every step of a search takes it from a place to another, and none but Send
\* to its provider.
LEMMA OnlySendAsks ==
  ASSUME NEW s \in Searches, Search(s)
  PROVE  \E from \in Places, to \in Places : Goes(s, from, to) /\ (to = "asking" => Send(s))
<1>1. ASSUME NEW from \in Places, NEW to \in Places, Goes(s, from, to), to # "asking" \/ Send(s)
      PROVE  \E f \in Places, t \in Places : Goes(s, f, t) /\ (t = "asking" => Send(s))
  BY <1>1
<1>2. /\ Saving \subseteq Places /\ "asking" \notin Saving
      /\ {"idle", "look", "queue", "sleep", "asking", "done"} \subseteq Places
  BY DEF Places, Saving
<1>3. ASSUME NEW a \in Asks, Begin(s, a)
      PROVE  Goes(s, "idle", "done") \/ Goes(s, "idle", "look")
  BY <1>3 DEF Begin
<1>4. CASE Look(s)
  <2>1. Goes(s, "look", "done") \/ Goes(s, "look", "queue")
    BY <1>4 DEF Look
  <2>. QED
    BY <1>1, <1>2, <2>1
<1>5. ASSUME NEW from, NextProvider(s, from)
      PROVE  Goes(s, from, "done") \/ Goes(s, from, "look")
  BY <1>5 DEF NextProvider
<1>6. CASE Refused(s)
  BY <1>1, <1>2, <1>5, <1>6 DEF Refused
<1>7. CASE SetFails(s)
  <2>1. PICK from \in Saving : NextProvider(s, from)
    BY <1>7 DEF SetFails
  <2>. QED
    BY <1>1, <1>2, <1>5, <2>1
<1>8. CASE Acquire(s) \/ Send(s) \/ Answered(s) \/ ReadCache(s) \/ Open(s) \/ Write(s) \/ Replace(s)
  <2>1. \/ Goes(s, "queue", "sleep") \/ (Goes(s, "sleep", "asking") /\ Send(s))
        \/ Goes(s, "asking", "read") \/ Goes(s, "read", "open") \/ Goes(s, "open", "write")
        \/ Goes(s, "write", "replace") \/ Goes(s, "replace", "done")
    BY <1>8 DEF Acquire, Send, Answered, ReadCache, Open, Write, Replace
  <2>2. {"read", "open", "write", "replace"} \subseteq Places
    BY DEF Places, Saving
  <2>. QED
    BY <1>1, <1>2, <2>1, <2>2
<1>9. CASE Cut(s)
  BY <1>1, <1>2, <1>9 DEF Cut
<1>10. CASE \E a \in Asks : Begin(s, a)
  BY <1>1, <1>2, <1>3, <1>10
<1>. QED
  BY <1>4, <1>6, <1>7, <1>8, <1>9, <1>10 DEF Search

\* Requests of a process are spaced, for any interval and any number of
\* searches: whoever sleeps holds the lock, and sleeps until one is due.
THEOREM RequestsAlwaysSpaced == Spec => RequestsSpaced
<1>1. ASSUME IInv, [Next]_vars, NEW s \in Searches, pc[s] = "sleep", pc'[s] = "asking"
      PROVE  clock >= next[ProcOf[s]]
  <2>1. CASE Send(s)
    <3>1. wake[s] >= next[ProcOf[s]] /\ clock >= wake[s]
      BY <1>1, <2>1 DEF Send, IInv, RateOK
    <3>2. wake[s] \in Nat /\ next[ProcOf[s]] \in Nat /\ clock \in Nat
      BY SearchAssumption, <1>1 DEF IInv, RateOK
    <3>. QED
      BY <3>1, <3>2
  <2>2. ASSUME NEW r \in Searches, Search(r), ~ (r = s /\ Send(s))
        PROVE  FALSE
    <3>1. \E from \in Places, to \in Places : Goes(r, from, to) /\ (to = "asking" => Send(r))
      BY <2>2, OnlySendAsks
    <3>2. PICK from \in Places, to \in Places : Goes(r, from, to) /\ (to = "asking" => Send(r))
      BY <3>1
    <3>. QED
      BY <1>1, <2>2, <3>2, GoesKeeps DEF IInv
  <2>3. ~ UNCHANGED vars /\ ~ Tick
    BY <1>1 DEF vars, Tick
  <2>4. ASSUME NEW p \in Procs, Die(p) PROVE FALSE
    BY <1>1, <2>4 DEF Die
  <2>. QED
    BY <1>1, <2>1, <2>2, <2>3, <2>4 DEF Next
<1>2. IInv /\ [Next]_vars =>
        [\A s \in Searches : pc[s] = "sleep" /\ pc'[s] = "asking" => clock >= next[ProcOf[s]]]_vars
  BY <1>1
<1>. QED
  BY Invariance, <1>2, PTL DEF Spec, RequestsSpaced

-----------------------------------------------------------------------------
(* The cache, as long as no two processes save at once.                     *)

\* What the file of a search that saves has come to: the copy it has made
\* contains the cache, and once written the temporary file is the copy.
Saved(s) ==
  /\ pc[s] \in {"open", "write", "replace"} /\ cache.there => DOMAIN cache.data \subseteq DOMAIN copy[s]
  /\ pc[s] = "write" => fd[s] = "tmp" /\ ~tmp.mixed
  /\ pc[s] = "replace" => tmp.whole /\ tmp.data = copy[s]
  /\ fd[s] # "none" => pc[s] = "write"

Solo ==
  /\ cache.there => cache.whole
  /\ \A s, r \in Searches : {pc[s], pc[r]} \subseteq Saving => s = r
  /\ \A s \in Searches : Saved(s)

SoloOK == ~raced => Solo

\* What a step keeps of the cache.
Survives == cache.there => cache'.whole /\ DOMAIN cache.data \subseteq DOMAIN cache'.data

\* A step that is none of saving, and leaves the files alone.
LEMMA SoloKept ==
  ASSUME Solo, NEW s \in Searches, UNCHANGED disk,
         \A r \in Searches \ {s} : pc'[r] = pc[r] /\ copy'[r] = copy[r] /\ fd'[r] = fd[r],
         pc'[s] \notin Saving, fd'[s] = "none"
  PROVE  Solo' /\ Survives
<1>1. Saved(s)'
  BY DEF Saved, Saving
<1>2. \A r \in Searches \ {s} : Saved(r)'
  BY DEF Solo, Saved, disk
<1>. QED
  BY <1>1, <1>2 DEF Solo, Survives, disk

\* The only search that saves goes on with it.
LEMMA SoloSaves ==
  ASSUME IInv, Solo, NEW s \in Searches, pc[s] \in Saving,
         ReadCache(s) \/ Open(s) \/ Write(s) \/ Replace(s)
  PROVE  Solo' /\ Survives
<1>. USE DEF IInv
<1>1. /\ \A r \in Searches \ {s} : pc[r] \notin Saving /\ fd[r] = "none" /\ pc'[r] = pc[r]
      /\ fd \in [Searches -> {"none", "tmp", "cache"}] /\ DOMAIN copy = Searches
  <2>1. \A r \in Searches \ {s} : pc[r] \notin Saving
    BY DEF Solo
  <2>2. \A r \in Searches \ {s} : fd[r] = "none"
    BY <2>1 DEF Solo, Saved, Saving
  <2>3. \A r \in Searches \ {s} : pc'[r] = pc[r]
    BY DEF ReadCache, Open, Write, Replace, Goes, SaveOK
  <2>. QED
    BY <2>1, <2>2, <2>3 DEF DiskOK
<1>2. ASSUME cache'.there => cache'.whole, Saved(s)',
             \A r \in Searches \ {s} : fd'[r] = "none"
      PROVE  Solo'
  <2>1. \A r \in Searches \ {s} : Saved(r)'
    BY <1>1, <1>2 DEF Saved, Saving
  <2>. QED
    BY <1>1, <1>2, <2>1 DEF Solo
<1>3. CASE ReadCache(s)
  <2>1. UNCHANGED <<disk, fd>> /\ pc'[s] = "open" /\ pc[s] = "read"
    BY <1>3 DEF ReadCache, Goes, SaveOK
  <2>2. cache.there => DOMAIN cache.data \subseteq DOMAIN copy'[s]
    BY <1>1, <1>3 DEF ReadCache, Solo
  <2>3. Saved(s)' /\ Survives
    BY <2>1, <2>2 DEF Solo, Saved, Survives, disk
  <2>. QED
    BY <1>1, <1>2, <2>1, <2>3 DEF Solo, disk
<1>4. CASE Open(s)
  <2>1. UNCHANGED <<cache, copy>> /\ pc'[s] = "write" /\ pc[s] = "open" /\ fd' = [fd EXCEPT ![s] = "tmp"]
    BY <1>4 DEF Open, Goes, SaveOK
  <2>2. ~tmp'.mixed
    <3>1. ~Others(s, "tmp") /\ tmp' = Emptied(Others(s, "tmp"))
      BY <1>1, <1>4 DEF Open, Others
    <3>. QED
      BY <3>1, OpenedIsGood
  <2>3. Saved(s)' /\ Survives
    BY <1>1, <2>1, <2>2 DEF Solo, Saved, Survives
  <2>. QED
    BY <1>1, <1>2, <2>1, <2>3 DEF Solo
<1>5. CASE Write(s)
  <2>1. pc'[s] = "replace" /\ pc[s] = "write" /\ UNCHANGED copy /\ fd' = [fd EXCEPT ![s] = "none"]
    BY <1>5 DEF Write, Goes, SaveOK
  <2>2. fd[s] = "tmp" /\ ~tmp.mixed
    BY <2>1 DEF Solo, Saved
  <2>3. tmp' \in Written(tmp, copy[s]) /\ cache' = cache
    BY <1>5, <2>2 DEF Write
  <2>4. tmp'.whole /\ tmp'.data = copy[s]
    BY <2>2, <2>3, WrittenIsGood DEF DiskOK
  <2>5. Saved(s)' /\ Survives
    BY <1>1, <2>1, <2>3, <2>4 DEF Solo, Saved, Survives
  <2>. QED
    BY <1>1, <1>2, <2>1, <2>3, <2>5 DEF Solo
<1>6. CASE Replace(s)
  <2>1. pc'[s] = "done" /\ pc[s] = "replace" /\ cache' = tmp
    BY <1>6 DEF Replace, Goes, SaveOK
  <2>2. tmp.whole /\ tmp.data = copy[s]
        /\ (cache.there => DOMAIN cache.data \subseteq DOMAIN copy[s])
    BY <2>1 DEF Solo, Saved
  <2>3. fd[s] # "tmp"
    BY <2>1 DEF Solo, Saved
  <2>4. \A r \in Searches : fd'[r] = "none"
    BY <1>1, <1>6, <2>3 DEF Replace
  <2>5. Saved(s)' /\ Survives
    BY <2>1, <2>2, <2>4 DEF Saved, Survives
  <2>. QED
    BY <1>1, <1>2, <2>1, <2>2, <2>4, <2>5
<1>. QED
  BY <1>3, <1>4, <1>5, <1>6

\* Who begins to save is alone, or the processes have raced.
LEMMA SoloBegins ==
  ASSUME IInv, Solo, NEW s \in Searches, Answered(s), ~raced'
  PROVE  Solo' /\ Survives
<1>. USE DEF IInv
<1>1. /\ pc[s] = "asking" /\ UNCHANGED <<copy, fd, disk>>
      /\ \A r \in Searches : pc'[r] = IF r = s THEN "read" ELSE pc[r]
  BY DEF Answered, Goes, SaveOK
<1>2. \A r \in Searches \ {s} : pc[r] \notin Saving
  BY DEF Answered, Goes, Runs
<1>3. fd[s] = "none"
  BY <1>1 DEF Solo, Saved
<1>4. \A r \in Searches : Saved(r)'
  BY <1>1, <1>3 DEF Solo, Saved, disk
<1>5. \A q, r \in Searches : {pc'[q], pc'[r]} \subseteq Saving => q = r
  BY <1>1, <1>2
<1>. QED
  BY <1>1, <1>4, <1>5 DEF Solo, Survives, disk

LEMMA SoloNext ==
  ASSUME IInv, Solo, [Next]_vars, ~raced'
  PROVE  Solo' /\ Survives
<1>. USE DEF IInv
<1>1. ASSUME NEW s \in Searches, Search(s)
      PROVE  Solo' /\ Survives
  <2>1. CASE Answered(s)
    BY <2>1, SoloBegins
  <2>2. CASE ReadCache(s) \/ Open(s) \/ Write(s) \/ Replace(s)
    <3>1. pc[s] \in Saving
      BY <2>2 DEF ReadCache, Open, Write, Replace, Goes, Saving
    <3>. QED
      BY <2>2, <3>1, SoloSaves
  <2>3. ASSUME NEW from, NextProvider(s, from), UNCHANGED disk
        PROVE  Solo' /\ Survives
    <3>1. \A r \in Searches \ {s} : pc'[r] = pc[r] /\ copy'[r] = copy[r] /\ fd'[r] = fd[r]
      BY <2>3 DEF NextProvider, Goes, SaveOK, DiskOK
    <3>2. pc'[s] \notin Saving /\ fd'[s] = "none"
      BY <2>3 DEF NextProvider, Goes, SaveOK, DiskOK, Saving
    <3>. QED
      BY <2>3, <3>1, <3>2, SoloKept
  <2>4. CASE Refused(s) \/ SetFails(s)
    BY <2>3, <2>4 DEF Refused, SetFails
  <2>5. CASE (\E a \in Asks : Begin(s, a)) \/ Look(s) \/ Acquire(s) \/ Send(s) \/ Cut(s)
    <3>1. UNCHANGED <<copy, fd, disk>>
      BY <2>5 DEF Begin, Look, Acquire, Send, Cut, disk
    <3>2. \A r \in Searches \ {s} : pc'[r] = pc[r]
      BY <2>5 DEF Begin, Look, Acquire, Send, Cut, Goes, SaveOK
    <3>3. pc[s] \notin Saving /\ pc'[s] \notin Saving
      BY <2>5 DEF Begin, Look, Acquire, Send, Cut, Goes, SaveOK, Saving
    <3>4. fd[s] = "none"
      BY <3>3 DEF Solo, Saved, Saving
    <3>. QED
      BY <3>1, <3>2, <3>3, <3>4, SoloKept
  <2>. QED
    BY <1>1, <2>1, <2>2, <2>4, <2>5 DEF Search
<1>2. ASSUME NEW p \in Procs, Die(p)
      PROVE  Solo' /\ Survives
  <2>1. UNCHANGED disk
        /\ \A r \in Searches : \/ pc'[r] = pc[r] /\ copy'[r] = copy[r] /\ fd'[r] = fd[r]
                               \/ pc'[r] = "done" /\ fd'[r] = "none"
    BY <1>2 DEF Die, DiskOK
  <2>2. "done" \notin Saving \cup {"open", "write", "replace"}
    BY DEF Saving
  <2>3. \A r \in Searches : Saved(r)'
    BY <2>1, <2>2 DEF Solo, Saved, disk
  <2>. QED
    BY <2>1, <2>2, <2>3 DEF Solo, Survives, disk
<1>3. CASE Tick \/ UNCHANGED vars
  <2>1. UNCHANGED <<pc, copy, fd, disk>>
    BY <1>3 DEF Tick, vars, disk
  <2>. QED
    BY <2>1 DEF Solo, Saved, Survives, disk
<1>. QED
  BY <1>1, <1>2, <1>3 DEF Next

\* Once processes have raced, they have.
LEMMA RacedStays == [Next]_vars /\ raced => raced'
BY DEF Next, Search, vars, Tick, Die, Begin, Look, Acquire, Send, Refused, NextProvider, Answered,
       ReadCache, Open, Write, Replace, SetFails, Cut

\* The cache never loses an entry and stays JSON as long as no two processes
\* save at once, for any number of them and wherever one dies: os.replace.
THEOREM CacheAlwaysSurvives == Spec => CacheSurvives
<1>1. Init => SoloOK
  BY DEF Init, SoloOK, Solo, Saved, NoFile, Saving
<1>2. IInv /\ SoloOK /\ [Next]_vars => SoloOK'
  BY SoloNext, RacedStays DEF SoloOK
<1>3. IInv /\ SoloOK /\ [Next]_vars =>
        [~raced' /\ cache.there => /\ cache'.whole
                                   /\ DOMAIN cache.data \subseteq DOMAIN cache'.data]_vars
  BY SoloNext, RacedStays DEF SoloOK, Survives
<1>. QED
  BY Invariance, <1>1, <1>2, <1>3, PTL DEF Spec, CacheSurvives
=============================================================================

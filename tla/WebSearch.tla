------------------------------ MODULE WebSearch ------------------------------
(***************************************************************************)
(* WebSearchTool and SearchCache of tools/web_search.py: searches that fall *)
(* back from provider to provider, the rate limit the searches of a process *)
(* share, and the cache file all processes of a user share.                 *)
(*                                                                         *)
(* A process is one asyncio loop: its searches give it up while they wait   *)
(* for the lock, sleep, or await a provider, and the lock of a SearchCache  *)
(* is never contended, as nothing is awaited under it.  Other processes get *)
(* between any two file operations.  They share the name of the temporary   *)
(* file too: whoever has it open writes to the file it has opened, which    *)
(* os.replace may have made the cache by then.                              *)
(***************************************************************************)
EXTENDS Naturals, Sequences, FiniteSets, FiniteSetsExt

CONSTANTS
  Procs,     \* processes
  Searches,  \* calls of execute
  ProcOf,    \* the process of each
  Queries,   \* queries, with their max_results
  Providers,
  Asks,      \* what may be searched: a query and the providers to try
  Nobody,    \* no search
  Interval,  \* _RATE_INTERVAL
  TTL,       \* ttl of the cache
  MaxTime    \* bound: the clock

Ask == [query : Queries, order : Seq(Providers)]

ASSUME SearchAssumption ==
  /\ ProcOf \in [Searches -> Procs] /\ Asks \subseteq Ask
  /\ Nobody \notin Searches
  /\ {Interval, TTL, MaxTime} \subseteq Nat

VARIABLES
  clock,
  pc,      \* where each search is
  ask,     \* what it searches
  turn,    \* the provider it is at
  wake,    \* when its sleep in _rate_limit ends
  copy,    \* data, in SearchCache.set
  fd,      \* what the temporary file it writes is called by now
  answer,  \* its result
  holder,  \* who holds _RATE_LOCK of each process
  next,    \* _LAST_REQ_AT + _RATE_INTERVAL of each process
  cache,   \* the cache file
  tmp,     \* the temporary file
  raced    \* two processes have been in SearchCache.set at once

vars == <<clock, pc, ask, turn, wake, copy, fd, answer, holder, next, cache, tmp, raced>>
rate == <<wake, holder, next>>
disk == <<cache, tmp>>

\* A file: whether it exists, is text (UTF-8) and is JSON, its entries, and
\* whether somebody else has had it open while it was written.
NoData == [k \in {} |-> 0]
NoFile == [there |-> FALSE, text |-> TRUE, whole |-> FALSE, mixed |-> FALSE, data |-> NoData]
Emptied(mixed) == [NoFile EXCEPT !.there = TRUE, !.mixed = mixed]

NoAsk == [query |-> "none", order |-> <<>>]
Nothing == [code |-> "none", cached |-> FALSE, payload |-> <<>>]
Code(c) == [Nothing EXCEPT !.code = c]

Init ==
  /\ clock = 0
  /\ pc = [s \in Searches |-> "idle"] /\ ask = [s \in Searches |-> NoAsk]
  /\ turn = [s \in Searches |-> 1] /\ wake = [s \in Searches |-> 0]
  /\ copy = [s \in Searches |-> NoData] /\ fd = [s \in Searches |-> "none"]
  /\ answer = [s \in Searches |-> Nothing]
  /\ holder = [p \in Procs |-> Nobody]
  /\ next = [p \in Procs |-> 0]
  /\ cache = NoFile /\ tmp = NoFile /\ raced = FALSE

Saving == {"read", "open", "write", "replace"}

\* The search's process is not in the middle of a set of another search.
Runs(s) == \A r \in Searches \ {s} : ProcOf[r] = ProcOf[s] => pc[r] \notin Saving

Goes(s, from, to) == Runs(s) /\ pc[s] = from /\ pc' = [pc EXCEPT ![s] = to]

Returns(s, result) == answer' = [answer EXCEPT ![s] = result]

-----------------------------------------------------------------------------
(* execute, up to a request.                                                *)

\* The providers there are, in order; none may be left.
Begin(s, a) ==
  /\ IF a.order = <<>> THEN Goes(s, "idle", "done") /\ Returns(s, Code("no_provider"))
                       ELSE Goes(s, "idle", "look") /\ UNCHANGED answer
  /\ ask' = [ask EXCEPT ![s] = a]
  /\ UNCHANGED <<clock, turn, copy, fd, rate, disk, raced>>

Provider(s) == ask[s].order[turn[s]]

\* What a provider finds: results of its own for the query.
Payload(s) == <<Provider(s), ask[s].query>>

\* Mutant: the providers of a query share an entry.
Key_NoProvider(s) == <<"any", ask[s].query>>

Key(s) == <<Provider(s), ask[s].query>>

\* SearchCache.get: text that is no JSON holds nothing, and an entry is good
\* for TTL.
Cached(s) ==
  /\ cache.there /\ cache.whole /\ Key(s) \in DOMAIN cache.data
  /\ clock - cache.data[Key(s)].ts <= TTL

\* Of a file that is no text get raises a UnicodeDecodeError, and execute with
\* it.
Look(s) ==
  /\ pc[s] = "look"
  /\ \/ /\ cache.text /\ Cached(s) /\ Goes(s, "look", "done")
        /\ Returns(s, [code |-> "ok", cached |-> TRUE, payload |-> cache.data[Key(s)].payload])
     \/ cache.text /\ ~Cached(s) /\ Goes(s, "look", "queue") /\ UNCHANGED answer
     \/ ~cache.text /\ Goes(s, "look", "done") /\ Returns(s, Code("raised"))
  /\ UNCHANGED <<clock, ask, turn, copy, fd, rate, disk, raced>>

\* Mutant: the lock is not taken.
Acquire_NoLock(s) ==
  /\ Goes(s, "queue", "sleep")
  /\ wake' = [wake EXCEPT ![s] = Max({clock, next[ProcOf[s]]})]
  /\ UNCHANGED <<clock, ask, turn, copy, fd, answer, holder, next, disk, raced>>

\* _rate_limit: the time to sleep is computed once, under the lock.
Acquire(s) ==
  /\ holder[ProcOf[s]] = Nobody
  /\ Goes(s, "queue", "sleep")
  /\ holder' = [holder EXCEPT ![ProcOf[s]] = s]
  /\ wake' = [wake EXCEPT ![s] = Max({clock, next[ProcOf[s]]})]
  /\ UNCHANGED <<clock, ask, turn, copy, fd, answer, next, disk, raced>>

\* The lock is released, if this search has it.
Release(s) ==
  /\ holder' = [holder EXCEPT ![ProcOf[s]] = IF @ = s THEN Nobody ELSE @]
  /\ wake' = [wake EXCEPT ![s] = 0]

\* The sleep is over: the request is on its way before anything is awaited.
Send(s) ==
  /\ clock >= wake[s] /\ Goes(s, "sleep", "asking")
  /\ Release(s)
  /\ next' = [next EXCEPT ![ProcOf[s]] = clock + Interval]
  /\ UNCHANGED <<clock, ask, turn, copy, fd, answer, disk, raced>>

-----------------------------------------------------------------------------
(* The provider's answer, and SearchCache.set.                              *)

\* The next provider, or the end: search_failed.
NextProvider(s, from) ==
  /\ IF turn[s] = Len(ask[s].order)
     THEN /\ Goes(s, from, "done") /\ Returns(s, Code("search_failed"))
          /\ UNCHANGED turn
     ELSE /\ Goes(s, from, "look") /\ turn' = [turn EXCEPT ![s] = @ + 1]
          /\ UNCHANGED answer
  /\ copy' = [copy EXCEPT ![s] = NoData] /\ fd' = [fd EXCEPT ![s] = "none"]
  /\ UNCHANGED <<clock, ask, rate>>

\* No results, an error status, or an exception.
Refused(s) == NextProvider(s, "asking") /\ UNCHANGED <<disk, raced>>

Answered(s) ==
  /\ Goes(s, "asking", "read")
  /\ raced' = (raced \/ \E r \in Searches : ProcOf[r] # ProcOf[s] /\ pc[r] \in Saving)
  /\ UNCHANGED <<clock, ask, turn, copy, fd, answer, rate, disk>>

\* set starts from what the file holds, from nothing if that is text but no
\* JSON; of a file that is no text it raises too (SetFails).
ReadCache(s) ==
  LET old == IF cache.there /\ cache.whole THEN cache.data ELSE NoData IN
  /\ cache.text /\ Goes(s, "read", "open")
  /\ copy' = [copy EXCEPT ![s] =
       [k \in DOMAIN old \cup {Key(s)} |->
          IF k = Key(s) THEN [ts |-> clock, payload |-> Payload(s)] ELSE old[k]]]
  /\ UNCHANGED <<clock, ask, turn, fd, answer, rate, disk, raced>>

Others(s, name) == \E r \in Searches \ {s} : fd[r] = name

\* Mutant: the cache is written in place.
Open_InPlace(s) ==
  /\ Goes(s, "open", "write") /\ fd' = [fd EXCEPT ![s] = "cache"]
  /\ cache' = Emptied(Others(s, "cache"))
  /\ tmp' = [tmp EXCEPT !.there = TRUE]
  /\ UNCHANGED <<clock, ask, turn, copy, answer, rate, raced>>

\* write_text opens the temporary file, which empties it ...
Open(s) ==
  /\ Goes(s, "open", "write") /\ fd' = [fd EXCEPT ![s] = "tmp"]
  /\ tmp' = Emptied(Others(s, "tmp"))
  /\ UNCHANGED <<clock, ask, turn, copy, answer, rate, cache, raced>>

\* ... and writes it from its start.  What another writer has written beyond
\* its end stays: that is no JSON, and may begin within a character.
Written(file, data) ==
  {[file EXCEPT !.whole = TRUE, !.text = TRUE, !.data = data]}
    \cup (IF file.mixed
          THEN {[file EXCEPT !.whole = FALSE, !.text = t, !.data = NoData] : t \in BOOLEAN}
          ELSE {})

Write(s) ==
  /\ Goes(s, "write", "replace") /\ fd' = [fd EXCEPT ![s] = "none"]
  /\ tmp' \in IF fd[s] = "tmp" THEN Written(tmp, copy[s]) ELSE {tmp}
  /\ cache' \in IF fd[s] = "cache" THEN Written(cache, copy[s]) ELSE {cache}
  /\ UNCHANGED <<clock, ask, turn, copy, answer, rate, raced>>

\* os.replace: who has the temporary file open now has the cache open, and
\* who had that a file without a name.
Replace(s) ==
  /\ tmp.there /\ Goes(s, "replace", "done")
  /\ cache' = tmp /\ tmp' = NoFile
  /\ fd' = [r \in Searches |-> IF fd[r] = "tmp" THEN "cache" ELSE "none"]
  /\ Returns(s, [code |-> "ok", cached |-> FALSE, payload |-> Payload(s)])
  /\ copy' = [copy EXCEPT ![s] = NoData]
  /\ UNCHANGED <<clock, ask, turn, rate, raced>>

\* An exception of set, as that of a replace without a file, is taken for one
\* of the provider: its results are lost, and the next provider is asked.
SetFails(s) == \E from \in Saving : NextProvider(s, from) /\ UNCHANGED <<disk, raced>>

-----------------------------------------------------------------------------
\* Mutant: who is cut keeps the lock.
Cut_KeepsLock(s) ==
  /\ \E from \in {"queue", "sleep", "asking"} : Goes(s, from, "done")
  /\ Returns(s, Code("timeout"))
  /\ UNCHANGED <<clock, ask, turn, copy, fd, rate, disk, raced>>

\* The watchdog of the agent loop cancels the search at an await.
Cut(s) ==
  /\ \E from \in {"queue", "sleep", "asking"} : Goes(s, from, "done")
  /\ Returns(s, Code("timeout")) /\ Release(s)
  /\ UNCHANGED <<clock, ask, turn, copy, fd, next, disk, raced>>

\* A process is killed, and another one takes its place.
Die(p) ==
  LET own(r) == ProcOf[r] = p /\ pc[r] # "idle" IN
  /\ \E s \in Searches : own(s) /\ pc[s] # "done"
  /\ pc' = [r \in Searches |-> IF own(r) THEN "done" ELSE pc[r]]
  /\ copy' = [r \in Searches |-> IF own(r) THEN NoData ELSE copy[r]]
  /\ fd' = [r \in Searches |-> IF own(r) THEN "none" ELSE fd[r]]
  /\ holder' = [holder EXCEPT ![p] = Nobody]
  /\ next' = [next EXCEPT ![p] = 0]
  /\ wake' = [r \in Searches |-> IF own(r) THEN 0 ELSE wake[r]]
  /\ UNCHANGED <<clock, ask, turn, answer, disk, raced>>

Tick ==
  /\ clock < MaxTime /\ clock' = clock + 1
  /\ UNCHANGED <<pc, ask, turn, copy, fd, answer, rate, disk, raced>>

Search(s) ==
  \/ (\E a \in Asks : Begin(s, a)) \/ Look(s) \/ Acquire(s) \/ Send(s) \/ Refused(s) \/ Answered(s)
  \/ ReadCache(s) \/ Open(s) \/ Write(s) \/ Replace(s) \/ SetFails(s) \/ Cut(s)

Next == Tick \/ (\E s \in Searches : Search(s)) \/ (\E p \in Procs : Die(p))

Spec == Init /\ [][Next]_vars

-----------------------------------------------------------------------------
(* Properties.                                                              *)

Entry == [ts : 0 .. MaxTime, payload : Providers \X Queries]
IsData(d) ==
  /\ DOMAIN d \subseteq (Providers \cup {"any"}) \X Queries
  /\ \A k \in DOMAIN d : d[k] \in Entry

\* The types, and the lock: it is held by the search that sleeps under it,
\* whichever way others have left, and one search of a process at most saves.
TypeOK ==
  /\ clock \in 0 .. MaxTime
  /\ pc \in [Searches -> {"idle", "look", "queue", "sleep", "asking", "done"} \cup Saving]
  /\ ask \in [Searches -> Asks \cup {NoAsk}] /\ turn \in [Searches -> Nat \ {0}]
  /\ wake \in [Searches -> Nat] /\ next \in [Procs -> Nat]
  /\ \A s \in Searches : IsData(copy[s])
  /\ fd \in [Searches -> {"none", "tmp", "cache"}]
  /\ \A p \in Procs, s \in Searches : holder[p] = s <=> ProcOf[s] = p /\ pc[s] = "sleep"
  /\ \A s, r \in Searches : s # r /\ ProcOf[s] = ProcOf[r] => ~{pc[s], pc[r]} \subseteq Saving
  /\ \A f \in {cache, tmp} : IsData(f.data) /\ (~f.whole => f.data = NoData) /\ (f.whole => f.text)
  /\ raced \in BOOLEAN

\* A search that succeeds returns what the provider it names has answered to
\* this very query, out of the cache too, which other searches fill: _key
\* tells providers and queries apart.
AnswersAreOwn ==
  \A s \in Searches : answer[s].code = "ok" => answer[s].payload = Payload(s)

\* The requests of one process are at least _RATE_INTERVAL apart, whichever
\* searches wait, are cut or fall back: _RATE_LOCK is of the class and held
\* over the sleep.
RequestsSpaced ==
  [][\A s \in Searches : pc[s] = "sleep" /\ pc'[s] = "asking"
                          => clock >= next[ProcOf[s]]]_vars

\* As long as no two processes save at once, the cache is always JSON and
\* never loses an entry, also when a process dies while it writes.
CacheSurvives ==
  [][~raced' /\ cache.there => /\ cache'.whole
                               /\ DOMAIN cache.data \subseteq DOMAIN cache'.data]_vars
=============================================================================

# pure-agent: TLA+ models, model checking and proofs

pure-agent is a Python agent: a ReAct loop over an LLM provider, a planner that
decomposes a goal into a DAG of steps and runs them one agent loop at a time, an
SQLite store, a memory stack, a tool/hook pipeline, an MCP client and a FastAPI
gateway. This directory holds TLA+ models of its control logic.

## 1. Inventory

| Component | Source | State | Operations | Hard behaviour |
|---|---|---|---|---|
| Plan DAG | `plan/models.py` | step ids, deps | `Plan._validate_dag`, `topo_sort`, `is_plan_complete`, `all_deps_done`, transition tables | cycles, ordering, dead branches after failures |
| PlanRunner | `plan/runner.py` | in-memory `Plan` copy per `execute` call, counters | `execute`, `resume`, `_run_step`, `_parse_step_report` | crash between two writes, resume, two processes on one plan, abort, attempt and turn limits |
| PlanStorage / Database | `plan/storage.py`, `persistence/` | `goals`, `plans`, `plan_steps` rows | create / get / update / upsert, `transaction` | step ids are a global primary key but the planner numbers them per plan; ON DELETE CASCADE |
| PlanAgent | `plan/agent.py` | message list, attempt counter | `decompose`, `_parse_and_validate` | retry with feedback, invalid DAGs |
| plan CLI / gateway `create_plan` | `cli/plan_cli.py`, `server/gateway.py` | goal status | create goal, decompose, execute, close goal | goal status vs plan status after crash and resume |
| AIAgentLoop | `agent/loop.py` | messages, turn, consecutive invalid turns, guard flags | `run`, `_stream_one`, `_execute_tool_call` | stop conditions, retries, abort, steering, compaction in the middle of tool calls |
| SteerQueue, watchdog | `agent/steer.py`, `agent/watchdog.py` | FIFO queue; timeout | `put*`, `drain`; `run_with_timeout` | message arriving in the last turn |
| Checkpointer | `agent/checkpoint.py` | `checkpoints` rows | `save`, `load_latest`, `clean` | checkpoint taken between the assistant message and its tool results |
| Compactor | `memory/compactor.py` | call count | `compact` | cuts a tool call from its result |
| Tool pipeline and hooks | `tools/base.py`, `hooks.py`, `agent/loop.py` | hook lists, shared `extra`, args | `validate_args`, `HookRegistry.run`, `execute` | modified arguments after validation, failing hooks |
| Tools | `tools/*.py` | files | `read/write/edit_file`, `apply_patch`, search | partial application of a patch |
| Subagent | `agent/subagent.py` | request, status | `build_request`, `filter_registry`, `run_subagent` | timeout racing a late answer |
| Token budget | `harness/budget.py` | counters of step, plan and session, `token_usage` rows | `step`, `add`, `flush`, `reset_plan`, checks | limits shared by scopes, a limit broken in the middle of a run |
| Harness: retry, tracing | `harness/policy.py` | attempts, spans | `with_retry`, `Tracer` | no caller in the source |
| Web search | `tools/web_search.py` | rate limit of the class, cache file | `execute`, `SearchCache.get`, `set` | searches that share the limit, processes that share the file |
| File tracker | `memory/tracker.py` | `file_tracker` rows | `lookup`, `invalidate` | files that change within the resolution of their time |
| Provider adapters | `model/*.py` | retry attempt, stream assembly | `stream` | retry after part of the answer was already emitted |
| MCP client | `mcp.py` | next id, pipe | `start`, `_request`, `call_tool`, `stop` | a late reply to a timed-out request |
| Sessions / gateway | `server/` | session map, messages, SQLite rows | create / get / delete / chat / persist / load | concurrent chats, REPLACE cascading, deleted session coming back |
| Memory layers, L1 cache, context switch | `memory/` | LRU map, snapshots, fact rows | put/get/evict, `switch`, add/search | LRU order, snapshots at their cap |
| CLI, config, logging, UI, skills, benchmark | `cli/`, `config.py`, `ui/`, ... | - | presentation and wiring | - |

What makes each component correct, in a sentence:

- **Plan DAG** - a plan is accepted exactly when its deps form a DAG over its own
  steps, and `topo_sort` returns every step once, after its deps.
- **PlanRunner / PlanStorage** - the rows are at every moment a state a resume can
  start from: deps of a started step are done, a done step is never repeated,
  a plan closed as done has no work left, the result agrees with the rows.
- **AIAgentLoop** - in every request calls and results pair up, steers arrive in order, the four stop reasons mean what they say,
  and every run ends.
- **Goal lifecycle, PlanAgent** - a goal's status follows its plan's; a valid plan
  can always be stored.
- **Tool pipeline, apply_patch** - whatever hooks do, no tool writes outside the
  sandbox; the result of a call tells what is on the disk.
- **Sessions / gateway** - the conversation of a session is one that was held in it,
  and an orderly restart finds the sessions the stop has left.
- **Provider adapters, token budget** - a reply has the tool calls of one attempt,
  every request ends, and counters and rows agree.
- **MCP client, subagents** - a caller gets the answer to its own request, and every
  call returns without leaving anything behind in the pipe.
- **Web search, file tracker** - what is cached is what was asked for and has not
  changed, and requests keep their distance.
- **L1 cache, context switcher** - bounded size, least recently used goes first.

## 2. Plan

The order in which the modules were written, the most important behaviour first:
plan DAG and plan runner over the store; agent loop; goals and plan commands;
sessions and gateway; files, tools and patches; one model request and the token
budget; the MCP client under subagents; web search. Three modules are abstract
specifications: `PlanLedger` (what the rows of a plan promise), `SessionDirectory`
(sessions that survive restarts) and `PlanExecution` (what starting a plan does to its
status). `PlanRunner` and `Gateway` implement the first two. `PlanExecution` is the seam
between the plan commands and the runner, both of which implement it (the run `runner` checks it of the runner, and both are proved).

One run per question: a passing run carries the properties of one module, and a
disagreement with the documents gets a run of its own only where the code breaks
what a whole component is for.

What could come next, in this order: the composition of `AgentLoop` with `ModelCall`
and `FileTools`, so far joined by what each returns; abstract specifications that
`AgentLoop` and `FileTools` could be shown to implement (a conversation, an atomic
patch); the L1 cache.

## 3. Modules

| Module | Models | How state and actions correspond |
|---|---|---|
| `PlanModels` | `plan/models.py` | the status enums, `is_plan_complete`, `all_deps_done` as operators on a function from steps to statuses |
| `PlanSort` | `_validate_dag`, `topo_sort` | Kahn's algorithm as a recursive function of (in-degree counts, queue, output); `KahnPop` is one turn of the while loop |
| `PlanDag` | both, as a machine | any dependency list is submitted, rejected or accepted, and sorted one pop per step, so that the loop's invariant can be stated. Its state and actions are called `Dag...` where PlanStore has the name, as one module proves about both |
| `PlanLedger` | abstract | what the rows of one plan promise a reader of the database; no processes |
| `PlanExecution` | abstract | what an execution does to the status of a plan, for those who start one and wait for its end |
| `PlanRunner` | `plan/runner.py` on `plan/storage.py` | `dbPlan`, `dbStep` are the rows; `pc`, `plan`, `mem`, `cursor`, `counts` the locals of each process inside `execute`. One action per database call or branch of the for loop. `Crash` may strike a process at any action boundary |
| `MCPlanRunner` | - | two small plans; asserts that their orders are those `TopoSort` returns |
| `PlanRunnerProofs` | - | theorems about PlanRunner |
| `PlanStore` | `plan/agent.py`, `create_plan` and the goals of `plan/storage.py`, `cli/plan_cli.py` | a command is one run of `plan` and names its goal and its plan: `pc` is its place in the function, `asked` and `answer` the locals of `decompose` and what it returned, `outcome` the result of `execute`; `goal`, `plan`, `row` are the tables, `row` indexed by the step id. One action per database transaction, answer of the model or question to the user. What `execute` does to the plan's status is `Open` and `Close`; that no more is assumed of it than `PlanExecution` says is `ImplementsExecution`; `Resume*` is a `plan-resume` |
| `MCPlanStore` | - | the answers: every list of up to two steps, each good or not, with one dep written as an index or an id, in range or not, or with two deps, one step named in both forms included; longer lists behind a good step; one list too long |
| `PlanStoreProofs` | - | theorems about PlanSort and PlanDag, and about PlanStore, which rest on them |
| `AgentLoop` | `AIAgentLoop.run`, `SteerQueue`, `Compactor.compact`, `Checkpointer.save` | an action runs from one await to the next; `msgs` is the conversation with each message's kind, call ids and what the loop reads off its text |
| `AgentLoopProofs` | - | theorems about AgentLoop |
| `SessionDirectory` | abstract | what the gateway promises of its sessions: one map, from which an orderly stop and a restart take nothing |
| `Gateway` | `server/sessions.py`, the chats and the lifespan of `server/gateway.py`, with `ContextBuilder.build` and `EpisodicMemory` where they make rows | an action is the code between two awaits of a handler; `live`, `made`, `messages`, `built` are the SessionStates in memory, `row` and `facts` the tables, `chat` the requests with the object each holds across its await |
| `FileTools` | `_execute_tool_call`, `hooks.py`, `tools/filesystem.py`, `tools/apply_patch.py`, `memory/tracker.py`, and what `glob` and `grep` answer | a call goes from `Begin` through `Allow` or `Refuse`, the tool, and `PostHooks`; a patch through `Preflight`, one `Commit*` per file and, if one fails or is refused, one `RollBackOne` per change. `disk` holds whole contents, `Text` is what `read_text` makes of one |
| `MCFileTools` | - | patches of up to two operations and one of three, two files in the sandbox and one outside, contents that differ in their newlines only |
| `ModelCall` | `OpenAIAdapter.stream`, `_stream_one`, `harness/budget.py` | an action ends where the adapter awaits the server; `slots` are the partial tool calls of an attempt, `text` and `reply` what the loop has assembled, `counted`, `step`, `rows` the budget |
| `MCModelCall` | - | the lines: text, usage, calls whole and in two pieces, two calls |
| `McpClient` | `mcp.py`, `run_subagent` of `agent/subagent.py` | `user` is where each coroutine is in `_request`, `stage` how far each call of `start` is, `out` the pipe of each process the server has had, `alive` those that run, a replaced one too, `reader` the one coroutine its StreamReader lets wait; the server's steps are external |
| `WebSearch` | `tools/web_search.py` | one action per await and, in `SearchCache.set`, per file operation, as other processes get in between; `fd` is what the file a search has open is called by now |
| `MCWebSearch` | - | two searches in one process, one in another |
| `ModelCallProofs`, `GatewayProofs`, `McpClientProofs`, `WebSearchProofs`, `FileToolsProofs` | - | theorems about these |

Abstractions that matter:

- A step's agent run is its outcome (`Outcomes`) and its number of turns
  (`StepTurns`); an exception is `StepRaises`. Facts the runner hands to the memory
  layers are left out: nothing in the runner reads them.
- A step of the planner's answer is its deps and whether the rest of it (kind,
  action) is good. An answer that is no JSON is the refused one without steps. An
  answer that raises something else than `ValueError` (a step that is no object) is
  `DecomposeRaises`: the code does not retry it. A step that names another twice, as 1 and
  as "s1", is refused by the validator of `PlanStep` (`DepsUnique`).
- Two plans are told apart by their commands; ids of goals and plans are random in
  the code and never collide here.
- A reply of the model is the number of its tool calls, or one of three kinds of
  text: one `extract_tool_calls` finds a call in, one that claims to have written a
  file, any other. A tool call ends in success, in a refusal that is followed by an
  explanation to the model, or in an error.
- Whether the context exceeds the compaction threshold is a choice, as is
  whether `TokenBudget.add` raises (`StreamFails`): both depend on text lengths.
- `_stuck_turns` is only written, never read, and is left out.
- The steer queue is unbounded in the code; `MaxSteers` bounds the model. A second
  drain point does not exist: a steer that arrives during the last turn stays
  queued, and `SteersKeepOrder` counts it there. It speaks of the
  positions of the steers in the conversation followed by the queue: their numbers rise
  with them, and with a steer every later one is there; an earlier run's may be gone, as
  `run` starts a new conversation.
- Sessions: a row counts by its id and name; of the memory layers only which sessions
  have facts. A SessionState is its id and a number, so that an object kept by a
  handler is told from a later one with the same id.
- Files: a content is one value, and a hunk or an old string the one text it applies to.
  Contents that differ in their newlines are different, and `read_text` makes one of them
  (`Lf`): a hunk is looked for in it, and a rollback writes it back.
  No file tool gives the event loop up, so calls do not interleave; the process may
  die inside a commit or a rollback, and the user edits files between calls.
- Streams: of the arguments of a call the number of their pieces is kept. Text,
  unlike calls, is kept over attempts: that is what the code does. `Conforms`, the condition of
  `ReplyTellsAttempt`, is what the protocol asks of a server: one id per index.
- MCP: the server answers a request at most once and gives its own requests ids no
  request of ours has. Lines are results, errors, notifications or no JSON. Which tools a
  subagent may call is left out.
- Searches: what a provider finds is a function of provider and query. The cache file is
  absent, JSON, text that is no JSON, or no UTF-8; two writers who mix their bytes leave the
  data of one of them or one of the last two.

## 4. Runs

| Run | Bounds | What it shows |
|---|---|---|
| `dag` | 4 steps, 1 unknown name | all 2^20 dependency lists: acceptance is exactly "a DAG over the plan's steps", the order is a linear extension. Four steps hold every shape the algorithm distinguishes: chains, joins, forks, diamonds, cycles off and on the path |
| `runner` | 4 steps (two chains side by side, so that a step runs after one that is blocked), 2 processes, 3 launches, 2 attempts, 3 turns | crashes, exceptions, aborts anywhere. Two attempts and three launches let a step exhaust its attempts and be resumed after; turns 0 or 2 against a limit of 3 let the limit fall on the first, a later and the last step |
| `runner_blocked` | 3 steps (a join), 1 process | disagreement, see 6 |
| `store` | 2 commands, 2 resumes, 3 steps, 3 attempts | two commands can meet at the table's key; a resume can die and another one finish the plan while the command still waits for its user; three attempts tell a retry, the last retry and giving up apart; three steps hold a dep on an earlier, the same and a later one, two deps a step named twice |
| `store_key` | as `store` | disagreement, see 6 |
| `loop` | 4 turns, 2 calls per reply, 1 steer | the breaker (3) can be reached, just missed and reset; two calls let a turn fail in part |
| `loop_ends` | 3 turns, 1 call, 2 steers, 2 compactions, checkpoints | termination with every way to continue; two steers can share a queue and straddle a turn. Two turns with calls let a checkpoint hold one whole turn and the reply of the next |
| `gateway` | 2 ids, 2 chats, 3 objects per id | conversations stay in their session, facts in a session with a row, and the gateway implements the directory. Two chats can hold one session, or an old and a new object of one id; three objects allow a deletion and a restart, or two restarts |
| `filetools` | 3 files, 4 contents, 1 call, 1 tick | a result tells the disk, the sandbox holds, the tracker is right. Calls share nothing but the disk, which starts with empty files and which the user may set to anything before and after the call; two operations can meet in a file; two texts of one size within one tick are what size and time cannot tell apart, and one text is another's with its newlines converted |
| `model` | 2 attempts, 3 lines, 2 requests a run, 2 steps, limits of 1 and 2 tokens | replies have the calls of their attempt, the books balance, requests end. Three lines hold a call in two pieces with another one; a limit can break at the first and at the second request |
| `mcp` | 2 subagents, 1 coroutine that starts the server, 2 processes, 3 requests, 2 lines per pipe | answers are the caller's own, the reader is free when nobody waits. Two processes can be one after the other or, when `start` is called again, at once; three requests after two of `start` leave one to a subagent, or several if `start` fails early; a pipe of two lines holds a late answer before the right one |
| `search` | 3 searches in 2 processes, 2 providers, 2 queries, clock 0..1 | results are of their query, requests spaced, the cache safe unless two processes save at once. Two searches of a process can want the lock, three can share the temporary file; a TTL of 0 and a clock of two ticks let an entry be fresh and expired. The two searches of one process are symmetric |

**Properties.** PlanRunner's are claimed with `Overlap = FALSE` (one execution of a plan
at a time). Nothing in the code enforces that: with `Overlap = TRUE` TLC finds at once a
finished step repeated and overwritten by a second process that read the plan before.
PlanStore assumes the same (`Open` needs an idle plan). AgentLoop's conversation
properties are claimed until the first compaction (`callCount = 0`): the compactor drops
messages, and cuts calls from their results. They do not say that every provider accepts the
conversation: the explanation of a refused call stands between its result and the next
(section 6). `ResultTellsDisk` says of "ok" that all changes are made for the calls of
`OneEach` alone, which name each file once and empty none by a patch, and allows a rollback
to change newlines: what the code does otherwise is in section 6. `CacheSurvives` is about
processes that do not save at once; what two at once leave is assumed in `Written`.

**Bounded and ended.** For runs, commands and requests that must end there are two
properties each. The temporal one (`EveryRunEnds`, `EveryCommandEnds`, `RequestsEnd`)
needs fairness and is what the runs check. The action property (`RunIsBounded` and the
like) needs none and is proved: `StepsLeft`, a natural number, is less after every step
of the actor and untouched by everybody else's, so that no behaviour, fair or not, makes
an actor take more steps than its limits allow. It would not hold if a retry were for
free, a compaction restarted a turn or a resume sent a run back.

**Fairness.** `PlanRunner`: weak fairness of each process's own steps - a live process
runs on, and its agent loop ends, which is what `EveryRunEnds` of AgentLoop says.
`AgentLoop`: weak fairness of the coroutine's steps - the event loop resumes it,
provider streams and summaries end (the adapters set HTTP timeouts) and every tool
call runs under `run_with_timeout`. `PlanStore`: weak fairness of each command's own steps (`Advance`), and the
end of `execute` (`EveryRunEnds` of PlanRunner); `Confirm` is the user's and has no
fairness, so `EveryCommandEnds` allows a command to wait there for ever. Nothing is
assumed of the user, who may never start, steer or abort anything, nor of crashes. `ModelCall`: weak fairness of `Streaming` -
the client's timeout ends every await, and a stream has finitely many lines (`MaxLines`).
The other modules state safety only; that a call of an MCP tool returns is what the
watchdog's timer is for, and nothing in `mcp.py` adds to it. Deadlock is not an error in
any run: users stop after `MaxLaunches`, `MaxRuns`, `MaxSteers` and the other bounds, and a
plan once sorted is sorted.

## 5. Proofs

Every safety property that a run checks, invariant, action property or refinement, is a
theorem, and some that the runs leave to the proofs are too: the types of `PlanDag`,
`StoredRowsStay`, `ImplementsExecution` of PlanStore, and the bounds
(`RunIsBounded` twice, `CommandIsBounded`, `RequestIsBounded`). They hold for every
value of the constants that satisfies the modules' `ASSUME`s. TLC evaluates those in the
runs. The strongest say that the order of steps is a linear extension
(`OrderAssumption`; `AcceptedPlansAreSorted` proves it of the plans the planner makes),
and that a call has the operations of its tool, of which `write_file` and the like have
one (`FileAssumption`). Every inductive invariant, and each of the properties without a
run, was checked by TLC on the constants of the module's run before it was proved.

**PlanRunner** (`PlanRunnerProofs`), for every finite set of steps, every `Deps` and `Order`
that satisfy `OrderAssumption`, any processes and any limits:

| Theorem | States |
|---|---|
| `TypeCorrect` | `[]TypeOK`, also for overlapping executions |
| `Invariant` | `~Overlap => []IInv` |
| `DepsAlwaysClosed`, `RowsAlwaysPrefix`, `DonePlanIsFinished` | the three safety invariants of the rows |
| `CountsAlwaysAreRows`, `ResultsAgreeWithRows` | `CountInv`, and from it the action property `ResultAgreesWithRows` |
| `DoneStaysDone` | `DoneIsFinal`, an action property |
| `RunnersImplementLedger` | every behaviour is one of `PlanLedger` |
| `RunnersImplementExecution` | every behaviour is one of `PlanExecution`, with `~Overlap` |
| `RunAlwaysBounded` | `RunIsBounded`, and `StepsLeft` is a natural number; also for overlapping executions |

None of the three row invariants is inductive: a step's action checks its deps in
the runner's copy, so `DepsClosed` needs `CopyIsCurrent` (the copy of the only live
runner is what the rows hold), which needs `OneAtATime`; `RowsArePrefix` needs
`CursorSplits` (what is before the cursor is settled), and
`DonePlanHasNoWorkLeft` needs `PlanIsOpen` (no row changes under a closed
plan). `IInv` is their conjunction.
The refinement maps `status` to `dbPlan` and `rows` to `dbStep`; each action is a
ledger step or a stutter under `IInv`. What a run returns is compared with the rows by
`CountInv`: its counters are the numbers of done and failed rows among the steps before the
cursor (`Passed`), those settled by earlier runs included, so that at the end they are those
of the whole plan, and at most those when a limit or an abort ends the run before.
For `PlanExecution` a plan is busy while a process is in the loop or at its tally. `execute`
returns early on a done plan, reads the rows and marks the plan in three transactions, and
its last one writes a status computed from the copy; `CopyIsCurrent`, `PlanIsOpen` and
`OneAtATime` make of them the one `Open` and the one `Close` the callers see. The bound of a
run needs the types alone, with the cursor in its range (`CursorInRange`).

**Plan DAG** (the first half of `PlanStoreProofs`), for every finite set of steps, any deps
and any unknown names:

| Theorem | States |
|---|---|
| `ValidatorIsExact` | `ValidDag(g)` exactly when no set of steps has each member waiting for another |
| `TopoSortIsLinearExtension` | `TopoSort` of an accepted plan has each step once, after its deps |
| `DagTypeCorrect`, `ValidatesOnlyDags`, `SortIsLinearExtension` | the types and the two invariants of `dag`, from `DagInvariant` |

`InOrder` lists a set by the number of smaller members, which `InOrderLists` proves to be a
bijection. `KahnInv` is the invariant of the while loop: nothing is queued or emitted twice,
a step's count is the number of its deps that are not out, a step is queued or out
exactly when all its deps are out, and each emitted step comes after its deps. It holds
after every turn, by the least turn at which it would not. A queue that runs dry before all
steps are out leaves a set of steps that wait for each other, and conversely
(`AllOutIffAcyclic`). That the recursive function of turns exists at all, on `0..n`, is
`KahnTurns`'s own least-number argument.

**PlanStore** (the other half), for any commands and resumes, any answers of the model
and any limits on steps and attempts:

| Theorem | States |
|---|---|
| `TypeCorrect` | `[]TypeOK`, which bounds the answers asked for by `max_attempts` |
| `Invariant` | `[]IInv` |
| `PlansAreWhole`, `DepsAlwaysPointBack`, `GoalsMatchPlans` | the three safety invariants of the run `store` |
| `AcceptedPlansAreSorted` | the order of any plan that `decompose` returns is one PlanRunner assumes. Steps are ranked by their index here, where the code has s10 before s2: that decides between orders, all of which are linear extensions |
| `StoredRowsNeverChange` | the action property `StoredRowsStay` |
| `PlansFollowExecution`, `EachPlanIsAnExecution` | commands and resumes treat every plan as `PlanExecution` says; for each plan by itself this is a refinement |
| `CommandAlwaysBounded` | `CommandIsBounded`, and `StepsLeft` is a natural number |
| `OnlySelfDepsAreRefused` | of an answer that parses, the validators of `PlanStep` and `Plan` refuse only steps that name another twice or themselves: deps of a parsed answer never point forward, so the search for cycles finds none |

The type invariant is not inductive either: that the count stays within its bound
needs `PhaseOK` (a command still asking has asked fewer times). `DepsPointBack` needs
`AnswerPointsBack`, which rests on the lemma `AcceptedPointsBack`: the parser alone
lets a step depend on itself, the validator of `Plan` does not. `GoalMatchesPlan`
needs `PhaseOK`: between `execute` and the write of the goal a resume may change
the plan, but not one that is done. The steps that touch neither answers nor rows
are proved together (`SmallSteps`), the other two by themselves. The action properties need
`IInv`: a command that stores or executes has found its ids free or its plan idle at an earlier
step (`PhaseOK`), and one that asks has answers left.

The two refinements meet here: `execute`, four transactions and a loop in PlanRunner, one step
to open and one to close in PlanStore, has the same `PlanExecution` above it in both. What
that leaves to argue is that only `execute` writes the status of a plan, which the
code shows (`update_plan_status` has no other caller).

**AgentLoop** (`AgentLoopProofs`), for any limit of turns, calls per reply, steers, runs and
compactions, with and without compactor and checkpointer:

| Theorem | States |
|---|---|
| `TypeCorrect` | `[]TypeOK`, with `TurnBegun` |
| `Invariant` | `[]IInv`, the conjunction of `TypeInv`, `ConversationInv` and `SteerInv` |
| `ConversationAlwaysWellFormed`, `CapNeverHidesAnswer`, `BreakerAlwaysExact` | the invariants of `loop` |
| `SteersAlwaysInOrder`, `CheckpointAlwaysLacksOnlyResults` | the invariants of `loop_ends` |
| `RunAlwaysBounded` | `RunIsBounded`, and `StepsLeft` is a natural number |

The properties speak of requests and returned conversations; in between calls are
unanswered. `CallsPaired` says so of every state: each call of a reply has one result
in its turn, but those in `Pending`, which come next in order, and ids grow with the turns
(`IdsUpTo`), so that an explanation between two results cannot be taken for one. That nothing
else stands there needs, while calls are pending, a last message that a result may follow
(`ResultsFollow`, `MayFollow`): steers are delivered only when a turn begins. `BreakerIsExact`
counts the last three replies with calls; the inductive form (`Counted`) relates
`consecutive_invalid_turns` to the length of the run of failed turns at the end, whatever its
length, with the turn under way left out. `CapHidesNoAnswer` needs `LimitCutsCalls`: a
run whose next turn would exceed the limit has made calls in its last. `SteerInv` splits the steers
at the queue: what is queued are the last ones sent, and what was
delivered is in the conversation in order. All three are about the conversation before
the first compaction (`Uncut`, `callCount = 0`), and about runs that did not raise.

A checkpoint stays behind while the conversation goes on, so `CheckpointInv` says what
it is when it is written, a reply after a conversation in which every call is answered,
and that the conversation only ever grows at its end: the checkpoint remains a
beginning of it until the next run. The bound needs `FewCalls`, as `StepsLeft` counts
`MaxCalls` for each reply to come: the calls that wait, and those of a reply whose
compaction is under way, are no more; and `compact` keeps the last message or puts a summary there.

The other five modules have a proof module each, with any sets of actors and any
bounds:

| Module | Theorems | Inductive invariant and argument |
|---|---|---|
| `GatewayProofs` | `Typed`, `ConversationsAlwaysHome`, `DirectoryIsImplemented` | `ChatType`: a request that runs holds an object of its id that has been made; `MemoryOK`: a session that is not in memory has no conversation. For the refinement each action is a step of the directory or leaves `IF up THEN live ELSE row` alone; `EnsureRow` is the case that needs care, as it adds a row while the server is up, where rows are not the directory, or down, where it is a step |
| `FileToolsProofs` | `Typed`, `CachedIsSame`, `SandboxAlwaysHolds` | `CallOK`: calls of one operation have one; `HookOK`: a write that has succeeded was in the sandbox, which lets the formatter rewrite the file, and only patches commit. The changes of a patch under way are of the sandbox by type. `FirstRefused` exists by the least-number principle |
| `FileToolsProofs` | `ResultAlwaysTellsDisk` | `DiskInv`: the changes of a patch hold the old texts of the disk before the call (`AppliedTells`); when the commit is at a change, the disk is as the changes before have made it, the last one on a file counting (`Made`), which is what was asked for if no file is named twice; when the rollback is at a change, the files of later ones, and those not committed, have the text they had (`Restored`), unless a restore failed |
| `ModelCallProofs` | `Typed`, `BooksAlwaysBalance` | `NoStepBetween`: between steps nothing is used. That the calls of a reply are counted in pieces needs the last slot of an id (`LargestExists`) |
| `ModelCallProofs` | `ReplyAlwaysTellsAttempt` | `AttemptInv`: while lines are read, the slots have different indexes, those of the call lines, each with the pieces of the lines at its index and with an id of one of them if any has one (`SlotsTell`), and the text ends with as many pieces of this attempt as it had text lines (`TextTells`). Under `Conforms` a slot then has the one id of its index and no other slot has it (`SlotNamed`), so that what is assembled by id is what was counted by index. The count of pieces, a recursive function, is unfolded at one more line (`PiecesOfAppend`) by the least-number principle |
| `ModelCallProofs` | `RequestAlwaysBounded` | `WireIsShort`: a stream under way has had at most `MaxLines` lines, hence an attempt is worth `MaxLines + 2` awaits and a retry less than what it gives up |
| `McpClientProofs` | `Typed`, `AnswersAreOwn` | ids and questions are the same numbers: `nextId = asked + 1` and every request, line and caller holds the id of its question (`UsersOK`, `ServerOK`), hence a matching id is an own answer; `ReadersOK` ties each reader to the one coroutine that waits, whichever process it is of |
| `WebSearchProofs` | `Typed`, `AnswersAlwaysOwn`, `RequestsAlwaysSpaced`, `CacheAlwaysSurvives` | every entry of every copy and file is under its own key (`SaveOK`, `DiskOK`, `AnswersOK`); who sleeps has a wake time after the last request (`RateOK`); while no two processes have saved at once there is one saver, its copy holds the cache and the temporary file is its own (`SoloOK`) |

The least-number principle is taken from the library's `WFMin` for `<` on `Nat`, which needs
no operator as a parameter; it stands in for induction where a recursive function is
unfolded (`KahnTurns`, `PiecesAt`) and where a first or last position is wanted.

Only model-checked: liveness, which depends on fairness and `ENABLED` - `EveryRunEnds` of
PlanRunner and of AgentLoop, `EveryCommandEnds` and `RequestsEnd` - and the two
disagreements of section 6 that have a run, which are counterexamples. The bound of each is proved, so that
what rests on TLC is that an actor who can go on is never stuck.

## 6. Disagreements between code and documents

With a run each:

- `store_key` - plan steps have their id as the only primary key and every plan
  numbers them s1, s2, ...: `create_plan` raises for every plan after the first in a
  database, and the goal stays pending (`plan/agent.py:171`, `schema.sql:80`).
- `runner_blocked` - a step blocked in one run is passed over by a resume although
  its deps have been completed since, and the plan is closed as done without it
  (`runner.py:193`, `models.py:243`).

Seen while modelling, part of the models unless it says otherwise, without a run:

- Only the command that created a goal writes its status: after a crash or an
  exception it stays running, `plan-resume` never updates it, and the status
  planning is never used (`plan_cli.py:162`, `plan_cli.py:183`).
- A failed step that is run again keeps its status failed until it has its new one, where
  the state machine of `docs/08-phase2-goal-plan.md:226` and the table of `models.py:200` put
  in_progress in between (`runner.py:276`).
- A resume runs a step that is out of attempts, and reopens a failed plan, which the table
  of `models.py:187` does not allow (`runner.py:145`); `PlanLedger` promises no more.
- The turn limit is tested after the last step too, so a plan whose steps are all
  done may be closed as failed (`runner.py:232`).
- From the second turn on any answer in words is met with a reminder, since
  `any_file_action` is always false (`loop.py:547`).
- The circuit breaker counts a turn whose calls failed for any reason, not
  invalid arguments only (`loop.py:650`).
- After a refused call of several the loop appends its explanation at once, as a message of
  the user, so that it stands between two results of one reply; the adapter sends it there.
  No line of the repository asks for more, but providers that want all results directly after
  the reply would refuse the request (`loop.py:602`).
- Arguments of a tool call that are JSON but no object raise a ValidationError when the reply
  is assembled, outside any try: `run` raises, and the tokens of the reply are never charged
  (`loop.py:253`, `canonical.py:38`).
- A checkpoint holds a reply's calls without their results (`loop.py:450`).
- A text reply in which a tool call is found makes `run` raise: the synthetic message has
  `content=None` (`loop.py:477`).
- `_write_called` survives the run that set it, though `loop.py:106` calls the loop stateless
  per call; the REPL reuses the object (`loop.py:578`).
- Compaction keeps four messages, which `compactor.py:5` calls two turns; a turn with two calls
  has three (`loop.py:374`).
- Two updates of one file in a patch both start from the file on the disk, so that the first
  is lost, and the patch returns ok, though its description says it "applies all hunks"
  (`apply_patch.py:299`, `:326`, against `:235`).
- A patch refused for a hunk writes back the files of the operations before it, which it has
  only read, and with their newlines converted: a file with CRLF is left with LF, against "if
  any hunk fails, no files are touched" (`apply_patch.py:347`, against `:22`).
- An `unlink` of a missing file, or an exception of `mkdir` or of the encoding, leaves the
  commit of a patch without rollback, although `apply_patch.py:22` calls it atomic; a file added
  empty is such an `unlink`. An update that leaves a file empty deletes it (`apply_patch.py:321`).
- `HookRegistry.run` never sets `modified_args` on its result, so that the loop never validates
  what a hook has changed; the hook that would run tests reads a field `ToolResult` lacks;
  the formatter never sees a patch (`hooks.py:151`).
- `read_file` refuses a text whose first 8192 bytes end inside a character.
- Text of an attempt that broke off stays in the reply; a stream that ends without `[DONE]` is
  taken as complete; `max_retries = 0` gives an empty answer (`openai_adapter.py`).
- Two coroutines that wait for the same MCP server: the second gets a RuntimeError from the
  StreamReader, and one passes over lines that were the other's answer (`mcp.py:151`). A failed
  `start()` leaves its process to `stop()`, and `start()` again replaces it, after which
  nobody ends it (`mcp.py:87`).
- An empty `tools_allow` allows every tool (`subagent.py:202`).
- A replaced session row takes the session's facts along (`sessions.py:164`); `ContextBuilder.build`
  raises for every session that has facts, as `l2_getter` reads `f.text` of dicts
  (`gateway.py:124`); `_store_step_facts` calls `add` with a keyword it does not have, so that no
  fact is ever stored (`runner.py:342`); the lock of a SessionState is never taken.
- Two processes that save searches at once can lose entries, and one of them takes the other's
  `os.replace` for a failure of the provider and throws its results away (`web_search.py:313`).
- A cache file that is no UTF-8, which two such processes may leave, makes every search raise
  until it is removed: only text that is no JSON is taken for an empty cache
  (`web_search.py:48`, `:62`, `:294`).
- Outside the models: `cli/chat.py` raises with any MCP server configured (a name that is only
  imported elsewhere, and a keyword `_run_one` does not have); `POST /config` calls a method
  `Config` lacks; the generic OpenAI adapter is built with a parameter it does not have.

## 7. Not modelled

- Without a caller in the source: `with_retry` and `Tracer` (`harness/policy.py`), reading
  checkpoints back, `progress_stalled`, the context switcher and snapshots of the L1 cache,
  `create_plan` of the gateway, which is on no route.
- Without state of their own: `web_fetch`, the repository map, the gateway's routes that list
  files, skills and diffs or run a command.
- Text: the tool-call extractor, token counting, prompts, memory search, the parsing of search
  pages, the body of a request to the provider.
- Presentation and wiring: CLI, chat UI, configuration, logging, skills, benchmark.
- The memory layers but for the rows that belong to sessions: rows added and listed.

# TLA+ models of Kyoci-Agent

Kyoci-Agent is a Go server that lets LLM agents work on tasks: a request goes to
the orchestrator, the orchestrator to a role agent, the agent plans and runs steps
with tools and LLM calls, and its answer may be verified by a command and repaired
with the help of a human operator. This directory holds TLA+ modules of the parts
of it where several goroutines, an operator, a planner that invents its input, or a
failing provider make the order of events matter; TLC checks them on small
instances and TLAPS proves the main results for all instances.

## 1. Inventory

| Component (under `internal/` unless said) | State it keeps | Operations | What makes it correct | Modelled in |
|---|---|---|---|---|
| **hitl** hub, gRPC service; `cmd/hitlctl` | `Hub.subscribers`, `Hub.waiters`, a channel per operator and per waiting task | `RequestHelp`, `DeliverHint`, `Subscribe`, `SubscribeHelpRequests`, `SubmitHint` | an accepted hint is used or accounted for; nobody is turned away without a reason; no waiter leaks; no operator can block a task | `HitlHub` |
| **orchestrator/hitl.go** verify loop | loop variables of one task | `executeWithRetry` | attempt budget; help is asked once, after the ordinary attempts; lessons are earned; every task returns | `VerifyLoop` |
| **orchestrator** core | `started`, workspaces, run logs | `Start`, `Execute`, `Shutdown` | what the folder of a task holds, its manifest tells | `TaskRun`, `Lifecycle` |
| **llm** router, registry, clients, circuit breaker | breaker state, `lastError`, latency and cost trackers, model cache | `Route`, `RouteStream`, `Complete`, `Stream`, `IsAvailable`, `Allow`, `RecordSuccess/Failure` | breaker opens in time, stays open until cool, a provider is tried again; a stream arrives whole and leaves no goroutine behind | `LlmRouting`, `ChunkStream` |
| **agent/orchestrated.go** planning | the plan | `planTask`, `ensureSDLCSteps` | SETUP first, VERIFY/QA/SERVE last whatever the planner invented | `PlanSteps` |
| **agent/orchestrated.go** dispatcher | `results`, `done`, `sem`, stall counter | `executeWorkers` | dependencies respected, limits kept, a good plan is never stuck, it ends | `Dispatcher` |
| **agent/orchestrated.go** pipeline | results map | `executeOrchestrated`, `redoFileCreationSteps`, `synthesize` | the answer has every result; a repair is only claimed if checked | `Pipeline` |
| **agent** worker | messages, tool log, files seen | `runWorker`, `reactLoop`, `verifyArtifacts` | a finding carries the tags that tell how it came about | `Worker` |
| **agent** ReAct loop, context | conversation, rounds, call count | `executeReact`, `ExecuteStream`, `SmartCompact` | caps; the conversation stays one a model accepts; an answer or an error | `React`, `ChunkStream` |
| **agent** thinking machine | `loopState`: budgets, plan, failures | `planStep`, `executeStep`, `verifyStep`, `reflectStep` | the caps bound every path | `Thinking` |
| **tool** delegation | `tasks`, semaphore | `spawn`, `wait`, `wait_all` | what an agent is told of a sub-agent is so | `Delegation` |
| **tool** todo, process | `todoStore`, `procStore`, of the whole process | add, complete, remove, clear, list; start, kill, list | a number an agent was shown keeps its meaning | `SharedTables` |
| **tool** file, patch | the files of a folder | write, append, edit, patch with check and revert | what a tool says it did to a file is so | `FileEdits` |
| **orchestrator/intelligence**, **memory** experiences, patterns | long-term rows, skill files, `generated` | `Record`, `CheckAndGenerate`, `Reflect` | a skill is learnt once, from successes | `Learning` |
| **mcp** client, transport, registry, adapter | process, `ready`, request ids, RWMutexes | `Initialize`, `CallTool`, `Restart`, `Close` | lock discipline; a restart does not break other calls | `McpClient` |
| **memory** | short-term ring, SQLite, compactor, profile cache | `Store`, `CompactIfNeeded`, `Set`, `loadCache` | what leaves short-term memory is summarised; the token counter is that of the entries; a reload finds what was stored | `Compaction`, `Profile` |
| **dashboard** | activity subscribers; the settings | `Publish`, `Subscribe`, the SSE handler; `configPut` | a slow reader blocks nobody and sees the newest; a save leaves a whole file | `ActivityBroker`, `ConfigSaves` |
| **gateway** (Telegram) | pending approvals, chat history, offset | ask, answer, time out; poll, run, answer | one verdict per approval, shown as it was; each message runs once | `Telegram`, `TelegramChat` |
| `cmd/server`, **observability/lifecycle** | components, their contexts | signal, `Run`, `shutdown` | a task under way keeps what it uses until its door is closed | `Lifecycle` |
| **agentgrpc** | none | `Execute`, `ExecuteStream`, `GracefulStop` | a client gets what the agent sent | `ChunkStream`, `Lifecycle` |
| **skill** (the zero-AI fast path) | registry filled at start | pure functions | the algorithms compute what they are named for | `Skills` (sixteen) |
| **role**, **agentdef**, **promptskill**, other tools | registries filled at start | lookups, pure functions, I/O | - | - |
| **config**, **apperr**, **hardware**, **platform**, **recommend**, **security**, **taskctx**, **tracing**, `pkg`, web UI | little | loading, wiring, filters, presentation | - | - |
| `projects`, `calculator-ts`, `benchmarks`, `scripts` | - | samples and benchmarks | not part of the program | - |

How they interact: `Orchestrator.Execute` calls `executeWithRetry`, which calls the
role agent (`executeOrchestrated`, the ReAct loop or the thinking machine) and, when
its attempts are used up, `Hub.RequestHelp`. The agent reaches LLMs through
`Router.Route` or `RouteStream`, tools through the tool registry (built-in or MCP), and
reports to the activity broker, which the dashboard and the gateway read. Tasks come in
by HTTP, gRPC and Telegram, run in parallel and share the hub, the router with its
breakers, the memory, the tables of delegated tasks, todo items and processes, the MCP
clients and the broker; a signal takes these away one by one.

What is hard: goroutines that use what they read before an unlock (hub, router,
Shutdown), channels with a limit (hub, broker, streams), timeouts that race an answer
(hub, approvals), results recorded out of order (breaker, workers), input nobody
validates (plans), loops with several budgets (verify loop, fix-passes, ReAct,
thinking), chains of goroutines with blocking sends (streams), processes that die (MCP)
or are restarted (the server under a Telegram chat), and the order in which a shutdown
takes things away. `PROJECT.json` lists the hazards at their lines.

## 2. The modules

| Module | Role |
|---|---|
| `HelpExchange` | abstract: what the hub promises (ask, accept, answer, give up) |
| `HitlHub` | the hub, its gRPC handlers, hitlctl |
| `VerifyLoop` | `executeWithRetry` for several tasks, around `HitlHub` |
| `VerifyLoopProofs` | proofs about the hub and the exchange it implements, and about the loops around it |
| `LlmRouting` | routing, clients and breakers |
| `TaskGraph` | abstract: steps of a plan with dependencies and a parallelism limit |
| `Dispatcher` | `executeWorkers` |
| `PlanSteps` | pure: the cap and `ensureSDLCSteps` |
| `Pipeline` | `executeOrchestrated` around `Dispatcher` and `PlanSteps` |
| `PlanProofs` | proofs about `Dispatcher` and `Pipeline` |
| `Worker`, `React`, `Thinking` | what runs a step or a task with a model and tools |
| `TaskRun` | a task in `Orchestrator.Execute` and its folder |
| `AgentProofs` | proofs about these four |
| `ChunkStream` | a streamed answer through its four channels |
| `LlmRoutingProofs` | proofs about `LlmRouting` and `ChunkStream` |
| `Delegation` | sub-agents, their slots and waits |
| `McpClient` | an MCP server with its callers |
| `SharedTables`, `FileEdits` | the todo list and the process table; one file and the tools that change it |
| `ToolProofs` | proofs about these four |
| `Compaction`, `Profile` | short-term memory; the user profile |
| `ConfigSaves` | saving the settings from the dashboard |
| `Learning` | what is recorded of a finished task, and the skill files |
| `MemoryProofs` | proofs about these four |
| `Telegram`, `TelegramChat` | the approvals and the messages of a chat |
| `ActivityBroker` | the fan-out of activity events |
| `Lifecycle` | the shutdown of the server |
| `ServiceProofs` | proofs about these four |
| `Skills` | pure: algorithms of the skills, with definitions of their results |
| `SkillsProofs` | proofs about the algorithms that are loops over a number or its digits |
| `MCHitl`, `MCRouting`, `MCDispatcher`, `MCPipeline`, `MCAgent` | the instances for TLC |
| `MCSkills`, `MCLearning` | arguments of the skills and endings of tasks, for `MCAgent` |

Every module that is checked also has *mutants*: operators commented `Mutant:` that
change one definition the way a plausible bug would. They are in no behaviour; with a
mutant in place of its definition the property named in `PROJECT.json` is violated.

### HitlHub, VerifyLoop

`subscribers`, `waiters` are the keys of the hub's maps; `queue[s]` is the channel of
an operator session, `hintCh[t]` the one-slot channel of a waiting task. `help[t]` is
the program counter of `RequestHelp`: *idle* -> (`Register`, the critical section) ->
*broadcast* -> (`Broadcast`, one non-blocking send for each subscriber of the copy) ->
*waiting* -> (`TakeHint` or `Expire`, the select) -> *cleanup* -> (`Unregister`, the
deferred delete) -> *returned*. With no subscriber `Register` goes to *cleanup* at
once. A session is a stream (`Subscribe`, `Forward`, `Disconnect`, `Unsubscribe`), a
`desk` of requests it received and at most one `SubmitHint` call, in two steps because
the code sends on the channel after it released the lock: `SubmitHint` looks the
waiter up, `Deliver` sends. The text of a hint influences nothing, so a hint is the
session that wrote it. The timer and the caller's context are one nondeterministic
`Expire`.

`VerifyLoop` adds the loop: `Attempt` is one iteration (prompt, agent, command,
decision), for none of its parts touches what another goroutine reads; `AskHelp` is
`Register` of the hub, `HelpReturns` the code after the call. `runs[t]` keeps the kind
of prompt of every agent run, `lessons[t]` what was stored. `hitlCfg` ranges over
`0..MaxRetries` retries, with and without hook, and `directive` over tasks with and
without a VERIFY line. Negative retry counts are left out.

### LlmRouting

One breaker per provider (`state`, `failures`, and `cooled`, which says that the reset
timeout has passed since the last failure), `lastError` of the OpenAI client, and per
caller the way through `Route`: scan (`Ask` each provider, in any order, as a Go map
is ranged over), `Select`, `Admit` or `Refuse` (the client asks the breaker again),
then `Answer`, `Fail` or `Abandon`. `OpenAIClient.Complete` writes `lastError` in a
second critical section (`WriteLastError`). Asking an Anthropic client whether it is
available calls `Allow` and may move the breaker to half-open (`AskAvailable`). An
Anthropic provider is one with an API key: without one it is never available.
`failures` stops at the threshold, since only `>=` with it is ever asked. `RouteStream`
takes the same way with `mode = "stream"`; its goroutines are in `ChunkStream`.

### PlanSteps, Dispatcher, Pipeline

A step is identified with its position, because ids may coincide. Of a description the
code asks only which keyword lists it matches: its `kinds`. `isQAStep` and `qaKeywords`
differ in "independent review" and in where "qa:" may stand; the model has one kind for
both. Of a worker's output only `isStalledResult` and `extractQAFailure` matter.
`Dispatcher` has the rounds (`NextBatch`, `Launch` with the semaphore, `Join` with the
stall count), the ends (`Complete`, `Stuck`, a trip in `Join`) and the goroutine of a
step (`RunSkill`, or `Snapshot` then `Finish`, each a critical section). `Launch` and
the slot's release follow the code: the slot is taken by the dispatcher and given back
when the result has been recorded; the instant between the two is not separated, since
only the dispatcher waits for it. `Pipeline` is sequential outside the dispatcher, so
each phase is one action. The redone workers of a fix-pass are one action as well:
they run one after another, and nothing else runs.

### Worker, React, Thinking

In all three one model response is one choice of everything it can make the loop do.
`Worker` keeps of the conversation what the later checks read in it: which paths write
calls name, and whether a command failed. `ModelCalls` takes a response, `Act` one tool
call of it, `Conclude` and `Retry` are `verifyArtifacts`, `QAReview` the reviewer's
verdict on a QA step. `React` keeps the conversation as roles with the number of their
tool batch (`convo`), for the property is about which messages stand next to which; an
iteration is an action, `NextIteration` the end of the round. The streaming form shares
the variables. `Thinking` has one action per turn of the driver: `loopAt` is its
state, `ls` the `loopState`, and `Compose` what `executeWithThinking` returns.

### TaskRun, Delegation

`TaskRun` is one task: the folder (`Prepare`), the runs of the agent with the file tool,
commands and processes that may outlive it, then `Finalize`, `Look`, `RemoveFolder`,
`WriteTmp`, `Rename`, each a system call of its own because a background process may
write between them, and the process may crash there. `Delegation` has the one table of
the server: `subs[t]` is the goroutine of a spawned task with the fields of its record,
which `SettleTask` writes one after another without a lock; `waits[a]` is the call an
agent is in, down to the second look at each status that the summary takes.

### ChunkStream

The goroutines `source` (a client's reader), `router`, `agent`, `adapter` and `server`,
each with a `pc`, and the channels between them (`wire`). A chunk is its text, a list
of numbered pieces, and its flags. The HTTP door has no adapter and no context that ends
when the client leaves. A goroutine takes a chunk when it can hand it on; the chunk that
the code would hold in its hand makes a channel one place longer, and capacities are a
constant anyway. `Sent` is what the provider's goroutine has put in of one answer: the
OpenAI client's last chunk repeats the text, and `ExecuteStream` ends with it once more.

### McpClient

`writer` and the callers at *rlock* are the RWMutex, `pipe` the transport's mutex,
`conn` the process and its generation. An abandoned `Send` (`Ghost`) keeps the pipe.
`mcpFault` is what Go does about the fault: an unlock of a lock not held ends the
program, a call through the nil transport panics.

### Compaction, Profile

Every operation of the manager holds its lock, so an operation is an action. Tokens are
numbers; `tokens` is the counter `currentTokens`, which the code keeps apart from the
entries and adjusts in each operation. A profile row is a key with a value; `Recalled` and `Loaded` are the reload.

### Telegram, TelegramChat, ActivityBroker

A button press looks the question up, edits the message and answers in three steps
(`LookUp`, `Edit`, `Send`), against `Receive`, `Expire` and `StopGateway`. It finds the
question from the moment it is entered, which is before `sendMessage` returns or fails. In
`TelegramChat` Telegram keeps a queue up to `confirmedTo`; `CrashServer` loses offset,
history and handlers, so the queue is delivered again. `edits` are progress edits on
their way, which may arrive after the final one. In the broker a publisher visits one
panel at a time and its up to three selects are steps (`SendOrNot`, `DropOldest`).

### Lifecycle

`hook` is the component being stopped and `begun` whether its stop has begun; each stop
has the guard of what it waits for. A request is where it is: received, running, in an
MCP call, at an operator. `stores` are memory and MCP, `open` the doors.

### SharedTables, FileEdits, ConfigSaves, Learning

`SharedTables` has the two tables behind package variables; a behaviour is about one of
them (`table`). Of an agent it keeps what its last answer showed: which number means what.
A change of the todo list and the list in its answer are two critical sections
(`FormatResult`); a process is started, entered, waited for and forgotten in steps of
their own, and the operating system gives a reaped pid out again.

In `FileEdits` a file is the set of edits it contains. `os.WriteFile` is `EmptyFile` and
`WriteEdit` (or `Restore`), so an append may fall between; the syntax check sees the file
as it is by then. What a call met while it ran is a history variable (`met`, `over`), for
the property speaks of the calls that met nobody.

`ConfigSaves` follows a PUT through the read, the backup, the two halves of writing the
`.tmp`, the rename and the map in memory. `opened` says where the file a request still
writes to is by then: another request may have renamed it over the configuration.

In `Learning` the goroutine of each finished task records, looks for similar successes,
writes the skill and its lesson (under the detector's lock) and reflects; a crash comes
between any two steps. `os.WriteFile` is `CreateSkill` and `FillSkill`: either may fail,
and a failure or a crash after the first leaves a file that is not `whole`. All tasks are of one topic, so the name of a skill is its first
tool, which the agent took out of a map in any order.

### Skills, MCAgent

A behaviour of `Skills` picks a skill and arguments and runs it. The algorithms are the
loops of the code as folds and recursive functions; what the result should be is defined
without them (all subsequences, all walks, all addresses of a block). The sizes of a byte
and of the text alphabet, and the lengths of hours and days, are constants. Divisors and
multiples are computed as Go computes them on machine integers: `IntLimit` is the first
one too large (2^63 in the code), `Wrap` what an operation past it returns, `Quo` and
`Rem` round towards zero. Characters are compared one by one, as the code compares bytes:
a `?` is one byte of a longer character.

`MCAgent` puts these eighteen modules (`Worker`, `React`, `Thinking` and all that follow) into one instance. They
share no state in the model: `focus`, chosen at the start, names the part that takes
steps. It is a way to run them, not a composition. In the code the parts do meet (a
worker is an MCP caller), but at interfaces where the caller sees an answer, an error or
a delay, which each module chooses freely.

## 3. The runs

| Run | Instance | Shows |
|---|---|---|
| `hitl` | 2 tasks, 2 sessions, queues of 1, up to 1 retry; 831 038 states | hint accounting, rejections, waiters, prompts, lessons, errors that match the hub, `HelpExchange` refined; every task that starts returns |
| `hitl_lost` | 1 task, 1 session | *violated*: an accepted hint may not reach the agent |
| `routing` | 2 callers, 1 provider of each kind, threshold 2; 863 060 states | breaker rules, no request on an open breaker, Anthropic tried again |
| `routing_stuck` | 1 caller, 1 provider of each kind, threshold 1 | *violated*: an OpenAI-compatible provider is never tried again |
| `dispatch` | 3072 plans of 3 steps, 2 in parallel, stall limit 2; 21 909 states | priors, stuck and complete, stall limit, `TaskGraph` refined, it returns |
| `pipeline` | 36 planner answers, cap 2, 2 in parallel, stall limit 3, 2 fix-passes; 98 815 states | injected steps, claims, completeness of the answer, it returns |
| `pipeline_recheck` | 2 faultless planner answers | *violated*: the failed check need not be run again |
| `pipeline_tripped` | the same | *violated*: file steps run after the breaker stopped the task |
| `agent` | the eighteen parts below; 2 646 427 states | see below |
| `task_manifest` | 2 files, 2 attempts | *violated*: a task that left files may have no manifest |
| `stream_deltas` | one streamed answer, channels of 1 | *violated*: the parts put together are not the answer |
| `telegram_denied` | 2 tasks, 2 presses | *violated*: a call whose only answer is Deny may run |

The parts of `agent`, each with its share of the states (rounded) and its bounds:

| Part | States | Bounds | Property |
|---|---|---|---|
| thinking | 26 000 | 2 distinct calls, tool budget 3, 1 reflection, 1 replan, ceiling 14 | `ThinkingBounded`: the counters pay for every turn but the parse nudges, and at most two of those come before each other turn |
| react | 30 000 | 3 iterations, 2 more rounds, cap 5 (code 15), batches of up to 3 | `ConversationAndEndHold`: results behind their call or the summary, the task first, cap, one end |
| worker | 698 000 | 2 paths, 2 iterations, 1 call per run of the loop, batches of up to 2 | `FindingsCarryTheirTags`: the tags agree with files, calls and failures |
| mcp | 269 000 | 3 callers, 2 deaths of the process | `McpFaultsFollowAnUnreadyClient`: the lock or the process is lost only after a Close or a failed restart |
| memory | 5 000 | 3 configurations, sizes 0 to 2, 6 entries | `OnlyPostTaskCompactionMoves` |
| profile | 24 000 | 2 keys, 2 values, window 3 (code 200), 5 rows | `ReloadedKeysAreStored` |
| telegram | 872 000 | 2 tasks, 2 presses | `ShownVerdictHolds`: the verdict shown is what became of the call, but for a second press, a timeout, a drain or a question that was not sent |
| chat | 37 000 | 3 messages with `/reset` in the middle, history 1 (code 4), context 1 (code 3), 1 crash | `MessagesRunOnceAndShowTheirEnd` |
| broker | 14 000 | 2 publishers, 1 panel, channel of 2 (code 64), 3 events each | `PanelsSeeTheNewest` |
| task | 7 000 | 2 files, 2 attempts | `TaskFolderIsAccountedFor` |
| delegation | 119 000 | 1 slot (code 3), 2 spawned tasks | `DelegationReportsAreTrue` |
| shutdown | 187 000 | 2 requests, a panel, an operator | `ShutdownSparesWhatItServes` |
| stream | 71 000 | channels of 1 (code 10, 16, 100), 2 pieces, 2 answers, both doors, both dialects | `StreamsReachTheirReader`: what is put in comes out in order and whole, repetitions included; nobody is blocked behind a reader that went away, but for a cancelled context |
| tables | 21 000 | 2 agents, 3 additions, 1 clear; 2 programs, 2 pids | `NumbersKeepTheirMeaning` |
| edits | 93 000 | a patch with an edit and a write, or with a patch and an append; any of them faulty | `EditsAreTold`: announced edits are there, reverted ones not, unless calls met |
| config | 5 000 | 2 saves, 2 providers | `LoneSavesHold`: without a second save the file, the answer and the memory agree |
| learning | 141 000 | 3 tasks, 2 tools, 3 combinations of endings, search over 4 rows (code 10), 1 crash | `SkillsAreLearntOnce`: a file is created once, from successes, and announced once and only when whole |
| skills | 24 000 | words of up to 3 letters, names of up to 3 with stars, blocks of 3 bits, numbers up to 60, integers of 8 bits, bytes of 4 values in an alphabet of 3 | `SkillsMeetTheirDefinition` |

Why these bounds suffice for the questions. Hub: tasks do not share a waiter or a slot,
so two tasks show every way they meet (one full queue, one desk); two sessions are
needed for a second hint, a copy of the subscribers with a member that left, and a
broadcast that is half done; one slot makes a queue full with two tasks (the code's
16 needs 17). One retry makes the budget 2 or 3 attempts, which separates the first,
the ordinary and the hint prompt. Routing: two callers interleave a late success with
an opening, and threshold 2 makes one failure not enough. Dispatcher: three steps allow
a chain, a diamond's half, a cycle of each length up to three, two equal ids in or
across rounds; a limit of two slots is exceeded by three steps; a stall limit of two is
reached across rounds. Pipeline: with the injected steps its plans have up to five
steps; the drafts have every pairing of file, check and other steps that leads to a
different injection, and a draft longer than the cap whose dependency the cap cuts.

The parts of `agent`. Limits are scaled so that each is reached on some paths and not
on others: the thinking budgets (without nudges) add up to no more than the ceiling, so a loop that
ran past its counters would be seen; the ReAct cap of 5 lies inside two batches of 3, so a batch
overshoots it, and nine iterations fill the conversation far beyond the six messages a
compaction keeps; the profile has more rows than the window. Two paths and two retries
give a worker a file confirmed, one missing and one written late. Three MCP callers are
one to hold the pipe, one to restart and one to come in between; two deaths let the
restarted server die as well. Two presses on two questions are all pairs (twice on one,
once on each). Two messages, a `/reset` between them and one crash separate the
confirmed, the running and the waiting message. Two publishers are what it takes to lose the newest event, and three
events overrun the channel. One slot and two sub-agents make a waiter hold the slot its
task needs. Two requests come by two doors of the three, in every pair. Channels of one
place block every sender of a stream after one more chunk than they hold, so a reader
that leaves finds all four full; two answers are one with tools and one after it. (With
channels of two and three pieces the stream alone has 751 000 states, with the same
result.) Three additions and
a clear give an id out again; two programs share a pid once the first was reaped. Three
calls on a file are a patch that reverts, one it writes over and one that falls into the
gap. Two saves are all that meet on one `.tmp`. Three tasks are two successes that earn a
skill and one that finds it there, before or after the crash.
Skills are pure: small arguments reach every branch of their loops; of the integers of
eight bits, the least one and small ones of both signs, whose multiples go past 127.

Deadlock is checked in `routing`, where requests keep coming. In the other runs tasks
end (and in `agent` a lost lock or a stream without a reader stops a part for good, which
the properties speak of), so a state without successor is the normal end; the liveness properties say that
nothing else is.

Fairness. `VerifyLoop`: weak fairness of each task's own goroutine, none of the
operators: Go schedules every runnable goroutine, agents have bounded loops and LLM
timeouts, the VERIFY command is killed after 60 s and the hub's timer fires. It is
assumed that no child of the command keeps the output pipe open (see the hazards).
`LlmRouting`: the HTTP clients have timeouts, time passes, and requests keep coming.
`Dispatcher`, `Pipeline`: something happens while something can, no more. The `agent`
run has safety properties only, so it states no fairness; that its loops end is said by
bounds that count (`ThinkingBounded`, the caps of `ConversationAndEndHold`).

## 4. Where the code differs from what it says

1. `hub.go:134`: a hint can be accepted when the task waits no more (`hitl_lost`).
2. `llm/client.go:566`: an OpenAI-compatible provider that failed once is out of the
   routing until the process restarts; half-open is never reached (`routing_stuck`).
3. `orchestrated.go:1408`: the comment at 228 says QA is run again; only file-creation
   steps are (`pipeline_recheck`). The QA step that `ensureSDLCSteps` injects happens to
   match `isFileCreationStep` (its text has "build" and "file:line"), so that one is.
4. `orchestrated.go:1409`: a fix-pass starts steps the breaker had spared
   (`pipeline_tripped`).
5. `orchestrator.go:392`: the manifest is made from the call log, which only the ReAct
   loop fills; a plan, a thinking loop or a sprint that wrote files has none, against
   `workspace.go:106` (`task_manifest`).
6. `client.go:475`: the OpenAI client's last chunk has the whole answer again, and
   `ExecuteStream` sends what it heard once more: a client that puts the parts together, as
   `agent_service.pb.go:193` ("partial is the content delta") has it, gets the answer four
   times, by the Anthropic client twice (`stream_deltas`).
7. `telegram.go:933`: a question that cannot be sent counts as approved ("Fail open"), also
   when Deny was pressed before `sendMessage` failed, against `telegram.go:874`
   (`telegram_denied`).

Met on the way, visible in the models as the exceptions their properties name, or in the
code next to them, without a run of their own:

- *Streams.* The adapter turns an error into a last chunk without the error
  (`agentgrpc/adapter.go:69`): a stream that failed ends with status OK, and so does one whose deadline passed while the channel was
  closed. The OpenAI client reads no tool calls from a stream. A gRPC client that reads
  slowly and leaves can leave the agent's, the router's and the provider's goroutine
  blocked for good. A cut stream is asked for again, with its text already sent.
- *Shutdown.* `lifecycle.go:22` says that front doors stop before what is behind them,
  but agent-grpc stops after the orchestrator (`main.go:496`): its tasks run on without
  memory and MCP. The timeout of a component reaches only `http.Server.Shutdown`; an MCP
  call under way, a gRPC task or a subscribed operator holds the process. An open
  activity panel makes the HTTP drain take its full ten seconds. An error while closing
  the memory leaves the MCP servers open. A signal before `main` reaches its select may
  lead to a shutdown with a cancelled context. Telegram takes messages after its cancel.
- *MCP.* Agents call `MCPClient.CallTool` by the adapter (`adapter.go:136`);
  `MCPRegistry.CallTool` with the restart has no caller, so a dead server stays dead.
  After a failed restart, or a Close with a call under way, the lock upgrade at
  `client.go:180` unlocks a lock not held; a failed respawn leaves a nil transport behind
  a non-nil interface. `mcp/README.md:270` calls the client thread-safe.
- *Delegation.* The status is written before the result, without a lock
  (`delegation.go:38`: "All methods are safe for concurrent use"): a waiter may see
  "completed" with no result. The 180 seconds run from the spawn, not from the start.
  `wait_all` waits for every task of the server, the caller's own among them, so in a
  sub-agent it ends only by its time; agents that wait may hold all slots.
- *Orchestrator.* A lesson quotes the first failure (`orchestrator/hitl.go:208`),
  `memory/lesson.go:19` says the most recent one. The manifest lists the last attempt's files only. A background process
  may write between the look into the folder and its removal.
- *Worker, thinking, ReAct.* Files the content interceptor wrote are not in the
  conversation the file check reads; a retry that breaks off keeps the old verdict. An
  answer that `Verify` rejected can still be returned as a success (a malformed
  reflection). `SmartCompact` can leave results without their call.
- *Telegram.* The wait for an answer ignores the task's context. A message may show "Approved" for a call that timed out.
  "Allow all" is by tool, whatever the severity. `assessSeverity` reads `action`, the
  file tool's argument is `operation` (`approval.go:23`, `tool/builtin/file.go:45`). After
  a crash the last messages run again; a late progress edit may replace "Done"; a message
  sent while a task runs gets none of its history.
- *Memory.* The compaction inside `Store` never stores anything, and the one after a
  task counts its target in tokens and what it keeps in entries: with the defaults it
  never moves one (`compactor.go:111` says "keep newest 50%"). The profile's reload lets
  the oldest value of a key win, `Set` the newest.
- *Activity.* With two publishers at a full channel the newest event is lost;
  `activity.go:49` says the oldest.
- *Shared tables.* `ResetTodoStore` says to call it at the start of each task
  (`todo.go:267`); only tests do, so tasks share one list. Removing from an empty list
  panics with the lock held (`todo.go:233`). `list` says "running" of processes that have
  ended.
- *File edits.* Calls lock nothing: an edit of two agents at once loses one of them, and a
  revert takes back what others wrote. "(syntax verified)" is also said when no checker
  for the language exists (`patch.go:132`), and a file that did not compile before the
  patch cannot be patched.
- *Settings.* `dashboard.go:175` says "written to disk atomically": two saves share one
  `.tmp` (`config_persist.go:68`), so one may rename what the other has half written; the
  map in memory has no lock.
- *Learning.* A write of a skill file that fails or is interrupted leaves a cut file
  (`patterns.go:114`), which the next `os.Stat` takes for the skill. A restart between the skill file and its lesson leaves the skill without
  one: the file is found and only marked. The limits of a recall (3 for a prompt, 10 for a
  pattern) apply before the rows of other kinds are dropped, so newer experiences hide the
  lessons.
- *Skills.* `wildcardMatch` compares a star of the pattern with the name's character before
  it takes it for a wildcard (`gitignore.go:163`): `*` does not match `*b`. `lcm` past the largest integer wraps, and the divisor of the least integer
  (and 0) is negative; neither is reported. `nextFireTime` steps by days and keeps the time of day (`cron.go:236`): "0 9 *
  * *" asked at 08:30 gives tomorrow. `lcm` of two zeros divides by zero. `cidr_merge`
  claims a minimal cover and folds once.
- *Plan.* The comment of `ensureSDLCSteps` says the result is truncated to `maxSteps` and
  SETUP has id 0 (neither is so); the `allWorkersFailed` branch at `orchestrated.go:299`
  needs an empty synthesis, which `synthesize` turns into an error before.

## 5. The proofs

TLAPS checks 47 listed theorems in eight modules, for all values of the constants. What
they assume of these are the `ASSUME`s of the modules, which TLC evaluates on every run:
limits and bounds are natural numbers, those that the code needs positive are (capacities,
thresholds, parallelism, attempts); `None`, `NoOne`, `Unset` and the like are none of the
values they stand beside; the two kinds of providers are disjoint; plans are finite
sequences of steps; finished tasks are finitely many; alphabets have at
least two characters, hours and days at least one minute and hour; a number asked for its primes
is below the square of an odd one, itself an integer of the machine; and (`Pipeline`) the dispatcher is
handed what `PlanTask` makes of the planner's answers. `Plans`, `Drafts`, `Endings` and
the other sets of inputs are arbitrary.

Almost every theorem is of the form `Spec => [](Types /\ Property)`, and for almost none
is the property inductive. The invariants below are what had to be added; each has one
lemma per operation.

**Hub and verify loop.**

- *Hub.* To know that a `Deliver` adds a new session to the accepted ones one needs that
  a request is in one place only between the hub and an operator (`OnePlace`: to be sent,
  in the channel, on the desk, in a call, or answered), that nothing is in transit for a
  task that has not asked or found nobody (`NothingBeforeTheCall`), and that a call has an
  answer exactly when its select chose a hint (`AnswerAfterSelect`). With `HubInv` every
  step of the hub is a step of `HelpExchange` or a stutter (`HubImplementsExchange`).
- *Verify loop.* `LoopRunsTheHub`: `VerifyLoop` only takes steps of `HitlHub`, so the
  theorems of the hub carry over. `LoopInv` adds for each task how phase, attempt and
  number of runs go together (`RunsAreCounted`), that a hint exists from the extra attempt
  on and not before (`HintComesLast`), when the hub is in use (`HelpIsAsked`) and why the
  loop ended (`EndIsExplained`). Tasks share only the hub, so a step of one keeps `LoopOf`
  of the others. Types, budget, prompts, lessons and results follow for every `MaxRetries`.

**Models and streams** (`LlmRoutingProofs`).

- *Routing.* `RoutingInv`: types, a target for every caller under way, and the threshold;
  the two action properties follow step by step.
- *Streams.* "What was delivered and what is still on the way make up the text" is a
  statement about four channels at once. `StreamInv` has a witness for it (`Carried`): a
  text and five positions in it, up to which it was delivered, lies in the gRPC channel,
  in the agent's, and in the two of the provider, and `Span` says that the chunks of a
  channel carry their stretch piece by piece. `Marks` (nothing is behind a last chunk),
  `Control` (who is still running when a channel is closed) and `EndedInFull` give the
  rest.

**Plans** (`PlanProofs`).

- *Dispatcher.* `PriorsStayTrue` needs that no step of the current round has an id that a
  started step depends on (`Ordered`): such a step would be done already. `DispatchInv`
  also ties `results`, `done` and the finished workers together (`Recorded`), from which
  `CompleteRanAll` counts the ids, and `StuckOnlyIfMalformed` takes the set of steps that
  are not done as the cycle. `StallsStopTheTask` adds `StallsCounted`: as long
  as no step made progress the counter is the number of steps run, and `BatchIsFresh`: no
  step of a round has the id of an earlier one, so what was counted cannot change, though
  ids may be equal.
- *Pipeline.* `PipelineRunsDispatcher` (it implements `Dispatcher`), then `Staged` for the
  completeness of the answer and `Claimed` for the claim of a repair: a claim with the
  trigger not rerun would leave its old failed result in the report.
- *Injected steps.* The invariant is small (`FrameInv`: SETUP is done only when the worker
  of the first step has finished), the work is `PlanIsFramed`: whatever ids and
  dependencies the planner gave, the plan that `ensureSDLCSteps` returns makes every step
  depend on the injected SETUP and each appended step on all before it.

**What runs a task** (`AgentProofs`).

- *Thinking.* `ThinkingBounded` is inductive as it stands, because it is an equation of
  accounts: `turns` is at most what the counters have paid (a tool call or a replan one
  turn, a reflection three, a parse nudge one) plus a slack that depends on the state.
  Every turn moves to a state with more slack or pays. With the default budgets that is
  at most 35 turns besides the nudges, below the ceiling of 50; with two nudges before
  each of them the ceiling is what ends a run.
- *ReAct.* `WellFormed(convo)`: one system prompt and one task, in front, and behind them
  no result that does not stand behind its call, a result of the same batch, or the
  summary. That `SmartCompact` keeps this needs what its filters return for every
  conversation, which is an induction: see below. `CappedCalls` and `Undecided` (no answer
  before the end) give the cap and the end.
- *Worker.* `LoopCounts`, `WritesAreShown` (what the model writes itself the conversation
  shows, so the file check reads it) and `RetriesFollowFailures`, beside the tags.
- *Task folder.* `TaskInv`: a manifest is written last and from the last log
  (`ManifestIsLast`), and a folder is removed only after a look saw it empty, so that what
  is lost can only be what a process wrote late (`OnlyLateFilesAreLost`).

**Tools** (`ToolProofs`).

- *File edits.* What a call answers is true because nobody wrote under it; so `EditInv`
  says which calls have noted each other (`MeetingsAreNoted`), what each holds of the file
  (`CopiesHold`), that a file without its text is being written by a call that will fill
  it (`EmptiedIsRefilled`), that a call that met nobody has the file to itself
  (`LoneCallsOwnTheFile`), and what those who came later have read
  (`AnswersReachReaders`).
- *Shared tables.* For the todo list, numbers and texts grow along the list and what an
  agent saw is old (`ItemsGrow`, `AgentsRemember`), and the lock is lost only over an empty
  list. For processes, the waiting goroutine follows its program (`WaitersFollow`), an
  entry is the program's that got the pid (`EntriesAreTheirs`), and two live programs have
  two pids (`PidsAreApart`).
- *Delegation.* A waiter reads the fields of a record one by one, without a lock. `Knows`
  says of each waiter what it has read so far and that it stays true under every step of
  the record (`Follows`); the slots held are counted as a set.
- *MCP.* `LockIsHeldToInitialise`, and `ReadyUnlessRestarting`: without a failure only a
  restart under way lowers the flag, and it holds the lock.

**Memory** (`MemoryProofs`).

- *Profile.* After a reload the cache is `Loaded`, and what that loop over the window
  computes is found from the oldest row of a key.
- *Learning.* `OneMakesASkill` (the mutex) and `FilesAreEarned`: each file has enough
  recorded successes behind it, and each announcement a whole file before it.
- *Compaction.* `CompactInv`: the memory keeps to its capacity between operations, so the
  compaction inside `Store` finds nothing over its target. `CountInv` for
  `TokensAreThoseHeld`: the counter is a sum over the entries, additive over what trim,
  compaction and deletion take away; the code's cut at zero never takes effect.
- *Settings.* `ConfigInv`: what a save alone has done by each of its steps
  (`LoneProgress`), and where a value can have come from (`LoneSources`).

**Services** (`ServiceProofs`).

- *Telegram.* `PressesAreKept`, `VerdictsArePressed` (every verdict shown, queued or acted
  on is some button's) and `QuestionsStayOpen`.
- *Chat.* `ConfirmedWereTaken`, `TakenOncePerLife`, `HistoryIsOfTheDone`, `EndsAreShown`:
  together they say for each message how polling, running and showing go together.
- *Activity.* `NothingEarly` (no panel has an event its publisher has still to bring),
  `MeetingsCrowd` (while publishers have not met, the one at work keeps the place it
  made), and the order of what a panel has seen or has before it.
- *Shutdown.* `ClosedInOrder` (what is closed by each point of the shutdown) and
  `WaitedFor` (what each server has waited for when the next one's turn comes).

**Skills** (`SkillsProofs`).

`SkillsKeepTheirPromise` is about what algorithms compute, so its invariant (`SkillInv`) only
says that the arguments are of their kind and that the result is the algorithm's; the work
is one lemma for each algorithm, for arguments of any size.

- *Fire times* (`NextFireIsRight`). The search steps by days, hours and minutes; what it
  passes over is not due, or lies earlier in its day or hour than the minute it began at
  (`PassedOverIsEarlier`). That exception is the finding of section 4, and the theorem
  shows there is no other.
- *Check digits* (`Mod10IsRight`, `IssnIsRight`). A wrong digit changes the weighted sum in
  one place and swapped ones in two (`TotalChanges`), by an amount that 10 or 11 does not
  divide, unless the digits are five apart.
- *Primes* (`IsPrimeIsRight`, `PrimeFactorsAreRight`). A number that is not prime has a divisor
  up to its root; when the loop comes to a divisor, no smaller one is left, and what was
  split off and what is left multiply to the number.
- *Encoding* (`EncodingIsRight`). The digits are those of the number without leading zeros
  (`DigitsOfNumber`), and the zeros are counted and put back, so decoding returns the bytes
  in any two bases.

*Induction over data.* The library's induction theorems take an operator and cannot be
used here. `LeastNumber` (a set of numbers that is not empty has a least one) is proved
instead, from the well-foundedness of the subsets of an interval; with it a recursive
function is shown to exist and what it computes is found from the first place where it
would be wrong (`OfRoles` of `React`, `TokensOf` and the cut of `Trimmed` in
`Compaction`). `SkillsProofs` states the two steps once: `StepUp` for sets of numbers, and
`Recursion`, which gives a solution to an equation whose argument gets smaller by some
measure. This is why these are written as recursive functions and not by a filter or
a fold of the libraries, which the provers cannot expand.

*Only proved.* The types of the hub, the routing and the dispatcher, the budget of attempts,
the kinds of prompts, the threshold of a breaker and the token counter are proved for all
values and are not properties of a run.

*Only model-checked.* Everything under fairness (`EveryTaskReturns`,
`AnthropicTriedAgain`, `DispatchReturns`, `PipelineReturns`) and `ENABLED`, which are out
of the prover's reach. Of `SkillsMeetTheirDefinition` the part about texts, edits, wildcards,
divisors and merged blocks: their algorithms are folds or filters of the libraries, and some of
the definitions of their results quantify over the inputs of the run. `AgentTypeOK` speaks of the composed instance; the types of each
of its parts are proved with the part's theorem.

## 6. Not modelled

- *Text and format skills, prompts, heuristics, data tables* (most of `skill/builtin`,
  `agent/prompts.go`, `complexity.go`, `classifier.go`, `recommend`, `hardware`): what
  they do is a table or a wording. Where such an answer decides what happens next, the
  models choose it freely. This is the largest part of the program by lines, and the
  reason why the models stand for an eighth of them: what is left out has no state, no
  order and no second actor.
- *HTTP handlers, web UI, commands of the chat bot, gRPC conversions, generated code*:
  presentation of what the modelled parts return.
- *Configuration, wiring at start, registries* (`config`, `New`/`Start`, roles, agent
  definitions, tool and skill registries): run once before anything is concurrent.
- *I/O wrappers* (browser, HTTP and search tools; long-term search in SQLite; platform
  and tracing): their effects appear where they matter, as writes in
  `TaskRun`, as errors elsewhere.
- *Calls of a model with a fallback* (auto-resolve, role classifier, summariser): a free answer in whoever calls them.
- *Routing strategies besides fallback, the retries inside `Complete`, the model cache*:
  no code path installs the former, a retry is one slow request to the breaker, and the
  cache is read by no decision.
- *A negative number of retries* (`hitl.go:137`) and *a child of the VERIFY command that
  keeps its output open* (`hitl.go:96`): outside the configurations and the fairness the
  models assume; `PROJECT.json` lists them as hazards without a property.

----------------------------- MODULE Lifecycle ------------------------------
(***************************************************************************)
(* The end of the server process: the signal (cmd/server/main.go,          *)
(* internal/observability/lifecycle.go), the components stopped one after  *)
(* another, each with its own idea of what it waits for, and the requests  *)
(* under way meanwhile.  Of a request counts the door it came by and       *)
(* whether it waits for an operator or for an MCP server.  The timeout a   *)
(* component is registered with is looked at by http.Server.Shutdown alone.*)
(***************************************************************************)
EXTENDS Naturals, Sequences

CONSTANT Requests   \* tasks that users send

\* The HITL server is a door for operators, the others are for tasks.
TaskDoors == {"telegram", "http", "agent-grpc"}
Doors == TaskDoors \union {"hitl-grpc"}

\* Mutant: the two gRPC servers are added in the other order.
ShutdownOrderSwapped == <<"telegram", "http", "orchestrator", "hitl-grpc", "agent-grpc">>

\* Components in the order they are stopped, the reverse of mgr.Add.
ShutdownOrder == <<"telegram", "http", "orchestrator", "agent-grpc", "hitl-grpc">>

VARIABLES
  open,      \* doors that take requests
  serving,   \* orchestrator.started
  stores,    \* subsystems in use: "memory", "mcp"
  request,   \* each request: its door and where it is
  watchers,  \* streams that end only from outside: "panel", "operator"
  server,    \* the main goroutine: "starting", "waiting", "stopping" or "gone"
  hook,      \* component being stopped, and whether its stop has begun
  signalled, \* ctx of Manager.Run is done
  runOver,   \* runErr holds the result of run
  stopCtx,   \* context of the shutdown: "fresh", or "cancelled" already
  gaveUp,    \* history: http.Server.Shutdown returned with requests open
  killed     \* history: a second signal ended the process

lifeVars == <<open, serving, stores, request, watchers, server, hook, signalled, runOver,
              stopCtx, gaveUp, killed>>
mainVars == <<server, hook, signalled, runOver, stopCtx, gaveUp, killed>>

LifeInit ==
  /\ open = Doors /\ serving = TRUE /\ stores = {"memory", "mcp"}
  /\ request = [q \in Requests |-> [door |-> "none", at |-> "none"]]
  /\ watchers \in SUBSET {"panel", "operator"}
  /\ server = "starting" /\ hook = [nr |-> 1, begun |-> FALSE]
  /\ signalled = FALSE /\ runOver = FALSE /\ stopCtx = "fresh"
  /\ gaveUp = FALSE /\ killed = FALSE

ServerUp == server # "gone"
UnderWay(q) == request[q].at \in {"received", "running", "mcp", "help"}
Through(door) == {q \in Requests : request[q].door = door /\ UnderWay(q)}

----------------------------------------------------------------------------
(* Requests.  The context of an HTTP task is of its own (main.go:137), so   *)
(* neither the client nor the shutdown ends it.                             *)

Step(q, from, to) ==
  /\ ServerUp /\ request[q].at = from /\ request' = [request EXCEPT ![q].at = to]
  /\ UNCHANGED <<open, serving, stores, watchers, mainVars>>

TakeRequest(q) ==
  /\ ServerUp /\ request[q].at = "none"
  /\ \E d \in TaskDoors \intersect open : request' = [request EXCEPT ![q] = [door |-> d, at |-> "received"]]
  /\ UNCHANGED <<open, serving, stores, watchers, mainVars>>

\* Orchestrator.Execute: ErrNotStarted.
BeginRequest(q) == Step(q, "received", IF serving THEN "running" ELSE "refused")

AskServer(q) == "mcp" \in stores /\ Step(q, "running", "mcp")
ServerAnswers(q) == Step(q, "mcp", "running")

\* Without a subscriber RequestHelp returns at once.
AskOperator(q) == "operator" \in watchers /\ Step(q, "running", "help")
OperatorAnswers(q) ==
  "operator" \in watchers /\ "hitl-grpc" \in open /\ Step(q, "help", "running")
HelpTimesOut(q) == Step(q, "help", "running")

FinishTask(q) == Step(q, "running", "done")

WatcherComes(w) ==
  /\ ServerUp /\ w \notin watchers /\ (IF w = "panel" THEN "http" ELSE "hitl-grpc") \in open
  /\ watchers' = watchers \union {w}
  /\ UNCHANGED <<open, serving, stores, request, mainVars>>

WatcherLeaves(w) ==
  /\ ServerUp /\ w \in watchers /\ watchers' = watchers \ {w}
  /\ UNCHANGED <<open, serving, stores, request, mainVars>>

\* The polling loop looks at its context between two polls, so a message may
\* still come in after tgCancel.
PollingEnds ==
  /\ ServerUp /\ server = "stopping" /\ hook # [nr |-> 1, begun |-> FALSE]
  /\ open' = open \ {"telegram"}
  /\ UNCHANGED <<serving, stores, request, watchers, mainVars>>

----------------------------------------------------------------------------
(* Manager.Run.  A main goroutine that waits takes the signal; if it came   *)
(* before, run may have returned as well, and the select picks either.      *)

Stopping(ctx) == server' = "stopping" /\ stopCtx' = ctx

Signal ==
  /\ server \in {"starting", "waiting"} /\ ~signalled
  /\ signalled' = TRUE
  /\ IF server = "waiting" THEN Stopping("fresh") ELSE UNCHANGED <<server, stopCtx>>
  /\ UNCHANGED <<open, serving, stores, request, watchers, hook, runOver, gaveUp, killed>>

RunReturns ==
  /\ ServerUp /\ signalled /\ ~runOver /\ runOver' = TRUE
  /\ UNCHANGED <<open, serving, stores, request, watchers, server, hook, signalled, stopCtx,
                 gaveUp, killed>>

TakeSignal ==
  /\ server = "starting"
  /\ \/ ~signalled /\ server' = "waiting" /\ UNCHANGED stopCtx
     \/ signalled /\ Stopping("fresh")
     \/ runOver /\ Stopping("cancelled")
  /\ UNCHANGED <<open, serving, stores, request, watchers, hook, signalled, runOver, gaveUp,
                 killed>>

\* stop() gives the signal its default effect back, but only on one branch.
SecondSignal ==
  /\ server = "stopping" /\ stopCtx = "fresh"
  /\ server' = "gone" /\ killed' = TRUE
  /\ UNCHANGED <<open, serving, stores, request, watchers, hook, signalled, runOver, stopCtx,
                 gaveUp>>

----------------------------------------------------------------------------
(* Manager.shutdown: a hook begins, and is over when what it waits for is.  *)

HookIs(name) == server = "stopping" /\ ShutdownOrder[hook.nr] = name
HookBegins(name) == HookIs(name) /\ ~hook.begun /\ hook' = [hook EXCEPT !.begun = TRUE]
HookOver(name) ==
  /\ HookIs(name) /\ hook.begun
  /\ IF hook.nr = Len(ShutdownOrder) THEN server' = "gone" /\ UNCHANGED hook
     ELSE hook' = [nr |-> hook.nr + 1, begun |-> FALSE] /\ UNCHANGED server

\* tgCancel and the draining of the questions wait for nobody.
StopTelegram ==
  /\ HookIs("telegram") /\ hook' = [nr |-> hook.nr + 1, begun |-> FALSE]
  /\ UNCHANGED <<open, serving, stores, request, watchers, server, signalled, runOver, stopCtx,
                 gaveUp, killed>>

\* Every server closes its door and then waits.
CloseDoor(d) ==
  /\ d # "telegram" /\ HookBegins(d) /\ open' = open \ {d}
  /\ UNCHANGED <<serving, stores, request, watchers, server, signalled, runOver, stopCtx,
                 gaveUp, killed>>

\* http.Server.Shutdown: all connections idle, or 10 s over.
HttpStops ==
  /\ HookOver("http")
  /\ gaveUp' = (Through("http") # {} \/ "panel" \in watchers)
  /\ UNCHANGED <<open, serving, stores, request, watchers, signalled, runOver, stopCtx, killed>>

\* Orchestrator.Shutdown: no new tasks, then the memory.
StopServing ==
  /\ HookBegins("orchestrator") /\ serving' = FALSE
  /\ UNCHANGED <<open, stores, request, watchers, server, signalled, runOver, stopCtx, gaveUp,
                 killed>>

\* After an error in closing the database the MCP servers are left alone.
CloseStore ==
  /\ HookIs("orchestrator") /\ hook.begun /\ "memory" \in stores
  /\ stores' = stores \ {"memory"}
  /\ UNCHANGED <<hook, server>> \/ HookOver("orchestrator")
  /\ UNCHANGED <<open, serving, request, watchers, signalled, runOver, stopCtx, gaveUp, killed>>

\* Closing a client waits for the call in its pipe, however long it takes.
CloseMcp ==
  /\ "memory" \notin stores /\ \A q \in Requests : request[q].at # "mcp"
  /\ HookOver("orchestrator") /\ stores' = {}
  /\ UNCHANGED <<open, serving, request, watchers, signalled, runOver, stopCtx, gaveUp, killed>>

\* GracefulStop waits for the calls under way, ...
AgentGrpcStops ==
  /\ Through("agent-grpc") = {} /\ HookOver("agent-grpc")
  /\ UNCHANGED <<open, serving, stores, request, watchers, signalled, runOver, stopCtx, gaveUp,
                 killed>>

\* ... and a subscribed operator's stream is one.
HitlGrpcStops ==
  /\ "operator" \notin watchers /\ HookOver("hitl-grpc")
  /\ UNCHANGED <<open, serving, stores, request, watchers, signalled, runOver, stopCtx, gaveUp,
                 killed>>

LifeNext ==
  \/ \E q \in Requests :
       \/ TakeRequest(q) \/ BeginRequest(q) \/ AskServer(q) \/ ServerAnswers(q) \/ AskOperator(q)
       \/ OperatorAnswers(q) \/ HelpTimesOut(q) \/ FinishTask(q)
  \/ \E w \in {"panel", "operator"} : WatcherComes(w) \/ WatcherLeaves(w)
  \/ PollingEnds \/ Signal \/ RunReturns \/ TakeSignal \/ SecondSignal
  \/ StopTelegram \/ \E d \in Doors : CloseDoor(d)
  \/ HttpStops \/ StopServing \/ CloseStore \/ CloseMcp \/ AgentGrpcStops \/ HitlGrpcStops

LifeSpec == LifeInit /\ [][LifeNext]_lifeVars

----------------------------------------------------------------------------
LifeTypeOK ==
  /\ open \subseteq Doors /\ stores \subseteq {"memory", "mcp"}
  /\ request \in [Requests -> [door: TaskDoors \union {"none"},
                               at: {"none", "received", "running", "mcp", "help", "done", "refused"}]]
  /\ watchers \subseteq {"panel", "operator"}
  /\ server \in {"starting", "waiting", "stopping", "gone"}
  /\ hook \in [nr: 1..Len(ShutdownOrder), begun: BOOLEAN]
  /\ {serving, signalled, runOver, gaveUp, killed} \subseteq BOOLEAN
  /\ stopCtx \in {"fresh", "cancelled"}

(* What the shutdown spares.  An HTTP task is cut off, or works on without  *)
(* memory or MCP servers, only if the drain gave up on it.  A gRPC task is   *)
(* seen to its end and can be helped until then, though it may lose the     *)
(* memory on its way: its door closes after the orchestrator.  And the      *)
(* process does not end before its operator has left, whatever the timeouts *)
(* say.  Only a second signal is stronger.                                  *)
ShutdownSparesWhatItServes ==
  ~killed =>
    /\ \A q \in Through("http") : server = "gone" \/ stores # {"memory", "mcp"} => gaveUp
    /\ \A q \in Through("agent-grpc") : ServerUp /\ (request[q].at = "help" => "hitl-grpc" \in open)
    /\ server = "gone" => "operator" \notin watchers /\ "memory" \notin stores

=============================================================================

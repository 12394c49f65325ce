----------------------------- MODULE McpClient ------------------------------
(***************************************************************************)
(* One MCP server as the registry's callers share it (internal/mcp): the   *)
(* client's reader/writer lock and its ready flag (client.go), the pipe to *)
(* the server process (transport.go) and CallTool's restart of a client    *)
(* that died (registry.go).  A caller makes one MCPRegistry.CallTool,      *)
(* or, as an agent's tool does (adapter.go), one MCPClient.CallTool, which *)
(* has no restart: which of the two it is stays open until an error.       *)
(* ListTools, GetPrompt and ReadResource take the lock the way Initialize  *)
(* and CallTool do and are left out, as are the payloads.                  *)
(***************************************************************************)
EXTENDS Naturals

CONSTANTS
  Callers,    \* goroutines in MCPRegistry.CallTool
  MaxDeaths   \* bound: server processes that exit on their own

NoOne == "no one"
Ghost == "abandoned"   \* a Send whose caller gave up: it still holds t.mu

ASSUME McpAssumption == NoOne \notin Callers /\ "lost" \notin Callers /\ MaxDeaths \in Nat

VARIABLES
  at,       \* where each caller is
  second,   \* callers in the retry after a restart
  on,       \* the transport generation a caller sends on
  writer,   \* who holds c.mu for writing; "lost" once nobody can release it
  ready,    \* c.ready
  conn,     \* c.transport: its generation and its process
  pipe,     \* who holds t.mu of the current transport
  mcpFault, \* "none", "fatal" (unlock of an unlocked lock), "panic" (nil)
  deaths,   \* bounded counter
  unready   \* history: what left the client not ready with its lock free

mcpVars == <<at, second, on, writer, ready, conn, pipe, mcpFault, deaths, unready>>

Places == {"outside", "rlock", "upgrade", "init", "queued", "await", "check",
           "restart", "reinit", "ok", "failed"}

McpInit ==
  /\ at = [p \in Callers |-> "outside"]
  /\ second = {} /\ on = [p \in Callers |-> 1]
  /\ writer = NoOne /\ ready = TRUE
  /\ conn = [gen |-> 1, process |-> "alive"] /\ pipe = NoOne
  /\ mcpFault = "none" /\ deaths = 0 /\ unready = {}

Up == mcpFault = "none"

Go(p, place) == at' = [at EXCEPT ![p] = place]

\* An error of client.CallTool: the registry looks whether the client is
\* alive the first time and gives up the second.
Error(p) == Go(p, IF p \in second THEN "failed" ELSE "check")

----------------------------------------------------------------------------
(* MCPClient.CallTool *)

Enter(p) ==
  /\ Up /\ at[p] = "outside" /\ Go(p, "rlock")
  /\ UNCHANGED <<second, on, writer, ready, conn, pipe, mcpFault, deaths, unready>>

\* RLock, the look at ready, RUnlock.
ReadReady(p) ==
  /\ Up /\ at[p] = "rlock" /\ writer = NoOne
  /\ IF ready THEN Go(p, "queued") /\ on' = [on EXCEPT ![p] = conn.gen]
     ELSE Go(p, "upgrade") /\ UNCHANGED on
  /\ UNCHANGED <<second, writer, ready, conn, pipe, mcpFault, deaths, unready>>

\* RUnlock by the goroutine that holds the lock for writing.  The runtime
\* stops the program, unless readers wait: then it only miscounts them, and
\* the write lock is never released.
WrongUnlock(p) ==
  /\ IF \E q \in Callers : at[q] = "rlock"
     THEN writer' = "lost" /\ UNCHANGED mcpFault
     ELSE writer' = writer /\ mcpFault' = "fatal"
  /\ Go(p, "queued") /\ on' = [on EXCEPT ![p] = conn.gen]

Upgrade(p) ==
  /\ Up /\ at[p] = "upgrade" /\ writer = NoOne
  /\ IF ready THEN WrongUnlock(p)
     ELSE writer' = p /\ Go(p, "init") /\ UNCHANGED <<on, mcpFault>>
  /\ UNCHANGED <<second, ready, conn, pipe, deaths, unready>>

\* initializeLocked: IsAlive and the initialize request, both behind t.mu.
\* A caller that gives up leaves its Send with t.mu held.
InitOutcomes == {"ok", "error", "gave up"}

Initialise(p, outcome) ==
  /\ pipe = NoOne /\ conn.process # "nil"
  /\ outcome \in InitOutcomes
  /\ outcome # "error" => conn.process = "alive"
  /\ pipe' = IF outcome = "gave up" THEN Ghost ELSE pipe

InitOk(p) ==
  /\ Up /\ at[p] = "init" /\ Initialise(p, "ok")
  /\ ready' = TRUE /\ WrongUnlock(p)
  /\ UNCHANGED <<second, conn, deaths, unready>>

InitFails(p) ==
  /\ Up /\ at[p] = "init" /\ \E o \in InitOutcomes \ {"ok"} : Initialise(p, o)
  /\ writer' = NoOne /\ Error(p)
  /\ UNCHANGED <<second, on, ready, conn, mcpFault, deaths, unready>>

\* A transport that could not be spawned is a nil *StdioTransport in a
\* non-nil interface: its first method call takes the lock of nothing.
UseNil(p) ==
  /\ Up /\ conn.process = "nil" /\ at[p] \in {"init", "queued", "check"}
  /\ at[p] = "queued" => on[p] = conn.gen
  /\ mcpFault' = "panic"
  /\ UNCHANGED <<at, second, on, writer, ready, conn, pipe, deaths, unready>>

\* SendWithContext: t.mu is held from the write to the end of the read.
Write(p) ==
  /\ Up /\ at[p] = "queued" /\ on[p] = conn.gen
  /\ conn.process = "alive" /\ pipe = NoOne
  /\ Go(p, "await") /\ pipe' = p
  /\ UNCHANGED <<second, on, writer, ready, conn, mcpFault, deaths, unready>>

\* The transport was closed or replaced, or its process is gone.
WriteFails(p) ==
  /\ Up /\ at[p] = "queued"
  /\ on[p] # conn.gen \/ (conn.process \in {"dead", "closed"} /\ pipe = NoOne)
  /\ Error(p)
  /\ UNCHANGED <<second, on, writer, ready, conn, pipe, mcpFault, deaths, unready>>

Reply(p) ==
  /\ Up /\ at[p] = "await"
  /\ \/ conn.process = "alive" /\ Go(p, "ok")
     \/ Error(p)
  /\ pipe' = NoOne
  /\ UNCHANGED <<second, on, writer, ready, conn, mcpFault, deaths, unready>>

GiveUp(p) ==
  /\ Up /\ at[p] \in {"queued", "await"} /\ Error(p)
  /\ pipe' = IF at[p] = "await" THEN Ghost ELSE pipe
  /\ UNCHANGED <<second, on, writer, ready, conn, mcpFault, deaths, unready>>

GhostEnds ==
  /\ Up /\ pipe = Ghost /\ pipe' = NoOne
  /\ UNCHANGED <<at, second, on, writer, ready, conn, mcpFault, deaths, unready>>

----------------------------------------------------------------------------
(* MCPRegistry.CallTool after an error, and MCPClient.Restart *)

\* IsAlive waits for t.mu too, and a process that has exited counts as alive
\* until Wait has collected it.
CheckAlive(p) ==
  /\ Up /\ at[p] = "check" /\ pipe = NoOne /\ conn.process # "nil"
  /\ \/ conn.process # "closed" /\ Go(p, "failed")
     \/ conn.process # "alive" /\ Go(p, "restart")
  /\ UNCHANGED <<second, on, writer, ready, conn, pipe, mcpFault, deaths, unready>>

\* MCPToolAdapter.Execute hands the error to the agent.
AdapterFails(p) ==
  /\ Up /\ at[p] = "check" /\ Go(p, "failed")
  /\ UNCHANGED <<second, on, writer, ready, conn, pipe, mcpFault, deaths, unready>>

\* Whatever the state of the client by now: a live transport is closed too.
Respawn(p) ==
  /\ Up /\ at[p] = "restart" /\ writer = NoOne
  /\ ready => pipe = NoOne
  /\ ready' = FALSE /\ pipe' = NoOne
  /\ \/ /\ writer' = p /\ Go(p, "reinit") /\ UNCHANGED unready
        /\ conn' = [gen |-> conn.gen + 1, process |-> "alive"]
     \/ /\ UNCHANGED writer /\ Go(p, "failed") /\ unready' = unready \union {"spawn"}
        /\ conn' = [gen |-> conn.gen + 1, process |-> "nil"]
  /\ UNCHANGED <<second, on, mcpFault, deaths>>

\* Mutant: a restarted client is not marked ready.
ReinitUnready(p) ==
  /\ Up /\ at[p] = "reinit" /\ Initialise(p, "ok")
  /\ writer' = NoOne
  /\ Go(p, "rlock") /\ second' = second \union {p}
  /\ UNCHANGED <<on, ready, conn, mcpFault, deaths, unready>>

ReinitOk(p) ==
  /\ Up /\ at[p] = "reinit" /\ Initialise(p, "ok")
  /\ ready' = TRUE /\ writer' = NoOne
  /\ Go(p, "rlock") /\ second' = second \union {p}
  /\ UNCHANGED <<on, conn, mcpFault, deaths, unready>>

ReinitFails(p) ==
  /\ Up /\ at[p] = "reinit" /\ \E o \in InitOutcomes \ {"ok"} : Initialise(p, o)
  /\ writer' = NoOne /\ Go(p, "failed") /\ unready' = unready \union {"initialise"}
  /\ UNCHANGED <<second, on, ready, conn, mcpFault, deaths>>

----------------------------------------------------------------------------
ProcessDies ==
  /\ Up /\ deaths < MaxDeaths /\ conn.process = "alive"
  /\ deaths' = deaths + 1 /\ conn' = [conn EXCEPT !.process = "dead"]
  /\ UNCHANGED <<at, second, on, writer, ready, pipe, mcpFault, unready>>

\* MCPClient.Close, from RemoveServer or CloseAll: a client that is not
\* ready keeps its process.
CloseClient ==
  /\ Up /\ writer = NoOne /\ ready /\ pipe = NoOne
  /\ ready' = FALSE /\ conn' = [conn EXCEPT !.process = "closed"]
  /\ unready' = unready \union {"close"}
  /\ UNCHANGED <<at, second, on, writer, pipe, mcpFault, deaths>>

McpNext ==
  \/ \E p \in Callers :
       \/ Enter(p) \/ ReadReady(p) \/ Upgrade(p) \/ InitOk(p) \/ InitFails(p)
       \/ UseNil(p) \/ Write(p) \/ WriteFails(p) \/ Reply(p) \/ GiveUp(p)
       \/ CheckAlive(p) \/ AdapterFails(p) \/ Respawn(p) \/ ReinitOk(p) \/ ReinitFails(p)
  \/ GhostEnds \/ ProcessDies \/ CloseClient

McpSpec == McpInit /\ [][McpNext]_mcpVars

----------------------------------------------------------------------------
McpTypeOK ==
  /\ at \in [Callers -> Places] /\ second \subseteq Callers
  /\ on \in [Callers -> Nat \ {0}]
  /\ writer \in Callers \union {NoOne, "lost"} /\ ready \in BOOLEAN
  /\ conn \in [gen: Nat \ {0}, process: {"alive", "dead", "closed", "nil"}]
  /\ pipe \in Callers \union {NoOne, Ghost}
  /\ mcpFault \in {"none", "fatal", "panic"}
  /\ deaths \in 0..MaxDeaths /\ unready \subseteq {"spawn", "initialise", "close"}

(* The lock upgrade of CallTool releases the wrong lock, and a failed       *)
(* spawn leaves a nil transport: the program dies, or the client's lock is  *)
(* lost for good, only once a Close or a restart that failed has left the   *)
(* client not ready.  Any number of callers, server deaths and restarts     *)
(* that succeed is safe, whatever calls time out in between.                *)
McpFaultsFollowAnUnreadyClient ==
  /\ mcpFault = "fatal" \/ writer = "lost" => unready # {}
  /\ mcpFault = "panic" => "spawn" \in unready

=============================================================================

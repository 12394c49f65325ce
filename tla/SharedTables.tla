---------------------------- MODULE SharedTables ----------------------------
(***************************************************************************)
(* Two tables that every agent of the process shares: the todo list        *)
(* (internal/tool/builtin/todo.go) and the background processes            *)
(* (internal/tool/builtin/process.go).  Both name their entries by small   *)
(* numbers that come back: ids start over when the list is cleared, pids   *)
(* when a process has ended.  An agent acts on numbers it was shown, or    *)
(* makes up.  Nothing outside the tests calls ResetTodoStore.              *)
(***************************************************************************)
EXTENDS Naturals, Sequences, FiniteSets, SequencesExt

CONSTANTS
  Agents,     \* agents that call the tools at the same time
  MaxAdded,   \* bound: items added
  MaxClears,  \* bound: clears of the list
  Programs,   \* commands started in the background
  Pids        \* process ids of the operating system

NoProgram == "none"
ASSUME TablesAssumption == NoProgram \notin Programs

VARIABLES
  table,      \* the table a behaviour is about
  items,      \* todoStore.items; "text" is unique to an addition
  nextID,
  storeLock,  \* "free", or "lost" with a call that ended while it held it
  clears,     \* history: how often the list was cleared
  added,      \* history: items added so far
  agent,      \* what an agent is at, and what it was shown last
  up,         \* the server runs
  procs,      \* procStore.procs
  pid,        \* the pid of a started program
  os,         \* its state in the operating system
  waiter,     \* the goroutine that waits for it
  killedPrograms      \* programs whose entry a kill took out

tableVars == <<table, items, nextID, storeLock, clears, added, agent, up, procs, pid, os,
               waiter, killedPrograms>>
todoVars == <<items, nextID, storeLock, clears, added, up>>
procVars == <<procs, pid, os, waiter, killedPrograms>>

Idle == [at |-> "idle", claim |-> 0, shown |-> {}, since |-> 0]

TableInit ==
  /\ table \in {"todo", "process"}
  /\ items = <<>> /\ nextID = 1 /\ storeLock = "free" /\ clears = 0 /\ added = 0
  /\ agent = [a \in Agents |-> Idle] /\ up = TRUE
  /\ procs = [n \in Pids |-> NoProgram] /\ pid = [p \in Programs |-> 0]
  /\ os = [p \in Programs |-> "none"] /\ waiter = [p \in Programs |-> "none"]
  /\ killedPrograms = {}

----------------------------------------------------------------------------
(* The todo tool.  A change and the list in its answer are two critical    *)
(* sections.                                                               *)

CanCall(a) == table = "todo" /\ up /\ storeLock = "free" /\ agent[a].at = "idle"
Answers(a, claim) == agent' = [agent EXCEPT ![a].at = "answer", ![a].claim = claim]
Numbered(id) == {i \in DOMAIN items : items[i].id = id}

AddTask(a) ==
  /\ CanCall(a) /\ added < MaxAdded
  /\ items' = Append(items, [id |-> nextID, text |-> added + 1, status |-> "pending"])
  /\ nextID' = nextID + 1 /\ added' = added + 1
  /\ Answers(a, 0)
  /\ UNCHANGED <<storeLock, clears, up>>

\* A number no item has is an error and changes nothing.
CompleteTask(a, id) ==
  /\ CanCall(a)
  /\ \E i \in Numbered(id) :
       /\ items' = [items EXCEPT ![i].status = "completed"]
       /\ Answers(a, items[i].text)
  /\ UNCHANGED <<nextID, storeLock, clears, added, up>>

\* Mutant: the number of the last item is given out again.
RemoveAndReuse(a, id) ==
  /\ CanCall(a) /\ items # <<>>
  /\ \E i \in Numbered(id) : items' = RemoveAt(items, i)
  /\ nextID' = id
  /\ Answers(a, 0)
  /\ UNCHANGED <<storeLock, clears, added, up>>

RemoveTask(a, id) ==
  /\ CanCall(a) /\ items # <<>>
  /\ \E i \in Numbered(id) : items' = RemoveAt(items, i)
  /\ Answers(a, 0)
  /\ UNCHANGED <<nextID, storeLock, clears, added, up>>

\* With no items the new list's capacity is -1: the call panics with the lock
\* held.  The HTTP server recovers in the goroutine of the request; anywhere
\* else the program ends.
RemoveFromNothing(a) ==
  /\ CanCall(a) /\ items = <<>>
  /\ \/ up' = FALSE /\ UNCHANGED storeLock
     \/ storeLock' = "lost" /\ UNCHANGED up
  /\ agent' = [agent EXCEPT ![a].at = "gone"]
  /\ UNCHANGED <<items, nextID, clears, added>>

ClearTasks(a) ==
  /\ CanCall(a) /\ clears < MaxClears
  /\ items' = <<>> /\ nextID' = 1 /\ clears' = clears + 1
  /\ Answers(a, 0)
  /\ UNCHANGED <<storeLock, added, up>>

ListTasks(a) == CanCall(a) /\ Answers(a, 0) /\ UNCHANGED todoVars

\* formatResult and snapshotTasks: the list as it is by now.
FormatResult(a) ==
  /\ table = "todo" /\ up /\ storeLock = "free" /\ agent[a].at = "answer"
  /\ agent' = [agent EXCEPT ![a] = [at |-> "idle", claim |-> 0, since |-> clears,
                 shown |-> {[id |-> x.id, what |-> x.text] : x \in Range(items)}]]
  /\ UNCHANGED todoVars

TodoStep(a) ==
  \/ AddTask(a) \/ ClearTasks(a) \/ ListTasks(a) \/ FormatResult(a)
  \/ RemoveFromNothing(a)
  \/ \E id \in 1..(nextID - 1) : CompleteTask(a, id) \/ RemoveTask(a, id)

----------------------------------------------------------------------------
(* The process tool. *)

Free(n) == \A p \in Programs : pid[p] = n => os[p] \in {"none", "reaped"}

StartProgram(p) ==
  /\ os[p] = "none"
  /\ \E n \in {n \in Pids : Free(n)} : pid' = [pid EXCEPT ![p] = n]
  /\ os' = [os EXCEPT ![p] = "running"]
  /\ UNCHANGED <<procs, waiter, killedPrograms, agent>>

\* The entry, and then the goroutine that waits.
StoreEntry(p) ==
  /\ os[p] # "none" /\ waiter[p] = "none"
  /\ procs' = [procs EXCEPT ![pid[p]] = p]
  /\ waiter' = [waiter EXCEPT ![p] = "waits"]
  /\ UNCHANGED <<pid, os, killedPrograms, agent>>

ProgramEnds(p) ==
  /\ os[p] = "running" /\ os' = [os EXCEPT ![p] = "ended"]
  /\ UNCHANGED <<procs, pid, waiter, killedPrograms, agent>>

\* Wait returns; the entry is kept half a minute for its output.
Reap(p) ==
  /\ os[p] = "ended" /\ waiter[p] = "waits"
  /\ os' = [os EXCEPT ![p] = "reaped"] /\ waiter' = [waiter EXCEPT ![p] = "sleeps"]
  /\ UNCHANGED <<procs, pid, killedPrograms, agent>>

\* Whatever the pid names by now.
Forget(p) ==
  /\ waiter[p] = "sleeps"
  /\ procs' = [procs EXCEPT ![pid[p]] = NoProgram]
  /\ waiter' = [waiter EXCEPT ![p] = "done"]
  /\ UNCHANGED <<pid, os, killedPrograms, agent>>

ListProcesses(a) ==
  /\ agent' = [agent EXCEPT ![a].shown =
       {[id |-> n, what |-> procs[n]] : n \in {n \in Pids : procs[n] # NoProgram}}]
  /\ agent' # agent
  /\ UNCHANGED procVars

\* The entry goes; the signal, sent after it, may be ignored.
KillProcess(n) ==
  /\ procs[n] # NoProgram
  /\ procs' = [procs EXCEPT ![n] = NoProgram]
  /\ killedPrograms' = killedPrograms \union {procs[n]}
  /\ UNCHANGED <<pid, os, waiter, agent>>

ProcessStep ==
  \/ \E p \in Programs :
       StartProgram(p) \/ StoreEntry(p) \/ ProgramEnds(p) \/ Reap(p) \/ Forget(p)
  \/ \E a \in Agents : ListProcesses(a)
  \/ \E n \in Pids : KillProcess(n)

TableNext ==
  \/ table = "todo" /\ (\E a \in Agents : TodoStep(a)) /\ UNCHANGED <<table, procVars>>
  \/ table = "process" /\ ProcessStep /\ UNCHANGED <<table, todoVars>>

TableSpec == TableInit /\ [][TableNext]_tableVars

----------------------------------------------------------------------------
TableTypeOK ==
  /\ storeLock \in {"free", "lost"} /\ up \in BOOLEAN /\ killedPrograms \subseteq Programs
  /\ \A i \in DOMAIN items : items[i].status \in {"pending", "completed"}
  /\ procs \in [Pids -> Programs \union {NoProgram}]

\* An id shown to an agent means another item only when the list was cleared
\* since, and a completed item that is still there stays completed.
IdsHold ==
  /\ \A i, j \in DOMAIN items : i < j => items[i].id < items[j].id /\ items[j].id < nextID
  /\ \A a \in Agents, x \in Range(items) :
       /\ [id |-> x.id, what |-> x.text] \in agent[a].shown
          \/ agent[a].since < clears \/ \A y \in agent[a].shown : y.id # x.id
       /\ agent[a].at = "answer" /\ agent[a].claim = x.text => x.status = "completed"

\* A pid shown to an agent means another program only when the first has ended.
\* One that runs is in the table unless it was killed, or an older one of its
\* pid was forgotten since; one that was forgotten is not.
PidsHold ==
  /\ \A a \in Agents : \A x \in agent[a].shown :
       procs[x.id] \in {x.what, NoProgram} \/ os[x.what] = "reaped"
  /\ \A p \in Programs : os[p] = "running" /\ waiter[p] # "none" =>
       \/ procs[pid[p]] = p \/ p \in killedPrograms
       \/ \E q \in Programs \ {p} : pid[q] = pid[p] /\ waiter[q] = "done"
  /\ \A p \in Programs : waiter[p] = "done" => procs[pid[p]] # p

(* The numbers by which agents name todo items and processes keep their    *)
(* meaning, but for the two ways they start over (todo.go:253,             *)
(* process.go:174); and a call that took the lock of the todo list with it *)
(* left an empty list behind: only a removal from nothing panics.          *)
NumbersKeepTheirMeaning ==
  /\ table = "todo" => IdsHold /\ (storeLock = "lost" \/ ~up => items = <<>>)
  /\ table = "process" => PidsHold

=============================================================================

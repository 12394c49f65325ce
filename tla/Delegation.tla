----------------------------- MODULE Delegation -----------------------------
(***************************************************************************)
(* The delegation tool (internal/tool/builtin/delegation.go) with its      *)
(* callback into the orchestrator (internal/orchestrator/delegation.go):   *)
(* agents spawn sub-agents, a few of which run at a time, and wait for one *)
(* or for all.  There is one tool and one table of tasks for the whole     *)
(* server, entries are never removed, and a sub-agent has the tool too.    *)
(* Task records are written by one goroutine and read by others without a  *)
(* lock, field by field.                                                   *)
(***************************************************************************)
EXTENDS Naturals, Sequences, FiniteSets

CONSTANTS
  Slots,      \* capacity of the semaphore: 3
  MaxSpawns   \* bound: tasks spawned

ASSUME DelegationAssumption == Slots \in Nat /\ MaxSpawns \in Nat

\* CallingAgents: that of the user's task, and the one of each spawned task.
MainAgent   == 0
Spawned == 1..MaxSpawns
CallingAgents == {MainAgent} \union Spawned

VARIABLES
  subs,   \* d.tasks in the order of their ids, with the state of each goroutine
  waits   \* what each agent's call of wait or wait_all is doing

delegVars == <<subs, waits>>

\* status and result are the fields of DelegateTask; outcome is what the
\* callback returned, before it is written; late: its 180 seconds are over.
NewSub == [at |-> "queued", status |-> "pending", outcome |-> "none", result |-> "empty",
           late |-> FALSE]

NoWait == [kind |-> "none", on |-> {}, timedOut |-> FALSE, seen |-> "empty", next |-> 0,
           marks |-> [t \in Spawned |-> "none"]]

DelegInit == subs = <<>> /\ waits = [a \in CallingAgents |-> NoWait]

Subs == DOMAIN subs
Holding == {t \in Subs : subs[t].at \in {"working", "settling"}}
TaskEnded(t) == subs[t].status \in {"completed", "failed"}

\* An agent that is not in a call of the tool may begin one.
FreeToCall(a) ==
  /\ a = MainAgent \/ (a \in Subs /\ subs[a].at = "working")
  /\ waits[a].kind \in {"none", "over"}

\* The time of the sub-agent runs from here, not from when it gets a slot.
SpawnTask(a) ==
  /\ FreeToCall(a) /\ Len(subs) < MaxSpawns
  /\ subs' = Append(subs, NewSub) /\ UNCHANGED waits

\* The goroutine waits for its slot whatever its context says.
AcquireSlot(t) ==
  /\ subs[t].at = "queued" /\ Cardinality(Holding) < Slots
  /\ subs' = [subs EXCEPT ![t].at = "working", ![t].status = "running"]
  /\ UNCHANGED waits

SubDeadline(t) ==
  /\ subs[t].at # "over" /\ ~subs[t].late
  /\ subs' = [subs EXCEPT ![t].late = TRUE] /\ UNCHANGED waits

\* The callback: explore, research and compare workers, or Execute.  It adds
\* a warning to a very short output.  The status is written first.
CallbackReturns(t) ==
  /\ subs[t].at = "working" /\ waits[t].kind \in {"none", "over"}
  /\ \E out \in {"good", "warned", "error"} :
       subs' = [subs EXCEPT ![t].at = "settling", ![t].outcome = out,
                            ![t].status = IF out = "error" THEN "failed" ELSE "completed"]
  /\ UNCHANGED waits

\* Then the result, or the error, and the deferred release of the slot.
SettleTask(t) ==
  /\ subs[t].at = "settling"
  /\ subs' = [subs EXCEPT ![t].at = "over", ![t].result = subs[t].outcome]
  /\ UNCHANGED waits

StartWait(a, k, on) == waits' = [waits EXCEPT ![a] = [NoWait EXCEPT !.kind = k, !.on = on]]

WaitOne(a) ==
  /\ FreeToCall(a) /\ \E t \in Subs : StartWait(a, "one", {t})
  /\ UNCHANGED subs

\* wait_all collects every task of the table, the caller's own among them.
WaitAll(a) ==
  /\ FreeToCall(a) /\ Subs # {} /\ StartWait(a, "all", Subs)
  /\ UNCHANGED subs

\* The poll of `wait' finds the task ended and reads its result.
OneEnds(a) ==
  /\ waits[a].kind = "one"
  /\ \E t \in waits[a].on :
       TaskEnded(t) /\ waits' = [waits EXCEPT ![a].kind = "over", ![a].seen = subs[t].result]
  /\ UNCHANGED subs

\* Mutant: a task that waits for a slot does not hold up wait_all.
AllDoneButQueued(on) == \A t \in on : subs[t].status # "running"

AllDone(on) == \A t \in on : subs[t].status \notin {"pending", "running"}

AllEnd(a) ==
  /\ waits[a].kind = "all" /\ AllDone(waits[a].on)
  /\ waits' = [waits EXCEPT ![a].kind = "summary"] /\ UNCHANGED subs

\* Three minutes, or the context of the agent that waits: a sub-agent's ends
\* first.  wait reports an error; wait_all sums up what there is or, when
\* the select sees the context first, reports an error.
WaitTimesOut(a) ==
  /\ waits[a].kind \in {"one", "all"}
  /\ a # MainAgent => subs[a].late
  /\ \E k \in IF waits[a].kind = "all" THEN {"summary", "over"} ELSE {"over"} :
       waits' = [waits EXCEPT ![a].kind = k, ![a].timedOut = TRUE]
  /\ UNCHANGED subs

\* buildSummary reads status and result of a task, and the result again.
ReadPreview(a) ==
  /\ waits[a].kind = "summary" /\ waits[a].next = 0
  /\ \E t \in {t \in waits[a].on : waits[a].marks[t] = "none"} :
       waits' = IF subs[t].status = "completed"
                THEN [waits EXCEPT ![a].next = t, ![a].seen = subs[t].result]
                ELSE [waits EXCEPT ![a].marks[t] =
                        IF subs[t].status = "failed" THEN "FAIL" ELSE "TIMEOUT"]
  /\ UNCHANGED subs

MarkTask(a) ==
  /\ waits[a].kind = "summary" /\ waits[a].next # 0
  /\ LET t == waits[a].next
         suspect == waits[a].seen = "warned" \/ subs[t].result = "empty"
     IN waits' = [waits EXCEPT ![a].next = 0, ![a].seen = "empty",
                               ![a].marks[t] = IF suspect THEN "SUSPECT" ELSE "PASS"]
  /\ UNCHANGED subs

SummaryDone(a) ==
  /\ waits[a].kind = "summary" /\ \A t \in waits[a].on : waits[a].marks[t] # "none"
  /\ waits' = [waits EXCEPT ![a].kind = "over"] /\ UNCHANGED subs

DelegNext ==
  \/ \E a \in CallingAgents :
       \/ SpawnTask(a) \/ WaitOne(a) \/ WaitAll(a) \/ OneEnds(a) \/ AllEnd(a) \/ WaitTimesOut(a)
       \/ ReadPreview(a) \/ MarkTask(a) \/ SummaryDone(a)
  \/ \E t \in Subs : AcquireSlot(t) \/ SubDeadline(t) \/ CallbackReturns(t) \/ SettleTask(t)

DelegSpec == DelegInit /\ [][DelegNext]_delegVars

----------------------------------------------------------------------------
SubOutcomes == {"good", "warned", "error"}

DelegTypeOK ==
  /\ subs \in Seq([at: {"queued", "working", "settling", "over"},
                   status: {"pending", "running", "completed", "failed"},
                   outcome: {"none"} \union SubOutcomes, result: {"empty"} \union SubOutcomes,
                   late: BOOLEAN])
  /\ Len(subs) <= MaxSpawns
  /\ waits \in [CallingAgents -> [kind: {"none", "one", "all", "summary", "over"}, on: SUBSET Spawned,
                           timedOut: BOOLEAN, seen: {"empty"} \union SubOutcomes,
                           next: 0..MaxSpawns,
                           marks: [Spawned -> {"none", "PASS", "SUSPECT", "FAIL", "TIMEOUT"}]]]

(* What a wait tells its agent.  A mark in the summary of wait_all agrees    *)
(* with what the sub-agent returned, except that a good result not written   *)
(* yet looks suspect, and a warned one written between the two reads passes; *)
(* a task is called timed out only if the wait was.  wait_all of a sub-agent *)
(* waits for the sub-agent itself, so that it never ends before that agent's *)
(* time is over.  Never do more than Slots sub-agents run, whoever spawned   *)
(* them.                                                                     *)
DelegationReportsAreTrue ==
  /\ Cardinality(Holding) <= Slots
  /\ \A a \in CallingAgents, t \in Subs :
       CASE waits[a].marks[t] \in {"PASS", "SUSPECT"} -> subs[t].outcome \in {"good", "warned"}
         [] waits[a].marks[t] = "FAIL" -> subs[t].outcome = "error"
         [] waits[a].marks[t] = "TIMEOUT" -> waits[a].timedOut
         [] OTHER -> TRUE
  /\ \A a \in Subs : a \in waits[a].on /\ waits[a].kind \in {"summary", "over"} =>
       subs[a].late /\ waits[a].marks[a] \in {"none", "TIMEOUT"}

=============================================================================

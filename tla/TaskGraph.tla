------------------------------ MODULE TaskGraph ------------------------------
(***************************************************************************)
(* What a dispatcher of a plan promises, without rounds, semaphores or     *)
(* locks: a step starts at most once, after every step it depends on has   *)
(* finished, with at most MaxParallel steps running; and the dispatcher    *)
(* stops only when nothing runs.                                           *)
(***************************************************************************)
EXTENDS Naturals, FiniteSets

CONSTANTS
  Plans,       \* plans: sequences of steps with an id and the ids in deps
  MaxParallel  \* how many steps may run at once

VARIABLES
  plan,        \* the plan
  running,     \* positions of the steps that run
  finished,    \* positions of the steps that ran
  closed       \* the dispatcher has stopped

graphVars == <<plan, running, finished, closed>>

Provided == {plan[i].id : i \in finished}

Init ==
  /\ plan \in Plans
  /\ running = {}
  /\ finished = {}
  /\ closed = FALSE

Start(i) ==
  /\ ~closed
  /\ i \notin running \cup finished
  /\ plan[i].deps \subseteq Provided
  /\ Cardinality(running) < MaxParallel
  /\ running' = running \cup {i}
  /\ UNCHANGED <<plan, finished, closed>>

Finish(i) ==
  /\ i \in running
  /\ running' = running \ {i}
  /\ finished' = finished \cup {i}
  /\ UNCHANGED <<plan, closed>>

Close ==
  /\ running = {}
  /\ closed' = TRUE
  /\ UNCHANGED <<plan, running, finished>>

Next ==
  \/ \E i \in DOMAIN plan : Start(i) \/ Finish(i)
  \/ Close

Spec == Init /\ [][Next]_graphVars
=============================================================================

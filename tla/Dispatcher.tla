------------------------------ MODULE Dispatcher ------------------------------
(***************************************************************************)
(* Agent.executeWorkers (internal/agent/orchestrated.go): the dispatcher   *)
(* runs the steps of a plan in rounds.  A round launches a goroutine for   *)
(* every step whose dependencies are done, at most MaxParallel at a time,  *)
(* and waits for all of them before it looks again.                        *)
(*                                                                         *)
(* A step is identified with its position in the plan: the ids come from   *)
(* the planner LLM and nothing checks that they differ, that a dependency  *)
(* exists, or that the dependencies have no cycle.                         *)
(*                                                                         *)
(* An action is a critical section of mu, a channel operation on sem, or   *)
(* the dispatcher's own code between two of them.                          *)
(***************************************************************************)
EXTENDS Integers, Sequences, FiniteSets

CONSTANTS
  Ids,         \* step ids of the instance
  Plans,       \* the plans the dispatcher may be handed
  MaxParallel, \* OrchestratorConfig.MaxParallel
  MaxStalls    \* maxConsecutiveStalls (3 in the code)

\* A step: its id, the ids it depends on, whether its tool hint is "skill",
\* and the kinds the keyword tests see in its description.
Kinds == {"setup", "file", "verify", "qa", "serve"}
Steps == [id : Ids, deps : SUBSET Ids, skill : BOOLEAN, kinds : SUBSET Kinds]

ASSUME DispatchAssumption ==
  /\ Plans \subseteq Seq(Steps)
  /\ MaxParallel \in Nat \ {0}
  /\ MaxStalls \in Nat \ {0}

VARIABLES
  plan,     \* the steps, in the planner's order
  done,     \* ids whose entry in the done map is true
  results,  \* the results map: an id, and what was recorded for it
  batch,    \* positions of the current round
  worker,   \* worker[i]: where the goroutine of step i is
  prior,    \* prior[i]: the results the worker of step i was given
  stalls,   \* consecutiveStalls
  pc,       \* where the dispatcher is
  outcome   \* how executeWorkers returned

dispatchVars == <<plan, done, results, batch, worker, prior, stalls, pc, outcome>>

WorkerPc == {"idle", "started", "working", "finished"}
DispatcherPc == {"select", "launch", "returned"}
Outcomes == {"none", "complete", "stuck", "tripped"}

Positions == DOMAIN plan

\* Of a worker's output: whose it is, whether isStalledResult takes it for no
\* progress, and whether extractQAFailure takes it for a failed check.
Results == [step : Nat, stalled : BOOLEAN, failed : BOOLEAN]

\* An error tag, a failed verification or no text at all is a stall; only a
\* step that runs a build or a review is read for a failed check.
IsCheck(step) == step.kinds \cap {"verify", "qa"} # {}
Outputs(i) ==
  {r \in [step : {i}, stalled : BOOLEAN, failed : BOOLEAN] :
     r.failed => IsCheck(plan[i])}

NoResults == [d \in {} |-> 0]

\* The state before the first round.
BeforeRounds ==
  /\ done = {}
  /\ results = NoResults
  /\ batch = {}
  /\ worker = [i \in DOMAIN plan |-> "idle"]
  /\ prior = [i \in DOMAIN plan |-> NoResults]
  /\ stalls = 0
  /\ pc = "select"
  /\ outcome = "none"

DispatchInit ==
  /\ plan \in Plans
  /\ BeforeRounds

-----------------------------------------------------------------------------
(* The dispatcher *)

\* Mutant: a dependency without progress does not count.
AllDepsDoneWell(i) == \A d \in plan[i].deps : d \in done /\ ~results[d].stalled

AllDepsDone(i) == plan[i].deps \subseteq done

\* Mutant: the done map is not asked about the step itself.
EligibleAgain == {i \in Positions : AllDepsDone(i)}

\* Not done, and all the dependencies are.
Eligible == {i \in Positions : plan[i].id \notin done /\ AllDepsDone(i)}

\* Mutant: the loop ends when every id is done.
MoreIdsToDo == \E i \in Positions : plan[i].id \notin done

\* len(done) < len(steps): the number of ids, not of steps, that are done.
MoreToDo == Cardinality(done) < Len(plan)

ReturnWith(o) ==
  /\ pc' = "returned"
  /\ outcome' = o

NextBatch ==
  /\ pc = "select"
  /\ MoreToDo
  /\ Eligible # {}
  /\ batch' = Eligible
  /\ pc' = "launch"
  /\ UNCHANGED <<plan, done, results, worker, prior, stalls, outcome>>

\* Mutant: the dispatcher looks again.
StuckRetries ==
  /\ pc = "select"
  /\ MoreToDo
  /\ Eligible = {}
  /\ UNCHANGED dispatchVars

\* "stuck - no eligible steps (possible cycle)".
Stuck ==
  /\ pc = "select"
  /\ MoreToDo
  /\ Eligible = {}
  /\ ReturnWith("stuck")
  /\ UNCHANGED <<plan, done, results, batch, worker, prior, stalls>>

Complete ==
  /\ pc = "select"
  /\ ~MoreToDo
  /\ ReturnWith("complete")
  /\ UNCHANGED <<plan, done, results, batch, worker, prior, stalls>>

Idle == {i \in batch : worker[i] = "idle"}
Busy == {i \in Positions : worker[i] \in {"started", "working"}}

\* Mutant: no slot is taken.
LaunchUnlimited(i) ==
  /\ pc = "launch"
  /\ i \in Idle
  /\ \A j \in Idle : i <= j
  /\ worker' = [worker EXCEPT ![i] = "started"]
  /\ UNCHANGED <<plan, done, results, batch, prior, stalls, pc, outcome>>

\* The dispatcher takes a slot of sem for the next step of the batch and starts
\* its goroutine.
Launch(i) ==
  /\ pc = "launch"
  /\ i \in Idle
  /\ \A j \in Idle : i <= j
  /\ Cardinality(Busy) < MaxParallel
  /\ worker' = [worker EXCEPT ![i] = "started"]
  /\ UNCHANGED <<plan, done, results, batch, prior, stalls, pc, outcome>>

Stalled(i) == results[plan[i].id].stalled

\* Mutant: the counter is local to the round.
StallsAtInRound(k) ==
  LET upTo == {j \in batch : j <= k} IN
  Cardinality({j \in upTo : \A m \in upTo : j <= m => Stalled(m)})

\* consecutiveStalls once the loop over the batch has passed step k.
StallsAt(k) ==
  LET upTo == {j \in batch : j <= k}
      streak == {j \in upTo : \A m \in upTo : j <= m => Stalled(m)}
  IN Cardinality(streak) + (IF streak = upTo THEN stalls ELSE 0)

\* Mutant: > for >=.
JoinLate ==
  /\ pc = "launch"
  /\ \A i \in batch : worker[i] = "finished"
  /\ \/ /\ \E k \in batch : StallsAt(k) > MaxStalls
        /\ ReturnWith("tripped")
        /\ UNCHANGED stalls
     \/ /\ \A k \in batch : StallsAt(k) <= MaxStalls
        /\ \E k \in batch : (\A j \in batch : j <= k) /\ stalls' = StallsAt(k)
        /\ pc' = "select"
        /\ UNCHANGED outcome
  /\ batch' = {}
  /\ UNCHANGED <<plan, done, results, worker, prior>>

\* g.Wait returns; then the circuit breaker counts the batch in plan order.
Join ==
  /\ pc = "launch"
  /\ \A i \in batch : worker[i] = "finished"
  /\ \/ /\ \E k \in batch : StallsAt(k) >= MaxStalls
        /\ ReturnWith("tripped")
        /\ UNCHANGED stalls
     \/ /\ \A k \in batch : StallsAt(k) < MaxStalls
        /\ \E k \in batch : (\A j \in batch : j <= k) /\ stalls' = StallsAt(k)
        /\ pc' = "select"
        /\ UNCHANGED outcome
  /\ batch' = {}
  /\ UNCHANGED <<plan, done, results, worker, prior>>

-----------------------------------------------------------------------------
(* The goroutine of a step *)

\* results and done get their entry in one critical section.  The slot of sem
\* is given back right after it.
Record(i, r) ==
  /\ results' = [d \in DOMAIN results \cup {plan[i].id} |->
                   IF d = plan[i].id THEN r ELSE results[d]]
  /\ done' = done \cup {plan[i].id}
  /\ worker' = [worker EXCEPT ![i] = "finished"]
  /\ UNCHANGED <<plan, batch, stalls, pc, outcome>>

\* The skill fast-path: a skill matches the task and its execution succeeds.
RunSkill(i) ==
  /\ worker[i] = "started"
  /\ plan[i].skill
  /\ \E r \in Outputs(i) : Record(i, r)
  /\ UNCHANGED prior

\* snapshotPrior, for every other step and for a skill step no skill served.
Snapshot(i) ==
  /\ worker[i] = "started"
  /\ prior' = [prior EXCEPT ![i] = [d \in plan[i].deps \cap DOMAIN results |-> results[d]]]
  /\ worker' = [worker EXCEPT ![i] = "working"]
  /\ UNCHANGED <<plan, done, results, batch, stalls, pc, outcome>>

\* The worker returns; an error of its own becomes a tagged result.
Finish(i) ==
  /\ worker[i] = "working"
  /\ \E r \in Outputs(i) : Record(i, r)
  /\ UNCHANGED prior

-----------------------------------------------------------------------------

DispatcherStep ==
  \/ NextBatch
  \/ Stuck
  \/ Complete
  \/ \E i \in Positions : Launch(i)
  \/ Join

WorkerStep(i) ==
  \/ RunSkill(i)
  \/ Snapshot(i)
  \/ Finish(i)

DispatchNext ==
  \/ DispatcherStep
  \/ \E i \in Positions : WorkerStep(i)

\* Something goes on while something can: a worker's LLM calls and tools have
\* timeouts and its loop a budget of iterations.  No fairness among the
\* goroutines is needed.
DispatchSpec == DispatchInit /\ [][DispatchNext]_dispatchVars

FairDispatchSpec == DispatchSpec /\ WF_dispatchVars(DispatchNext)

-----------------------------------------------------------------------------
(* Properties *)

\* The types of the variables.
DispatchTypeOK ==
  /\ plan \in Plans
  /\ done \subseteq Ids
  /\ DOMAIN results \subseteq Ids
  /\ \A d \in DOMAIN results : results[d] \in Results
  /\ batch \subseteq Positions
  /\ worker \in [Positions -> WorkerPc]
  /\ DOMAIN prior = Positions
  /\ \A i \in Positions : DOMAIN prior[i] \subseteq Ids
  /\ stalls \in 0 .. MaxStalls - 1
  /\ pc \in DispatcherPc
  /\ outcome \in Outcomes

\* A worker is given the result of every dependency of its step, and what it
\* was given is what the results map holds to the end of the dispatch: no later
\* step, not even one with the id of a dependency, overwrites it
\* (snapshotPrior, the two critical sections, g.Wait).
PriorsStayTrue ==
  \A i \in Positions : worker[i] = "working" \/ (worker[i] = "finished" /\ ~plan[i].skill) =>
    /\ DOMAIN prior[i] = plan[i].deps
    /\ \A d \in plan[i].deps : d \in DOMAIN results /\ prior[i][d] = results[d]

\* A plan can be run to its end: the ids differ, every dependency is the id of
\* a step, and every set of steps has one that needs none of the others.
WellFormed(p) ==
  /\ \A i, j \in DOMAIN p : p[i].id = p[j].id => i = j
  /\ \A i \in DOMAIN p : \A d \in p[i].deps : \E j \in DOMAIN p : p[j].id = d
  /\ \A S \in SUBSET DOMAIN p :
       S # {} => \E i \in S : \A j \in S : p[j].id \notin p[i].deps

\* The dispatcher reports "stuck" for none but a malformed plan, whatever the
\* workers return and in whatever order they finish.
StuckMeansMalformed == outcome = "stuck" => ~WellFormed(plan)

\* Without an error or a trip of the breaker every step has run, and the results
\* map has the answer of each: a second step with the same id would be missed.
CompleteMeansAll ==
  outcome = "complete" =>
    \A i \in Positions : /\ worker[i] = "finished"
                         /\ plan[i].id \in DOMAIN results
                         /\ results[plan[i].id].step = i

\* The breaker: "stop the task after this many stalled steps in a row".  Once
\* that many steps have run and none made progress, no round starts.
StalledTaskStops ==
  LET ran == {i \in Positions : worker[i] = "finished"} IN
  pc # "returned" /\ batch = {} /\ (\A i \in ran : Stalled(i)) =>
    Cardinality(ran) < MaxStalls

Graph == INSTANCE TaskGraph WITH
  running <- Busy,
  finished <- {i \in Positions : worker[i] = "finished"},
  closed <- pc = "returned"

\* The rounds implement the plan's graph: a step starts once, after its
\* dependencies, and at most MaxParallel run.
ImplementsGraph == Graph!Spec

\* executeWorkers returns, whatever plan the planner made up.
DispatchReturns == <>(pc = "returned")
=============================================================================

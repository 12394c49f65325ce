------------------------------- MODULE Pipeline -------------------------------
(***************************************************************************)
(* Agent.executeOrchestrated (internal/agent/orchestrated.go): plan, let   *)
(* the dispatcher of Dispatcher run the plan, repair the files while a     *)
(* check reports a failure, and compose the answer.                        *)
(*                                                                         *)
(* Outside the dispatcher one goroutine runs, so each phase is one action. *)
(* executeWorkers returns its results map and keeps nothing: from then on  *)
(* the map is called report here, which the fix-passes change.             *)
(***************************************************************************)
EXTENDS Dispatcher, PlanSteps

CONSTANTS
  Drafts,      \* what the planner may answer: steps, and if to serve the result
  MaxSteps,    \* OrchestratorConfig.MaxSteps
  MaxFixPasses \* maxFixPasses (2 in the code)

ASSUME PipelineAssumption ==
  /\ MaxSteps \in Nat \ {0}
  /\ MaxFixPasses \in Nat
  /\ Drafts \subseteq [steps: Seq(Steps), serve: BOOLEAN]
  /\ Plans = {PlanTask(d, MaxSteps) : d \in Drafts}

VARIABLES
  draft,     \* the planner's answer
  stage,     \* the phase: plan, dispatch, fix, synthesize, returned
  report,    \* the results map after executeWorkers returned
  fixPasses, \* how many fix-passes were made
  rerun,     \* positions whose worker a fix-pass ran
  trigger,   \* position of the check whose failure started the last fix-pass
  claim,     \* "QA re-verified, no errors" was announced
  answer     \* how the answer of the task came about

pipelineVars == <<draft, stage, report, fixPasses, rerun, trigger, claim, answer>>
vars == <<dispatchVars, pipelineVars>>

Init ==
  /\ draft \in Drafts
  /\ plan = PlanTask(draft, MaxSteps)
  /\ BeforeRounds
  /\ stage = "plan"
  /\ report = NoResults
  /\ fixPasses = 0
  /\ rerun = {}
  /\ trigger = 0
  /\ claim = FALSE
  /\ answer = "none"

-----------------------------------------------------------------------------

ReturnAnswer(a) ==
  /\ stage' = "returned"
  /\ answer' = a

\* The ways out before the dispatch: a [PLAN ONLY] task, a planner that failed
\* or whose text is taken for the answer, and no steps, for the ReAct loop.
AnswerWithoutPlan ==
  /\ stage = "plan"
  /\ \/ \E a \in {"planText", "plannerError", "salvaged"} : ReturnAnswer(a)
     \/ plan = <<>> /\ ReturnAnswer("react")
  /\ UNCHANGED <<dispatchVars, draft, report, fixPasses, rerun, trigger, claim>>

StartDispatch ==
  /\ stage = "plan"
  /\ plan # <<>>
  /\ stage' = "dispatch"
  /\ UNCHANGED <<dispatchVars, draft, report, fixPasses, rerun, trigger, claim, answer>>

Dispatch ==
  /\ stage = "dispatch"
  /\ DispatchNext
  /\ UNCHANGED pipelineVars

\* executeWorkers returned, with an error or without: the pipeline goes on with
\* the results there are.
TakeResults ==
  /\ stage = "dispatch"
  /\ pc = "returned"
  /\ report' = results
  /\ stage' = "fix"
  /\ UNCHANGED <<dispatchVars, draft, fixPasses, rerun, trigger, claim, answer>>

-----------------------------------------------------------------------------
(* The fix-passes *)

\* extractQAFailure: the first of these steps speaks.
FailedChecks(map) ==
  {i \in Positions : /\ IsCheck(plan[i])
                     /\ plan[i].id \in DOMAIN map
                     /\ map[plan[i].id].failed}

FileSteps == {i \in Positions : "file" \in plan[i].kinds}

\* Mutant: the map of the redone steps replaces the results.
MergedOnly(map, out) ==
  LET position(d) == Max({i \in DOMAIN out : plan[i].id = d}) IN
  [d \in {plan[i].id : i \in DOMAIN out} |-> out[position(d)]]

\* The results of a fix-pass over those before it; of two steps with the same
\* id the later one counts.
Merged(map, out) ==
  LET redone == {plan[i].id : i \in DOMAIN out}
      position(d) == Max({i \in DOMAIN out : plan[i].id = d})
  IN [d \in DOMAIN map \cup redone |-> IF d \in redone THEN out[position(d)] ELSE map[d]]

\* redoFileCreationSteps: the worker of every file step is run again, one after
\* another, whether or not it ran before; one that fails leaves its old result.
Redone ==
  UNION {{out \in [redone -> UNION {Outputs(i) : i \in redone}] :
            \A i \in redone : out[i].step = i} : redone \in SUBSET FileSteps}

\* Mutant: the loop has no limit of passes.
FixPassAgain ==
  /\ stage = "fix"
  /\ \E i \in FailedChecks(report) :
       /\ \A j \in FailedChecks(report) : i <= j
       /\ trigger' = i
  /\ fixPasses' = (fixPasses + 1) % (MaxFixPasses + 1)
  /\ rerun' = rerun \cup FileSteps
  /\ \E out \in Redone : report' = Merged(report, out)
  /\ UNCHANGED <<dispatchVars, draft, answer, claim, stage>>

\* A failure that remains ends the loop if its signature is the same as before
\* (and not empty), which the text decides.
FixPass ==
  /\ stage = "fix"
  /\ fixPasses < MaxFixPasses
  /\ \E i \in FailedChecks(report) :
       /\ \A j \in FailedChecks(report) : i <= j
       /\ trigger' = i
  /\ fixPasses' = fixPasses + 1
  /\ rerun' = rerun \cup FileSteps
  /\ \E out \in Redone :
       /\ report' = Merged(report, out)
       /\ \/ /\ FailedChecks(report') = {}
             /\ claim' = TRUE
             /\ stage' = "synthesize"
          \/ /\ FailedChecks(report') # {}
             /\ stage' \in {"fix", "synthesize"}
             /\ UNCHANGED claim
  /\ UNCHANGED <<dispatchVars, draft, answer>>

\* No check failed, or no pass is left.
EndFixing ==
  /\ stage = "fix"
  /\ FailedChecks(report) = {} \/ fixPasses = MaxFixPasses
  /\ stage' = "synthesize"
  /\ UNCHANGED <<dispatchVars, draft, report, fixPasses, rerun, trigger, claim, answer>>

\* The synthesizer's text, or the results one after another if it failed.
Synthesize ==
  /\ stage = "synthesize"
  /\ \E a \in {"synthesized", "concatenated"} : ReturnAnswer(a)
  /\ UNCHANGED <<dispatchVars, draft, report, fixPasses, rerun, trigger, claim>>

-----------------------------------------------------------------------------

Next ==
  \/ AnswerWithoutPlan
  \/ StartDispatch
  \/ Dispatch
  \/ TakeResults
  \/ FixPass
  \/ EndFixing
  \/ Synthesize

\* LLM calls and workers end, see Dispatcher.
Spec == Init /\ [][Next]_vars /\ WF_vars(Next)

-----------------------------------------------------------------------------
(* Properties *)

DistinctIds == \A i, j \in Positions : plan[i].id = plan[j].id => i = j

Drafted == Capped(draft.steps, MaxSteps)
SetupInjected == AnyStepMatches(Drafted, "file") /\ ~AnyStepMatches(Drafted, "setup")
DraftEnd == Len(Drafted) + (IF SetupInjected THEN 1 ELSE 0)

\* "SETUP runs first and VERIFY last": whatever ids and dependencies the planner
\* made up, no step starts before an injected SETUP has finished, and an
\* injected step starts only when there is a result for every step before it
\* (ensureSDLCSteps with executeWorkers).
InjectedStepsFrameThePlan ==
  \A i \in Positions : worker[i] # "idle" =>
    /\ SetupInjected /\ i # 1 => worker[1] = "finished"
    /\ i > DraftEnd => \A j \in 1 .. i - 1 : plan[j].id \in done

\* "QA re-verified, no errors" is announced only if no check is left with a
\* failure and the check that failed was run again: a rewritten file alone does
\* not pass for a repaired build, as long as the planner numbered its steps.
FixClaimIsEarned ==
  claim /\ DistinctIds => FailedChecks(report) = {} /\ trigger \in rerun

\* The answer is composed when no worker runs, from a result for every step
\* that ran: neither a stuck plan, nor the breaker, nor a fix-pass drops one.
AnswerHasEveryResult ==
  stage \in {"synthesize", "returned"} =>
    \A i \in Positions :
      /\ worker[i] \in {"idle", "finished"}
      /\ worker[i] = "finished" => plan[i].id \in DOMAIN report

\* Every task gets an answer, with at most MaxFixPasses fix-passes on the way.
PipelineReturns == <>(stage = "returned")

\* The comments of the fix-pass loop: "re-invoke the file-creation worker(s) with
\* those errors as context, then re-run QA".
FailedCheckIsRerun == fixPasses > 0 => trigger \in rerun

\* The comment of the circuit breaker: "stop the task instead of churning through
\* the rest of the plan".
TrippedTaskStops ==
  outcome = "tripped" => \A i \in rerun : worker[i] = "finished"
=============================================================================

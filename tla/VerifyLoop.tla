----------------------------- MODULE VerifyLoop -----------------------------
(***************************************************************************)
(* Orchestrator.executeWithRetry (internal/orchestrator/hitl.go): the      *)
(* retry loop around a role agent for a task with a VERIFY directive, with *)
(* the hub of HitlHub as its HITL hook.  Several tasks run at once, each   *)
(* in its own goroutine; they meet in the hub only.                        *)
(*                                                                         *)
(* An attempt (compose the prompt, run the agent, run the command, decide) *)
(* touches nothing another goroutine reads, so it is one action.           *)
(***************************************************************************)
EXTENDS HitlHub

CONSTANT MaxRetries  \* the largest HITLConfig.MaxRetries of the instance

ASSUME LoopAssumption == MaxRetries \in Nat

VARIABLES
  hitlCfg,   \* HITLConfig: set before the first Execute, then read-only
  directive, \* directive[t]: the task text has a VERIFY line
  phase,     \* phase[t]: where the goroutine of t is
  attempt,   \* attempt[t]: the loop variable
  runs,      \* runs[t]: the kind of prompt of every agent run, in order
  hint,      \* hint[t]: the hint to inject, None before there is one
  lessons,   \* lessons[t]: the rows RecordLesson stored for t
  result     \* result[t]: what executeWithRetry returned

loopVars == <<hitlCfg, directive, phase, attempt, runs, hint, lessons, result>>
vars == <<hubVars, loopVars>>

Phases == {"idle", "attempt", "ask", "asking", "returned"}
Prompts == {"pristine", "previous", "hint"}
Results == {"none", "success", "agentError", "unavailable", "hookError",
            "exhausted", "verifyFailed"}
Lessons == [failure : Nat, hint : Sessions]

\* hintInjected is true from the moment there is a hint.
HintInjected(t) == hint[t] # None

PreHITLAttempts == hitlCfg.maxRetries + 1
\* Mutant: the extra attempt is granted with no hook to ask.
TotalAttemptsNoHook == PreHITLAttempts + 1

TotalAttempts == IF hitlCfg.hook THEN PreHITLAttempts + 1 ELSE PreHITLAttempts

Init ==
  /\ HubInit
  /\ hitlCfg \in [maxRetries : 0 .. MaxRetries, hook : BOOLEAN]
  /\ directive \in [Tasks -> BOOLEAN]
  /\ phase = [t \in Tasks |-> "idle"]
  /\ attempt = [t \in Tasks |-> 1]
  /\ runs = [t \in Tasks |-> <<>>]
  /\ hint = [t \in Tasks |-> None]
  /\ lessons = [t \in Tasks |-> {}]
  /\ result = [t \in Tasks |-> "none"]

-----------------------------------------------------------------------------

Return(t, r) ==
  /\ phase' = [phase EXCEPT ![t] = "returned"]
  /\ result' = [result EXCEPT ![t] = r]

\* The fast path: no directive, one agent call.
SingleShot(t) ==
  /\ phase[t] = "idle"
  /\ ~directive[t]
  /\ runs' = [runs EXCEPT ![t] = <<"pristine">>]
  /\ \E r \in {"success", "agentError"} : Return(t, r)
  /\ UNCHANGED <<hubVars, hitlCfg, directive, attempt, hint, lessons>>

Begin(t) ==
  /\ phase[t] = "idle"
  /\ directive[t]
  /\ phase' = [phase EXCEPT ![t] = "attempt"]
  /\ UNCHANGED <<hubVars, hitlCfg, directive, attempt, runs, hint, lessons, result>>

\* Mutant: a retry without a hint repeats the prompt as written.
PromptForgets(t) == IF HintInjected(t) THEN "hint" ELSE "pristine"

Prompt(t) ==
  IF attempt[t] = 1 THEN "pristine"
  ELSE IF HintInjected(t) THEN "hint" ELSE "previous"

\* The lesson quotes attempts[0], the summary of the first attempt.
LessonOf(t) == [failure |-> 1, hint |-> hint[t]]

\* Mutant: every success is recorded as a lesson.
PassesAlwaysTeach(t) ==
  /\ Return(t, "success")
  /\ lessons' = [lessons EXCEPT ![t] = @ \cup {LessonOf(t)}]
  /\ UNCHANGED attempt

\* The command passed.  Recording the lesson may fail; the task succeeds anyway.
Passes(t) ==
  /\ Return(t, "success")
  /\ \/ /\ HintInjected(t)
        /\ lessons' = [lessons EXCEPT ![t] = @ \cup {LessonOf(t)}]
     \/ UNCHANGED lessons
  /\ UNCHANGED attempt

\* Mutant: any failure asks.
AsksForHelpEarly(t) == ~HintInjected(t) /\ hitlCfg.hook

AsksForHelp(t) ==
  /\ ~HintInjected(t)
  /\ attempt[t] = PreHITLAttempts
  /\ hitlCfg.hook

\* The command failed: ask for help, give up, or go round the loop.
Fails(t) ==
  /\ UNCHANGED lessons
  /\ \/ /\ AsksForHelp(t)
        /\ phase' = [phase EXCEPT ![t] = "ask"]
        /\ UNCHANGED <<attempt, result>>
     \/ /\ ~AsksForHelp(t)
        /\ attempt[t] = TotalAttempts
        /\ Return(t, IF HintInjected(t) THEN "exhausted" ELSE "verifyFailed")
        /\ UNCHANGED attempt
     \/ /\ ~AsksForHelp(t)
        /\ attempt[t] # TotalAttempts
        /\ attempt' = [attempt EXCEPT ![t] = @ + 1]
        /\ UNCHANGED <<phase, result>>

\* One iteration: the agent runs (an error of its own is not fatal), then the
\* VERIFY command, whose exit code decides.
Attempt(t) ==
  /\ phase[t] = "attempt"
  /\ runs' = [runs EXCEPT ![t] = Append(@, Prompt(t))]
  /\ Passes(t) \/ Fails(t)
  /\ UNCHANGED <<hubVars, hitlCfg, directive, hint>>

\* hook.RequestHelp is called ...
AskHelp(t) ==
  /\ phase[t] = "ask"
  /\ Register(t)
  /\ phase' = [phase EXCEPT ![t] = "asking"]
  /\ UNCHANGED <<hitlCfg, directive, attempt, runs, hint, lessons, result>>

\* Mutant: every error of the hook is reported as a missing operator.
HelpReturnsUnavailable(t) ==
  /\ phase[t] = "asking"
  /\ help[t] = "returned"
  /\ \/ /\ outcome[t] = "hint"
        /\ hint' = [hint EXCEPT ![t] = answer[t]]
        /\ attempt' = [attempt EXCEPT ![t] = @ + 1]
        /\ phase' = [phase EXCEPT ![t] = "attempt"]
        /\ UNCHANGED result
     \/ /\ outcome[t] # "hint"
        /\ Return(t, "unavailable")
        /\ UNCHANGED <<hint, attempt>>
  /\ UNCHANGED <<hubVars, hitlCfg, directive, runs, lessons>>

\* ... and returns: a hint goes into the next attempt, an error ends the loop.
HelpReturns(t) ==
  /\ phase[t] = "asking"
  /\ help[t] = "returned"
  /\ \/ /\ outcome[t] = "hint"
        /\ hint' = [hint EXCEPT ![t] = answer[t]]
        /\ attempt' = [attempt EXCEPT ![t] = @ + 1]
        /\ phase' = [phase EXCEPT ![t] = "attempt"]
        /\ UNCHANGED result
     \/ /\ outcome[t] = "noSubscriber"
        /\ Return(t, "unavailable")
        /\ UNCHANGED <<hint, attempt>>
     \/ /\ outcome[t] = "noHint"
        /\ Return(t, "hookError")
        /\ UNCHANGED <<hint, attempt>>
  /\ UNCHANGED <<hubVars, hitlCfg, directive, runs, lessons>>

\* The hub's own goroutines.
HubStep(t) == HelpStep(t) /\ UNCHANGED loopVars
Operate(s) == OperatorStep(s) /\ UNCHANGED loopVars

Next ==
  \/ \E t \in Tasks : \/ SingleShot(t)
                      \/ Begin(t)
                      \/ Attempt(t)
                      \/ AskHelp(t)
                      \/ HubStep(t)
                      \/ HelpReturns(t)
  \/ \E s \in Sessions : Operate(s)

\* A goroutine that can run does: the agent returns (its LLM calls and its
\* loop are bounded), the command ends (bash is killed after 60 s, and no child
\* keeps its output open longer), and the hub's timer fires.  Nothing is assumed
\* of the operators.
TaskFairness(t) ==
  /\ WF_vars(Attempt(t))
  /\ WF_vars(AskHelp(t))
  /\ WF_vars(HubStep(t))
  /\ WF_vars(HelpReturns(t))

Spec == Init /\ [][Next]_vars /\ \A t \in Tasks : TaskFairness(t)

-----------------------------------------------------------------------------
(* Properties *)

\* The types of the hub's and of the loop's variables.
TypeOK ==
  /\ HubTypeOK
  /\ hitlCfg \in [maxRetries : 0 .. MaxRetries, hook : BOOLEAN]
  /\ directive \in [Tasks -> BOOLEAN]
  /\ phase \in [Tasks -> Phases]
  /\ attempt \in [Tasks -> Nat]
  /\ runs \in [Tasks -> Seq(Prompts)]
  /\ hint \in [Tasks -> Sessions \cup {None}]
  /\ lessons \in [Tasks -> SUBSET Lessons]
  /\ result \in [Tasks -> Results]

\* The retry budget of executeWithRetry's comment, across both modules: an
\* attempt beyond the N + 1 ordinary ones exists only for a task whose help
\* call returned a hint the hub accepted from an operator, and there is one.
BudgetIsKept ==
  \A t \in Tasks : Len(runs[t]) > PreHITLAttempts =>
    /\ Len(runs[t]) = PreHITLAttempts + 1
    /\ outcome[t] = "hint"
    /\ answer[t] \in Accepted(t)

\* An operator is bothered only about a task that used up its ordinary
\* attempts: no request for another task reaches a queue, a desk or a waiter.
HelpOnlyWhenStuck ==
  \A t \in Tasks :
    help[t] # "idle" =>
      /\ hitlCfg.hook /\ directive[t]
      /\ Len(runs[t]) >= PreHITLAttempts
      /\ result[t] = "success" => Len(runs[t]) = PreHITLAttempts + 1

\* The agent sees the task as written first, then the last failure, and the
\* hint in the last attempt only.
PromptsFollowProtocol ==
  \A t \in Tasks : \A i \in 1 .. Len(runs[t]) :
    runs[t][i] = IF i = 1 THEN "pristine"
                 ELSE IF i > PreHITLAttempts THEN "hint" ELSE "previous"

\* A lesson is stored only for a task that succeeded in the attempt that had
\* the hint, and it credits the hint the hub gave to this task.
LessonsAreEarned ==
  \A t \in Tasks : \A l \in lessons[t] :
    /\ result[t] = "success"
    /\ runs[t][Len(runs[t])] = "hint"
    /\ l.hint = answer[t] /\ l.hint \in Accepted(t)

\* The error a task returns tells what happened in the hub: "unavailable" only
\* if no operator was ever shown the task, "hookError" only if the hub gave up
\* on operators it had asked, "exhausted" only after a hint, and a plain
\* verify failure only without a hook.
ResultMatchesHub ==
  \A t \in Tasks :
    /\ result[t] = "unavailable" =>
         \A s \in Sessions : verdict[t][s] = "none" /\ submit[s] # t
    /\ result[t] = "hookError" => answer[t] = None /\ Len(runs[t]) = PreHITLAttempts
    /\ result[t] = "exhausted" => answer[t] # None /\ Len(runs[t]) = TotalAttempts
    /\ result[t] = "verifyFailed" => help[t] = "idle" /\ Len(runs[t]) = TotalAttempts

\* Every task that started returns, whatever the operators do: none of them
\* has to answer, read its stream, or stay connected.
EveryTaskReturns ==
  \A t \in Tasks : phase[t] # "idle" ~> phase[t] = "returned"

\* What the comments of DeliverHint and SubmitHint say of "accepted": the hint
\* goes to the waiting agent, and accepted is false when no agent waits.
AcceptedHintReachesAgent ==
  \A t \in Tasks : help[t] = "returned" => Accepted(t) \subseteq {answer[t]}
=============================================================================

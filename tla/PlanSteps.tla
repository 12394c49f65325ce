------------------------------ MODULE PlanSteps ------------------------------
(***************************************************************************)
(* What planTask (internal/agent/orchestrated.go) does to the steps the    *)
(* planner LLM answered with: the cap, then ensureSDLCSteps, which puts a  *)
(* SETUP step before and VERIFY, QA and SERVE steps after the steps of a   *)
(* plan that creates files.                                                *)
(*                                                                         *)
(* Of a description the code only ever asks which keyword lists it         *)
(* matches: its kinds.  "file" is isFileCreationStep, the others are       *)
(* setupKeywords, verifyKeywords, qaKeywords and serveKeywords.  The kinds *)
(* of an injected step are those its own text matches: the QA text names   *)
(* the build, the tests and a file, and so passes for a file-creation step.*)
(***************************************************************************)
EXTENDS Integers, Sequences, FiniteSetsExt

IdsOf(steps) == {steps[i].id : i \in DOMAIN steps}

AnyStepMatches(steps, kind) == \E i \in DOMAIN steps : kind \in steps[i].kinds

NextStepID(steps) == Max(IdsOf(steps) \cup {0}) + 1

\* The sentinel: no planner id is negative.
SetupID == -1

SetupStep == [id |-> SetupID, deps |-> {}, skill |-> FALSE, kinds |-> {"setup"}]

\* Every step waits for SETUP.
WithSetup(steps) ==
  IF AnyStepMatches(steps, "setup") THEN steps
  ELSE <<SetupStep>> \o
       [i \in DOMAIN steps |-> [steps[i] EXCEPT !.deps = @ \cup {SetupID}]]

\* Mutant: the id of an appended step is the number of the steps.
WithLastCounted(steps, kind, kinds) ==
  IF AnyStepMatches(steps, kind) THEN steps
  ELSE Append(steps, [id |-> Len(steps), deps |-> IdsOf(steps) \ {Len(steps)},
                      skill |-> FALSE, kinds |-> kinds])

\* A step that waits for all the others.
WithLast(steps, kind, kinds) ==
  IF AnyStepMatches(steps, kind) THEN steps
  ELSE Append(steps, [id |-> NextStepID(steps), deps |-> IdsOf(steps),
                      skill |-> FALSE, kinds |-> kinds])

EnsureSDLCSteps(steps, isServeTask) ==
  IF ~AnyStepMatches(steps, "file") THEN steps
  ELSE LET verified == WithLast(WithSetup(steps), "verify", {"verify"})
           reviewed == WithLast(verified, "qa", {"qa", "verify", "file"})
       IN IF isServeTask THEN WithLast(reviewed, "serve", {"serve"}) ELSE reviewed

Capped(steps, maxSteps) == SubSeq(steps, 1, IF Len(steps) < maxSteps THEN Len(steps) ELSE maxSteps)

\* A draft is what the planner answered and whether the task asks for a preview.
PlanTask(draft, maxSteps) ==
  EnsureSDLCSteps(Capped(draft.steps, maxSteps), draft.serve)
=============================================================================

------------------------------ MODULE Thinking ------------------------------
(***************************************************************************)
(* The thinking strategy of an agent (internal/agent/thinking.go): the     *)
(* driver executeWithThinking and its states Assess, Plan, Execute,        *)
(* Verify, Reflect and Done.  One driver iteration is one action.  What    *)
(* the model answers is chosen freely; the wording of prompts, plans and   *)
(* messages is left out, so the search-budget nudge, which only picks a    *)
(* prompt, does not appear.                                                *)
(***************************************************************************)
EXTENDS Naturals, Sequences, FiniteSets

CONSTANTS
  Calls,            \* hashes of (tool, arguments): hashToolCall
  ToolBudget,       \* loopState.toolBudget
  MaxReflections,   \* loopState.maxReflections
  MaxReplans,       \* loopState.maxReplans
  MaxTransitions    \* maxThoughtTransitions()

ASSUME ThinkingAssumption ==
  /\ ToolBudget \in Nat /\ MaxReflections \in Nat /\ MaxReplans \in Nat
  /\ MaxTransitions \in Nat

MaxParseNudgesInARow == 2

VARIABLES
  loopAt,       \* currentState of the driver
  ls,           \* loopState: counters, call history, the answer so far
  turns,        \* driver iterations begun (iter)
  nudgesInARow, \* parseNudgesInARow
  nudges,       \* history: all parse nudges of the run
  loopError,    \* lastError # nil
  outcome       \* what executeWithThinking returned, NoOutcome before

thinkVars == <<loopAt, ls, turns, nudgesInARow, nudges, loopError, outcome>>

LoopStates == {"Assess", "Plan", "Execute", "Verify", "Reflect", "Done"}

\* loopState.finalContent.  "rejected" is an answer Verify turned down: the
\* code keeps the text where it was, the label records the verdict.
Contents == {"none", "answer", "rejected", "terminated", "exhausted",
             "clarify", "narrative", "ended"}

Outcomes ==
  [content: Contents, resultError: BOOLEAN, returnsError: BOOLEAN, success: BOOLEAN]
NoOutcome ==
  [content |-> "none", resultError |-> FALSE, returnsError |-> FALSE, success |-> FALSE]

LoopRecords ==
  [used: Nat, recent: Seq(Calls), unique: SUBSET Calls, failed: BOOLEAN,
   loopBreak: BOOLEAN, reflections: Nat, replans: Nat, content: Contents,
   evidence: BOOLEAN]

NewLoopState ==
  [used |-> 0, recent |-> <<>>, unique |-> {}, failed |-> FALSE,
   loopBreak |-> FALSE, reflections |-> 0, replans |-> 0,
   content |-> "none", evidence |-> FALSE]

ThinkInit ==
  /\ loopAt = "Assess"
  /\ ls = NewLoopState
  /\ turns = 0 /\ nudgesInARow = 0 /\ nudges = 0
  /\ loopError = FALSE
  /\ outcome = NoOutcome

----------------------------------------------------------------------------
(* Signals executeStep computes before it asks the model. *)

\* recentCallHashes keeps the last four calls.
LastFour(s) == IF Len(s) > 4 THEN SubSeq(s, Len(s) - 3, Len(s)) ELSE s

RecordToolCall(l, c) ==
  [l EXCEPT !.used = @ + 1, !.recent = LastFour(Append(@, c)),
            !.unique = @ \union {c}]

Looping == \E i, j \in DOMAIN ls.recent : i < j /\ ls.recent[i] = ls.recent[j]

BudgetExhausted == ls.used >= ToolBudget

\* used >= 0.75 * budget and unique / used < 0.5
NearExhausted ==
  ls.used > 0 /\ 4 * ls.used >= 3 * ToolBudget /\ 2 * Cardinality(ls.unique) < ls.used

CanReflect == ls.reflections < MaxReflections
CanReplan  == ls.replans < MaxReplans

\* A first loop without a failed tool gets a nudge instead of a reflection.
BreaksLoop == Looping /\ ~ls.loopBreak /\ ~ls.failed /\ ~NearExhausted

Escalates == ~BudgetExhausted /\ ~BreaksLoop /\ (Looping \/ NearExhausted)

AsksModel ==
  \/ loopAt \in {"Assess", "Plan"}
  \/ loopAt = "Execute" /\ ~BudgetExhausted /\ ~Escalates
  \/ loopAt = "Reflect" /\ CanReflect

\* The loop state when the model is asked: the nudge is spent by then.
Asked ==
  [ls EXCEPT !.loopBreak = @ \/ (loopAt = "Execute" /\ BreaksLoop)]

----------------------------------------------------------------------------
(* The driver. *)

Running == loopAt # "Done" /\ ~loopError /\ turns < MaxTransitions

\* A turn that ended without an error: the next state, and no nudge pending.
Advance(to, l) ==
  /\ Running
  /\ loopAt' = to /\ ls' = l
  /\ turns' = turns + 1 /\ nudgesInARow' = 0
  /\ UNCHANGED <<nudges, loopError, outcome>>

\* A simple task answered with confidence skips the plan.
Assess ==
  /\ loopAt = "Assess"
  /\ \E to \in {"Execute", "Plan"} : Advance(to, ls)

Plan == loopAt = "Plan" /\ Advance("Execute", ls)

\* runToolCall: a failed call goes to Reflect, a good one back to Execute.
RunToolCall(l) ==
  \E c \in Calls :
    \/ Advance("Execute", RecordToolCall(l, c))
    \/ Advance("Reflect", [RecordToolCall(l, c) EXCEPT !.failed = TRUE])

ExecuteBudget ==
  loopAt = "Execute" /\ BudgetExhausted
    /\ Advance("Done", [ls EXCEPT !.content = "terminated"])

\* The failure recorded carries the tool name "execute", which
\* hasToolExecutionFailure counts as a tool that failed.
ExecuteEscalate ==
  loopAt = "Execute" /\ Escalates /\ Advance("Reflect", [ls EXCEPT !.failed = TRUE])

ExecuteTool == loopAt = "Execute" /\ AsksModel /\ RunToolCall(Asked)

ExecuteAnswer ==
  /\ loopAt = "Execute" /\ AsksModel
  /\ \E text \in {"answer", "none"}, evidence \in BOOLEAN :
       Advance("Verify", [Asked EXCEPT !.content = text, !.evidence = evidence])

ExecuteAskUser ==
  loopAt = "Execute" /\ AsksModel
    /\ Advance("Done", [Asked EXCEPT !.content = "clarify"])

\* replan, an unknown action, or a tool_call without its call.
ExecuteGiveUp ==
  loopAt = "Execute" /\ AsksModel /\ Advance("Reflect", Asked)

VerifyAccept ==
  /\ loopAt = "Verify"
  /\ ls.evidence \/ ls.used = 0 \/ ~ls.failed
  /\ Advance("Done", ls)

VerifyReject ==
  /\ loopAt = "Verify"
  /\ ~ls.evidence /\ ls.used > 0 /\ ls.failed
  /\ Advance("Reflect",
             [ls EXCEPT !.content = IF @ = "answer" THEN "rejected" ELSE @])

ReflectExhausted ==
  loopAt = "Reflect" /\ ~CanReflect
    /\ Advance("Done", [ls EXCEPT !.content = "exhausted"])

Reflected == [ls EXCEPT !.reflections = @ + 1]

\* replan, or an action the loop does not know.
ReflectReplan ==
  /\ loopAt = "Reflect" /\ CanReflect
  /\ IF CanReplan THEN Advance("Plan", [Reflected EXCEPT !.replans = @ + 1])
     ELSE Advance("Done", [Reflected EXCEPT !.content = "exhausted"])

\* Mutant: a tool call out of a reflection does not count the reflection.
ReflectToolFree == loopAt = "Reflect" /\ CanReflect /\ RunToolCall(ls)

\* runToolCall again, this time with no look at the tool budget.
ReflectTool == loopAt = "Reflect" /\ CanReflect /\ RunToolCall(Reflected)

ReflectAnswer ==
  /\ loopAt = "Reflect" /\ CanReflect
  /\ \E text \in {"answer", "none"} :
       Advance("Done", [Reflected EXCEPT !.content = text])

\* A tool_call without its call ends the run with whatever content there is.
ReflectMalformed ==
  loopAt = "Reflect" /\ CanReflect /\ Advance("Done", Reflected)

\* Mutant: a text that does not parse is always nudged.
ParseNudgeAlways ==
  /\ Running /\ AsksModel
  /\ ls' = Asked /\ turns' = turns + 1
  /\ nudgesInARow' = nudgesInARow + 1 /\ nudges' = nudges + 1
  /\ UNCHANGED <<loopAt, loopError, outcome>>

\* The model's text is not a Thought: the same state is tried again.
ParseNudge ==
  /\ Running /\ AsksModel /\ nudgesInARow < MaxParseNudgesInARow
  /\ ls' = Asked /\ turns' = turns + 1
  /\ nudgesInARow' = nudgesInARow + 1 /\ nudges' = nudges + 1
  /\ UNCHANGED <<loopAt, loopError, outcome>>

\* The third text in a row that does not parse: one turn of plain prose,
\* whose failure ends the run.
Narrate ==
  /\ Running /\ AsksModel /\ nudgesInARow = MaxParseNudgesInARow
  /\ turns' = turns + 1
  /\ \/ loopAt' = "Done" /\ ls' = [Asked EXCEPT !.content = "narrative"] /\ loopError' = FALSE
     \/ loopAt' = loopAt /\ ls' = Asked /\ loopError' = TRUE
  /\ UNCHANGED <<nudgesInARow, nudges, outcome>>

TransportError ==
  /\ Running /\ AsksModel
  /\ ls' = Asked /\ turns' = turns + 1 /\ loopError' = TRUE
  /\ UNCHANGED <<loopAt, nudgesInARow, nudges, outcome>>

\* What the caller gets once the loop is over: content, result.Error, and the
\* error return, which is nil whenever there is content.
Compose ==
  /\ ~Running /\ outcome = NoOutcome
  /\ LET final == IF ls.content = "none" /\ ~loopError THEN "ended" ELSE ls.content
     IN  outcome' = [content |-> final, resultError |-> loopError,
                     returnsError |-> loopError /\ final = "none",
                     success |-> final # "none" /\ ~loopError]
  /\ UNCHANGED <<loopAt, ls, turns, nudgesInARow, nudges, loopError>>

ThinkTurn ==
  \/ Assess \/ Plan
  \/ ExecuteBudget \/ ExecuteEscalate \/ ExecuteTool \/ ExecuteAnswer
  \/ ExecuteAskUser \/ ExecuteGiveUp
  \/ VerifyAccept \/ VerifyReject
  \/ ReflectExhausted \/ ReflectReplan \/ ReflectTool \/ ReflectAnswer
  \/ ReflectMalformed
  \/ ParseNudge \/ Narrate \/ TransportError

ThinkNext == ThinkTurn \/ Compose

\* The driver runs in the caller's goroutine and every model call it waits
\* for returns or fails by its own timeout.
ThinkFair == WF_thinkVars(ThinkNext)

ThinkSpec == ThinkInit /\ [][ThinkNext]_thinkVars /\ ThinkFair

----------------------------------------------------------------------------
ThinkTypeOK ==
  /\ loopAt \in LoopStates
  /\ ls \in LoopRecords
  /\ turns \in Nat /\ nudges \in Nat
  /\ nudgesInARow \in 0..MaxParseNudgesInARow
  /\ loopError \in BOOLEAN
  /\ outcome \in Outcomes

\* Turns the loop may have taken beyond those the counters account for.
Slack ==
  CASE loopAt = "Assess" -> 0 [] loopAt = "Plan" -> 1 [] loopAt = "Execute" -> 2
    [] loopAt = "Verify" -> 3 [] loopAt = "Reflect" -> 4 [] OTHER -> 5

(* The counters pay for every turn but the parse nudges: tool calls exceed  *)
(* the budget only by one per reflection (reflectStep runs its call without *)
(* a look at the budget), and every other turn is a call, a replan, one of  *)
(* a reflection's three, or within the slack.  So with the default budgets  *)
(* (15 calls, 3 reflections, 2 replans) a run that is never nudged takes at *)
(* most 18 + 2 + 9 + 5 + 1 = 35 turns and the ceiling of 50 does not end    *)
(* it.  A model that does not parse adds at most two nudges before each     *)
(* other turn, up to 105: there the ceiling is what ends the run.           *)
ThinkingBounded ==
  /\ ls.reflections <= MaxReflections /\ ls.replans <= MaxReplans
  /\ ls.used <= ToolBudget + ls.reflections
  /\ turns <= nudges + ls.used + ls.replans + 3 * ls.reflections + Slack + (IF loopError THEN 1 ELSE 0)
  /\ 3 * nudges <= 2 * turns + nudgesInARow

=============================================================================

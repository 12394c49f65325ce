---------------------------- MODULE AgentProofs -----------------------------
(***************************************************************************)
(* One agent at work: the thinking loop keeps to its budgets, the loop of  *)
(* tool calls shows the model a conversation that makes sense, a worker    *)
(* tags its findings, and the end of a task leaves on disk what the task   *)
(* made. Each part is a component of its own.                              *)
(***************************************************************************)
EXTENDS Thinking, React, Worker, TaskRun, FiniteSetTheorems, SequenceTheorems,
        WellFoundedInduction, TLAPS

-----------------------------------------------------------------------------
(* Thinking: a turn moves the loop to a state with more slack, or pays     *)
(* with a tool call, a replan or a reflection.                             *)

ThinkInv == ThinkTypeOK /\ ThinkingBounded

\* Slack as a function of the state.
SlackOf(s) ==
  CASE s = "Assess" -> 0 [] s = "Plan" -> 1 [] s = "Execute" -> 2
    [] s = "Verify" -> 3 [] s = "Reflect" -> 4 [] OTHER -> 5

\* What the counters of a loop state pay for.
Paid(l) == l.used + l.replans + 3 * l.reflections

\* The limits that the counters of a loop state keep.
Within(l) ==
  /\ l.reflections <= MaxReflections /\ l.replans <= MaxReplans
  /\ l.used <= ToolBudget + l.reflections

-----------------------------------------------------------------------------

LEMMA SlackRange == \A s : SlackOf(s) \in 0..5
BY DEF SlackOf

LEMMA SlackByState == Slack = SlackOf(loopAt)
BY DEF Slack, SlackOf

LEMMA LastFourKept ==
  ASSUME NEW s \in Seq(Calls)
  PROVE  LastFour(s) \in Seq(Calls)
BY DEF LastFour

LEMMA RecordTyped ==
  ASSUME NEW l \in LoopRecords, NEW c \in Calls
  PROVE  /\ RecordToolCall(l, c) \in LoopRecords
         /\ RecordToolCall(l, c).used = l.used + 1
         /\ RecordToolCall(l, c).reflections = l.reflections
         /\ RecordToolCall(l, c).replans = l.replans
<1>1. l.used + 1 \in Nat /\ l.unique \union {c} \in SUBSET Calls
  BY DEF LoopRecords
<1>2. Append(l.recent, c) \in Seq(Calls)
  BY DEF LoopRecords
<1>3. LastFour(Append(l.recent, c)) \in Seq(Calls)
  BY <1>2, LastFourKept
<1>4. QED BY <1>1, <1>3 DEF LoopRecords, RecordToolCall

LEMMA AskedTyped ==
  ASSUME ls \in LoopRecords
  PROVE  /\ Asked \in LoopRecords
         /\ Asked.used = ls.used /\ Asked.reflections = ls.reflections
         /\ Asked.replans = ls.replans
<1>1. (ls.loopBreak \/ (loopAt = "Execute" /\ BreaksLoop)) \in BOOLEAN
  OBVIOUS
<1>2. QED BY <1>1 DEF Asked, LoopRecords

LEMMA ReflectedTyped ==
  ASSUME ls \in LoopRecords
  PROVE  /\ Reflected \in LoopRecords
         /\ Reflected.used = ls.used /\ Reflected.replans = ls.replans
         /\ Reflected.reflections = ls.reflections + 1
BY DEF Reflected, LoopRecords

\* A turn that pays for itself keeps the invariant.
LEMMA AdvanceKeeps ==
  ASSUME ThinkInv, NEW to \in LoopStates, NEW l \in LoopRecords, Advance(to, l), Within(l),
         Paid(ls) + SlackOf(loopAt) + 1 <= Paid(l) + SlackOf(to)
  PROVE  ThinkInv'
<1>1. /\ ls \in LoopRecords /\ turns \in Nat /\ nudges \in Nat
      /\ nudgesInARow \in 0..2 /\ loopError = FALSE
  BY DEF ThinkInv, ThinkTypeOK, Advance, Running, MaxParseNudgesInARow
<1>2. /\ loopAt' = to /\ ls' = l /\ turns' = turns + 1 /\ nudgesInARow' = 0
      /\ nudges' = nudges /\ loopError' = loopError /\ outcome' = outcome
  BY DEF Advance
<1>3. ThinkTypeOK'
  BY <1>1, <1>2 DEF ThinkInv, ThinkTypeOK, MaxParseNudgesInARow
<1>4. /\ Paid(ls) \in Nat /\ Paid(l) \in Nat /\ SlackOf(loopAt) \in Nat /\ SlackOf(to) \in Nat
      /\ Paid(l) = l.used + l.replans + 3 * l.reflections
  <2>1. SlackOf(loopAt) \in 0..5 /\ SlackOf(to) \in 0..5
    BY SlackRange
  <2>2. /\ l.used \in Nat /\ l.replans \in Nat /\ l.reflections \in Nat
        /\ ls.used \in Nat /\ ls.replans \in Nat /\ ls.reflections \in Nat
    BY <1>1 DEF LoopRecords
  <2>3. Paid(ls) \in Nat /\ Paid(l) \in Nat
    BY <2>2 DEF Paid
  <2>4. QED BY <2>1, <2>3 DEF Paid
<1>5. turns <= nudges + Paid(ls) + SlackOf(loopAt)
  <2>1. turns <= nudges + ls.used + ls.replans + 3 * ls.reflections + Slack
                 + (IF loopError THEN 1 ELSE 0)
    BY DEF ThinkInv, ThinkingBounded
  <2>2. ls.used \in Nat /\ ls.replans \in Nat /\ ls.reflections \in Nat
    BY <1>1 DEF LoopRecords
  <2>3. Paid(ls) = ls.used + ls.replans + 3 * ls.reflections
    BY DEF Paid
  <2>4. Slack \in Nat
    BY <1>4, SlackByState
  <2>5. turns <= nudges + ls.used + ls.replans + 3 * ls.reflections + Slack
    BY <1>1, <2>1, <2>2, <2>4
  <2>6. QED BY <1>1, <1>4, <2>2, <2>3, <2>5, SlackByState
<1>6. turns' <= nudges' + Paid(l) + SlackOf(to)
  BY <1>1, <1>2, <1>4, <1>5
<1>7. Slack' = SlackOf(to)
  BY <1>2 DEF Slack, SlackOf
<1>8. 3 * nudges' <= 2 * turns' + nudgesInARow'
  BY <1>1, <1>2 DEF ThinkInv, ThinkingBounded
<1>9. turns' <= nudges' + ls'.used + ls'.replans + 3 * ls'.reflections + Slack'
                + (IF loopError' THEN 1 ELSE 0)
  <2>1. loopError' = FALSE
    BY <1>1, <1>2
  <2>2. l.used \in Nat /\ l.replans \in Nat /\ l.reflections \in Nat
    BY DEF LoopRecords
  <2>3. QED BY <1>1, <1>2, <1>4, <1>6, <1>7, <2>1, <2>2
<1>10. QED BY <1>2, <1>3, <1>8, <1>9 DEF ThinkInv, ThinkingBounded, Within

\* A call of a tool pays for itself, out of Execute and out of Reflect.
LEMMA ToolCallKeeps ==
  ASSUME ThinkInv, NEW l \in LoopRecords, RunToolCall(l),
         l.reflections <= MaxReflections, l.replans <= MaxReplans,
         l.used + 1 <= ToolBudget + l.reflections,
         Paid(ls) + SlackOf(loopAt) <= Paid(l) + 2
  PROVE  ThinkInv'
<1>1. PICK c \in Calls :
        \/ Advance("Execute", RecordToolCall(l, c))
        \/ Advance("Reflect", [RecordToolCall(l, c) EXCEPT !.failed = TRUE])
  BY DEF RunToolCall
<1> DEFINE called == RecordToolCall(l, c)
           broken == [called EXCEPT !.failed = TRUE]
<1>2. /\ called \in LoopRecords /\ called.used = l.used + 1
      /\ called.reflections = l.reflections /\ called.replans = l.replans
  BY RecordTyped
<1>3. /\ broken \in LoopRecords /\ broken.used = called.used
      /\ broken.reflections = called.reflections /\ broken.replans = called.replans
  BY <1>2 DEF LoopRecords
<1>4. /\ l.used \in Nat /\ l.replans \in Nat /\ l.reflections \in Nat
      /\ ls.used \in Nat /\ ls.replans \in Nat /\ ls.reflections \in Nat
      /\ SlackOf(loopAt) \in 0..5
  BY SlackRange DEF LoopRecords, ThinkInv, ThinkTypeOK
<1>5. Within(called) /\ Within(broken)
  BY <1>2, <1>3 DEF Within
<1>6. Paid(called) = Paid(l) + 1 /\ Paid(broken) = Paid(l) + 1
  BY <1>2, <1>3, <1>4 DEF Paid
<1>7. SlackOf("Execute") = 2 /\ SlackOf("Reflect") = 4
  BY DEF SlackOf
<1>8. Paid(ls) \in Nat /\ Paid(l) \in Nat
  BY <1>4 DEF Paid
<1>9. CASE Advance("Execute", called)
  <2>1. Paid(ls) + SlackOf(loopAt) + 1 <= Paid(called) + SlackOf("Execute")
    BY <1>4, <1>6, <1>7, <1>8
  <2>2. QED BY <1>2, <1>5, <1>9, <2>1, AdvanceKeeps DEF LoopStates
<1>10. CASE Advance("Reflect", broken)
  <2>1. Paid(ls) + SlackOf(loopAt) + 1 <= Paid(broken) + SlackOf("Reflect")
    BY <1>4, <1>6, <1>7, <1>8
  <2>2. QED BY <1>3, <1>5, <1>10, <2>1, AdvanceKeeps DEF LoopStates
<1>11. QED BY <1>1, <1>9, <1>10

\* A turn that leaves the counters alone and moves on pays with slack.
LEMMA MoveKeeps ==
  ASSUME ThinkInv, NEW to \in LoopStates, NEW l \in LoopRecords, Advance(to, l),
         l.used = ls.used, l.reflections = ls.reflections, l.replans = ls.replans,
         SlackOf(loopAt) < SlackOf(to)
  PROVE  ThinkInv'
<1>1. Within(l)
  BY DEF Within, ThinkInv, ThinkingBounded
<1>2. Paid(l) = Paid(ls)
  BY DEF Paid
<1>3. Paid(ls) \in Nat /\ SlackOf(loopAt) \in Nat /\ SlackOf(to) \in Nat
  BY SlackRange DEF Paid, LoopRecords, ThinkInv, ThinkTypeOK
<1>4. Paid(ls) + SlackOf(loopAt) + 1 <= Paid(l) + SlackOf(to)
  BY <1>2, <1>3
<1>5. QED BY <1>1, <1>4, AdvanceKeeps

\* The turns of Assess, Plan, Execute and Verify that call no tool.
LEMMA PlainTurnKeeps ==
  ASSUME ThinkInv,
         \/ Assess \/ Plan \/ ExecuteBudget \/ ExecuteEscalate \/ ExecuteAnswer
         \/ ExecuteAskUser \/ ExecuteGiveUp \/ VerifyAccept \/ VerifyReject
  PROVE  ThinkInv'
<1> USE SlackRange
<1>1. ls \in LoopRecords
  BY DEF ThinkInv, ThinkTypeOK
<1>2. /\ Asked \in LoopRecords /\ Asked.used = ls.used
      /\ Asked.reflections = ls.reflections /\ Asked.replans = ls.replans
  BY <1>1, AskedTyped
<1>3. CASE Assess
  <2>1. PICK to \in {"Execute", "Plan"} : Advance(to, ls)
    BY <1>3 DEF Assess
  <2>2. SlackOf(loopAt) < SlackOf(to)
    BY <1>3, <2>1 DEF Assess, SlackOf
  <2>3. QED BY <1>1, <2>1, <2>2, MoveKeeps DEF LoopStates
<1>4. CASE Plan
  <2>1. SlackOf(loopAt) < SlackOf("Execute")
    BY <1>4 DEF Plan, SlackOf
  <2>2. QED BY <1>1, <1>4, <2>1, MoveKeeps DEF Plan, LoopStates
<1>5. CASE ExecuteBudget
  <2> DEFINE l == [ls EXCEPT !.content = "terminated"]
  <2>1. /\ l \in LoopRecords /\ l.used = ls.used
        /\ l.reflections = ls.reflections /\ l.replans = ls.replans
    BY <1>1 DEF LoopRecords, Contents
  <2>2. SlackOf(loopAt) < SlackOf("Done")
    BY <1>5 DEF ExecuteBudget, SlackOf
  <2>3. Advance("Done", l)
    BY <1>5 DEF ExecuteBudget
  <2>4. QED BY <2>1, <2>2, <2>3, MoveKeeps DEF LoopStates
<1>6. CASE ExecuteEscalate
  <2> DEFINE l == [ls EXCEPT !.failed = TRUE]
  <2>1. /\ l \in LoopRecords /\ l.used = ls.used
        /\ l.reflections = ls.reflections /\ l.replans = ls.replans
    BY <1>1 DEF LoopRecords
  <2>2. SlackOf(loopAt) < SlackOf("Reflect")
    BY <1>6 DEF ExecuteEscalate, SlackOf
  <2>3. Advance("Reflect", l)
    BY <1>6 DEF ExecuteEscalate
  <2>4. QED BY <2>1, <2>2, <2>3, MoveKeeps DEF LoopStates
<1>7. CASE ExecuteAnswer
  <2>0. loopAt = "Execute"
    BY <1>7, Zenon DEF ExecuteAnswer
  <2>1. SlackOf(loopAt) < SlackOf("Verify")
    BY <2>0 DEF SlackOf
  <2>2. PICK text \in {"answer", "none"}, evidence \in BOOLEAN :
          Advance("Verify", [Asked EXCEPT !.content = text, !.evidence = evidence])
    BY <1>7 DEF ExecuteAnswer
  <2> DEFINE l == [Asked EXCEPT !.content = text, !.evidence = evidence]
  <2>3. /\ l \in LoopRecords /\ l.used = ls.used
        /\ l.reflections = ls.reflections /\ l.replans = ls.replans
    BY <1>2 DEF LoopRecords, Contents
  <2>4. QED BY <2>1, <2>2, <2>3, MoveKeeps DEF LoopStates
<1>8. CASE ExecuteAskUser
  <2> DEFINE l == [Asked EXCEPT !.content = "clarify"]
  <2>1. /\ l \in LoopRecords /\ l.used = ls.used
        /\ l.reflections = ls.reflections /\ l.replans = ls.replans
    BY <1>2 DEF LoopRecords, Contents
  <2>2. SlackOf(loopAt) < SlackOf("Done")
    BY <1>8 DEF ExecuteAskUser, SlackOf
  <2>3. Advance("Done", l)
    BY <1>8 DEF ExecuteAskUser
  <2>4. QED BY <2>1, <2>2, <2>3, MoveKeeps DEF LoopStates
<1>9. CASE ExecuteGiveUp
  <2>1. SlackOf(loopAt) < SlackOf("Reflect")
    BY <1>9 DEF ExecuteGiveUp, SlackOf
  <2>2. QED BY <1>2, <1>9, <2>1, MoveKeeps DEF ExecuteGiveUp, LoopStates
<1>10. CASE VerifyAccept
  <2>1. SlackOf(loopAt) < SlackOf("Done")
    BY <1>10 DEF VerifyAccept, SlackOf
  <2>2. QED BY <1>1, <1>10, <2>1, MoveKeeps DEF VerifyAccept, LoopStates
<1>11. CASE VerifyReject
  <2> DEFINE l == [ls EXCEPT !.content = IF @ = "answer" THEN "rejected" ELSE @]
  <2>1. (IF ls.content = "answer" THEN "rejected" ELSE ls.content) \in Contents
    BY <1>1 DEF LoopRecords, Contents
  <2>2. /\ l \in LoopRecords /\ l.used = ls.used
        /\ l.reflections = ls.reflections /\ l.replans = ls.replans
    BY <1>1, <2>1 DEF LoopRecords
  <2>3. SlackOf(loopAt) < SlackOf("Reflect")
    BY <1>11 DEF VerifyReject, SlackOf
  <2>4. Advance("Reflect", l)
    BY <1>11 DEF VerifyReject
  <2>5. QED BY <2>2, <2>3, <2>4, MoveKeeps DEF LoopStates
<1>12. QED BY <1>3, <1>4, <1>5, <1>6, <1>7, <1>8, <1>9, <1>10, <1>11

\* The turns of Reflect: each pays with a reflection and perhaps more.
LEMMA ReflectKeeps ==
  ASSUME ThinkInv,
         ReflectExhausted \/ ReflectReplan \/ ReflectTool \/ ReflectAnswer \/ ReflectMalformed
  PROVE  ThinkInv'
<1>1. ls \in LoopRecords /\ MaxReflections \in Nat /\ MaxReplans \in Nat /\ ToolBudget \in Nat
  BY ThinkingAssumption DEF ThinkInv, ThinkTypeOK
<1>2. loopAt = "Reflect"
  BY DEF ReflectExhausted, ReflectReplan, ReflectTool, ReflectAnswer, ReflectMalformed
<1>3. /\ SlackOf(loopAt) = 4 /\ SlackOf("Done") = 5 /\ SlackOf("Plan") = 1
  BY <1>2 DEF SlackOf
<1>4. /\ Reflected \in LoopRecords
      /\ Reflected.used = ls.used /\ Reflected.replans = ls.replans
      /\ Reflected.reflections = ls.reflections + 1
  BY <1>1, ReflectedTyped
<1>5. /\ ls.used \in Nat /\ ls.replans \in Nat /\ ls.reflections \in Nat
  BY <1>1 DEF LoopRecords
<1>6. /\ ls.reflections <= MaxReflections /\ ls.replans <= MaxReplans
      /\ ls.used <= ToolBudget + ls.reflections
  BY DEF ThinkInv, ThinkingBounded
<1>7. Paid(ls) \in Nat /\ Paid(Reflected) = Paid(ls) + 3
  <2>1. Paid(ls) = ls.used + ls.replans + 3 * ls.reflections
    BY DEF Paid
  <2>2. Paid(Reflected) = Reflected.used + Reflected.replans + 3 * Reflected.reflections
    BY DEF Paid
  <2>3. QED BY <1>4, <1>5, <2>1, <2>2
<1>8. ASSUME CanReflect
      PROVE  /\ Within(Reflected)
             /\ Paid(ls) + SlackOf(loopAt) + 1 <= Paid(Reflected) + SlackOf("Done")
  <2>1. ls.reflections < MaxReflections
    BY <1>8 DEF CanReflect
  <2>2. Within(Reflected)
    BY <1>1, <1>4, <1>5, <1>6, <2>1 DEF Within
  <2>3. QED BY <1>3, <1>7, <2>2
<1>9. ASSUME CanReflect, NEW text \in Contents, Advance("Done", [Reflected EXCEPT !.content = text])
      PROVE  ThinkInv'
  <2> DEFINE l == [Reflected EXCEPT !.content = text]
  <2>1. /\ l \in LoopRecords /\ l.used = Reflected.used
        /\ l.reflections = Reflected.reflections /\ l.replans = Reflected.replans
    BY <1>4 DEF LoopRecords
  <2>2. Within(l) /\ Paid(l) = Paid(Reflected)
    BY <1>8, <1>9, <2>1 DEF Within, Paid
  <2>3. QED BY <1>8, <1>9, <2>1, <2>2, AdvanceKeeps DEF LoopStates
<1>10. CASE ReflectExhausted
  <2> DEFINE l == [ls EXCEPT !.content = "exhausted"]
  <2>1. /\ l \in LoopRecords /\ l.used = ls.used
        /\ l.reflections = ls.reflections /\ l.replans = ls.replans
    BY <1>1 DEF LoopRecords, Contents
  <2>2. SlackOf(loopAt) < SlackOf("Done")
    BY <1>3
  <2>3. Advance("Done", l)
    BY <1>10 DEF ReflectExhausted
  <2>4. QED BY <2>1, <2>2, <2>3, MoveKeeps DEF LoopStates
<1>11. CASE ReflectReplan
  <2>1. CanReflect
    BY <1>11 DEF ReflectReplan
  <2>2. CASE CanReplan
    <3> DEFINE l == [Reflected EXCEPT !.replans = @ + 1]
    <3>1. /\ l \in LoopRecords /\ l.used = ls.used
          /\ l.reflections = ls.reflections + 1 /\ l.replans = ls.replans + 1
      BY <1>4, <1>5 DEF LoopRecords
    <3>2. ls.replans < MaxReplans /\ ls.reflections < MaxReflections
      BY <2>1, <2>2 DEF CanReplan, CanReflect
    <3>3. Within(l)
      BY <1>1, <1>5, <1>6, <3>1, <3>2 DEF Within
    <3>4. Paid(l) = Paid(ls) + 4
      <4>1. Paid(ls) = ls.used + ls.replans + 3 * ls.reflections
        BY DEF Paid
      <4>2. Paid(l) = l.used + l.replans + 3 * l.reflections
        BY DEF Paid
      <4> HIDE DEF l
      <4>3. QED BY <1>5, <3>1, <4>1, <4>2
    <3>5. Paid(ls) + SlackOf(loopAt) + 1 <= Paid(l) + SlackOf("Plan")
      BY <1>3, <1>7, <3>4
    <3>6. Advance("Plan", l)
      BY <1>11, <2>2 DEF ReflectReplan
    <3>7. QED BY <3>1, <3>3, <3>5, <3>6, AdvanceKeeps DEF LoopStates
  <2>3. CASE ~CanReplan
    <3>1. Advance("Done", [Reflected EXCEPT !.content = "exhausted"])
      BY <1>11, <2>3 DEF ReflectReplan
    <3>2. "exhausted" \in Contents
      BY DEF Contents
    <3>3. QED BY <1>9, <2>1, <3>1, <3>2
  <2>4. QED BY <2>2, <2>3
<1>12. CASE ReflectTool
  <2>1. CanReflect /\ RunToolCall(Reflected)
    BY <1>12 DEF ReflectTool
  <2>2. Within(Reflected)
    BY <1>8, <2>1
  <2>3. /\ Reflected.reflections <= MaxReflections /\ Reflected.replans <= MaxReplans
        /\ Reflected.used + 1 <= ToolBudget + Reflected.reflections
    BY <1>1, <1>4, <1>5, <1>6, <2>2 DEF Within
  <2>4. Paid(ls) + SlackOf(loopAt) <= Paid(Reflected) + 2
    BY <1>3, <1>7
  <2>5. QED BY <1>4, <2>1, <2>3, <2>4, ToolCallKeeps
<1>13. CASE ReflectAnswer
  <2>1. PICK text \in {"answer", "none"} :
          CanReflect /\ Advance("Done", [Reflected EXCEPT !.content = text])
    BY <1>13 DEF ReflectAnswer
  <2>2. text \in Contents
    BY <2>1 DEF Contents
  <2>3. QED BY <1>9, <2>1, <2>2
<1>14. CASE ReflectMalformed
  <2>1. CanReflect /\ Advance("Done", Reflected)
    BY <1>14 DEF ReflectMalformed
  <2>2. QED BY <1>4, <1>8, <2>1, AdvanceKeeps DEF LoopStates
<1>15. QED BY <1>10, <1>11, <1>12, <1>13, <1>14

\* A call of a tool out of Execute has the budget's leave.
LEMMA ExecuteToolKeeps ==
  ASSUME ThinkInv, ExecuteTool
  PROVE  ThinkInv'
<1>1. ls \in LoopRecords /\ ToolBudget \in Nat
  BY ThinkingAssumption DEF ThinkInv, ThinkTypeOK
<1>2. /\ Asked \in LoopRecords /\ Asked.used = ls.used
      /\ Asked.reflections = ls.reflections /\ Asked.replans = ls.replans
  BY <1>1, AskedTyped
<1>3. loopAt = "Execute" /\ RunToolCall(Asked) /\ ~BudgetExhausted
  BY DEF ExecuteTool, AsksModel
<1>4. /\ ls.used \in Nat /\ ls.replans \in Nat /\ ls.reflections \in Nat
  BY <1>1 DEF LoopRecords
<1>5. /\ Asked.reflections <= MaxReflections /\ Asked.replans <= MaxReplans
      /\ Asked.used + 1 <= ToolBudget + Asked.reflections
  <2>1. ls.used < ToolBudget
    BY <1>1, <1>3, <1>4 DEF BudgetExhausted
  <2>2. QED BY <1>1, <1>2, <1>4, <2>1 DEF ThinkInv, ThinkingBounded
<1>6. Paid(ls) + SlackOf(loopAt) <= Paid(Asked) + 2
  <2>1. SlackOf(loopAt) = 2
    BY <1>3 DEF SlackOf
  <2>2. Paid(Asked) = Paid(ls) /\ Paid(ls) \in Nat
    BY <1>2, <1>4 DEF Paid
  <2>3. QED BY <2>1, <2>2
<1>7. QED BY <1>2, <1>3, <1>5, <1>6, ToolCallKeeps

\* A turn without a usable answer pays with a nudge or with the end.
LEMMA LostTurnKeeps ==
  ASSUME ThinkInv, ParseNudge \/ Narrate \/ TransportError
  PROVE  ThinkInv'
<1>1. /\ ls \in LoopRecords /\ turns \in Nat /\ nudges \in Nat /\ nudgesInARow \in 0..2
      /\ outcome \in Outcomes /\ loopAt \in LoopStates
  BY DEF ThinkInv, ThinkTypeOK, MaxParseNudgesInARow
<1>2. /\ Asked \in LoopRecords /\ Asked.used = ls.used
      /\ Asked.reflections = ls.reflections /\ Asked.replans = ls.replans
  BY <1>1, AskedTyped
<1>3. loopError = FALSE /\ loopAt \in {"Assess", "Plan", "Execute", "Reflect"}
  BY DEF ParseNudge, Narrate, TransportError, Running, AsksModel, ThinkInv, ThinkTypeOK
<1>4. Slack \in 0..4
  BY <1>3 DEF Slack
<1>5. /\ ls.used \in Nat /\ ls.replans \in Nat /\ ls.reflections \in Nat
  BY <1>1 DEF LoopRecords
<1>6. turns <= nudges + ls.used + ls.replans + 3 * ls.reflections + Slack
  BY <1>1, <1>3, <1>4, <1>5 DEF ThinkInv, ThinkingBounded
<1>7. /\ ls.reflections <= MaxReflections /\ ls.replans <= MaxReplans
      /\ ls.used <= ToolBudget + ls.reflections
      /\ 3 * nudges <= 2 * turns + nudgesInARow
  BY DEF ThinkInv, ThinkingBounded
<1>8. CASE ParseNudge
  <2>1. /\ ls' = Asked /\ turns' = turns + 1 /\ nudges' = nudges + 1
        /\ nudgesInARow' = nudgesInARow + 1 /\ nudgesInARow < 2
        /\ loopAt' = loopAt /\ loopError' = loopError /\ outcome' = outcome
    BY <1>8 DEF ParseNudge, MaxParseNudgesInARow
  <2>2. ThinkTypeOK'
    <3>1. loopError' \in BOOLEAN /\ loopAt' \in LoopStates
      BY <1>1, <1>3, <2>1, Zenon
    <3>2. /\ turns' \in Nat /\ nudges' \in Nat /\ nudgesInARow' \in 0..2
          /\ outcome' \in Outcomes /\ ls' \in LoopRecords
      BY <1>1, <1>2, <2>1
    <3>3. QED BY <3>1, <3>2, Zenon DEF ThinkTypeOK, MaxParseNudgesInARow
  <2>3. Slack' = Slack
    BY <2>1 DEF Slack
  <2>4. turns' <= nudges' + ls'.used + ls'.replans + 3 * ls'.reflections + Slack'
                  + (IF loopError' THEN 1 ELSE 0)
    BY <1>1, <1>2, <1>3, <1>4, <1>5, <1>6, <2>1, <2>3
  <2>5. 3 * nudges' <= 2 * turns' + nudgesInARow'
    BY <1>1, <1>7, <2>1
  <2>6. QED BY <1>2, <1>7, <2>1, <2>2, <2>4, <2>5 DEF ThinkInv, ThinkingBounded
<1>9. CASE Narrate
  <2>1. /\ turns' = turns + 1 /\ nudges' = nudges
        /\ nudgesInARow' = nudgesInARow /\ outcome' = outcome
    BY <1>9 DEF Narrate
  <2>2. 3 * nudges' <= 2 * turns' + nudgesInARow'
    BY <1>1, <1>7, <2>1
  <2>3. CASE loopAt' = "Done" /\ ls' = [Asked EXCEPT !.content = "narrative"] /\ loopError' = FALSE
    <3>1. /\ ls' \in LoopRecords /\ ls'.used = ls.used
          /\ ls'.reflections = ls.reflections /\ ls'.replans = ls.replans
      BY <1>2, <2>3 DEF LoopRecords, Contents
    <3>2. ThinkTypeOK'
      <4>1. loopError' \in BOOLEAN /\ loopAt' \in LoopStates
        BY <2>3, Zenon DEF LoopStates
      <4>2. /\ turns' \in Nat /\ nudges' \in Nat /\ nudgesInARow' \in 0..2
            /\ outcome' \in Outcomes
        BY <1>1, <2>1
      <4>3. QED BY <3>1, <4>1, <4>2, Zenon DEF ThinkTypeOK, MaxParseNudgesInARow
    <3>3. Slack' = 5
      BY <2>3 DEF Slack
    <3>4. turns' <= nudges' + ls'.used + ls'.replans + 3 * ls'.reflections + Slack'
                    + (IF loopError' THEN 1 ELSE 0)
      BY <1>1, <1>4, <1>5, <1>6, <2>1, <2>3, <3>1, <3>3
    <3>5. QED BY <1>7, <2>2, <3>1, <3>2, <3>4 DEF ThinkInv, ThinkingBounded
  <2>4. CASE loopAt' = loopAt /\ ls' = Asked /\ loopError' = TRUE
    <3>1. ThinkTypeOK'
      <4>1. loopError' \in BOOLEAN /\ loopAt' \in LoopStates
        BY <1>1, <2>4, Zenon
      <4>2. /\ turns' \in Nat /\ nudges' \in Nat /\ nudgesInARow' \in 0..2
            /\ outcome' \in Outcomes /\ ls' \in LoopRecords
        BY <1>1, <1>2, <2>1, <2>4
      <4>3. QED BY <4>1, <4>2, Zenon DEF ThinkTypeOK, MaxParseNudgesInARow
    <3>2. Slack' = Slack
      BY <2>4 DEF Slack
    <3>3. turns' <= nudges' + ls'.used + ls'.replans + 3 * ls'.reflections + Slack'
                    + (IF loopError' THEN 1 ELSE 0)
      BY <1>1, <1>2, <1>4, <1>5, <1>6, <2>1, <2>4, <3>2
    <3>4. QED BY <1>2, <1>7, <2>2, <2>4, <3>1, <3>3 DEF ThinkInv, ThinkingBounded
  <2>5. QED BY <1>9, <2>3, <2>4 DEF Narrate
<1>10. CASE TransportError
  <2>1. /\ ls' = Asked /\ turns' = turns + 1 /\ nudges' = nudges /\ loopError' = TRUE
        /\ nudgesInARow' = nudgesInARow /\ loopAt' = loopAt /\ outcome' = outcome
    BY <1>10 DEF TransportError
  <2>2. ThinkTypeOK'
    <3>1. loopError' \in BOOLEAN /\ loopAt' \in LoopStates
      BY <1>1, <2>1, Zenon
    <3>2. /\ turns' \in Nat /\ nudges' \in Nat /\ nudgesInARow' \in 0..2
          /\ outcome' \in Outcomes /\ ls' \in LoopRecords
      BY <1>1, <1>2, <2>1
    <3>3. QED BY <3>1, <3>2, Zenon DEF ThinkTypeOK, MaxParseNudgesInARow
  <2>3. Slack' = Slack
    BY <2>1 DEF Slack
  <2>4. turns' <= nudges' + ls'.used + ls'.replans + 3 * ls'.reflections + Slack'
                  + (IF loopError' THEN 1 ELSE 0)
    BY <1>1, <1>2, <1>4, <1>5, <1>6, <2>1, <2>3
  <2>5. 3 * nudges' <= 2 * turns' + nudgesInARow'
    BY <1>1, <1>7, <2>1
  <2>6. QED BY <1>2, <1>7, <2>1, <2>2, <2>4, <2>5 DEF ThinkInv, ThinkingBounded
<1>11. QED BY <1>8, <1>9, <1>10

LEMMA ComposeKeeps ==
  ASSUME ThinkInv, Compose
  PROVE  ThinkInv'
<1>1. UNCHANGED <<loopAt, ls, turns, nudgesInARow, nudges, loopError>>
  BY DEF Compose
<1>2. ls.content \in Contents /\ loopError \in BOOLEAN
  BY DEF ThinkInv, ThinkTypeOK, LoopRecords
<1>3. outcome' \in Outcomes
  <2> DEFINE final == IF ls.content = "none" /\ ~loopError THEN "ended" ELSE ls.content
  <2>1. final \in Contents
    BY <1>2 DEF Contents
  <2>2. /\ (loopError /\ final = "none") \in BOOLEAN
        /\ (final # "none" /\ ~loopError) \in BOOLEAN
    OBVIOUS
  <2>3. outcome' = [content |-> final, resultError |-> loopError,
                    returnsError |-> loopError /\ final = "none",
                    success |-> final # "none" /\ ~loopError]
    BY DEF Compose
  <2> HIDE DEF final
  <2>4. QED BY <1>2, <2>1, <2>2, <2>3 DEF Outcomes
<1>4. Slack' = Slack
  BY <1>1 DEF Slack
<1>5. QED BY <1>1, <1>3, <1>4 DEF ThinkInv, ThinkTypeOK, ThinkingBounded

LEMMA ThinkInvIsInductive == ThinkInv /\ [ThinkNext]_thinkVars => ThinkInv'
<1> SUFFICES ASSUME ThinkInv, [ThinkNext]_thinkVars PROVE ThinkInv'
  OBVIOUS
<1>1. CASE \/ Assess \/ Plan \/ ExecuteBudget \/ ExecuteEscalate \/ ExecuteAnswer
           \/ ExecuteAskUser \/ ExecuteGiveUp \/ VerifyAccept \/ VerifyReject
  BY <1>1, PlainTurnKeeps
<1>2. CASE ExecuteTool
  BY <1>2, ExecuteToolKeeps
<1>3. CASE ReflectExhausted \/ ReflectReplan \/ ReflectTool \/ ReflectAnswer \/ ReflectMalformed
  BY <1>3, ReflectKeeps
<1>4. CASE ParseNudge \/ Narrate \/ TransportError
  BY <1>4, LostTurnKeeps
<1>5. CASE Compose
  BY <1>5, ComposeKeeps
<1>6. CASE UNCHANGED thinkVars
  <2>1. Slack' = Slack
    BY <1>6 DEF thinkVars, Slack
  <2>2. QED BY <1>6, <2>1 DEF thinkVars, ThinkInv, ThinkTypeOK, ThinkingBounded
<1>7. QED BY <1>1, <1>2, <1>3, <1>4, <1>5, <1>6 DEF ThinkNext, ThinkTurn

LEMMA ThinkInvInitially == ThinkInit => ThinkInv
<1> SUFFICES ASSUME ThinkInit PROVE ThinkInv
  OBVIOUS
<1>1. <<>> \in Seq(Calls)
  OBVIOUS
<1>2. NewLoopState \in LoopRecords
  BY <1>1 DEF NewLoopState, LoopRecords, Contents
<1>3. NoOutcome \in Outcomes
  BY DEF NoOutcome, Outcomes, Contents
<1>4. ThinkTypeOK
  <2>1. loopAt \in LoopStates /\ loopError \in BOOLEAN
    BY Zenon DEF ThinkInit, LoopStates
  <2>2. turns \in Nat /\ nudges \in Nat /\ nudgesInARow \in 0..2
    BY DEF ThinkInit
  <2>3. ls \in LoopRecords /\ outcome \in Outcomes
    BY <1>2, <1>3, Zenon DEF ThinkInit
  <2>4. QED BY <2>1, <2>2, <2>3, Zenon DEF ThinkTypeOK, MaxParseNudgesInARow
<1>5. Slack = 0
  BY DEF ThinkInit, Slack
<1>6. ls.used = 0 /\ ls.reflections = 0 /\ ls.replans = 0
  BY DEF ThinkInit, NewLoopState
<1>7. ThinkingBounded
  BY <1>5, <1>6, ThinkingAssumption DEF ThinkInit, ThinkingBounded
<1>8. QED BY <1>4, <1>7 DEF ThinkInv

LEMMA ThinkInvAlways == ThinkSpec => []ThinkInv
BY ThinkInvInitially, ThinkInvIsInductive, PTL DEF ThinkSpec

\* The loop state keeps its types: in particular the parse nudges in a row
\* never exceed the two the driver allows.
THEOREM ThinkTypes == ThinkSpec => []ThinkTypeOK
<1>1. ThinkInv => ThinkTypeOK
  BY DEF ThinkInv
<1>2. QED BY <1>1, ThinkInvAlways, PTL

\* The loop keeps to its budgets for every value of them and every sequence
\* of answers, errors and texts that do not parse (executeWithThinking).
THEOREM ThinkingIsBounded == ThinkSpec => []ThinkingBounded
<1>1. ThinkInv => ThinkingBounded
  BY DEF ThinkInv
<1>2. QED BY <1>1, ThinkInvAlways, PTL

-----------------------------------------------------------------------------
(* React: the conversation, its compaction and the end of the loop.  What  *)
(* a filter returns is found by its first wrong prefix, for which numbers  *)
(* need a least one.                                                       *)

\* A set of numbers that is not empty has a least one.
LEMMA LeastNumber ==
  ASSUME NEW T, T \subseteq Nat, T # {}
  PROVE  \E x \in T : \A y \in T : x <= y
<1>1. PICK m \in T : TRUE
  OBVIOUS
<1> DEFINE U == {0..x : x \in {x \in T : x <= m}}
           R == StrictSubsetOrdering(0..m)
<1>2. m \in Nat /\ IsFiniteSet(0..m)
  BY <1>1, FS_Interval
<1>3. IsWellFoundedOn(R, SUBSET (0..m))
  BY <1>2, FS_StrictSubsetOrderingWellFounded, FS_FiniteSubsetsOfFinite
<1>4. U \subseteq SUBSET (0..m) /\ 0..m \in U
  <2>1. \A x \in T : x <= m => x \in Nat /\ 0..x \subseteq 0..m
    BY <1>2
  <2>2. m <= m
    BY <1>2
  <2>3. QED BY <1>1, <2>1, <2>2
<1>5. PICK u \in U : \A v \in U : <<v, u>> \notin R
  <2> HIDE DEF U, R
  <2>1. QED BY <1>3, <1>4, WFMin
<1>6. PICK x \in T : x <= m /\ u = 0..x
  OBVIOUS
<1>7. ASSUME NEW y \in T, y < x PROVE FALSE
  <2>1. x \in Nat /\ y \in Nat /\ y <= m
    BY <1>2, <1>6, <1>7
  <2>2. 0..y \in U /\ 0..y \in SUBSET (0..m) /\ 0..x \in SUBSET (0..m)
    BY <1>2, <1>6, <2>1
  <2>3. x \in 0..x /\ x \notin 0..y
    BY <1>7, <2>1
  <2>4. 0..y \subseteq 0..x /\ 0..y # 0..x
    BY <1>7, <2>1, <2>3
  <2>5. <<0..y, 0..x>> \in R
    BY <2>2, <2>4 DEF StrictSubsetOrdering
  <2>6. QED BY <1>5, <1>6, <2>2, <2>5
<1>8. \A y \in T : x \in Nat /\ y \in Nat /\ ~(y < x)
  BY <1>6, <1>7
<1>9. QED BY <1>6, <1>8

\* What a filter has of the first n messages.
RolesOf(c, roles, f, n) ==
  f = [i \in 0..n |-> IF i = 0 THEN <<>>
                      ELSE IF c[i].role \in roles THEN Append(f[i - 1], c[i]) ELSE f[i - 1]]

LEMMA RolesOfExist ==
  ASSUME NEW c, NEW roles, NEW m \in Nat
  PROVE  \E f : RolesOf(c, roles, f, m)
<1> DEFINE T == {n \in Nat : ~\E f : RolesOf(c, roles, f, n)}
<1>1. CASE T = {}
  BY <1>1
<1>2. CASE T # {}
  <2>1. PICK n \in T : \A y \in T : n <= y
    BY <1>2, LeastNumber
  <2>2. n # 0
    <3> DEFINE f == [i \in 0..0 |-> <<>>]
    <3>1. f = [i \in 0..0 |-> IF i = 0 THEN <<>>
                    ELSE IF c[i].role \in roles THEN Append(f[i - 1], c[i]) ELSE f[i - 1]]
      OBVIOUS
    <3>2. RolesOf(c, roles, f, 0)
      BY <3>1 DEF RolesOf
    <3>3. QED BY <2>1, <3>2
  <2>3. n \in Nat /\ n - 1 \in Nat /\ ~(n <= n - 1)
    BY <2>1, <2>2
  <2>4. PICK g : RolesOf(c, roles, g, n - 1)
    BY <2>1, <2>3
  <2> HIDE DEF T
  <2> DEFINE f == [i \in 0..n |-> IF i = n THEN IF c[n].role \in roles THEN Append(g[n - 1], c[n])
        ELSE g[n - 1]
                                  ELSE g[i]]
  <2>5. \A i \in 0..(n - 1) : f[i] = g[i]
    BY <2>3
  <2>6. f[n] = IF c[n].role \in roles THEN Append(f[n - 1], c[n]) ELSE f[n - 1]
    BY <2>3
  <2>7. \A i \in 0..n : f[i] = IF i = 0 THEN <<>>
                      ELSE IF c[i].role \in roles THEN Append(f[i - 1], c[i]) ELSE f[i - 1]
    <3>1. DOMAIN f = 0..n
      OBVIOUS
    <3> HIDE DEF f
    <3>2. ASSUME NEW i \in 0..(n - 1)
          PROVE  f[i] = IF i = 0 THEN <<>>
                        ELSE IF c[i].role \in roles THEN Append(f[i - 1], c[i]) ELSE f[i - 1]
      <4>1. f[i] = g[i] /\ (i # 0 => f[i - 1] = g[i - 1])
        BY <2>3, <2>5
      <4>2. g[i] = IF i = 0 THEN <<>>
                   ELSE IF c[i].role \in roles THEN Append(g[i - 1], c[i]) ELSE g[i - 1]
        BY <2>4 DEF RolesOf
      <4>3. QED BY <4>1, <4>2
    <3>3. \A i \in 0..n : i \in 0..(n - 1) \/ i = n
      BY <2>3
    <3>4. QED BY <2>2, <2>6, <3>2, <3>3
  <2>8. RolesOf(c, roles, f, n)
    <3>1. f = [i \in 0..n |-> f[i]]
      OBVIOUS
    <3> HIDE DEF f
    <3>2. QED BY <2>7, <3>1 DEF RolesOf
  <2>9. QED BY <2>1, <2>8 DEF T
<1>3. QED BY <1>1, <1>2

LEMMA OfRolesSteps ==
  ASSUME NEW c, NEW roles, Len(c) \in Nat
  PROVE  \E f : /\ OfRoles(c, roles) = f[Len(c)] /\ f[0] = <<>>
                /\ \A n \in 1..Len(c) :
                     f[n] = IF c[n].role \in roles THEN Append(f[n - 1], c[n]) ELSE f[n - 1]
<1> DEFINE g == CHOOSE f : RolesOf(c, roles, f, Len(c))
<1>1. RolesOf(c, roles, g, Len(c))
  BY RolesOfExist
<1>2. OfRoles(c, roles) = g[Len(c)]
  BY DEF OfRoles, RolesOf
<1> HIDE DEF g
<1>3. /\ g[0] = <<>>
      /\ \A n \in 1..Len(c) :
           g[n] = IF c[n].role \in roles THEN Append(g[n - 1], c[n]) ELSE g[n - 1]
  <2>1. 0 \in 0..Len(c) /\ \A n \in 1..Len(c) : n \in 0..Len(c) /\ n # 0
    OBVIOUS
  <2>2. QED BY <1>1, <2>1 DEF RolesOf
<1>4. QED BY <1>2, <1>3


LEMMA OneLonger ==
  ASSUME NEW S, NEW c \in Seq(S), NEW n \in 1..Len(c), NEW a \in 1..n
  PROVE  Append(SubSeq(c, a, n - 1), c[n]) = SubSeq(c, a, n)
<1>1. Len(c) \in Nat /\ a \in Nat /\ n \in Nat /\ 1 <= a /\ a <= n /\ n <= Len(c)
  OBVIOUS
<1>2. /\ SubSeq(c, a, n - 1) \in Seq(S) /\ Len(SubSeq(c, a, n - 1)) = n - a
      /\ \A i \in 1..(n - a) : SubSeq(c, a, n - 1)[i] = c[a + i - 1]
  BY <1>1, SubSeqProperties
<1>3. /\ SubSeq(c, a, n) \in Seq(S) /\ Len(SubSeq(c, a, n)) = n - a + 1
      /\ \A i \in 1..(n - a + 1) : SubSeq(c, a, n)[i] = c[a + i - 1]
  BY <1>1, SubSeqProperties
<1> DEFINE s == SubSeq(c, a, n - 1)
           t == SubSeq(c, a, n)
<1>4. c[n] \in S
  BY <1>1
<1> HIDE DEF s, t
<1>5. /\ Append(s, c[n]) \in Seq(S) /\ Len(Append(s, c[n])) = n - a + 1
      /\ \A i \in 1..(n - a) : Append(s, c[n])[i] = s[i]
      /\ Append(s, c[n])[n - a + 1] = c[n]
  BY <1>1, <1>2, <1>4, AppendProperties DEF s
<1>6. ASSUME NEW i \in 1..(n - a + 1) PROVE Append(s, c[n])[i] = t[i]
  <2>1. i \in 1..(n - a) \/ (i = n - a + 1 /\ a + i - 1 = n)
    BY <1>1
  <2>2. QED BY <1>1, <1>2, <1>3, <1>5, <2>1 DEF s, t
<1>7. Append(s, c[n]) = t
  <2>1. t \in Seq(S) /\ Len(t) = n - a + 1
    BY <1>3 DEF t
  <2>2. QED BY <1>5, <1>6, <2>1, SeqEqual
<1>8. QED BY <1>7 DEF s, t

LEMMA OfRolesInterval ==
  ASSUME NEW S, NEW c \in Seq(S), NEW roles, NEW b \in 1..Len(c), NEW a \in 1..b,
         \A i \in 1..Len(c) : c[i].role \in roles <=> a <= i /\ i <= b
  PROVE  OfRoles(c, roles) = SubSeq(c, a, b)
<1>1. Len(c) \in Nat /\ a \in Nat /\ b \in Nat /\ 1 <= a /\ a <= b /\ b <= Len(c)
  OBVIOUS
<1>2. PICK f : /\ OfRoles(c, roles) = f[Len(c)] /\ f[0] = <<>>
               /\ \A n \in 1..Len(c) :
                    f[n] = IF c[n].role \in roles THEN Append(f[n - 1], c[n]) ELSE f[n - 1]
  BY <1>1, OfRolesSteps
<1> DEFINE T == {n \in 0..Len(c) : f[n] # SubSeq(c, a, IF n < b THEN n ELSE b)}
<1>3. CASE T = {}
  <2>1. f[Len(c)] = SubSeq(c, a, IF Len(c) < b THEN Len(c) ELSE b)
    BY <1>1, <1>3
  <2>2. (IF Len(c) < b THEN Len(c) ELSE b) = b
    BY <1>1
  <2>3. QED BY <1>2, <2>1, <2>2
<1>4. CASE T # {}
  <2>1. PICK n \in T : \A y \in T : n <= y
    <3>1. T \subseteq Nat
      BY <1>1
    <3> HIDE DEF T
    <3>2. QED BY <1>4, <3>1, LeastNumber
  <2>2. n \in 0..Len(c) /\ f[n] # SubSeq(c, a, IF n < b THEN n ELSE b)
    BY <2>1
  <2>3. n # 0
    <3>1. SubSeq(c, a, 0) = <<>> /\ (IF 0 < b THEN 0 ELSE b) = 0
      BY <1>1, SubSeqEmpty
    <3> SUFFICES ASSUME n = 0 PROVE FALSE
      OBVIOUS
    <3>2. QED BY <1>2, <2>2, <3>1
  <2>4. n \in 1..Len(c) /\ n - 1 \in 0..Len(c) /\ ~(n <= n - 1)
    BY <1>1, <2>2, <2>3
  <2>5. f[n - 1] = SubSeq(c, a, IF n - 1 < b THEN n - 1 ELSE b)
    BY <2>1, <2>4
  <2> HIDE DEF T
  <2>6. f[n] = IF a <= n /\ n <= b THEN Append(f[n - 1], c[n]) ELSE f[n - 1]
    BY <1>2, <2>4
  <2>7. CASE a <= n /\ n <= b
    <3>1. (IF n < b THEN n ELSE b) = n /\ (IF n - 1 < b THEN n - 1 ELSE b) = n - 1 /\ a \in 1..n
      BY <1>1, <2>4, <2>7
    <3>2. QED BY <2>2, <2>4, <2>5, <2>6, <2>7, <3>1, OneLonger
  <2>8. CASE n > b
    <3>1. (IF n < b THEN n ELSE b) = b /\ (IF n - 1 < b THEN n - 1 ELSE b) = b
      BY <1>1, <2>4, <2>8
    <3>2. QED BY <1>1, <2>2, <2>4, <2>5, <2>6, <2>8, <3>1
  <2>9. CASE n < a
    <3>1. (IF n < b THEN n ELSE b) = n /\ (IF n - 1 < b THEN n - 1 ELSE b) = n - 1
      BY <1>1, <2>4, <2>9
    <3>2. SubSeq(c, a, n) = <<>> /\ SubSeq(c, a, n - 1) = <<>>
      BY <1>1, <2>4, <2>9, SubSeqProperties, EmptySeq
    <3>3. QED BY <1>1, <2>2, <2>4, <2>5, <2>6, <2>9, <3>1, <3>2
  <2>10. QED BY <1>1, <2>4, <2>7, <2>8, <2>9
<1>5. QED BY <1>3, <1>4

LEMMA OfRolesHead ==
  ASSUME NEW S, NEW c \in Seq(S), NEW roles, Len(c) # 0, c[1].role \in roles
  PROVE  Head(OfRoles(c, roles)) = c[1]
<1>1. Len(c) \in Nat /\ 1 \in 1..Len(c)
  OBVIOUS
<1>2. PICK f : /\ OfRoles(c, roles) = f[Len(c)] /\ f[0] = <<>>
               /\ \A n \in 1..Len(c) :
                    f[n] = IF c[n].role \in roles THEN Append(f[n - 1], c[n]) ELSE f[n - 1]
  BY <1>1, OfRolesSteps
<1> DEFINE Good(n) == f[n] \in Seq(S) /\ Len(f[n]) # 0 /\ f[n][1] = c[1]
           T == {n \in 1..Len(c) : ~Good(n)}
<1>3. CASE T = {}
  <2>1. Good(Len(c))
    BY <1>1, <1>3
  <2>2. QED BY <1>2, <2>1, HeadTailProperties, EmptySeq
<1>4. CASE T # {}
  <2>1. PICK n \in T : \A y \in T : n <= y
    <3>1. T \subseteq Nat
      BY <1>1
    <3> HIDE DEF T
    <3>2. QED BY <1>4, <3>1, LeastNumber
  <2>2. n \in 1..Len(c) /\ ~Good(n)
    BY <2>1
  <2>3. n # 1
    <3>1. 1 - 1 = 0 /\ c[1] \in S
      BY <1>1
    <3>2. f[1] = IF c[1].role \in roles THEN Append(f[1 - 1], c[1]) ELSE f[1 - 1]
      BY <1>1, <1>2
    <3>3. f[1] = <<c[1]>>
      BY <1>2, <3>1, <3>2
    <3>4. Good(1)
      BY <3>1, <3>3
    <3>5. QED BY <2>2, <3>4
  <2>4. n - 1 \in 1..Len(c) /\ ~(n <= n - 1)
    BY <1>1, <2>2, <2>3
  <2>5. Good(n - 1)
    BY <2>1, <2>4
  <2> HIDE DEF T
  <2>6. f[n] = Append(f[n - 1], c[n]) \/ f[n] = f[n - 1]
    BY <1>2, <2>2
  <2>7. QED
    <3> DEFINE g == f[n - 1]
    <3>1. g \in Seq(S) /\ Len(g) # 0 /\ g[1] = c[1] /\ c[n] \in S
      BY <2>2, <2>5
    <3> HIDE DEF g
    <3>2. /\ Append(g, c[n]) \in Seq(S) /\ Len(Append(g, c[n])) # 0
          /\ Append(g, c[n])[1] = c[1]
      BY <3>1, AppendProperties
    <3>3. QED BY <2>2, <2>5, <2>6, <3>2 DEF g
<1>5. QED BY <1>3, <1>4

-----------------------------------------------------------------------------

Messages == [role: Roles, batch: Nat]

\* What may stand before the tool result i.
Behind(c, i) ==
  \/ c[i - 1] = Msg("call", c[i].batch)
  \/ c[i - 1] = Msg("result", c[i].batch)
  \/ c[i - 1].role = "summary"

\* One system prompt and one task, in front, and no result without its call.
WellFormed(c) ==
  /\ c \in Seq(Messages) /\ Len(c) >= 2
  /\ c[1] = Msg("system", 0) /\ c[2] = Msg("task", 0)
  /\ \A i \in 3..Len(c) : /\ c[i].role \notin {"system", "task"}
                          /\ c[i].role = "result" => Behind(c, i)

\* What a compaction that does anything leaves.
LEMMA Compacted ==
  ASSUME NEW c, WellFormed(c), Len(c) - 1 > KeptRecent
  PROVE  LET r == SmartCompact(c)
         IN  /\ r \in Seq(Messages) /\ Len(r) = 9
             /\ r[1] = c[1] /\ r[2] = c[2] /\ r[3] = Msg("summary", 0)
             /\ \A i \in 4..9 : r[i] = c[Len(c) - 9 + i]
<1> DEFINE others == OfRoles(c, Roles \ {"system"})
           recent == SubSeq(others, Len(others) - KeptRecent + 1, Len(others))
           summary == Msg("summary", 0)
<1>1. /\ c \in Seq(Messages) /\ Len(c) \in Nat /\ Len(c) >= 8 /\ KeptRecent = 6
      /\ c[1] = Msg("system", 0) /\ c[2] = Msg("task", 0)
      /\ \A i \in 1..Len(c) : c[i] \in Messages
  BY DEF WellFormed, KeptRecent
<1>2. c[1].role = "system" /\ c[2].role = "task" /\ c[1] \in Messages /\ c[2] \in Messages
  BY <1>1 DEF Msg
<1>3. \A i \in 1..Len(c) : c[i].role \in Roles /\ (i >= 3 => c[i].role \notin {"system", "task"})
  BY <1>1 DEF WellFormed, Messages
<1>4. OfRoles(c, {"system"}) = SubSeq(c, 1, 1)
  <2>1. \A i \in 1..Len(c) : c[i].role \in {"system"} <=> 1 <= i /\ i <= 1
    BY <1>1, <1>2, <1>3
  <2>2. 1 \in 1..Len(c) /\ 1 \in 1..1
    BY <1>1
  <2>3. QED BY <1>1, <2>1, <2>2, OfRolesInterval
<1>5. others = SubSeq(c, 2, Len(c))
  <2>1. \A i \in 1..Len(c) : c[i].role \in Roles \ {"system"} <=> 2 <= i /\ i <= Len(c)
    BY <1>1, <1>2, <1>3
  <2>2. Len(c) \in 1..Len(c) /\ 2 \in 1..Len(c)
    BY <1>1
  <2>3. QED BY <1>1, <2>1, <2>2, OfRolesInterval
<1>6. /\ others \in Seq(Messages) /\ Len(others) = Len(c) - 1
      /\ \A i \in 1..(Len(c) - 1) : others[i] = c[i + 1]
  <2>1. \A i \in 2..Len(c) : c[i] \in Messages
    BY <1>1
  <2> HIDE DEF others
  <2>2. /\ others \in Seq(Messages) /\ Len(others) = Len(c) - 2 + 1
        /\ \A i \in 1..(Len(c) - 2 + 1) : others[i] = c[2 + i - 1]
    BY <1>1, <1>5, <2>1, SubSeqProperties
  <2>3. QED BY <1>1, <2>2
<1> HIDE DEF others
<1>7. Head(OfRoles(others, UserRoles)) = c[2]
  <2>1. Len(others) # 0 /\ others[1] = c[2] /\ others[1].role \in UserRoles
    BY <1>1, <1>2, <1>6 DEF UserRoles
  <2>2. QED BY <1>6, <2>1, OfRolesHead
<1>8. /\ recent \in Seq(Messages) /\ Len(recent) = 6
      /\ \A i \in 1..6 : recent[i] = c[Len(c) - 6 + i]
  <2>1. /\ Len(others) - KeptRecent + 1 = Len(c) - 6 /\ Len(others) = Len(c) - 1
        /\ \A i \in (Len(c) - 6)..(Len(c) - 1) : others[i] \in Messages /\ others[i] = c[i + 1]
    BY <1>1, <1>6
  <2>2. recent = SubSeq(others, Len(c) - 6, Len(c) - 1)
    BY <2>1
  <2> HIDE DEF recent
  <2>3. /\ recent \in Seq(Messages) /\ Len(recent) = 6
        /\ \A i \in 1..6 : recent[i] = others[Len(c) - 6 + i - 1]
    BY <1>1, <2>1, <2>2, SubSeqProperties
  <2>4. \A i \in 1..6 : /\ Len(c) - 6 + i - 1 \in (Len(c) - 6)..(Len(c) - 1)
                        /\ (Len(c) - 6 + i - 1) + 1 = Len(c) - 6 + i
    BY <1>1
  <2>5. QED BY <2>1, <2>3, <2>4
<1> HIDE DEF recent
<1>9. OfRoles(recent, Roles \ {c[2].role}) = recent
  <2>1. \A i \in 1..6 : recent[i].role \in Roles \ {c[2].role}
    <3>1. \A i \in 1..6 : Len(c) - 6 + i \in 1..Len(c) /\ Len(c) - 6 + i >= 3
      BY <1>1
    <3>2. QED BY <1>2, <1>3, <1>8, <3>1
  <2>2. OfRoles(recent, Roles \ {c[2].role}) = SubSeq(recent, 1, 6)
    <3>1. 6 \in 1..Len(recent) /\ 1 \in 1..6
      BY <1>8
    <3>2. \A i \in 1..Len(recent) :
            recent[i].role \in Roles \ {c[2].role} <=> 1 <= i /\ i <= 6
      BY <1>8, <2>1
    <3>3. QED BY <1>8, <3>1, <3>2, OfRolesInterval
  <2>3. SubSeq(recent, 1, 6) = recent
    BY <1>8, SubSeqFull
  <2>4. QED BY <2>2, <2>3
<1>10. SmartCompact(c) = (SubSeq(c, 1, 1) \o <<c[2], summary>>) \o recent
  <2>1. ~(Len(others) <= KeptRecent)
    BY <1>1, <1>6
  <2>2. QED BY <1>4, <1>7, <1>9, <2>1 DEF SmartCompact, others, recent
<1> DEFINE head == SubSeq(c, 1, 1)
           two == <<c[2], summary>>
<1>11. head \in Seq(Messages) /\ Len(head) = 1 /\ head[1] = c[1]
  BY <1>1
<1>12. two \in Seq(Messages) /\ Len(two) = 2 /\ two[1] = c[2] /\ two[2] = summary
  BY <1>2 DEF Messages, Msg, Roles, UserRoles
<1> HIDE DEF head, two, summary
<1>13. /\ head \o two \in Seq(Messages) /\ Len(head \o two) = 3
       /\ (head \o two)[1] = c[1] /\ (head \o two)[2] = c[2] /\ (head \o two)[3] = summary
  <2>1. /\ head \o two \in Seq(Messages) /\ Len(head \o two) = 1 + 2
        /\ \A i \in 1..(1 + 2) : (head \o two)[i] = IF i <= 1 THEN head[i] ELSE two[i - 1]
    <3>1. /\ head \o two \in Seq(Messages) /\ Len(head \o two) = Len(head) + Len(two)
          /\ \A i \in 1..Len(head) + Len(two) :
               (head \o two)[i] = IF i <= Len(head) THEN head[i] ELSE two[i - Len(head)]
      BY ONLY <1>11, <1>12, ConcatProperties
    <3>2. QED BY <1>11, <1>12, <3>1
  <2>2. QED BY <1>11, <1>12, <2>1
<1> DEFINE front == head \o two
<1> HIDE DEF front
<1>14. /\ front \o recent \in Seq(Messages) /\ Len(front \o recent) = 9
       /\ \A i \in 1..9 : (front \o recent)[i] = IF i <= 3 THEN front[i] ELSE recent[i - 3]
  <2>1. /\ front \o recent \in Seq(Messages) /\ Len(front \o recent) = 3 + 6
        /\ \A i \in 1..(3 + 6) : (front \o recent)[i] = IF i <= 3 THEN front[i] ELSE recent[i - 3]
    <3>1. front \in Seq(Messages) /\ Len(front) = 3
      BY <1>13 DEF front
    <3>2. /\ front \o recent \in Seq(Messages)
          /\ Len(front \o recent) = Len(front) + Len(recent)
          /\ \A i \in 1..Len(front) + Len(recent) :
               (front \o recent)[i] = IF i <= Len(front) THEN front[i] ELSE recent[i - Len(front)]
      BY ONLY <1>8, <3>1, ConcatProperties
    <3>3. QED BY <1>8, <3>1, <3>2
  <2>2. 3 + 6 = 9
    OBVIOUS
  <2>3. QED BY <2>1, <2>2
<1>15. SmartCompact(c) = front \o recent
  BY <1>10 DEF front, head, two
<1> DEFINE r == front \o recent
<1> HIDE DEF r
<1>16. /\ r \in Seq(Messages) /\ Len(r) = 9
       /\ r[1] = c[1] /\ r[2] = c[2] /\ r[3] = summary
       /\ \A i \in 4..9 : r[i] = recent[i - 3]
  <2>1. front[1] = c[1] /\ front[2] = c[2] /\ front[3] = summary
    BY <1>13 DEF front
  <2>2. \A i \in 1..9 : r[i] = IF i <= 3 THEN front[i] ELSE recent[i - 3]
    BY <1>14 DEF r
  <2>3. r[1] = front[1] /\ r[2] = front[2] /\ r[3] = front[3]
    BY <2>2
  <2>4. \A i \in 4..9 : r[i] = recent[i - 3]
    BY <2>2
  <2>5. r \in Seq(Messages) /\ Len(r) = 9
    BY <1>14 DEF r
  <2>6. QED BY <2>1, <2>3, <2>4, <2>5
<1>17. \A i \in 4..9 : recent[i - 3] = c[Len(c) - 9 + i]
  BY <1>1, <1>8
<1>18. QED BY <1>15, <1>16, <1>17 DEF r, summary

LEMMA CompactKeepsForm ==
  ASSUME NEW c, WellFormed(c)
  PROVE  WellFormed(SmartCompact(c))
<1>1. c \in Seq(Messages) /\ Len(c) \in Nat /\ Len(c) >= 2
  BY DEF WellFormed
<1>2. CASE Len(c) - 1 > KeptRecent
  <2> DEFINE r == SmartCompact(c)
  <2>1. /\ r \in Seq(Messages) /\ Len(r) = 9
        /\ r[1] = c[1] /\ r[2] = c[2] /\ r[3] = Msg("summary", 0)
        /\ \A i \in 4..9 : r[i] = c[Len(c) - 9 + i]
    BY <1>2, Compacted
  <2> HIDE DEF r
  <2>2. ASSUME NEW i \in 3..Len(r)
        PROVE  r[i].role \notin {"system", "task"} /\ (r[i].role = "result" => Behind(r, i))
    <3>1. CASE i = 3
      <4>1. r[3].role = "summary"
        BY <2>1 DEF Msg
      <4>2. QED BY <3>1, <4>1
    <3>2. CASE i = 4
      <4>1. /\ r[4] = c[Len(c) - 5] /\ Len(c) - 5 \in 3..Len(c)
            /\ 4 - 1 = 3 /\ r[3].role = "summary"
        BY <1>1, <1>2, <2>1 DEF KeptRecent, Msg
      <4>2. QED BY <3>2, <4>1 DEF WellFormed, Behind
    <3>3. CASE i \in 5..9
      <4> DEFINE k == Len(c) - 9 + i
      <4>1. k \in 3..Len(c) /\ i \in 4..9 /\ i - 1 \in 4..9 /\ Len(c) - 9 + (i - 1) = k - 1
        BY <1>1, <1>2, <3>3 DEF KeptRecent
      <4>2. r[i] = c[k] /\ r[i - 1] = c[Len(c) - 9 + (i - 1)]
        BY <2>1, <4>1
      <4> HIDE DEF k
      <4>3. r[i - 1] = c[k - 1]
        BY <4>1, <4>2
      <4>4. QED BY <4>1, <4>2, <4>3 DEF WellFormed, Behind
    <3>4. QED BY <2>1, <3>1, <3>2, <3>3
  <2>3. QED BY <2>1, <2>2 DEF WellFormed, r
<1>3. CASE ~(Len(c) - 1 > KeptRecent)
  <2>1. OfRoles(c, Roles \ {"system"}) = SubSeq(c, 2, Len(c))
    <3>1. /\ c[1].role = "system" /\ c[2].role = "task"
          /\ \A i \in 3..Len(c) : c[i].role \notin {"system", "task"}
      BY DEF WellFormed, Msg
    <3>2. \A i \in 1..Len(c) : c[i].role \in Roles
      <4>1. \A i \in 1..Len(c) : c[i] \in Messages
        BY <1>1
      <4>2. QED BY <4>1 DEF Messages
    <3>3. \A i \in 1..Len(c) : c[i].role \in Roles \ {"system"} <=> 2 <= i /\ i <= Len(c)
      BY <1>1, <3>1, <3>2
    <3>4. Len(c) \in 1..Len(c) /\ 2 \in 1..Len(c)
      BY <1>1
    <3>5. QED BY <1>1, <3>3, <3>4, OfRolesInterval
  <2>2. Len(SubSeq(c, 2, Len(c))) = Len(c) - 1
    BY <1>1
  <2>3. Len(OfRoles(c, Roles \ {"system"})) <= KeptRecent
    BY <1>1, <1>3, <2>1, <2>2 DEF KeptRecent
  <2>4. SmartCompact(c) = c
    BY <2>3 DEF SmartCompact
  <2>5. QED BY <2>4
<1>4. QED BY <1>2, <1>3

LEMMA NudgeKeepsForm ==
  ASSUME NEW c, WellFormed(c)
  PROVE  WellFormed(Append(c, Msg("nudge", 0)))
<1> DEFINE r == Append(c, Msg("nudge", 0))
<1>1. c \in Seq(Messages) /\ Len(c) \in Nat /\ Len(c) >= 2
  BY DEF WellFormed
<1>2. Msg("nudge", 0) \in Messages /\ Msg("nudge", 0).role = "nudge"
  BY DEF Messages, Msg, Roles, UserRoles
<1>3. /\ r \in Seq(Messages) /\ Len(r) = Len(c) + 1 /\ r[Len(c) + 1].role = "nudge"
      /\ \A i \in 1..Len(c) : r[i] = c[i]
  BY <1>1, <1>2, AppendProperties
<1> HIDE DEF r
<1>4. ASSUME NEW i \in 3..Len(r)
      PROVE  r[i].role \notin {"system", "task"} /\ (r[i].role = "result" => Behind(r, i))
  <2>1. CASE i = Len(c) + 1
    BY <1>3, <2>1
  <2>2. CASE i # Len(c) + 1
    <3>1. i \in 3..Len(c) /\ r[i] = c[i] /\ r[i - 1] = c[i - 1]
      BY <1>1, <1>3, <2>2
    <3>2. QED BY <3>1 DEF WellFormed, Behind
  <2>3. QED BY <2>1, <2>2
<1>5. Len(r) >= 2 /\ r[1] = c[1] /\ r[2] = c[2]
  BY <1>1, <1>3
<1>6. QED BY <1>3, <1>4, <1>5 DEF WellFormed, r

LEMMA BatchKeepsForm ==
  ASSUME NEW c, WellFormed(c), NEW n \in Nat, rs.calls \in Nat
  PROVE  WellFormed(WithBatch(c, n))
<1> DEFINE call == Msg("call", rs.calls + 1)
           result == Msg("result", rs.calls + 1)
           a == Append(c, call)
           b == [i \in 1..n |-> result]
           r == a \o b
<1>1. c \in Seq(Messages) /\ Len(c) \in Nat /\ Len(c) >= 2
  BY DEF WellFormed
<1>2. /\ call \in Messages /\ call.role = "call"
      /\ result \in Messages /\ result.role = "result" /\ result.batch = rs.calls + 1
      /\ call = Msg("call", result.batch) /\ result = Msg("result", result.batch)
  BY DEF Messages, Msg, Roles, UserRoles
<1>3. WithBatch(c, n) = r
  BY DEF WithBatch
<1> HIDE DEF call, result
<1>4. /\ a \in Seq(Messages) /\ Len(a) = Len(c) + 1 /\ a[Len(c) + 1] = call
      /\ \A i \in 1..Len(c) : a[i] = c[i]
  BY <1>1, <1>2, AppendProperties
<1>5. b \in Seq(Messages) /\ Len(b) = n /\ \A i \in 1..n : b[i] = result
  BY <1>2
<1> HIDE DEF a, b
<1>6. /\ r \in Seq(Messages) /\ Len(r) = Len(c) + 1 + n
      /\ \A i \in 1..Len(c) : r[i] = c[i]
      /\ r[Len(c) + 1] = call
      /\ \A i \in (Len(c) + 2)..(Len(c) + 1 + n) : r[i] = result
  <2>1. /\ r \in Seq(Messages) /\ Len(r) = Len(a) + Len(b)
        /\ \A i \in 1..Len(a) + Len(b) : r[i] = IF i <= Len(a) THEN a[i] ELSE b[i - Len(a)]
    BY <1>4, <1>5, ConcatProperties
  <2> HIDE DEF r
  <2>2. QED BY <1>1, <1>4, <1>5, <2>1
<1> HIDE DEF r
<1>7. ASSUME NEW i \in 3..Len(r)
      PROVE  r[i].role \notin {"system", "task"} /\ (r[i].role = "result" => Behind(r, i))
  <2>1. CASE i <= Len(c)
    <3>1. i \in 3..Len(c) /\ r[i] = c[i] /\ r[i - 1] = c[i - 1]
      BY <1>1, <1>6, <2>1
    <3>2. QED BY <3>1 DEF WellFormed, Behind
  <2>2. CASE i = Len(c) + 1
    BY <1>2, <1>6, <2>2
  <2>3. CASE i = Len(c) + 2
    <3>1. r[i] = result /\ r[i - 1] = call
      BY <1>1, <1>6, <2>3
    <3>2. QED BY <1>2, <3>1 DEF Behind
  <2>4. CASE i > Len(c) + 2
    <3>1. r[i] = result /\ r[i - 1] = result
      BY <1>1, <1>6, <2>4
    <3>2. QED BY <1>2, <3>1 DEF Behind
  <2>5. QED BY <1>1, <1>6, <2>1, <2>2, <2>3, <2>4
<1>8. Len(r) >= 2 /\ r[1] = c[1] /\ r[2] = c[2]
  BY <1>1, <1>6
<1>9. QED BY <1>3, <1>6, <1>7, <1>8 DEF WellFormed

-----------------------------------------------------------------------------

Loops == [round: 0..MaxRounds, iteration: 1..MaxIterations, calls: Nat,
          roundStart: Nat, emptyRetried: BOOLEAN, truncationRetried: BOOLEAN,
          content: {"none", "answer", "default"}, error: BOOLEAN]

CappedCalls(l) == l \in Loops /\ (reactMode = "execute" => l.calls < HardCap + MaxBatch)
Undecided(l) == l.content = "none" /\ l.error = FALSE

ReactInv ==
  /\ reactMode \in {"execute", "stream"} /\ reactDone \in BOOLEAN
  /\ CappedCalls(rs) /\ WellFormed(convo)
  /\ ~reactDone => Undecided(rs)
  /\ reactDone => (rs.content = "none" <=> rs.error = TRUE)

LEMMA FinishKeepsReactInv ==
  ASSUME NEW l, NEW c, ReactInv, CappedCalls(l), WellFormed(c),
         l.content # "none" => l.error = FALSE, Finish(l, c)
  PROVE  ReactInv'
<1> DEFINE m == [l EXCEPT !.content = "default"]
           e == [l EXCEPT !.error = TRUE]
<1>1. /\ CappedCalls(m) /\ m.content = "default" /\ m.error = l.error
      /\ CappedCalls(e) /\ e.error = TRUE /\ e.content = l.content
  BY DEF CappedCalls, Loops
<1>2. /\ CappedCalls(rs') /\ reactDone' = TRUE /\ reactMode' = reactMode /\ convo' = c
      /\ rs'.content = "none" <=> rs'.error = TRUE
  <2>1. reactDone' = TRUE /\ reactMode' = reactMode /\ convo' = c
    BY DEF Finish
  <2>2. CASE l.content # "none"
    <3>1. rs' = l
      BY <2>2 DEF Finish
    <3>2. QED BY <2>1, <2>2, <3>1
  <2>3. CASE l.content = "none" /\ l.error = TRUE
    <3>1. rs' = l
      BY <2>3 DEF Finish
    <3>2. QED BY <2>1, <2>3, <3>1
  <2>4. CASE l.content = "none" /\ l.error = FALSE
    <3>1. rs' = m \/ rs' = e
      BY <2>4 DEF Finish
    <3> HIDE DEF m, e
    <3>2. QED BY <1>1, <2>1, <2>4, <3>1
  <2>5. l.error \in BOOLEAN
    BY DEF CappedCalls, Loops
  <2>6. QED BY <2>2, <2>3, <2>4, <2>5
<1>3. CappedCalls(rs)'
  BY <1>2 DEF CappedCalls
<1>4. WellFormed(convo)'
  BY <1>2 DEF WellFormed, Behind
<1>5. QED BY <1>2, <1>3, <1>4 DEF ReactInv

LEMMA ContinueKeepsReactInv ==
  ASSUME NEW l, NEW c, ReactInv, ~reactDone, CappedCalls(l), Undecided(l), WellFormed(c),
         Continue(l, c)
  PROVE  ReactInv'
<1>1. rs' = l /\ convo' = c /\ reactMode' = reactMode /\ reactDone' = reactDone
  BY DEF Continue
<1>2. CappedCalls(rs)' /\ Undecided(rs)'
  BY <1>1 DEF CappedCalls, Undecided
<1>3. WellFormed(convo)'
  BY <1>1 DEF WellFormed, Behind
<1>4. QED BY <1>1, <1>2, <1>3 DEF ReactInv

LEMMA NextIterationKeepsReactInv ==
  ASSUME NEW l, NEW c, ReactInv, ~reactDone, CappedCalls(l), Undecided(l), WellFormed(c),
         NextIteration(l, c)
  PROVE  ReactInv'
<1> DEFINE more == [l EXCEPT !.iteration = @ + 1]
           round == [l EXCEPT !.round = @ + 1, !.iteration = 1, !.roundStart = l.calls]
<1>1. CASE l.iteration < MaxIterations
  <2>1. CappedCalls(more) /\ Undecided(more)
    BY <1>1, ReactAssumption DEF CappedCalls, Undecided, Loops
  <2>2. Continue(more, c)
    BY <1>1 DEF NextIteration
  <2> HIDE DEF more
  <2>3. QED BY <2>1, <2>2, ContinueKeepsReactInv
<1>2. CASE ~(l.iteration < MaxIterations) /\ l.calls # l.roundStart /\ l.round < MaxRounds
  <2>1. /\ l \in Loops /\ l.round \in Nat /\ l.round + 1 \in 0..MaxRounds
        /\ 1 \in 1..MaxIterations /\ l.calls \in Nat
    BY <1>2, ReactAssumption DEF CappedCalls, Loops
  <2>2. round \in Loops /\ round.calls = l.calls /\ Undecided(round)
    BY <2>1 DEF Undecided, Loops
  <2>3. CappedCalls(round)
    BY <2>2 DEF CappedCalls
  <2>4. Continue(round, Append(c, Msg("nudge", 0)))
    BY <1>2 DEF NextIteration
  <2> HIDE DEF round
  <2>5. QED BY <2>2, <2>3, <2>4, ContinueKeepsReactInv, NudgeKeepsForm
<1>3. CASE ~(l.iteration < MaxIterations) /\ ~(l.calls # l.roundStart /\ l.round < MaxRounds)
  <2>1. Finish(l, c)
    BY <1>3 DEF NextIteration
  <2>2. QED BY <2>1, FinishKeepsReactInv DEF Undecided
<1>4. QED BY <1>1, <1>2, <1>3

LEMMA PromptsAreWellFormed ==
  ASSUME ReactInv, NEW c \in Prompts
  PROVE  WellFormed(c)
BY CompactKeepsForm DEF ReactInv, Prompts

LEMMA ExecuteKeepsReactInv ==
  ASSUME ReactInv, Executing,
         ThinkFails \/ RunTools \/ RefuseTools \/ RetryTruncated \/ EmptyAfterTools \/ Answer
  PROVE  ReactInv'
<1>1. ~reactDone /\ reactMode = "execute" /\ CappedCalls(rs) /\ Undecided(rs) /\ rs \in Loops
  BY DEF Executing, ReactInv, CappedCalls
<1>2. CASE ThinkFails
  <2> DEFINE l == [rs EXCEPT !.error = TRUE]
  <2>1. CappedCalls(l) /\ l.content = "none"
    BY <1>1 DEF CappedCalls, Undecided, Loops
  <2>2. PICK c \in Prompts : Finish(l, c)
    BY <1>2 DEF ThinkFails
  <2> HIDE DEF l
  <2>3. QED BY <2>1, <2>2, PromptsAreWellFormed, FinishKeepsReactInv
<1>3. CASE RunTools
  <2>1. PICK c \in Prompts, n \in 1..MaxBatch :
          NextIteration([rs EXCEPT !.calls = @ + n], WithBatch(c, n))
    BY <1>3 DEF RunTools
  <2> DEFINE l == [rs EXCEPT !.calls = @ + n]
  <2>2. CappedCalls(l) /\ Undecided(l)
    <3>1. rs.calls < HardCap /\ n \in Nat /\ n <= MaxBatch /\ rs.calls \in Nat
      BY <1>1, <1>3, <2>1, ReactAssumption DEF RunTools, Loops
    <3>2. rs.calls + n \in Nat /\ rs.calls + n < HardCap + MaxBatch
      BY <3>1, ReactAssumption
    <3>3. QED BY <1>1, <3>2 DEF CappedCalls, Undecided, Loops
  <2>3. WellFormed(WithBatch(c, n))
    BY <1>1, <2>1, PromptsAreWellFormed, BatchKeepsForm, ReactAssumption DEF Loops
  <2> HIDE DEF l
  <2>4. QED BY <1>1, <2>1, <2>2, <2>3, NextIterationKeepsReactInv DEF l
<1>4. CASE RefuseTools
  <2>1. PICK c \in Prompts : NextIteration(rs, Append(c, Msg("nudge", 0)))
    BY <1>4 DEF RefuseTools
  <2>2. QED
    BY <1>1, <2>1, PromptsAreWellFormed, NudgeKeepsForm, NextIterationKeepsReactInv
<1>5. CASE RetryTruncated
  <2> DEFINE l == [rs EXCEPT !.truncationRetried = TRUE]
  <2>1. CappedCalls(l) /\ Undecided(l)
    BY <1>1 DEF CappedCalls, Undecided, Loops
  <2>2. PICK c \in Prompts : NextIteration(l, Append(c, Msg("nudge", 0)))
    BY <1>5 DEF RetryTruncated
  <2> HIDE DEF l
  <2>3. QED
    BY <1>1, <2>1, <2>2, PromptsAreWellFormed, NudgeKeepsForm, NextIterationKeepsReactInv
<1>6. CASE EmptyAfterTools
  <2> DEFINE l == [rs EXCEPT !.content = "default"]
             m == [rs EXCEPT !.emptyRetried = TRUE]
  <2>1. CappedCalls(l) /\ l.error = FALSE /\ CappedCalls(m) /\ Undecided(m)
    BY <1>1 DEF CappedCalls, Undecided, Loops
  <2>2. PICK c \in Prompts : Finish(l, c) \/ NextIteration(m, Append(c, Msg("nudge", 0)))
    BY <1>6 DEF EmptyAfterTools
  <2> HIDE DEF l, m
  <2>3. WellFormed(c) /\ WellFormed(Append(c, Msg("nudge", 0)))
    BY <2>2, PromptsAreWellFormed, NudgeKeepsForm
  <2>4. QED
    BY <1>1, <2>1, <2>2, <2>3, NextIterationKeepsReactInv, FinishKeepsReactInv
<1>7. CASE Answer
  <2>1. PICK c \in Prompts, text \in {"answer", "none"} : Finish([rs EXCEPT !.content = text], c)
    BY <1>7 DEF Answer
  <2> DEFINE l == [rs EXCEPT !.content = text]
  <2>2. CappedCalls(l) /\ l.error = FALSE
    BY <1>1 DEF CappedCalls, Undecided, Loops
  <2> HIDE DEF l
  <2>3. QED BY <2>1, <2>2, PromptsAreWellFormed, FinishKeepsReactInv DEF l
<1>8. QED BY <1>2, <1>3, <1>4, <1>5, <1>6, <1>7

LEMMA StreamKeepsReactInv ==
  ASSUME ReactInv, Streaming, StreamFails \/ StreamTools \/ StreamAnswer \/ StreamCut
  PROVE  ReactInv'
<1>1. ~reactDone /\ reactMode = "stream" /\ CappedCalls(rs) /\ Undecided(rs) /\ rs \in Loops
      /\ WellFormed(convo)
  BY DEF Streaming, ReactInv, CappedCalls
<1>2. ASSUME NEW l, CappedCalls(l), l.content = "none" <=> l.error = TRUE, EndStream(l)
      PROVE  ReactInv'
  <2>1. rs' = l /\ convo' = convo /\ reactMode' = reactMode /\ reactDone' = TRUE
    BY <1>2 DEF EndStream
  <2>2. CappedCalls(rs)'
    BY <1>2, <2>1 DEF CappedCalls
  <2>3. WellFormed(convo)'
    BY <1>1, <2>1 DEF WellFormed, Behind
  <2>4. QED BY <1>2, <2>1, <2>2, <2>3 DEF ReactInv
<1>3. ASSUME NEW l, NEW c, CappedCalls(l), Undecided(l), WellFormed(c), NextStreamIteration(l, c)
      PROVE  ReactInv'
  <2> DEFINE more == [l EXCEPT !.iteration = @ + 1]
             e == [l EXCEPT !.error = TRUE]
  <2>1. CASE l.iteration < MaxIterations
    <3>1. CappedCalls(more) /\ Undecided(more)
      BY <1>3, <2>1, ReactAssumption DEF CappedCalls, Undecided, Loops
    <3>2. Continue(more, c)
      BY <1>3, <2>1 DEF NextStreamIteration
    <3> HIDE DEF more
    <3>3. QED BY <1>1, <1>3, <3>1, <3>2, ContinueKeepsReactInv
  <2>2. CASE ~(l.iteration < MaxIterations)
    <3>1. CappedCalls(e) /\ e.content = "none" /\ e.error = TRUE
      BY <1>3 DEF CappedCalls, Undecided, Loops
    <3>2. rs' = e /\ convo' = c /\ reactMode' = reactMode /\ reactDone' = TRUE
      BY <1>3, <2>2 DEF NextStreamIteration
    <3> HIDE DEF e
    <3>3. CappedCalls(rs)'
      BY <3>1, <3>2 DEF CappedCalls
    <3>4. WellFormed(convo)'
      BY <1>3, <3>2 DEF WellFormed, Behind
    <3>5. QED BY <3>1, <3>2, <3>3, <3>4 DEF ReactInv
  <2>3. QED BY <2>1, <2>2
<1>4. CASE StreamFails
  <2> DEFINE l == [rs EXCEPT !.error = TRUE]
  <2>1. CappedCalls(l) /\ l.content = "none" /\ l.error = TRUE
    BY <1>1 DEF CappedCalls, Undecided, Loops
  <2>2. EndStream(l)
    BY <1>4 DEF StreamFails
  <2> HIDE DEF l
  <2>3. QED BY <1>2, <2>1, <2>2
<1>5. CASE StreamTools
  <2>1. PICK n \in 1..MaxBatch :
          NextStreamIteration([rs EXCEPT !.calls = @ + n], WithBatch(convo, n))
    BY <1>5 DEF StreamTools
  <2> DEFINE l == [rs EXCEPT !.calls = @ + n]
  <2>2. n \in Nat /\ rs.calls \in Nat
    BY <1>1, ReactAssumption DEF Loops
  <2>3. CappedCalls(l) /\ Undecided(l)
    BY <1>1, <2>2 DEF CappedCalls, Undecided, Loops
  <2>4. WellFormed(WithBatch(convo, n))
    BY <1>1, <2>2, BatchKeepsForm
  <2> HIDE DEF l
  <2>5. QED BY <1>3, <2>1, <2>3, <2>4 DEF l
<1>6. CASE StreamAnswer
  <2> DEFINE l == [rs EXCEPT !.content = "answer"]
  <2>1. CappedCalls(l) /\ l.content = "answer" /\ l.error = FALSE
    BY <1>1 DEF CappedCalls, Undecided, Loops
  <2>2. EndStream(l)
    BY <1>6 DEF StreamAnswer
  <2> HIDE DEF l
  <2>3. QED BY <1>2, <2>1, <2>2
<1>7. CASE StreamCut
  BY <1>1, <1>3, <1>7 DEF StreamCut
<1>8. QED BY <1>4, <1>5, <1>6, <1>7

\* React: however often the context is compacted, the model is shown the task
\* and no tool result without its call or the summary in its place; the cap on
\* tool calls is overrun by one batch at most; and the loop ends with an answer
\* or with an error (strategy_react.go, ExecuteStream, SmartCompact).
THEOREM ConversationAndEndAlwaysHold ==
  ReactSpec => [](ReactTypeOK /\ ConversationAndEndHold)
<1>1. ReactInit => ReactInv
  <2> SUFFICES ASSUME ReactInit PROVE ReactInv
    OBVIOUS
  <2>1. rs \in Loops /\ Undecided(rs) /\ rs.calls = 0
    BY ReactAssumption DEF ReactInit, Loops, Undecided
  <2>2. CappedCalls(rs)
    BY <2>1, ReactAssumption DEF CappedCalls
  <2>3. WellFormed(convo)
    <3> DEFINE s == Msg("system", 0)
               t == Msg("task", 0)
    <3>1. s \in Messages /\ t \in Messages
      BY DEF Messages, Msg, Roles, UserRoles
    <3>2. convo = <<s, t>>
      BY DEF ReactInit
    <3> HIDE DEF s, t
    <3>3. convo \in Seq(Messages) /\ Len(convo) = 2 /\ convo[1] = s /\ convo[2] = t
      BY <3>1, <3>2
    <3>4. QED BY <3>3 DEF WellFormed, s, t
  <2>4. QED BY <2>1, <2>2, <2>3 DEF ReactInit, ReactInv
<1>2. ReactInv /\ [ReactNext]_reactVars => ReactInv'
  <2> SUFFICES ASSUME ReactInv, [ReactNext]_reactVars PROVE ReactInv'
    OBVIOUS
  <2>1. CASE UNCHANGED reactVars
    BY <2>1 DEF reactVars, ReactInv, CappedCalls, Undecided, WellFormed, Behind
  <2>2. CASE ThinkFails \/ RunTools \/ RefuseTools \/ RetryTruncated \/ EmptyAfterTools \/ Answer
    <3>1. Executing
      BY <2>2 DEF ThinkFails, RunTools, RefuseTools, RetryTruncated, EmptyAfterTools, Answer
    <3>2. QED BY <2>2, <3>1, ExecuteKeepsReactInv
  <2>3. CASE StreamFails \/ StreamTools \/ StreamAnswer \/ StreamCut
    <3>1. Streaming
      BY <2>3 DEF StreamFails, StreamTools, StreamAnswer, StreamCut
    <3>2. QED BY <2>3, <3>1, StreamKeepsReactInv
  <2>4. QED BY <2>1, <2>2, <2>3 DEF ReactNext
<1>3. ReactInv => ConversationAndEndHold
  <2> SUFFICES ASSUME ReactInv PROVE ConversationAndEndHold
    OBVIOUS
  <2>1. convo[1].role = "system" /\ convo[2].role = "task"
    BY DEF ReactInv, WellFormed, Msg
  <2>2. \A i \in 3..Len(convo) : convo[i].role = "result" => Behind(convo, i)
    BY DEF ReactInv, WellFormed
  <2>3. reactDone => (rs.content = "none" <=> rs.error)
    <3>1. rs.error \in BOOLEAN
      BY DEF ReactInv, CappedCalls, Loops
    <3>2. QED BY <3>1 DEF ReactInv
  <2>4. QED
    BY <2>1, <2>2, <2>3 DEF ReactInv, CappedCalls, ConversationAndEndHold, Behind
<1>4. ReactInv => ReactTypeOK
  BY DEF ReactInv, ReactTypeOK, CappedCalls, Loops, WellFormed, Messages
<1>5. QED BY <1>1, <1>2, <1>3, <1>4, PTL DEF ReactSpec

-----------------------------------------------------------------------------
(* Worker: the tool loop of one plan step and its file check. *)

LoopRecord ==
  [iter: 0..WorkerMaxIter, made: Nat, nudged: BOOLEAN, last: ToolCalls \union {NoCall},
   repeat: 0..(RepeatLimit - 1)]

WorkerShape ==
  /\ WorkerTypeOK /\ wrote \in BOOLEAN
  /\ tries \in [attempt: 0..MaxRetries, seen: SUBSET SUBSET Paths, brokeOff: BOOLEAN]

\* A loop that is past its first turn has made a call or has been nudged.
LoopCounts ==
  /\ loop.iter > 0 => loop.nudged \/ loop.made > 0
  /\ loop.repeat <= loop.made
  /\ workerAt \in {"ask", "calls"} => loop.iter < WorkerMaxIter

\* What the model writes itself the conversation shows.
WritesAreShown ==
  /\ \A i \in DOMAIN pending : pending[i].kind = "write" => pending[i].path \in msgs.writes
  /\ wrote => msgs.writes # {}

RetriesFollowFailures ==
  workerAt \in {"ask", "calls", "check"} /\ tries.attempt > 0 => Failed(draft.verdict)

WorkerInv ==
  WorkerShape /\ LoopCounts /\ WritesAreShown /\ RetriesFollowFailures /\ FindingsCarryTheirTags

\* It holds at the start.
LEMMA WorkerInvInitially == WorkerInit => WorkerInv
<1> SUFFICES ASSUME WorkerInit PROVE WorkerInv
  OBVIOUS
<1>1. NewLoop \in LoopRecord /\ NewLoop.iter = 0 /\ NewLoop.repeat = 0 /\ NewLoop.made = 0
        /\ 0 < WorkerMaxIter
  BY WorkerAssumption DEF NewLoop, LoopRecord, RepeatLimit
<1>2. WorkerShape
  <2>1. /\ step \in StepKinds /\ workerAt = "ask" /\ loop \in LoopRecord
        /\ pending \in Seq(ToolCalls)
        /\ msgs \in [writes: SUBSET Paths, failed: BOOLEAN]
        /\ grown \in [writes: SUBSET Paths, failed: BOOLEAN]
        /\ wrote \in BOOLEAN
    <3>1. msgs = [writes |-> {}, failed |-> FALSE] /\ grown = msgs /\ pending = <<>>
      BY DEF WorkerInit
    <3>2. [writes |-> {}, failed |-> FALSE] \in [writes: SUBSET Paths, failed: BOOLEAN]
      OBVIOUS
    <3>3. pending \in Seq(ToolCalls)
      BY <3>1
    <3>4. step \in StepKinds /\ workerAt = "ask" /\ loop \in LoopRecord /\ wrote \in BOOLEAN
      BY <1>1 DEF WorkerInit
    <3>5. QED BY <3>1, <3>2, <3>3, <3>4
  <2>2. disk \in [Paths -> {"absent", "empty", "full"}]
    BY DEF WorkerInit
  <2>3. /\ draft \in [verdict: Verdicts, noEvidence: BOOLEAN]
        /\ finding \in [verdict: Verdicts, noEvidence: BOOLEAN, build: BOOLEAN]
    BY DEF WorkerInit, NoDraft, NoFinding, Verdicts
  <2>4. tries \in [attempt: 0..MaxRetries, seen: SUBSET SUBSET Paths, brokeOff: BOOLEAN]
    <3>1. 0 \in 0..MaxRetries /\ {} \in SUBSET SUBSET Paths
      BY DEF MaxRetries
    <3>2. tries = [attempt |-> 0, seen |-> {}, brokeOff |-> FALSE]
      BY DEF WorkerInit
    <3>3. QED BY <3>1, <3>2
  <2>5. tries.attempt \in 0..MaxRetries /\ tries.seen \subseteq SUBSET Paths
    BY <2>4
  <2>6. QED BY <2>1, <2>2, <2>3, <2>4, <2>5 DEF WorkerShape, WorkerTypeOK, LoopRecord
<1>3. LoopCounts /\ WritesAreShown /\ RetriesFollowFailures /\ FindingsCarryTheirTags
  BY <1>1 DEF WorkerInit, LoopCounts, WritesAreShown, RetriesFollowFailures, FindingsCarryTheirTags
<1>4. QED BY <1>2, <1>3 DEF WorkerInv

LEMMA ShapeOfWorker ==
  ASSUME WorkerShape
  PROVE  /\ step \in StepKinds /\ loop \in LoopRecord /\ pending \in Seq(ToolCalls)
         /\ msgs \in [writes: SUBSET Paths, failed: BOOLEAN]
         /\ grown \in [writes: SUBSET Paths, failed: BOOLEAN]
         /\ disk \in [Paths -> {"absent", "empty", "full"}]
         /\ draft \in [verdict: Verdicts, noEvidence: BOOLEAN]
         /\ finding \in [verdict: Verdicts, noEvidence: BOOLEAN, build: BOOLEAN]
         /\ tries \in [attempt: 0..MaxRetries, seen: SUBSET SUBSET Paths, brokeOff: BOOLEAN]
BY DEF WorkerShape, WorkerTypeOK, LoopRecord

\* The loop gives its output to the file check.
LEMMA ReturnedLoop ==
  ASSUME WorkerInv, NEW noEvidence \in BOOLEAN, LoopReturns(noEvidence),
         workerAt \in {"ask", "calls"}, loop' \in LoopRecord,
         msgs' \in [writes: SUBSET Paths, failed: BOOLEAN], msgs.writes \subseteq msgs'.writes,
         pending' \in Seq(ToolCalls), disk' \in [Paths -> {"absent", "empty", "full"}],
         wrote' \in BOOLEAN, UNCHANGED <<step, tries, finding>>,
         loop'.iter > 0 => loop'.nudged \/ loop'.made > 0, loop'.repeat <= loop'.made,
         WritesAreShown', NeedsEvidence /\ loop'.made = 0 => noEvidence
  PROVE  WorkerInv'
<1>1. /\ workerAt' = "check" /\ grown' = IF tries.attempt = 0 THEN msgs' ELSE grown
      /\ draft' = [draft EXCEPT !.noEvidence = noEvidence]
  BY DEF LoopReturns
<1>2. /\ draft \in [verdict: Verdicts, noEvidence: BOOLEAN]
      /\ grown \in [writes: SUBSET Paths, failed: BOOLEAN]
      /\ draft' \in [verdict: Verdicts, noEvidence: BOOLEAN]
      /\ grown' \in [writes: SUBSET Paths, failed: BOOLEAN]
      /\ draft'.verdict = draft.verdict /\ draft'.noEvidence = noEvidence
  BY <1>1, ShapeOfWorker DEF WorkerInv
<1>3. WorkerShape'
  BY <1>1, <1>2 DEF WorkerInv, WorkerShape, WorkerTypeOK, LoopRecord
<1>4. LoopCounts' /\ RetriesFollowFailures'
  BY <1>1, <1>2 DEF WorkerInv, LoopCounts, RetriesFollowFailures, Failed
<1>5. FindingsCarryTheirTags'
  BY <1>1, <1>2 DEF FindingsCarryTheirTags, NeedsEvidence
<1>6. QED BY <1>3, <1>4, <1>5 DEF WorkerInv

\* A turn ends: the model is asked again, or the last message is the output.
LEMMA EndedTurn ==
  ASSUME WorkerInv, NEW l \in LoopRecord, NextIter(l), l.iter < WorkerMaxIter,
         workerAt \in {"ask", "calls"},
         msgs' \in [writes: SUBSET Paths, failed: BOOLEAN], msgs.writes \subseteq msgs'.writes,
         pending' \in Seq(ToolCalls), disk' \in [Paths -> {"absent", "empty", "full"}],
         wrote' \in BOOLEAN, UNCHANGED <<step, tries, finding>>,
         l.repeat <= l.made, l.nudged \/ l.made > 0, WritesAreShown',
         NeedsEvidence /\ l.made = 0 => l.iter + 1 < WorkerMaxIter
  PROVE  WorkerInv'
<1>1. loop' = [l EXCEPT !.iter = @ + 1]
  BY DEF NextIter
<1>2. /\ loop' \in LoopRecord /\ loop'.made = l.made /\ loop'.repeat = l.repeat
      /\ loop'.nudged = l.nudged
      /\ loop'.iter = l.iter + 1
  BY <1>1, WorkerAssumption DEF LoopRecord
<1>3. CASE l.iter + 1 < WorkerMaxIter
  <2>1. workerAt' = "ask" /\ UNCHANGED <<grown, draft>>
    BY <1>3 DEF NextIter
  <2>2. WorkerShape'
    BY <1>2, <2>1 DEF WorkerInv, WorkerShape, WorkerTypeOK, LoopRecord
  <2>3. LoopCounts' /\ RetriesFollowFailures'
    BY <1>2, <1>3, <2>1 DEF WorkerInv, LoopCounts, RetriesFollowFailures, Failed
  <2>4. FindingsCarryTheirTags'
    BY <2>1 DEF FindingsCarryTheirTags
  <2>5. QED BY <2>2, <2>3, <2>4 DEF WorkerInv
<1>4. CASE ~(l.iter + 1 < WorkerMaxIter)
  <2>1. LoopReturns(FALSE)
    BY <1>4 DEF NextIter
  <2>2. QED BY <1>2, <1>4, <2>1, ReturnedLoop
<1>5. QED BY <1>3, <1>4

LEMMA AskKeepsWorkerInv ==
  ASSUME WorkerInv, ModelCalls \/ Intercept \/ Nudge \/ AcceptAnswer
  PROVE  WorkerInv'
<1>0. /\ workerAt = "ask" /\ loop \in LoopRecord /\ loop.iter < WorkerMaxIter
      /\ loop.repeat <= loop.made
      /\ loop.made \in Nat /\ loop.iter \in Nat /\ loop.nudged \in BOOLEAN
      /\ pending \in Seq(ToolCalls) /\ msgs \in [writes: SUBSET Paths, failed: BOOLEAN]
      /\ disk \in [Paths -> {"absent", "empty", "full"}] /\ wrote \in BOOLEAN
  BY ShapeOfWorker DEF ModelCalls, Intercept, Nudge, AcceptAnswer, Asking, WorkerInv, WorkerShape,
     LoopCounts,
     LoopRecord
<1>1. CASE ModelCalls
  <2>1. PICK b \in Batches :
          /\ pending' = b
          /\ msgs' = [msgs EXCEPT !.writes = @ \union {b[i].path :
               i \in {j \in DOMAIN b : b[j].kind = "write"}}]
    BY <1>1 DEF ModelCalls
  <2>2. workerAt' = "calls" /\ UNCHANGED <<step, loop, grown, disk, tries, draft, finding, wrote>>
    BY <1>1 DEF ModelCalls
  <2>3. PICK n \in Nat : b \in [1..n -> ToolCalls]
    BY WorkerAssumption DEF Batches
  <2>4. b \in Seq(ToolCalls) /\ \A i \in DOMAIN b : b[i] \in ToolCalls
    BY <2>3
  <2>5. {b[i].path : i \in {j \in DOMAIN b : b[j].kind = "write"}} \subseteq Paths
    BY <2>4 DEF ToolCalls
  <2>6. /\ msgs' \in [writes: SUBSET Paths, failed: BOOLEAN] /\ msgs.writes \subseteq msgs'.writes
        /\ \A i \in DOMAIN b : b[i].kind = "write" => b[i].path \in msgs'.writes
    BY <1>0, <2>1, <2>5
  <2>7. WorkerShape'
    BY <2>1, <2>2, <2>4, <2>6 DEF WorkerInv, WorkerShape, WorkerTypeOK
  <2>8. LoopCounts' /\ RetriesFollowFailures' /\ WritesAreShown'
    BY <1>0, <2>1, <2>2, <2>6 DEF WorkerInv, LoopCounts, RetriesFollowFailures, Failed,
       WritesAreShown
  <2>9. FindingsCarryTheirTags'
    BY <2>2 DEF FindingsCarryTheirTags
  <2>10. QED BY <2>7, <2>8, <2>9 DEF WorkerInv
<1>2. CASE Intercept
  <2>1. PICK blocks \in (SUBSET Paths) \ {{}}, good \in SUBSET Paths :
          /\ disk' = [p \in Paths |-> IF p \in good THEN "full" ELSE disk[p]]
          /\ NextIter([loop EXCEPT !.made = @ + Cardinality(blocks)])
    BY <1>2 DEF Intercept
  <2>2. msgs' = msgs /\ UNCHANGED <<step, pending, tries, finding, wrote>>
    BY <1>2 DEF Intercept
  <2>3. Cardinality(blocks) \in Nat /\ Cardinality(blocks) > 0
    <3>1. IsFiniteSet(blocks)
      BY PathsAssumption, FS_Subset
    <3>2. Cardinality(blocks) \in Nat /\ (Cardinality(blocks) = 0 <=> blocks = {})
      BY <3>1, FS_CardinalityType, FS_EmptySet
    <3>3. QED BY <3>2
  <2> DEFINE l == [loop EXCEPT !.made = @ + Cardinality(blocks)]
  <2>4. /\ l \in LoopRecord /\ l.iter = loop.iter /\ l.made > 0 /\ l.repeat <= l.made /\ l.made # 0
    <3>1. loop.made + Cardinality(blocks) \in Nat /\ loop.repeat \in Nat
      BY <1>0, <2>3 DEF LoopRecord, RepeatLimit
    <3>2. l \in LoopRecord /\ l.iter = loop.iter /\ l.made = loop.made + Cardinality(blocks)
            /\ l.repeat = loop.repeat
      BY <1>0, <3>1 DEF LoopRecord
    <3> HIDE DEF l
    <3>3. QED BY <1>0, <2>3, <3>1, <3>2
  <2>5. disk' \in [Paths -> {"absent", "empty", "full"}] /\ WritesAreShown'
    BY <1>0, <2>1, <2>2 DEF WorkerInv, WritesAreShown
  <2> HIDE DEF l
  <2>6. NextIter(l)
    BY <2>1 DEF l
  <2>7. QED BY <1>0, <2>2, <2>4, <2>5, <2>6, EndedTurn
<1>3. CASE Nudge
  <2>1. /\ loop.iter = 0 /\ NextIter([loop EXCEPT !.nudged = TRUE]) /\ msgs' = msgs
        /\ UNCHANGED <<step, pending, disk, tries, finding, wrote>>
    BY <1>3 DEF Nudge
  <2> DEFINE l == [loop EXCEPT !.nudged = TRUE]
  <2>2. l \in LoopRecord /\ l.iter = 0 /\ l.nudged /\ l.repeat <= l.made
          /\ l.iter + 1 < WorkerMaxIter
    <3>1. l \in LoopRecord /\ l.iter = loop.iter /\ l.made = loop.made /\ l.repeat = loop.repeat
            /\ l.nudged = TRUE
      BY <1>0 DEF LoopRecord
    <3> HIDE DEF l
    <3>2. QED BY <1>0, <2>1, <3>1, WorkerAssumption
  <2>3. WritesAreShown'
    BY <2>1 DEF WorkerInv, WritesAreShown
  <2> HIDE DEF l
  <2>4. NextIter(l)
    BY <2>1 DEF l
  <2>5. l.iter < WorkerMaxIter
    BY <1>0, <2>1, <2>2
  <2>6. QED BY <1>0, <2>1, <2>2, <2>3, <2>4, <2>5, EndedTurn
<1>4. CASE AcceptAnswer
  <2>1. /\ ~(loop.iter = 0 /\ NeedsEvidence /\ ~loop.nudged) /\ msgs' = msgs
        /\ LoopReturns(loop.nudged /\ NeedsEvidence /\ loop.made = 0)
        /\ UNCHANGED <<step, loop, pending, disk, tries, finding, wrote>>
    BY <1>4 DEF AcceptAnswer
  <2>2. loop.iter > 0 => loop.nudged \/ loop.made > 0
    BY DEF WorkerInv, LoopCounts
  <2>3. NeedsEvidence /\ loop.made = 0 => loop.nudged
    BY <1>0, <2>1, <2>2
  <2>4. NeedsEvidence /\ loop'.made = 0 => (loop.nudged /\ NeedsEvidence /\ loop.made = 0)
    BY <2>1, <2>3
  <2>5. WritesAreShown'
    BY <2>1 DEF WorkerInv, WritesAreShown
  <2> DEFINE none == loop.nudged /\ NeedsEvidence /\ loop.made = 0
  <2>6. none \in BOOLEAN
    OBVIOUS
  <2> HIDE DEF none
  <2>7. LoopReturns(none) /\ (NeedsEvidence /\ loop'.made = 0 => none)
    BY <2>1, <2>4 DEF none
  <2>8. QED BY <1>0, <2>1, <2>2, <2>5, <2>6, <2>7, ReturnedLoop
<1>5. QED BY <1>1, <1>2, <1>3, <1>4

\* The calls of one response.
LEMMA CallKeepsWorkerInv ==
  ASSUME WorkerInv, StopCalls \/ Act
  PROVE  WorkerInv'
<1>0. /\ workerAt = "calls" /\ loop \in LoopRecord /\ loop.iter < WorkerMaxIter
      /\ loop.repeat <= loop.made
      /\ loop.made \in Nat /\ loop.repeat \in Nat /\ (loop.iter > 0 => loop.nudged \/ loop.made > 0)
      /\ pending \in Seq(ToolCalls) /\ pending # <<>>
      /\ msgs \in [writes: SUBSET Paths, failed: BOOLEAN]
      /\ disk \in [Paths -> {"absent", "empty", "full"}] /\ wrote \in BOOLEAN
      /\ Head(pending) \in ToolCalls
  <2>1. pending \in Seq(ToolCalls) /\ pending # <<>>
    BY ShapeOfWorker DEF StopCalls, Act, WorkerInv
  <2>2. Head(pending) \in ToolCalls
    BY <2>1, HeadTailProperties
  <2>3. loop \in LoopRecord
    BY ShapeOfWorker DEF WorkerInv
  <2>4. loop.made \in Nat /\ loop.repeat \in Nat
    BY <2>3 DEF LoopRecord, RepeatLimit
  <2>5. QED
    BY <2>1, <2>2, <2>3, <2>4, ShapeOfWorker DEF StopCalls, Act, WorkerInv, WorkerShape, LoopCounts
<1> DEFINE c == Head(pending)
<1>1. Repeats(c) \in Nat /\ Repeats(c) <= loop.repeat + 1 /\ Repeats(c) <= loop.made + 1
  BY <1>0 DEF Repeats
<1>2. /\ c.kind = "write" => c.path \in msgs.writes
      /\ \A i \in DOMAIN Tail(pending) : Tail(pending)[i].kind = "write" =>
           Tail(pending)[i].path \in msgs.writes
      /\ Tail(pending) \in Seq(ToolCalls)
  <2>1. c = pending[1] /\ 1 \in DOMAIN pending
    BY <1>0, HeadTailProperties, EmptySeq
  <2>2. /\ Tail(pending) \in Seq(ToolCalls) /\ Len(Tail(pending)) = Len(pending) - 1
        /\ \A i \in 1..Len(Tail(pending)) : Tail(pending)[i] = pending[i + 1]
    BY <1>0, HeadTailProperties
  <2>3. \A i \in DOMAIN Tail(pending) : i + 1 \in DOMAIN pending
          /\ Tail(pending)[i] = pending[i + 1]
    BY <1>0, <2>2
  <2>4. QED BY <2>1, <2>2, <2>3 DEF WorkerInv, WritesAreShown
<1> HIDE DEF c
<1>3. CASE StopCalls
  <2>1. /\ loop.made + 1 > WorkerBudget \/ Repeats(c) >= RepeatLimit
        /\ pending' = <<>> /\ msgs' = msgs /\ LoopReturns(FALSE)
        /\ UNCHANGED <<step, loop, disk, tries, finding, wrote>>
    BY <1>3 DEF StopCalls, c
  <2>2. loop.made # 0
    BY <1>0, <1>1, <2>1, WorkerAssumption DEF RepeatLimit
  <2>3. WritesAreShown' /\ pending' \in Seq(ToolCalls)
    BY <2>1 DEF WorkerInv, WritesAreShown
  <2>4. QED BY <1>0, <2>1, <2>2, <2>3, ReturnedLoop
<1>4. CASE Act
  <2> DEFINE l == [loop EXCEPT !.made = @ + 1, !.last = c, !.repeat = Repeats(c)]
  <2>1. /\ Repeats(c) < RepeatLimit /\ pending' = Tail(pending)
        /\ wrote' = (wrote \/ c.kind = "write")
        /\ IF Len(pending) = 1 THEN NextIter(l)
             ELSE loop' = l /\ UNCHANGED <<workerAt, grown, draft>>
        /\ UNCHANGED <<step, tries, finding>>
    BY <1>4 DEF Act, c
  <2>2. PICK good \in {"absent", "empty", "full"}, bad \in BOOLEAN :
          /\ disk' = IF c.kind = "write" /\ good # "absent" THEN [disk EXCEPT ![c.path] = good]
               ELSE disk
          /\ msgs' = [msgs EXCEPT !.failed = @ \/ (c.kind = "command" /\ bad)]
    BY <1>4 DEF Act, c
  <2>3. /\ l \in LoopRecord /\ l.iter = loop.iter /\ l.made > 0 /\ l.made # 0 /\ l.repeat <= l.made
    <3>1. loop.made + 1 \in Nat /\ Repeats(c) \in 0..(RepeatLimit - 1)
            /\ c \in ToolCalls \union {NoCall}
      BY <1>0, <1>1, <2>1 DEF RepeatLimit, c
    <3>2. /\ l \in LoopRecord /\ l.iter = loop.iter /\ l.made = loop.made + 1
          /\ l.repeat = Repeats(c)
      BY <1>0, <3>1 DEF LoopRecord
    <3> HIDE DEF l
    <3>3. QED BY <1>0, <1>1, <3>2
  <2>4. msgs' \in [writes: SUBSET Paths, failed: BOOLEAN] /\ msgs'.writes = msgs.writes
    BY <1>0, <2>2
  <2>5. disk' \in [Paths -> {"absent", "empty", "full"}] /\ wrote' \in BOOLEAN
    BY <1>0, <2>1, <2>2
  <2>6. WritesAreShown'
    BY <1>2, <2>1, <2>4 DEF WorkerInv, WritesAreShown
  <2> HIDE DEF l
  <2>7. CASE Len(pending) = 1
    <3>1. NextIter(l)
      BY <2>1, <2>7
    <3>2. QED BY <1>0, <1>2, <2>1, <2>3, <2>4, <2>5, <2>6, <3>1, EndedTurn
  <2>8. CASE Len(pending) # 1
    <3>1. loop' = l /\ UNCHANGED <<workerAt, grown, draft>>
      BY <2>1, <2>8
    <3>2. WorkerShape'
      BY <1>2, <2>1, <2>3, <2>4, <2>5, <3>1 DEF WorkerInv, WorkerShape, WorkerTypeOK, LoopRecord
    <3>3. LoopCounts' /\ RetriesFollowFailures'
      BY <1>0, <2>1, <2>3, <3>1 DEF WorkerInv, LoopCounts, RetriesFollowFailures, Failed
    <3>4. FindingsCarryTheirTags'
      BY <1>0, <3>1 DEF FindingsCarryTheirTags
    <3>5. QED BY <2>6, <3>2, <3>3, <3>4 DEF WorkerInv
  <2>9. QED BY <2>7, <2>8
<1>5. QED BY <1>3, <1>4

\* The file check, and the ways the worker ends.
LEMMA CheckKeepsWorkerInv ==
  ASSUME WorkerInv, Conclude \/ Retry \/ AskFails \/ QAReview
  PROVE  WorkerInv'
<1>0. /\ loop \in LoopRecord /\ draft \in [verdict: Verdicts, noEvidence: BOOLEAN]
      /\ grown \in [writes: SUBSET Paths, failed: BOOLEAN]
      /\ msgs \in [writes: SUBSET Paths, failed: BOOLEAN]
      /\ step.check \in BOOLEAN /\ step.file \in BOOLEAN
      /\ disk \in [Paths -> {"absent", "empty", "full"}]
      /\ tries \in [attempt: 0..MaxRetries, seen: SUBSET SUBSET Paths, brokeOff: BOOLEAN]
  BY ShapeOfWorker DEF WorkerInv, StepKinds
<1>1. \A unseen \in SUBSET Candidates :
        /\ Verdict(unseen) \in Verdicts
        /\ Verdict(unseen) = "none" => msgs.writes # {} /\ \A p \in msgs.writes : disk[p] = "full"
        /\ Verdict(unseen) = "failed: no write calls" => msgs.writes = {}
  BY <1>0 DEF Verdict, Verdicts, Candidates
<1>2. ASSUME NEW d \in Checked
      PROVE  /\ d \in [verdict: Verdicts, noEvidence: BOOLEAN]
             /\ step.file /\ d.verdict = "none" => msgs.writes # {}
                  /\ \A p \in msgs.writes : disk[p] = "full"
             /\ d.verdict = "failed: no write calls" => msgs.writes = {}
  <2>1. PICK unseen \in SUBSET Candidates :
          d = [draft EXCEPT !.verdict = IF step.file THEN Verdict(unseen) ELSE "none"]
    BY DEF Checked
  <2>2. d.verdict = IF step.file THEN Verdict(unseen) ELSE "none"
    BY <1>0, <2>1
  <2>3. d \in [verdict: Verdicts, noEvidence: BOOLEAN]
    BY <1>0, <1>1, <2>1 DEF Verdicts
  <2>4. QED BY <1>1, <2>2, <2>3
<1>3. CASE Conclude
  <2>1. PICK d \in Checked : draft' = d /\ Return(d, grown.failed)
    BY <1>3 DEF Conclude
  <2>2. workerAt = "check" /\ UNCHANGED <<step, loop, pending, msgs, grown, disk, tries, wrote>>
    BY <1>3 DEF Conclude
  <2>3. PICK quoted \in BOOLEAN :
          /\ finding' = [verdict |-> d.verdict, noEvidence |-> d.noEvidence,
                         build |-> step.check /\ (grown.failed \/ quoted)]
          /\ workerAt' = "done"
    BY <2>1 DEF Return
  <2>4. WorkerShape'
    BY <1>0, <1>2, <2>1, <2>2, <2>3 DEF WorkerInv, WorkerShape, WorkerTypeOK
  <2>5. LoopCounts' /\ WritesAreShown' /\ RetriesFollowFailures'
    BY <2>2, <2>3 DEF WorkerInv, LoopCounts, WritesAreShown, RetriesFollowFailures
  <2>6. FindingsCarryTheirTags'
    BY <1>2, <2>2, <2>3 DEF WorkerInv, WritesAreShown, FindingsCarryTheirTags
  <2>7. QED BY <2>4, <2>5, <2>6 DEF WorkerInv
<1>4. CASE Retry
  <2>1. PICK d \in Checked : Failed(d.verdict) /\ draft' = d
    BY <1>4 DEF Retry
  <2>2. PICK claimed \in (SUBSET Paths) \ {{}} :
          tries' = [tries EXCEPT !.attempt = @ + 1, !.seen = @ \union {claimed}]
    BY <1>4 DEF Retry
  <2>3. /\ tries.attempt < MaxRetries /\ loop' = NewLoop /\ workerAt' = "ask"
        /\ UNCHANGED <<step, pending, msgs, grown, disk, finding, wrote>>
    BY <1>4 DEF Retry
  <2>4. /\ NewLoop \in LoopRecord /\ NewLoop.iter = 0 /\ NewLoop.repeat = 0 /\ NewLoop.made = 0
        /\ 0 < WorkerMaxIter
    BY WorkerAssumption DEF NewLoop, LoopRecord, RepeatLimit
  <2>5. tries' \in [attempt: 0..MaxRetries, seen: SUBSET SUBSET Paths, brokeOff: BOOLEAN]
    <3>1. tries.attempt \in 0..MaxRetries /\ tries.seen \subseteq SUBSET Paths
      BY <1>0
    <3>2. tries.attempt + 1 \in 0..MaxRetries
      BY <2>3, <3>1 DEF MaxRetries
    <3>3. tries.seen \union {claimed} \in SUBSET SUBSET Paths
      BY <3>1
    <3>4. QED BY <1>0, <2>2, <3>2, <3>3
  <2>6. WorkerShape'
    <3>1. WorkerTypeOK'
      <4>1. tries'.attempt \in 0..MaxRetries /\ tries'.seen \subseteq SUBSET Paths
        BY <2>5
      <4>2. QED BY <1>2, <2>1, <2>3, <2>4, <4>1 DEF WorkerInv, WorkerShape, WorkerTypeOK, LoopRecord
    <3>2. QED BY <2>3, <2>5, <3>1 DEF WorkerInv, WorkerShape
  <2>7. LoopCounts' /\ WritesAreShown' /\ RetriesFollowFailures'
    <3>1. LoopCounts'
      BY <2>3, <2>4 DEF LoopCounts
    <3>2. WritesAreShown'
      BY <2>3 DEF WorkerInv, WritesAreShown
    <3>3. RetriesFollowFailures'
      BY <2>1 DEF RetriesFollowFailures, Failed
    <3>4. QED BY <3>1, <3>2, <3>3
  <2>8. FindingsCarryTheirTags'
    BY <2>3 DEF FindingsCarryTheirTags
  <2>9. QED BY <2>6, <2>7, <2>8 DEF WorkerInv
<1>5. CASE AskFails
  <2>1. /\ workerAt = "ask" /\ ~step.qa /\ tries' = [tries EXCEPT !.brokeOff = tries.attempt > 0]
        /\ UNCHANGED <<step, loop, pending, msgs, grown, disk, draft, wrote>>
    BY <1>5 DEF AskFails, Asking
  <2>2. tries' \in [attempt: 0..MaxRetries, seen: SUBSET SUBSET Paths, brokeOff: BOOLEAN]
        /\ tries'.attempt = tries.attempt /\ tries'.brokeOff = (tries.attempt > 0)
    <3> DEFINE retried == tries.attempt > 0
    <3>1. retried \in BOOLEAN
      OBVIOUS
    <3>2. tries' = [tries EXCEPT !.brokeOff = retried]
      BY <2>1
    <3> HIDE DEF retried
    <3>3. /\ tries' \in [attempt: 0..MaxRetries, seen: SUBSET SUBSET Paths, brokeOff: BOOLEAN]
          /\ tries'.attempt = tries.attempt /\ tries'.brokeOff = retried
      BY <1>0, <3>1, <3>2
    <3>4. QED BY <3>3 DEF retried
  <2>3. /\ workerAt' \in {"done", "failed"} /\ finding' \in [verdict: Verdicts, noEvidence: BOOLEAN,
             build: BOOLEAN]
        /\ workerAt' = "done" => /\ tries.attempt > 0 /\ finding'.verdict = draft.verdict
                                 /\ step.check /\ grown.failed => finding'.build
    <3>1. CASE tries.attempt = 0
      BY <1>5, <3>1, ShapeOfWorker DEF AskFails, WorkerInv
    <3>2. CASE tries.attempt # 0
      <4>1. PICK quoted \in BOOLEAN :
              /\ finding' = [verdict |-> draft.verdict, noEvidence |-> draft.noEvidence,
                             build |-> step.check /\ (grown.failed \/ quoted)]
              /\ workerAt' = "done"
        BY <1>5, <3>2 DEF AskFails, Return
      <4>2. tries.attempt > 0
        BY <1>0, <3>2
      <4>3. QED BY <1>0, <4>1, <4>2
    <3>3. QED BY <3>1, <3>2
  <2>4. WorkerShape'
    <3>1. tries'.attempt \in 0..MaxRetries /\ tries'.seen \subseteq SUBSET Paths
      BY <2>2
    <3>2. QED BY <2>1, <2>2, <2>3, <3>1 DEF WorkerInv, WorkerShape, WorkerTypeOK
  <2>5. LoopCounts' /\ WritesAreShown' /\ RetriesFollowFailures'
    BY <2>1, <2>3 DEF WorkerInv, LoopCounts, WritesAreShown, RetriesFollowFailures
  <2>6. FindingsCarryTheirTags'
    <3>1. workerAt' = "done" => finding'.verdict # "none" /\ tries'.brokeOff
      BY <2>1, <2>2, <2>3 DEF WorkerInv, RetriesFollowFailures, Failed
    <3>2. QED BY <2>1, <2>3, <3>1 DEF FindingsCarryTheirTags
  <2>7. QED BY <2>4, <2>5, <2>6 DEF WorkerInv
<1>6. CASE QAReview
  <2>1. /\ workerAt = "ask" /\ step.qa /\ UNCHANGED <<step, loop, pending, grown, disk, tries,
             draft, wrote>>
    BY <1>6 DEF QAReview
  <2>2. /\ workerAt' \in {"done", "failed"} /\ finding' \in [verdict: Verdicts, noEvidence: BOOLEAN,
             build: BOOLEAN]
        /\ msgs' \in [writes: SUBSET Paths, failed: BOOLEAN] /\ msgs'.writes = msgs.writes
        /\ workerAt' = "done" => finding'.verdict = "none"
    <3>1. CASE workerAt' = "failed" /\ UNCHANGED <<finding, msgs>>
      BY <1>0, <3>1, ShapeOfWorker DEF WorkerInv
    <3>2. CASE \E bad \in BOOLEAN : msgs' = [msgs EXCEPT !.failed = bad] /\ Return(NoDraft, FALSE)
      <4>1. PICK bad \in BOOLEAN : msgs' = [msgs EXCEPT !.failed = bad] /\ Return(NoDraft, FALSE)
        BY <3>2
      <4>2. PICK quoted \in BOOLEAN :
              /\ finding' = [verdict |-> "none", noEvidence |-> FALSE, build |-> step.check
                   /\ (FALSE \/ quoted)]
              /\ workerAt' = "done"
        BY <4>1 DEF Return, NoDraft
      <4>3. QED BY <1>0, <4>1, <4>2 DEF Verdicts
    <3>3. QED BY <1>6, <3>1, <3>2 DEF QAReview
  <2>3. WorkerShape'
    BY <2>1, <2>2 DEF WorkerInv, WorkerShape, WorkerTypeOK
  <2>4. LoopCounts' /\ WritesAreShown' /\ RetriesFollowFailures'
    BY <2>1, <2>2 DEF WorkerInv, LoopCounts, WritesAreShown, RetriesFollowFailures
  <2>5. FindingsCarryTheirTags'
    BY <2>1, <2>2 DEF FindingsCarryTheirTags
  <2>6. QED BY <2>3, <2>4, <2>5 DEF WorkerInv
<1>7. QED BY <1>3, <1>4, <1>5, <1>6

\* Every step keeps it.
LEMMA WorkerInvIsInductive == WorkerInv /\ [WorkerNext]_workerVars => WorkerInv'
<1>1. WorkerInv /\ UNCHANGED workerVars => WorkerInv'
  <2> SUFFICES ASSUME WorkerInv, UNCHANGED workerVars PROVE WorkerInv'
    OBVIOUS
  <2>1. WorkerShape'
    BY DEF workerVars, WorkerInv, WorkerShape, WorkerTypeOK
  <2>2. LoopCounts' /\ WritesAreShown'
    BY DEF workerVars, WorkerInv, LoopCounts, WritesAreShown
  <2>3. RetriesFollowFailures' /\ FindingsCarryTheirTags'
    BY DEF workerVars, WorkerInv, RetriesFollowFailures, FindingsCarryTheirTags, Failed,
       NeedsEvidence
  <2>4. QED BY <2>1, <2>2, <2>3 DEF WorkerInv
<1>2. QED BY <1>1, AskKeepsWorkerInv, CallKeepsWorkerInv, CheckKeepsWorkerInv DEF WorkerNext

\* For every set of files and every cap: a finding of runWorker carries the
\* tags of an output without tool calls, of a failing command and of files
\* that are not there.
THEOREM FindingsAreTagged == WorkerSpec => [](WorkerTypeOK /\ FindingsCarryTheirTags)
<1>1. WorkerInv => WorkerTypeOK /\ FindingsCarryTheirTags
  BY DEF WorkerInv, WorkerShape
<1>2. QED BY <1>1, WorkerInvInitially, WorkerInvIsInductive, PTL DEF WorkerSpec

-----------------------------------------------------------------------------
(* TaskRun: the cleanup is safe because what it finds in an empty folder   *)
(* can only have come from a process that outlived the task.               *)

\* A manifest is there only at the end, and lists the last result's log.
ManifestIsLast ==
  /\ taskAt \in {"write", "rename"} => logged # {}
  /\ taskAt = "rename" => folder
  /\ manifest.there => taskAt = "done" /\ folder /\ manifest.files = logged /\ logged # {}

\* Files are in a folder that is there; the folder is there while the agent runs.
FilesNeedTheFolder ==
  /\ taskAt = "prepare" => ~folder
  /\ content # {} => folder
  /\ taskAt = "run" /\ isolated => folder

\* Once the folder was found empty, only a background process fills it.
OnlyLateFilesAreLost ==
  /\ erased \subseteq late
  /\ taskAt = "remove" => content \subseteq late

EmptyFoldersGo ==
  taskAt = "done" /\ folder /\ content = {} => manifest.there \/ ioFailed

TaskInv == ManifestIsLast /\ FilesNeedTheFolder /\ OnlyLateFilesAreLost /\ EmptyFoldersGo

-----------------------------------------------------------------------------

LEMMA TaskInvInitially == TaskInit => TaskInv
BY DEF TaskInit, TaskInv, ManifestIsLast, FilesNeedTheFolder, OnlyLateFilesAreLost,
       EmptyFoldersGo

\* The agent's side: nothing here touches the manifest or what was erased.
LEMMA RunKeepsTaskInv ==
  ASSUME TaskInv,
         Prepare \/ WriteFile \/ RunCommand \/ StartProcess \/ NextAttempt \/ AgentReturns
  PROVE  TaskInv'
<1> USE DEF TaskInv, ManifestIsLast, FilesNeedTheFolder, OnlyLateFilesAreLost, EmptyFoldersGo
<1>1. CASE Prepare
  <2>1. PICK made \in BOOLEAN : isolated' = made /\ folder' = made
    BY <1>1 DEF Prepare
  <2>2. content = {}
    BY <1>1 DEF Prepare
  <2>3. QED BY <1>1, <2>1, <2>2 DEF Prepare
<1>2. CASE WriteFile
  BY <1>2 DEF WriteFile
<1>3. CASE RunCommand
  BY <1>3 DEF RunCommand
<1>4. CASE StartProcess
  BY <1>4 DEF StartProcess
<1>5. CASE NextAttempt
  BY <1>5 DEF NextAttempt
<1>6. CASE AgentReturns
  BY <1>6 DEF AgentReturns
<1>7. QED BY <1>1, <1>2, <1>3, <1>4, <1>5, <1>6

\* A process writes at any time, between the look and the removal too.
LEMMA ProcessKeepsTaskInv ==
  ASSUME TaskInv, ProcessWrites \/ ProcessEnds
  PROVE  TaskInv'
<1> USE DEF TaskInv, ManifestIsLast, FilesNeedTheFolder, OnlyLateFilesAreLost, EmptyFoldersGo
<1>1. CASE ProcessWrites
  <2>1. PICK f \in Files :
          /\ content' = content \union {f}
          /\ late' = IF taskAt = "run" THEN late ELSE late \union ({f} \ content)
    BY <1>1 DEF ProcessWrites
  <2>2. late \subseteq late'
    BY <2>1
  <2>3. taskAt = "remove" => content' \subseteq late'
    BY <2>1
  <2>4. content' # {}
    BY <2>1
  <2>5. QED BY <1>1, <2>2, <2>3, <2>4 DEF ProcessWrites
<1>2. CASE ProcessEnds
  BY <1>2 DEF ProcessEnds
<1>3. QED BY <1>1, <1>2

\* The orchestrator's side, after the agent has returned.
LEMMA ReportKeepsTaskInv ==
  ASSUME TaskInv, Finalize \/ Look \/ RemoveFolder \/ WriteTmp \/ Rename \/ Crash
  PROVE  TaskInv'
<1> USE DEF TaskInv, ManifestIsLast, FilesNeedTheFolder, OnlyLateFilesAreLost, EmptyFoldersGo
<1>1. CASE Finalize
  BY <1>1 DEF Finalize
<1>2. CASE Look
  BY <1>2 DEF Look
<1>3. CASE RemoveFolder
  BY <1>3 DEF RemoveFolder
<1>4. CASE WriteTmp
  BY <1>4 DEF WriteTmp
<1>5. CASE Rename
  BY <1>5 DEF Rename
<1>6. CASE Crash
  BY <1>6 DEF Crash
<1>7. QED BY <1>1, <1>2, <1>3, <1>4, <1>5, <1>6

LEMMA TaskInvIsInductive == TaskInv /\ [TaskNext]_taskVars => TaskInv'
<1> SUFFICES ASSUME TaskInv, [TaskNext]_taskVars PROVE TaskInv'
  OBVIOUS
<1>1. CASE Prepare \/ WriteFile \/ RunCommand \/ StartProcess \/ NextAttempt \/ AgentReturns
  BY <1>1, RunKeepsTaskInv
<1>2. CASE ProcessWrites \/ ProcessEnds
  BY <1>2, ProcessKeepsTaskInv
<1>3. CASE Finalize \/ Look \/ RemoveFolder \/ WriteTmp \/ Rename \/ Crash
  BY <1>3, ReportKeepsTaskInv
<1>4. CASE UNCHANGED taskVars
  BY <1>4 DEF taskVars, TaskInv, ManifestIsLast, FilesNeedTheFolder, OnlyLateFilesAreLost,
              EmptyFoldersGo
<1>5. QED BY <1>1, <1>2, <1>3, <1>4 DEF TaskNext

\* The types, one variable at a time.
TaskTypes ==
  /\ taskAt \in {"prepare", "run", "report", "look", "remove", "write", "rename", "done", "crashed"}
  /\ attempt \in 0..MaxAttempts
  /\ logs \in BOOLEAN /\ isolated \in BOOLEAN /\ folder \in BOOLEAN /\ background \in BOOLEAN
  /\ ioFailed \in BOOLEAN /\ succeeded \in BOOLEAN
  /\ content \subseteq Files /\ logged \subseteq Files /\ produced \subseteq Files
  /\ late \subseteq Files /\ erased \subseteq Files
  /\ manifest \in [there: BOOLEAN, files: SUBSET Files]

LEMMA TaskTypesKept ==
  ASSUME TaskTypes, [TaskNext]_taskVars
  PROVE  TaskTypes'
<1> USE DEF TaskTypes
<1>1. CASE Prepare
  BY <1>1, TaskAssumption DEF Prepare
<1>2. CASE WriteFile
  <2>1. PICK f \in Files, good \in BOOLEAN :
          /\ logged' = IF logs THEN logged \union {f} ELSE logged
          /\ IF good /\ isolated
             THEN folder' = TRUE /\ content' = content \union {f} /\ produced' = produced \union {f}
             ELSE UNCHANGED <<folder, content, produced>>
    BY <1>2 DEF WriteFile
  <2>2. folder' \in BOOLEAN /\ content' \subseteq Files /\ produced' \subseteq Files
    BY <2>1
  <2>3. logged' \subseteq Files
    BY <2>1
  <2>4. QED BY <1>2, <2>2, <2>3 DEF WriteFile
<1>3. CASE RunCommand
  BY <1>3 DEF RunCommand
<1>4. CASE StartProcess \/ ProcessEnds
  BY <1>4 DEF StartProcess, ProcessEnds
<1>5. CASE ProcessWrites
  <2>1. content' \subseteq Files /\ late' \subseteq Files
    BY <1>5 DEF ProcessWrites
  <2>2. QED BY <1>5, <2>1 DEF ProcessWrites
<1>6. CASE NextAttempt
  BY <1>6, TaskAssumption DEF NextAttempt
<1>7. CASE AgentReturns
  BY <1>7 DEF AgentReturns
<1>8. CASE Finalize \/ Look \/ Crash
  BY <1>8 DEF Finalize, Look, Crash
<1>9. CASE RemoveFolder
  BY <1>9 DEF RemoveFolder
<1>10. CASE WriteTmp
  BY <1>10 DEF WriteTmp
<1>11. CASE Rename
  <2>1. [there |-> TRUE, files |-> logged] \in [there: BOOLEAN, files: SUBSET Files]
    OBVIOUS
  <2>2. manifest' \in [there: BOOLEAN, files: SUBSET Files] /\ ioFailed' \in BOOLEAN
    BY <1>11, <2>1 DEF Rename
  <2>3. QED BY <1>11, <2>2 DEF Rename
<1>12. CASE UNCHANGED taskVars
  BY <1>12 DEF taskVars
<1>13. QED
  BY <1>1, <1>2, <1>3, <1>4, <1>5, <1>6, <1>7, <1>8, <1>9, <1>10, <1>11, <1>12 DEF TaskNext

\* Whatever a task and its processes write, the cleanup of the task's folder
\* loses only files written after the task (finalizeTaskWorkspace).
THEOREM FolderIsAccountedFor == TaskSpec => [](TaskTypeOK /\ TaskFolderIsAccountedFor)
<1>1. TaskInv => TaskFolderIsAccountedFor
  BY DEF TaskInv, ManifestIsLast, FilesNeedTheFolder, OnlyLateFilesAreLost, EmptyFoldersGo,
         TaskFolderIsAccountedFor
<1>2. TaskInit => TaskTypes
  <2> SUFFICES ASSUME TaskInit PROVE TaskTypes
    OBVIOUS
  <2>1. [there |-> FALSE, files |-> {}] \in [there: BOOLEAN, files: SUBSET Files]
    OBVIOUS
  <2>2. manifest \in [there: BOOLEAN, files: SUBSET Files]
    BY <2>1 DEF TaskInit
  <2>3. /\ logs \in BOOLEAN /\ isolated \in BOOLEAN /\ folder \in BOOLEAN
        /\ background \in BOOLEAN /\ ioFailed \in BOOLEAN /\ succeeded \in BOOLEAN
    BY DEF TaskInit
  <2>4. attempt \in 0..MaxAttempts /\ content \subseteq Files /\ logged \subseteq Files
        /\ produced \subseteq Files /\ late \subseteq Files /\ erased \subseteq Files
        /\ taskAt = "prepare"
    BY TaskAssumption DEF TaskInit
  <2>5. QED BY <2>2, <2>3, <2>4 DEF TaskTypes
<1>3. TaskTypes => TaskTypeOK
  <2> SUFFICES ASSUME TaskTypes PROVE TaskTypeOK
    OBVIOUS
  <2>1. manifest.there \in BOOLEAN /\ manifest.files \subseteq Files
    BY DEF TaskTypes
  <2>2. QED BY <2>1 DEF TaskTypes, TaskTypeOK
<1>4. QED
  BY <1>1, <1>2, <1>3, TaskInvInitially, TaskInvIsInductive, TaskTypesKept, PTL DEF TaskSpec

=============================================================================

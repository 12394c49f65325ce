-------------------------------- MODULE React --------------------------------
(***************************************************************************)
(* The ReAct strategy of an agent (internal/agent/strategy_react.go), its  *)
(* streaming form ExecuteStream (loop.go) and the conversation they send   *)
(* to the model with its compaction (context.go).  One iteration is one    *)
(* action: the model's answer, the tools it asks for, the bookkeeping.     *)
(* Tool outcomes, approvals and token counts only fill messages in, so a   *)
(* message is its role and the number of the tool batch it belongs to,     *)
(* and whether the context is too large is free.                           *)
(***************************************************************************)
EXTENDS Naturals, Sequences

CONSTANTS
  MaxIterations,   \* AgentConfig.MaxIterations
  MaxRounds,       \* AgentConfig.MaxContinuations
  HardCap,         \* the literal 15 of executeReact
  MaxBatch         \* bound: tool calls in one model response

ASSUME ReactAssumption ==
  /\ MaxIterations \in Nat \ {0} /\ MaxRounds \in Nat
  /\ HardCap \in Nat \ {0} /\ MaxBatch \in Nat

VARIABLES
  reactMode,  \* "execute" (executeReact) or "stream" (ExecuteStream)
  reactDone,  \* the loop is over
  rs,         \* the loop's local variables
  convo       \* Context.messages

reactVars == <<reactMode, reactDone, rs, convo>>

UserRoles == {"task", "nudge", "summary"}
Roles == UserRoles \union {"system", "call", "result"}

Msg(role, batch) == [role |-> role, batch |-> batch]

ReactInit ==
  /\ reactMode \in {"execute", "stream"}
  /\ reactDone = FALSE
  /\ rs = [round |-> 0, iteration |-> 1, calls |-> 0, roundStart |-> 0,
           emptyRetried |-> FALSE, truncationRetried |-> FALSE,
           content |-> "none", error |-> FALSE]
  /\ convo = <<Msg("system", 0), Msg("task", 0)>>

----------------------------------------------------------------------------
(* Context.SmartCompact: the system messages, the first user message, a    *)
(* summary and the last six of the others.                                 *)

KeptRecent == 6

\* The messages of c that have one of the roles.
OfRoles(c, roles) ==
  LET of[n \in 0..Len(c)] ==
        IF n = 0 THEN <<>>
        ELSE IF c[n].role \in roles THEN Append(of[n - 1], c[n]) ELSE of[n - 1]
  IN of[Len(c)]

\* Mutant: the older messages go without a summary in their place.
SmartCompactSilent(c) ==
  LET others == OfRoles(c, Roles \ {"system"})
  IN IF Len(others) <= KeptRecent THEN c
     ELSE OfRoles(c, {"system", "task"})
            \o SubSeq(others, Len(others) - KeptRecent + 1, Len(others))

\* There is one task, so its role tells it from the messages behind it.
SmartCompact(c) ==
  LET others == OfRoles(c, Roles \ {"system"})
      first  == Head(OfRoles(others, UserRoles))
      recent == SubSeq(others, Len(others) - KeptRecent + 1, Len(others))
  IN IF Len(others) <= KeptRecent THEN c
     ELSE OfRoles(c, {"system"})
            \o <<first, Msg("summary", 0)>>
            \o OfRoles(recent, Roles \ {first.role})

\* The context the model is asked with.
Prompts == {convo, SmartCompact(convo)}

----------------------------------------------------------------------------
(* executeReact *)

Executing == reactMode = "execute" /\ ~reactDone

\* The loop is over: without an answer, work done becomes the answer and no
\* work becomes ErrMaxIterations.
Finish(l, c) ==
  /\ reactDone' = TRUE /\ convo' = c
  /\ rs' = IF l.content # "none" \/ l.error THEN l
           ELSE IF l.calls > 0 THEN [l EXCEPT !.content = "default"]
           ELSE [l EXCEPT !.error = TRUE]
  /\ UNCHANGED reactMode

Continue(l, c) ==
  /\ rs' = l /\ convo' = c
  /\ UNCHANGED <<reactMode, reactDone>>

\* The next iteration, or the next round if this one called any tool.
NextIteration(l, c) ==
  IF l.iteration < MaxIterations
  THEN Continue([l EXCEPT !.iteration = @ + 1], c)
  ELSE IF l.calls # l.roundStart /\ l.round < MaxRounds
  THEN Continue([l EXCEPT !.round = @ + 1, !.iteration = 1, !.roundStart = l.calls],
                Append(c, Msg("nudge", 0)))
  ELSE Finish(l, c)

ThinkFails ==
  Executing /\ \E c \in Prompts : Finish([rs EXCEPT !.error = TRUE], c)

\* One batch: the assistant message, then one result per call in call order,
\* whatever order the parallel executions end in.
WithBatch(c, n) ==
  LET b == rs.calls + 1
  IN  Append(c, Msg("call", b)) \o [i \in 1..n |-> Msg("result", b)]

RunTools ==
  /\ Executing /\ rs.calls < HardCap
  /\ \E c \in Prompts, n \in 1..MaxBatch :
       NextIteration([rs EXCEPT !.calls = @ + n], WithBatch(c, n))

RefuseTools ==
  /\ Executing /\ rs.calls >= HardCap
  /\ \E c \in Prompts : NextIteration(rs, Append(c, Msg("nudge", 0)))

\* A text that used up the token budget was probably a tool call cut short.
RetryTruncated ==
  /\ Executing /\ ~rs.truncationRetried /\ rs.iteration < MaxIterations
  /\ \E c \in Prompts :
       NextIteration([rs EXCEPT !.truncationRetried = TRUE], Append(c, Msg("nudge", 0)))

EmptyAfterTools ==
  /\ Executing /\ rs.calls > 0
  /\ \E c \in Prompts :
       IF rs.emptyRetried THEN Finish([rs EXCEPT !.content = "default"], c)
       ELSE NextIteration([rs EXCEPT !.emptyRetried = TRUE], Append(c, Msg("nudge", 0)))

\* An empty text before any tool call is taken as the answer too.
Answer ==
  /\ Executing
  /\ \E c \in Prompts, text \in {"answer", "none"} :
       /\ text = "none" => rs.calls = 0
       /\ Finish([rs EXCEPT !.content = text], c)

----------------------------------------------------------------------------
(* ExecuteStream: no rounds, no cap, no compaction; what ends the stream is *)
(* content (the final chunk) or error (a chunk with an error).              *)

Streaming == reactMode = "stream" /\ ~reactDone

EndStream(l) == reactDone' = TRUE /\ rs' = l /\ UNCHANGED <<reactMode, convo>>

NextStreamIteration(l, c) ==
  IF l.iteration < MaxIterations
  THEN Continue([l EXCEPT !.iteration = @ + 1], c)
  ELSE /\ reactDone' = TRUE /\ rs' = [l EXCEPT !.error = TRUE] /\ convo' = c
       /\ UNCHANGED reactMode

StreamFails == Streaming /\ EndStream([rs EXCEPT !.error = TRUE])

StreamTools ==
  Streaming /\ \E n \in 1..MaxBatch :
    NextStreamIteration([rs EXCEPT !.calls = @ + n], WithBatch(convo, n))

StreamAnswer == Streaming /\ EndStream([rs EXCEPT !.content = "answer"])

\* The provider closed its channel without a Done chunk: ask again.
StreamCut == Streaming /\ NextStreamIteration(rs, convo)

ReactNext ==
  \/ ThinkFails \/ RunTools \/ RefuseTools \/ RetryTruncated \/ EmptyAfterTools
  \/ Answer \/ StreamFails \/ StreamTools \/ StreamAnswer \/ StreamCut

ReactSpec == ReactInit /\ [][ReactNext]_reactVars /\ WF_reactVars(ReactNext)

----------------------------------------------------------------------------
ReactTypeOK ==
  /\ reactMode \in {"execute", "stream"} /\ reactDone \in BOOLEAN
  /\ rs \in [round: 0..MaxRounds, iteration: 1..MaxIterations, calls: Nat,
             roundStart: Nat, emptyRetried: BOOLEAN, truncationRetried: BOOLEAN,
             content: {"none", "answer", "default"}, error: BOOLEAN]
  /\ convo \in Seq([role: Roles, batch: Nat])

(* However often the context is compacted and the loop continued, a tool   *)
(* result the model is shown stands behind its own call, behind other      *)
(* results of the same batch, or right behind the summary that replaced    *)
(* the call; and the task stays the first message after the system prompt. *)
(* The cap on tool calls is checked before a batch, so one batch may run   *)
(* past it and no more; and each of the seven ways out returns an answer   *)
(* or an error, never both and never neither.                              *)
ConversationAndEndHold ==
  /\ convo[1].role = "system" /\ convo[2].role = "task"
  /\ \A i \in 3..Len(convo) :
       convo[i].role = "result" =>
         \/ convo[i - 1] = Msg("call", convo[i].batch)
         \/ convo[i - 1] = Msg("result", convo[i].batch)
         \/ convo[i - 1].role = "summary"
  /\ reactMode = "execute" => rs.calls < HardCap + MaxBatch
  /\ reactDone => (rs.content = "none" <=> rs.error)
=============================================================================

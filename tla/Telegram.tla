------------------------------ MODULE Telegram ------------------------------
(***************************************************************************)
(* Approval of tool calls in one Telegram chat (internal/gateway:          *)
(* telegram.go, approval.go, store.go): a task asks before a tool runs,    *)
(* buttons answer, commands change the chat's trust and whitelist, Stop    *)
(* drains the questions.  Every task, button press and command is a        *)
(* goroutine of its own.  Commands and file operations are reduced to the  *)
(* severity assessSeverity gives them.                                     *)
(***************************************************************************)
EXTENDS Naturals, FiniteSets

CONSTANTS
  Tasks,      \* handleMessage goroutines, each with one tool call to decide
  Presses     \* bound: button presses, each at most one callback query

\* assessSeverity.  The whitelist is by tool, whatever the severity of the
\* call that opened it.  The file tool calls its argument `operation' and
\* assessSeverity looks for `action', so every file call is medium.
ToolRisks ==
  [tool: {"terminal"}, severity: {"low", "medium", "critical"}]
    \union [tool: {"file"}, severity: {"medium"}]

NoQuestion == "no question"
ASSUME TelegramAssumption == NoQuestion \notin Tasks

VARIABLES
  call,      \* the tool call of each task
  stage,     \* "idle", "asking", "waiting", "runs" or "skipped"
  unsent,    \* history: tasks whose question was not sent, for all the code knows
  pendingApprovals,   \* gw.pendingApprovals: tasks whose question is open
  answer,    \* the buffered channel of each question
  press,     \* button presses on their way through handleCallbackQuery
  shown,     \* the verdict the question's message was edited to last
  pressedOn, \* history: button presses a question has got
  expired,   \* history: tasks whose 120 s ran out
  trusted,   \* store.trustedChats
  whitelist, \* store.sessionWhitelist
  stopped    \* Stop has run

tgVars == <<call, stage, unsent, pendingApprovals, answer, press, shown, pressedOn, expired,
            trusted, whitelist, stopped>>

NoPress == [on |-> NoQuestion, action |-> "none", next |-> "none"]
Actions == {"yes", "whitelist", "no"}

TelegramInit ==
  /\ call \in [Tasks -> ToolRisks]
  /\ stage = [t \in Tasks |-> "idle"] /\ unsent = {}
  /\ pendingApprovals = {} /\ answer = [t \in Tasks |-> "none"]
  /\ press = [b \in Presses |-> NoPress]
  /\ shown = [t \in Tasks |-> "none"] /\ pressedOn = [t \in Tasks |-> {}]
  /\ expired = {}
  /\ trusted = FALSE /\ whitelist = {} /\ stopped = FALSE

Stage(t, s) == stage' = [stage EXCEPT ![t] = s]

----------------------------------------------------------------------------
(* approvalFn and requestApproval *)

Cleared(t) ==
  \/ trusted \/ call[t].severity = "low"
  \/ call[t].severity = "medium" /\ call[t].tool \in whitelist

Decide(t) ==
  /\ stage[t] = "idle"
  /\ IF Cleared(t) THEN Stage(t, "runs") /\ UNCHANGED pendingApprovals
     ELSE Stage(t, "asking") /\ pendingApprovals' = pendingApprovals \union {t}
  /\ UNCHANGED <<call, unsent, answer, press, shown, pressedOn, expired, trusted, whitelist, stopped>>

Ask(t) ==
  /\ stage[t] = "asking" /\ Stage(t, "waiting")
  /\ UNCHANGED <<call, unsent, pendingApprovals, answer, press, shown, pressedOn, expired, trusted, whitelist, stopped>>

\* A question whose sending fails counts as approved, whatever was pressed.
QuestionFails(t) ==
  /\ stage[t] = "asking" /\ Stage(t, "runs")
  /\ unsent' = unsent \union {t} /\ pendingApprovals' = pendingApprovals \ {t}
  /\ UNCHANGED <<call, answer, press, shown, pressedOn, expired, trusted, whitelist, stopped>>

\* Mutant: "allow all" enters the tool in the whitelist and skips this call.
ReceiveYesOnly(t) ==
  /\ stage[t] = "waiting" /\ answer[t] # "none"
  /\ Stage(t, IF answer[t] = "yes" THEN "runs" ELSE "skipped")
  /\ whitelist' = IF answer[t] = "whitelist" THEN whitelist \union {call[t].tool} ELSE whitelist
  /\ pendingApprovals' = pendingApprovals \ {t} /\ answer' = [answer EXCEPT ![t] = "none"]
  /\ UNCHANGED <<call, unsent, press, shown, pressedOn, expired, trusted, stopped>>

Receive(t) ==
  /\ stage[t] = "waiting" /\ answer[t] # "none"
  /\ Stage(t, IF answer[t] = "no" THEN "skipped" ELSE "runs")
  /\ whitelist' = IF answer[t] = "whitelist" THEN whitelist \union {call[t].tool} ELSE whitelist
  /\ pendingApprovals' = pendingApprovals \ {t} /\ answer' = [answer EXCEPT ![t] = "none"]
  /\ UNCHANGED <<call, unsent, press, shown, pressedOn, expired, trusted, stopped>>

\* The timer of 120 s.  The end of the task's own context does not end the
\* wait.
Expire(t) ==
  /\ stage[t] = "waiting" /\ Stage(t, "skipped")
  /\ pendingApprovals' = pendingApprovals \ {t} /\ expired' = expired \union {t}
  /\ UNCHANGED <<call, unsent, answer, press, shown, pressedOn, trusted, whitelist, stopped>>

----------------------------------------------------------------------------
(* handleCallbackQuery: look the question up, edit its message, answer it. *)

Buttons(t) == IF call[t].severity = "critical" THEN {"yes", "no"} ELSE Actions

\* The question is open from before it is sent: the chat may have it, and a
\* press come in, while the call that sends it is outstanding or fails.
LookUp(b) ==
  /\ press[b] = NoPress
  /\ \E t \in pendingApprovals, a \in Actions :
       /\ a \in Buttons(t)
       /\ press' = [press EXCEPT ![b] = [on |-> t, action |-> a, next |-> "edit"]]
       /\ pressedOn' = [pressedOn EXCEPT ![t] = @ \union {b}]
  /\ UNCHANGED <<call, stage, unsent, pendingApprovals, answer, shown, expired, trusted, whitelist, stopped>>

Edit(b) ==
  /\ press[b].next = "edit" /\ press' = [press EXCEPT ![b].next = "send"]
  /\ shown' = [shown EXCEPT ![press[b].on] = press[b].action]
  /\ UNCHANGED <<call, stage, unsent, pendingApprovals, answer, pressedOn, expired, trusted, whitelist, stopped>>

\* The channel takes one answer; a second is dropped.
Send(b) ==
  /\ press[b].next = "send" /\ press' = [press EXCEPT ![b].next = "done"]
  /\ answer' = [answer EXCEPT ![press[b].on] = IF @ = "none" THEN press[b].action ELSE @]
  /\ UNCHANGED <<call, stage, unsent, pendingApprovals, shown, pressedOn, expired, trusted, whitelist, stopped>>

----------------------------------------------------------------------------
(* handleCommand and Stop *)

ToggleTrust ==
  /\ trusted' = ~trusted
  /\ UNCHANGED <<call, stage, unsent, pendingApprovals, answer, press, shown, pressedOn, expired, whitelist, stopped>>

ClearWhitelist ==
  /\ whitelist' = {}
  /\ UNCHANGED <<call, stage, unsent, pendingApprovals, answer, press, shown, pressedOn, expired, trusted, stopped>>

\* A task may still ask afterwards: its question opens a new entry.
StopGateway ==
  /\ ~stopped /\ stopped' = TRUE
  /\ answer' = [t \in Tasks |-> IF t \in pendingApprovals /\ answer[t] = "none" THEN "no" ELSE answer[t]]
  /\ pendingApprovals' = {}
  /\ UNCHANGED <<call, stage, unsent, press, shown, pressedOn, expired, trusted, whitelist>>

TelegramNext ==
  \/ \E t \in Tasks : Decide(t) \/ Ask(t) \/ QuestionFails(t) \/ Receive(t) \/ Expire(t)
  \/ \E b \in Presses : LookUp(b) \/ Edit(b) \/ Send(b)
  \/ ToggleTrust \/ ClearWhitelist \/ StopGateway

TelegramSpec == TelegramInit /\ [][TelegramNext]_tgVars

----------------------------------------------------------------------------
TelegramTypeOK ==
  /\ call \in [Tasks -> ToolRisks]
  /\ stage \in [Tasks -> {"idle", "asking", "waiting", "runs", "skipped"}]
  /\ unsent \subseteq Tasks /\ pendingApprovals \subseteq Tasks /\ expired \subseteq Tasks
  /\ answer \in [Tasks -> {"none", "yes", "whitelist", "no"}]
  /\ shown \in [Tasks -> Actions \union {"none"}]
  /\ pressedOn \in [Tasks -> SUBSET Presses]
  /\ trusted \in BOOLEAN /\ stopped \in BOOLEAN
  /\ whitelist \subseteq {"terminal", "file"}

(* What the chat shows is what happened: the verdict under a question       *)
(* differs from what became of the call only if the question was pressed    *)
(* twice, timed out, was drained by Stop, or came through although the call *)
(* that sent it failed, for then the tool runs whatever is pressed.  And    *)
(* "allow all" on one call never takes the question of another call away.   *)
ShownVerdictHolds ==
  \A t \in Tasks :
    /\ stage[t] = "runs" /\ shown[t] = "no" => Cardinality(pressedOn[t]) > 1 \/ t \in unsent
    /\ stage[t] = "skipped" /\ shown[t] \in {"yes", "whitelist"} =>
         Cardinality(pressedOn[t]) > 1 \/ t \in expired \/ stopped
    /\ stage[t] = "waiting" => t \in pendingApprovals \/ stopped

(* A call whose only answer is Deny does not run, as telegram.go:873 has it *)
(* ("sends an inline keyboard to the user and blocks until they respond.    *)
(* Returns the user's approve/deny decision").                              *)
DeniedCallsAreSkipped ==
  \A t \in Tasks :
    stage[t] = "runs" /\ Cardinality(pressedOn[t]) = 1 => shown[t] # "no"

=============================================================================

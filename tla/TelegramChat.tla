---------------------------- MODULE TelegramChat ----------------------------
(***************************************************************************)
(* The messages of one Telegram chat (internal/gateway/telegram.go,        *)
(* store.go, tgclient.go): the polling loop takes updates from the server, *)
(* starts a goroutine for each and confirms them with its next poll; each  *)
(* task gets the chat's history, shows its progress by editing one         *)
(* message, and adds its exchange to the history.  Tasks of one chat run   *)
(* at once.  A crash of the server process loses all but the queue Telegram *)
(* keeps.  The user's other messages are commands; /reset alone matters.   *)
(***************************************************************************)
EXTENDS Naturals, Sequences, FiniteSets

CONSTANTS
  MaxUpdates,    \* bound: messages the user sends
  HistoryTurns,  \* maxHistoryTurns: 4
  ContextTurns,  \* exchanges in a task's context: 3
  MaxCrashes     \* bound: restarts of the server process

ASSUME ChatAssumption ==
  MaxUpdates \in Nat /\ HistoryTurns \in Nat /\ ContextTurns \in Nat /\ MaxCrashes \in Nat

Updates == 1..MaxUpdates

VARIABLES
  commands,    \* updates that are /reset
  sentTo,      \* updates 1..sentTo are with Telegram
  confirmedTo, \* updates up to this one Telegram has deleted
  pollOffset,  \* gw.offset
  handlers,    \* the handleMessage goroutine of each update
  given,       \* exchanges in the context each task was given
  chatHistory, \* chatHistory of the chat, by update
  limited,     \* lastMsg has an entry of the user
  statusMsg,   \* what the status message of each update shows
  edits,       \* updates with a progress edit on its way to Telegram
  unsure,      \* history: an edit was on its way at the end, or the last was lost
  starts,      \* history: tasks begun for each update
  crashes      \* history: restarts

queueVars == <<commands, sentTo, confirmedTo, pollOffset>>
storeVars == <<given, chatHistory, limited>>
progressVars == <<statusMsg, edits, unsure>>
countVars == <<starts, crashes>>

chatVars == <<queueVars, handlers, storeVars, progressVars, countVars>>

ChatInit ==
  /\ commands \in SUBSET Updates
  /\ sentTo = 0 /\ confirmedTo = 0 /\ pollOffset = 0
  /\ handlers = [u \in Updates |-> "none"] /\ given = [u \in Updates |-> {}]
  /\ chatHistory = <<>> /\ limited = FALSE
  /\ statusMsg = [u \in Updates |-> "none"] /\ edits = {} /\ unsure = {}
  /\ starts = [u \in Updates |-> 0] /\ crashes = 0

HandlerMoves(u, from, to) == handlers[u] = from /\ handlers' = [handlers EXCEPT ![u] = to]

UserSends ==
  /\ sentTo < MaxUpdates /\ sentTo' = sentTo + 1
  /\ UNCHANGED <<commands, confirmedTo, pollOffset, handlers, storeVars, progressVars, countVars>>

----------------------------------------------------------------------------
(* Start: the polling loop *)

\* getUpdates deletes what lies below the offset; zero deletes nothing.
ConfirmedBy(o) == IF o > confirmedTo + 1 THEN o - 1 ELSE confirmedTo

\* Mutant: the offset is the last update's id and not one more.
NextOffsetSame(last) == last

NextOffset(last) == last + 1

PollUpdates ==
  /\ confirmedTo' = ConfirmedBy(pollOffset)
  /\ LET fetched == (confirmedTo' + 1)..sentTo
     IN /\ fetched # {}
        /\ pollOffset' = NextOffset(sentTo)
        /\ handlers' = [u \in Updates |-> IF u \in fetched THEN "started" ELSE handlers[u]]
  /\ UNCHANGED <<commands, sentTo, storeVars, progressVars, countVars>>

\* No update within 30 s, or an answer that is lost or cannot be parsed.
PollInVain ==
  /\ confirmedTo' = ConfirmedBy(pollOffset) /\ confirmedTo' # confirmedTo
  /\ UNCHANGED <<commands, sentTo, pollOffset, handlers, storeVars, progressVars, countVars>>

----------------------------------------------------------------------------
(* handleMessage *)

\* checkRate: a second message within 2 s is dropped without a word.
DropMessage(u) ==
  /\ limited /\ HandlerMoves(u, "started", "dropped")
  /\ UNCHANGED <<queueVars, storeVars, progressVars, countVars>>

ResetCommand(u) ==
  /\ u \in commands /\ HandlerMoves(u, "started", "done")
  /\ limited' = TRUE /\ chatHistory' = <<>>
  /\ UNCHANGED <<queueVars, given, progressVars, countVars>>

LastTurns(s, n) == {s[i] : i \in {i \in DOMAIN s : i > Len(s) - n}}

\* The status message may fail to be sent; the task then has none to edit.
BeginTask(u) ==
  /\ u \notin commands /\ HandlerMoves(u, "started", "running") /\ limited' = TRUE
  /\ given' = [given EXCEPT ![u] = LastTurns(chatHistory, ContextTurns)]
  /\ \E m \in {"working", "none"} : statusMsg' = [statusMsg EXCEPT ![u] = m]
  /\ starts' = [starts EXCEPT ![u] = @ + 1]
  /\ UNCHANGED <<queueVars, chatHistory, edits, unsure, crashes>>

\* The ticker, and the callbacks of the agent's workers.
SendEdit(u) ==
  /\ handlers[u] = "running" /\ statusMsg[u] # "none" /\ edits' = edits \union {u}
  /\ UNCHANGED <<queueVars, handlers, storeVars, statusMsg, unsure, countVars>>

EditArrives(u) ==
  /\ u \in edits /\ edits' = edits \ {u}
  /\ statusMsg' = [statusMsg EXCEPT ![u] = "working"]
  /\ UNCHANGED <<queueVars, handlers, storeVars, unsure, countVars>>

\* The task returns, the ticker is cancelled, the last edit is sent, waited
\* for and perhaps lost; it says whether the task failed or timed out.  A
\* failure is then reported in a message, and leaves no exchange.
FinalEdit(u) ==
  /\ \/ HandlerMoves(u, "running", "answering") \/ HandlerMoves(u, "running", "failed")
  /\ \/ /\ statusMsg[u] # "none" /\ statusMsg' = [statusMsg EXCEPT ![u] = "final"]
        /\ unsure' = unsure \union ({u} \intersect edits)
     \/ unsure' = unsure \union {u} /\ UNCHANGED statusMsg
  /\ UNCHANGED <<queueVars, storeVars, edits, countVars>>

\* addHistory keeps the last exchanges; the answer is sent afterwards.
AnswerTask(u) ==
  /\ HandlerMoves(u, "answering", "done")
  /\ LET h == Append(chatHistory, u)
         first == IF Len(h) > HistoryTurns THEN Len(h) - HistoryTurns + 1 ELSE 1
     IN chatHistory' = SubSeq(h, first, Len(h))
  /\ UNCHANGED <<queueVars, given, limited, progressVars, countVars>>

\* A redelivered message has a status message of its own.
CrashServer ==
  /\ crashes < MaxCrashes /\ crashes' = crashes + 1
  /\ pollOffset' = 0 /\ chatHistory' = <<>> /\ limited' = FALSE /\ edits' = {} /\ unsure' = {}
  /\ given' = [u \in Updates |-> {}] /\ statusMsg' = [u \in Updates |-> "none"]
  /\ handlers' = [u \in Updates |-> IF handlers[u] = "none" THEN "none" ELSE "lost"]
  /\ UNCHANGED <<commands, sentTo, confirmedTo, starts>>

ChatNext ==
  \/ UserSends \/ PollUpdates \/ PollInVain \/ CrashServer
  \/ \E u \in Updates :
       \/ DropMessage(u) \/ ResetCommand(u) \/ BeginTask(u) \/ SendEdit(u) \/ EditArrives(u)
       \/ FinalEdit(u) \/ AnswerTask(u)

ChatSpec == ChatInit /\ [][ChatNext]_chatVars

----------------------------------------------------------------------------
ChatTypeOK ==
  /\ commands \subseteq Updates
  /\ sentTo \in 0..MaxUpdates /\ confirmedTo \in 0..sentTo /\ pollOffset \in 0..(sentTo + 1)
  /\ handlers \in [Updates -> {"none", "started", "dropped", "running", "answering", "done",
                               "failed", "lost"}]
  /\ given \in [Updates -> SUBSET Updates]
  /\ chatHistory \in Seq(Updates) /\ Len(chatHistory) <= HistoryTurns
  /\ statusMsg \in [Updates -> {"none", "working", "final"}]
  /\ edits \subseteq Updates /\ unsure \subseteq Updates /\ limited \in BOOLEAN
  /\ starts \in [Updates -> 0..(MaxCrashes + 1)] /\ crashes \in 0..MaxCrashes

(* What a chat gets for its messages.  Telegram deletes a message only after *)
(* the gateway took it, and a task is begun for a message at most once in a  *)
(* life of the server, so that only a crash makes the user's task run again; *)
(* the exchanges a task is told are completed are so, and none is twice in   *)
(* the history.  In the end the status message shows the end, unless a       *)
(* progress edit was on its way when the task ended or the edit was lost.    *)
MessagesRunOnceAndShowTheirEnd ==
  /\ \A u \in 1..confirmedTo : handlers[u] # "none"
  /\ \A u \in Updates : starts[u] <= crashes + 1
  /\ \A u \in Updates : \A v \in given[u] : v \notin commands \union {u} /\ handlers[v] = "done"
  /\ \A i, j \in DOMAIN chatHistory : chatHistory[i] = chatHistory[j] => i = j
  /\ \A u \in Updates : handlers[u] \in {"done", "failed"} /\ u \notin commands \union unsure =>
       statusMsg[u] = "final"

=============================================================================

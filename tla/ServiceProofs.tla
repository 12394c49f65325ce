--------------------------- MODULE ServiceProofs ----------------------------
(***************************************************************************)
(* The server towards its users, each a component of its own: approvals    *)
(* and messages of a Telegram chat, the activity stream of the dashboard,  *)
(* and the shutdown.                                                       *)
(***************************************************************************)
EXTENDS Telegram, TelegramChat, ActivityBroker, Lifecycle, FiniteSetTheorems, SequenceTheorems, TLAPS

-----------------------------------------------------------------------------
(* Telegram: the questions of tool calls and the buttons under them. *)

LEMMA TwoAreMoreThanOne ==
  ASSUME NEW S, IsFiniteSet(S), NEW x \in S, NEW y \in S, x # y
  PROVE  Cardinality(S) > 1
<1>1. {x, y} \subseteq S /\ IsFiniteSet({x, y}) /\ Cardinality({x, y}) = 2
  <2>1. IsFiniteSet({x}) /\ Cardinality({x}) = 1
    BY FS_Singleton
  <2>2. IsFiniteSet({x} \union {y}) /\ Cardinality({x} \union {y}) = Cardinality({x}) + 1
    BY <2>1, FS_AddElement
  <2>3. {x} \union {y} = {x, y}
    OBVIOUS
  <2>4. QED BY <2>1, <2>2, <2>3
<1>2. Cardinality({x, y}) <= Cardinality(S) /\ Cardinality(S) \in Nat
  BY <1>1, FS_Subset, FS_CardinalityType
<1>3. QED BY <1>1, <1>2

\* Button b answers the question of task t with a.
Says(b, t, a) == press[b].on = t /\ press[b].action = a

PressesAreKept ==
  /\ press \in [Presses -> [on: Tasks \union {NoQuestion}, action: Actions \union {"none"},
                            next: {"none", "edit", "send", "done"}]]
  /\ \A b \in Presses :
       press[b].next # "none" => press[b].on \in Tasks /\ press[b].action \in Actions
  /\ \A b \in Presses, t \in Tasks : press[b].on = t =>
       /\ press[b].next # "none" /\ b \in pressedOn[t]
       /\ stage[t] # "idle"
  /\ \A t \in Tasks : IsFiniteSet(pressedOn[t])

\* Every verdict, shown, queued or acted on, is some button's.
VerdictsArePressed ==
  \A t \in Tasks :
    /\ shown[t] # "none" => \E b \in Presses : Says(b, t, shown[t])
    /\ answer[t] # "none" =>
         (answer[t] = "no" /\ stopped) \/ \E b \in Presses : Says(b, t, answer[t])
    /\ stage[t] = "runs" =>
         \/ t \in unsent \/ \A b \in Presses : press[b].on # t
         \/ \E b \in Presses : Says(b, t, "yes") \/ Says(b, t, "whitelist")
    /\ stage[t] = "skipped" =>
         t \in expired \/ stopped \/ \E b \in Presses : Says(b, t, "no")

QuestionsStayOpen ==
  \A t \in Tasks :
    /\ stage[t] \in {"asking", "waiting"} => t \in pendingApprovals \/ stopped
    /\ t \in pendingApprovals => stage[t] \in {"asking", "waiting"}

TelegramInv == TelegramTypeOK /\ PressesAreKept /\ VerdictsArePressed /\ QuestionsStayOpen

\* It holds at the start.
LEMMA TelegramInvInitially == TelegramInit => TelegramInv
<1> SUFFICES ASSUME TelegramInit PROVE TelegramInv
  OBVIOUS
<1>1. TelegramTypeOK /\ QuestionsStayOpen
  BY DEF TelegramInit, TelegramTypeOK, QuestionsStayOpen
<1>2. PressesAreKept
  BY FS_EmptySet, TelegramAssumption DEF TelegramInit, PressesAreKept, NoPress
<1>3. VerdictsArePressed
  BY DEF TelegramInit, VerdictsArePressed
<1>4. QED BY <1>1, <1>2, <1>3 DEF TelegramInv

\* A task's steps leave the buttons alone.
LEMMA TaskKeepsTelegramInv ==
  ASSUME TelegramInv, NEW t \in Tasks, 
         Decide(t) \/ Ask(t) \/ QuestionFails(t) \/ Receive(t) \/ Expire(t)
  PROVE  TelegramInv'
<1> USE DEF TelegramInv
<1>1. press' = press /\ pressedOn' = pressedOn /\ shown' = shown /\ stopped' = stopped
  BY DEF Decide, Ask, QuestionFails, Receive, Expire
<1>2. \A u \in Tasks : stage'[u] # stage[u] => u = t /\ stage[u] \in {"idle", "asking", "waiting"}
                                            /\ stage'[u] # "idle"
  BY DEF Decide, Ask, QuestionFails, Receive, Expire, Stage, TelegramTypeOK
<1>3. TelegramTypeOK'
  <2>1. \A u \in Tasks : call[u].tool \in {"terminal", "file"}
    BY DEF TelegramTypeOK, ToolRisks
  <2>2. QED BY <2>1 DEF Decide, Ask, QuestionFails, Receive, Expire, Stage, TelegramTypeOK
<1>4. PressesAreKept'
  BY <1>1, <1>2 DEF PressesAreKept, Decide, Ask, QuestionFails, Receive, Expire, Stage,
     TelegramTypeOK
<1>5. \A u \in Tasks, b \in Presses : \A a : Says(b, u, a)' <=> Says(b, u, a)
  BY <1>1 DEF Says
<1>6. CASE Decide(t) \/ Ask(t) \/ QuestionFails(t)
  <2>1. stage'[t] = "runs" => t \in unsent' \/ \A b \in Presses : press[b].on # t
    BY <1>6 DEF Decide, Ask, QuestionFails, PressesAreKept, Stage, TelegramTypeOK
  <2>2. /\ answer' = answer /\ expired' = expired /\ unsent \subseteq unsent'
        /\ \A u \in Tasks \ {t} : stage'[u] = stage[u]
    BY <1>6 DEF Decide, Ask, QuestionFails, Stage, TelegramTypeOK
  <2>3. stage'[t] # "skipped"
    BY <1>6 DEF Decide, Ask, QuestionFails, Stage, TelegramTypeOK
  <2>4. VerdictsArePressed'
    BY <1>1, <1>5, <2>1, <2>2, <2>3 DEF VerdictsArePressed
  <2>5. QuestionsStayOpen'
    BY <1>1, <1>6 DEF QuestionsStayOpen, Decide, Ask, QuestionFails, Stage, TelegramTypeOK
  <2>6. QED BY <1>3, <1>4, <2>4, <2>5
<1>7. CASE Receive(t)
  <2>1. /\ answer' = [answer EXCEPT ![t] = "none"] /\ expired' = expired /\ unsent' = unsent
        /\ stage' = [stage EXCEPT ![t] = IF answer[t] = "no" THEN "skipped" ELSE "runs"]
        /\ answer[t] # "none"
    BY <1>7 DEF Receive, Stage
  <2>2. answer[t] = "no" => stopped \/ \E b \in Presses : Says(b, t, "no")
    BY DEF VerdictsArePressed
  <2>3. answer[t] # "no" => \E b \in Presses : Says(b, t, "yes") \/ Says(b, t, "whitelist")
    BY <2>1 DEF VerdictsArePressed, TelegramTypeOK
  <2>4. VerdictsArePressed'
    BY <1>1, <1>5, <2>1, <2>2, <2>3 DEF VerdictsArePressed, TelegramTypeOK
  <2>5. QuestionsStayOpen'
    BY <1>1, <1>7, <2>1 DEF QuestionsStayOpen, Receive, TelegramTypeOK
  <2>6. QED BY <1>3, <1>4, <2>4, <2>5
<1>8. CASE Expire(t)
  <2>1. answer' = answer /\ expired' = expired \union {t} /\ unsent' = unsent
        /\ stage' = [stage EXCEPT ![t] = "skipped"]
    BY <1>8 DEF Expire, Stage
  <2>2. VerdictsArePressed'
    BY <1>1, <1>5, <2>1 DEF VerdictsArePressed, TelegramTypeOK
  <2>3. QuestionsStayOpen'
    BY <1>1, <1>8, <2>1 DEF QuestionsStayOpen, Expire, TelegramTypeOK
  <2>4. QED BY <1>3, <1>4, <2>2, <2>3
<1>9. QED BY <1>6, <1>7, <1>8

LEMMA PressKeepsTelegramInv ==
  ASSUME TelegramInv, NEW b \in Presses, LookUp(b) \/ Edit(b) \/ Send(b)
  PROVE  TelegramInv'
<1> USE DEF TelegramInv
<1>1. stage' = stage /\ stopped' = stopped /\ expired' = expired /\ unsent' = unsent
        /\ pendingApprovals' = pendingApprovals
  BY DEF LookUp, Edit, Send
<1>2. QuestionsStayOpen'
  BY <1>1 DEF QuestionsStayOpen
<1>3. CASE LookUp(b)
  <2>1. PICK t \in pendingApprovals, a \in Actions :
          /\ stage[t] \in {"asking", "waiting"}
          /\ press' = [press EXCEPT ![b] = [on |-> t, action |-> a, next |-> "edit"]]
          /\ pressedOn' = [pressedOn EXCEPT ![t] = @ \union {b}]
    BY <1>3 DEF LookUp, QuestionsStayOpen, TelegramTypeOK
  <2>2. t \in Tasks /\ press[b].on = NoQuestion
    BY <1>3 DEF TelegramTypeOK, LookUp, NoPress
  <2>3. TelegramTypeOK'
    BY <1>3, <2>1, <2>2 DEF TelegramTypeOK, LookUp
  <2>4. IsFiniteSet(pressedOn[t] \union {b})
    BY <2>2, FS_AddElement DEF PressesAreKept
  <2>5. PressesAreKept'
    <3>1. \A u \in Tasks : pressedOn'[u] = IF u = t THEN pressedOn[u] \union {b} ELSE pressedOn[u]
      BY <2>1 DEF TelegramTypeOK
    <3>2. \A c \in Presses : press'[c] = IF c = b THEN [on |-> t, action |-> a, next |-> "edit"]
            ELSE press[c]
      BY <2>1 DEF PressesAreKept
    <3>3. press' \in [Presses -> [on: Tasks \union {NoQuestion}, action: Actions \union {"none"},
                            next: {"none", "edit", "send", "done"}]]
      BY <2>1, <2>2 DEF PressesAreKept
    <3>4. QED BY <1>1, <2>1, <2>2, <2>4, <3>1, <3>2, <3>3 DEF PressesAreKept
  <2>6. \A c \in Presses, u \in Tasks : \A x : Says(c, u, x) => Says(c, u, x)'
    BY <2>1, <2>2, TelegramAssumption DEF Says, PressesAreKept
  <2>7. shown' = shown /\ answer' = answer
    BY <1>3 DEF LookUp
  <2>8. \A u \in Tasks : stage[u] = "runs" => u # t /\ 
           ((\A c \in Presses : press[c].on # u) => \A c \in Presses : press'[c].on # u)
    BY <2>1, <2>2 DEF PressesAreKept
  <2>9. VerdictsArePressed'
    BY <1>1, <2>6, <2>7, <2>8 DEF VerdictsArePressed
  <2>10. QED BY <1>2, <2>3, <2>5, <2>9
<1>4. CASE Edit(b) \/ Send(b)
  <2>1. press[b].on \in Tasks /\ press[b].action \in Actions /\ pressedOn' = pressedOn
    BY <1>4 DEF Edit, Send, PressesAreKept
  <2>2. PICK n \in {"send", "done"} : press' = [press EXCEPT ![b].next = n]
    BY <1>4 DEF Edit, Send
  <2>3. PressesAreKept'
    BY <1>1, <2>1, <2>2, <1>4 DEF PressesAreKept, Edit, Send
  <2>4. \A c \in Presses : press'[c].on = press[c].on /\ press'[c].action = press[c].action
    BY <2>2 DEF PressesAreKept
  <2>5. TelegramTypeOK'
    BY <1>4, <2>1, <1>1 DEF TelegramTypeOK, Edit, Send, Actions
  <2>6. Says(b, press[b].on, press[b].action)
    BY DEF Says
  <2>7. \A u \in Tasks : (shown'[u] = shown[u] \/ (u = press[b].on /\ shown'[u] = press[b].action))
             /\ (answer'[u] = answer[u] \/ (u = press[b].on /\ answer'[u] = press[b].action))
    BY <1>4 DEF Edit, Send, TelegramTypeOK
  <2>8. \A c \in Presses, u \in Tasks : \A x : Says(c, u, x)' <=> Says(c, u, x)
    BY <2>4 DEF Says
  <2>9. VerdictsArePressed'
    BY <1>1, <2>4, <2>6, <2>7, <2>8 DEF VerdictsArePressed
  <2>10. QED BY <1>2, <2>3, <2>5, <2>9
<1>5. QED BY <1>3, <1>4

LEMMA ChatKeepsTelegramInv ==
  ASSUME TelegramInv, ToggleTrust \/ ClearWhitelist \/ StopGateway \/ UNCHANGED tgVars
  PROVE  TelegramInv'
<1> USE DEF TelegramInv
<1>1. press' = press /\ pressedOn' = pressedOn /\ stage' = stage /\ shown' = shown
        /\ expired' = expired
      /\ call' = call /\ unsent' = unsent
  BY DEF ToggleTrust, ClearWhitelist, StopGateway, tgVars
<1>2. TelegramTypeOK'
  BY DEF TelegramTypeOK, ToggleTrust, ClearWhitelist, StopGateway, tgVars
<1>3. PressesAreKept'
  BY <1>1 DEF PressesAreKept
<1>4. QuestionsStayOpen'
  BY DEF QuestionsStayOpen, ToggleTrust, ClearWhitelist, StopGateway, tgVars
<1>5. (stopped => stopped') /\ \A u \in Tasks : answer'[u] = answer[u]
        \/ (answer'[u] = "no" /\ stopped')
  BY DEF ToggleTrust, ClearWhitelist, StopGateway, tgVars
<1>6. \A c \in Presses, u \in Tasks : \A x : Says(c, u, x)' <=> Says(c, u, x)
  BY <1>1 DEF Says
<1>7. VerdictsArePressed'
  BY <1>1, <1>5, <1>6 DEF VerdictsArePressed
<1>8. QED BY <1>2, <1>3, <1>4, <1>7

\* Every step keeps it.
LEMMA TelegramInvIsInductive == TelegramInv /\ [TelegramNext]_tgVars => TelegramInv'
BY TaskKeepsTelegramInv, PressKeepsTelegramInv, ChatKeepsTelegramInv DEF TelegramNext

LEMMA TelegramInvShows == TelegramInv => ShownVerdictHolds
<1> SUFFICES ASSUME TelegramInv, NEW t \in Tasks
    PROVE  /\ stage[t] = "runs" /\ shown[t] = "no" =>
                Cardinality(pressedOn[t]) > 1 \/ t \in unsent
           /\ stage[t] = "skipped" /\ shown[t] \in {"yes", "whitelist"} =>
                Cardinality(pressedOn[t]) > 1 \/ t \in expired \/ stopped
           /\ stage[t] = "waiting" => t \in pendingApprovals \/ stopped
  BY DEF ShownVerdictHolds
<1>1. \A b, c \in Presses : press[b].on = t /\ press[c].on = t
        /\ press[b].action # press[c].action =>
         Cardinality(pressedOn[t]) > 1
  BY TwoAreMoreThanOne DEF TelegramInv, PressesAreKept
<1>2. stage[t] = "runs" /\ shown[t] = "no" => Cardinality(pressedOn[t]) > 1 \/ t \in unsent
  BY <1>1 DEF TelegramInv, VerdictsArePressed, Says
<1>3. stage[t] = "skipped" /\ shown[t] \in {"yes", "whitelist"} =>
                Cardinality(pressedOn[t]) > 1 \/ t \in expired \/ stopped
  BY <1>1 DEF TelegramInv, VerdictsArePressed, Says
<1>4. QED BY <1>2, <1>3 DEF TelegramInv, QuestionsStayOpen

\* For every set of tasks and presses: what a chat shows under the question
\* of a tool call is what became of the call, unless it was pressed twice,
\* ran out of time, was drained, or got its press although the call that sent
\* it failed (telegram.go, approval.go).
THEOREM ShownVerdictsHold == TelegramSpec => [](TelegramTypeOK /\ ShownVerdictHolds)
<1>1. TelegramInv => TelegramTypeOK /\ ShownVerdictHolds
  BY TelegramInvShows DEF TelegramInv
<1>2. QED BY <1>1, TelegramInvInitially, TelegramInvIsInductive, PTL DEF TelegramSpec

-----------------------------------------------------------------------------
(* TelegramChat: the messages of one chat, and restarts of the server. *)

\* What the gateway will confirm, or did, it has handed to a goroutine.
ConfirmedWereTaken ==
  \A u \in Updates : u <= confirmedTo \/ u < pollOffset => handlers[u] # "none"

\* What it has still to poll, in this life of the server it has not handed out.
TakenOncePerLife ==
  \A u \in Updates :
    /\ u >= pollOffset => handlers[u] \in {"none", "lost"}
    /\ starts[u] <= crashes + 1
    /\ handlers[u] \in {"none", "lost", "started"} => starts[u] <= crashes

HistoryIsOfTheDone ==
  /\ \A i \in DOMAIN chatHistory :
       chatHistory[i] \notin commands /\ handlers[chatHistory[i]] = "done"
  /\ \A i, j \in DOMAIN chatHistory : chatHistory[i] = chatHistory[j] => i = j
  /\ \A u \in Updates :
       /\ \A v \in given[u] : v \notin commands \union {u} /\ handlers[v] = "done"
       /\ handlers[u] \in {"running", "answering", "failed"} => u \notin commands

EndsAreShown ==
  \A u \in Updates :
    handlers[u] \in {"answering", "done", "failed"} /\ u \notin commands \union unsure =>
      statusMsg[u] = "final" /\ u \notin edits

ChatInv ==
  ChatTypeOK /\ ConfirmedWereTaken /\ TakenOncePerLife /\ HistoryIsOfTheDone /\ EndsAreShown

HandlerStates ==
  {"none", "started", "dropped", "running", "answering", "done", "failed", "lost"}

\* It holds at the start.
LEMMA ChatInvInitially == ChatInit => ChatInv
<1> SUFFICES ASSUME ChatInit PROVE ChatInv
  OBVIOUS
<1>1. /\ sentTo = 0 /\ confirmedTo = 0 /\ pollOffset = 0 /\ crashes = 0 /\ chatHistory = <<>>
      /\ handlers = [u \in Updates |-> "none"] /\ starts = [u \in Updates |-> 0]
      /\ given = [u \in Updates |-> {}]
  BY DEF ChatInit
<1>2. /\ sentTo \in 0..MaxUpdates /\ confirmedTo \in 0..sentTo /\ pollOffset \in 0..(sentTo + 1)
      /\ crashes \in 0..MaxCrashes /\ 0 \in 0..(MaxCrashes + 1)
  BY <1>1, ChatAssumption
<1>3. chatHistory \in Seq(Updates) /\ Len(chatHistory) <= HistoryTurns
  BY <1>1, ChatAssumption
<1>4. ChatTypeOK
  BY <1>1, <1>2, <1>3 DEF ChatInit, ChatTypeOK
<1>5. ConfirmedWereTaken /\ TakenOncePerLife
  BY <1>1, ChatAssumption DEF ConfirmedWereTaken, TakenOncePerLife, Updates
<1>6. HistoryIsOfTheDone /\ EndsAreShown
  BY <1>1 DEF HistoryIsOfTheDone, EndsAreShown
<1>7. QED BY <1>4, <1>5, <1>6 DEF ChatInv

\* The polling loop.
LEMMA PollKeepsChatInv ==
  ASSUME ChatInv, UserSends \/ PollUpdates \/ PollInVain
  PROVE  ChatInv'
<1>0. /\ sentTo \in Nat /\ sentTo <= MaxUpdates /\ confirmedTo \in Nat /\ confirmedTo <= sentTo
      /\ pollOffset \in Nat /\ pollOffset <= sentTo + 1 /\ handlers \in [Updates -> HandlerStates]
      /\ MaxUpdates \in Nat
  BY ChatAssumption DEF ChatInv, ChatTypeOK, HandlerStates
<1>1. CASE UserSends
  <2>1. /\ sentTo' = sentTo + 1 /\ sentTo < MaxUpdates
        /\ UNCHANGED <<commands, confirmedTo, pollOffset, handlers, storeVars, progressVars,
             countVars>>
    BY <1>1 DEF UserSends
  <2>2. sentTo' \in 0..MaxUpdates /\ confirmedTo' \in 0..sentTo' /\ pollOffset' \in 0..(sentTo' + 1)
    BY <1>0, <2>1
  <2>3. ChatTypeOK'
    BY <2>1, <2>2 DEF ChatInv, ChatTypeOK, storeVars, progressVars, countVars
  <2>4. QED BY <2>1, <2>3 DEF ChatInv, storeVars, progressVars, countVars, ConfirmedWereTaken,
         TakenOncePerLife, HistoryIsOfTheDone, EndsAreShown
<1>2. ASSUME confirmedTo' = ConfirmedBy(pollOffset)
      PROVE  /\ confirmedTo' \in 0..sentTo /\ pollOffset <= confirmedTo' + 1
             /\ \A u \in Updates : u <= confirmedTo' => u <= confirmedTo \/ u < pollOffset
  BY <1>0, <1>2 DEF ConfirmedBy, Updates
<1>3. CASE PollInVain
  <2>1. /\ confirmedTo' = ConfirmedBy(pollOffset)
        /\ UNCHANGED <<commands, sentTo, pollOffset, handlers, storeVars, progressVars, countVars>>
    BY <1>3 DEF PollInVain
  <2>2. ChatTypeOK'
    BY <1>2, <2>1 DEF ChatInv, ChatTypeOK, storeVars, progressVars, countVars
  <2>3. ConfirmedWereTaken'
    BY <1>2, <2>1 DEF ChatInv, ConfirmedWereTaken
  <2>4. QED BY <2>1, <2>2, <2>3 DEF ChatInv, storeVars, progressVars, countVars,
         TakenOncePerLife, HistoryIsOfTheDone, EndsAreShown
<1>4. CASE PollUpdates
  <2> DEFINE fetched == (confirmedTo' + 1)..sentTo
  <2>1. /\ confirmedTo' = ConfirmedBy(pollOffset) /\ pollOffset' = sentTo + 1
        /\ handlers' = [u \in Updates |-> IF u \in fetched THEN "started" ELSE handlers[u]]
        /\ UNCHANGED <<commands, sentTo, storeVars, progressVars, countVars>>
    BY <1>4 DEF PollUpdates, NextOffset
  <2>2. \A u \in fetched : u \in Updates /\ u >= pollOffset
    BY <1>0, <1>2, <2>1 DEF Updates
  <2>3. /\ \A u \in fetched : handlers[u] \in {"none", "lost"} /\ handlers'[u] = "started"
        /\ \A u \in Updates \ fetched : handlers'[u] = handlers[u]
    BY <2>1, <2>2 DEF ChatInv, TakenOncePerLife
  <2>4. ChatTypeOK'
    <3>1. handlers' \in [Updates -> HandlerStates]
      BY <1>0, <2>1 DEF HandlerStates
    <3>2. pollOffset' \in 0..(sentTo + 1)
      BY <1>0, <2>1
    <3>3. QED BY <1>2, <2>1, <3>1, <3>2 DEF ChatInv, ChatTypeOK, storeVars, progressVars,
       countVars, HandlerStates
  <2>5. ConfirmedWereTaken'
    <3>1. ASSUME NEW u \in Updates, u <= confirmedTo' \/ u < pollOffset' PROVE handlers'[u] # "none"
      <4>1. u \in fetched \/ u <= confirmedTo'
        BY <1>0, <1>2, <2>1, <3>1 DEF Updates
      <4>2. CASE u \in fetched
        BY <2>3, <4>2
      <4>3. CASE u \notin fetched /\ u <= confirmedTo'
        BY <1>2, <2>1, <2>3, <4>3 DEF ChatInv, ConfirmedWereTaken
      <4>4. QED BY <4>1, <4>2, <4>3
    <3>2. QED BY <3>1 DEF ConfirmedWereTaken
  <2>6. TakenOncePerLife'
    <3>1. ASSUME NEW u \in Updates
          PROVE  /\ u >= pollOffset' => handlers'[u] \in {"none", "lost"}
                 /\ handlers'[u] \in {"none", "lost", "started"} => starts[u] <= crashes
      <4>1. u >= pollOffset' => u >= pollOffset /\ u \notin fetched
        BY <1>0, <1>2, <2>1 DEF Updates
      <4>2. QED BY <2>3, <4>1 DEF ChatInv, TakenOncePerLife
    <3>2. QED BY <2>1, <3>1 DEF ChatInv, TakenOncePerLife, countVars
  <2>7. \A u \in Updates : \A st \in {"running", "answering", "done", "failed"} :
          handlers'[u] = st <=> handlers[u] = st
    BY <2>3
  <2> HIDE DEF fetched
  <2>8. HistoryIsOfTheDone'
    <3>1. /\ \A i \in DOMAIN chatHistory : chatHistory[i] \in Updates
          /\ \A u \in Updates : given[u] \subseteq Updates
      BY DEF ChatInv, ChatTypeOK
    <3>2. QED BY <2>1, <2>7, <3>1 DEF ChatInv, HistoryIsOfTheDone, storeVars
  <2>9. EndsAreShown'
    BY <2>1, <2>7 DEF ChatInv, EndsAreShown, progressVars
  <2>10. QED BY <2>4, <2>5, <2>6, <2>8, <2>9 DEF ChatInv
<1>5. QED BY <1>1, <1>3, <1>4

LEMMA CrashKeepsChatInv ==
  ASSUME ChatInv, CrashServer
  PROVE  ChatInv'
<1>1. /\ crashes < MaxCrashes /\ crashes' = crashes + 1
      /\ pollOffset' = 0 /\ chatHistory' = <<>> /\ limited' = FALSE /\ edits' = {} /\ unsure' = {}
      /\ given' = [u \in Updates |-> {}] /\ statusMsg' = [u \in Updates |-> "none"]
      /\ handlers' = [u \in Updates |-> IF handlers[u] = "none" THEN "none" ELSE "lost"]
      /\ UNCHANGED <<commands, sentTo, confirmedTo, starts>>
  BY DEF CrashServer
<1>2. crashes \in Nat /\ \A u \in Updates : starts[u] \in Nat
  BY DEF ChatInv, ChatTypeOK
<1>3. ChatTypeOK'
  <2>1. crashes' \in 0..MaxCrashes /\ pollOffset' \in 0..(sentTo' + 1)
    BY <1>1, <1>2, ChatAssumption DEF ChatInv, ChatTypeOK
  <2>2. chatHistory' \in Seq(Updates) /\ Len(chatHistory') <= HistoryTurns
    BY <1>1, ChatAssumption
  <2>3. QED BY <1>1, <2>1, <2>2 DEF ChatInv, ChatTypeOK
<1>4. ConfirmedWereTaken'
  BY <1>1 DEF ChatInv, ConfirmedWereTaken, Updates
<1>5. TakenOncePerLife'
  BY <1>1, <1>2 DEF ChatInv, TakenOncePerLife
<1>6. HistoryIsOfTheDone' /\ EndsAreShown'
  BY <1>1 DEF HistoryIsOfTheDone, EndsAreShown
<1>7. QED BY <1>3, <1>4, <1>5, <1>6 DEF ChatInv

\* The goroutine of one message, before its task and while it runs.
LEMMA MessageKeepsChatInv ==
  ASSUME ChatInv, NEW u \in Updates,
         DropMessage(u) \/ BeginTask(u) \/ SendEdit(u) \/ EditArrives(u) \/ FinalEdit(u)
  PROVE  ChatInv'
<1>0. /\ handlers \in [Updates -> HandlerStates] /\ given \in [Updates -> SUBSET Updates]
      /\ statusMsg \in [Updates -> {"none", "working", "final"}] /\ unsure \subseteq Updates
      /\ edits \subseteq Updates
      /\ \A i \in DOMAIN chatHistory : chatHistory[i] \in Updates
      /\ crashes \in Nat /\ crashes <= MaxCrashes /\ starts \in [Updates -> 0..(MaxCrashes + 1)]
  BY DEF ChatInv, ChatTypeOK, HandlerStates
<1>1. CASE DropMessage(u)
  <2>1. /\ handlers[u] = "started" /\ handlers' = [handlers EXCEPT ![u] = "dropped"]
        /\ UNCHANGED <<queueVars, storeVars, progressVars, countVars>>
    BY <1>1 DEF DropMessage, HandlerMoves
  <2>2. handlers'[u] = "dropped" /\ \A v \in Updates : v # u => handlers'[v] = handlers[v]
    BY <1>0, <2>1
  <2>3. ChatTypeOK'
    BY <1>0, <2>1 DEF ChatInv, ChatTypeOK, queueVars, storeVars, progressVars, countVars
  <2>4. ConfirmedWereTaken' /\ TakenOncePerLife' /\ EndsAreShown'
    BY <2>1, <2>2 DEF ChatInv, ConfirmedWereTaken, TakenOncePerLife, EndsAreShown, queueVars,
       progressVars, countVars
  <2>5. HistoryIsOfTheDone'
    BY <1>0, <2>1, <2>2 DEF ChatInv, HistoryIsOfTheDone, queueVars, storeVars
  <2>6. QED BY <2>3, <2>4, <2>5 DEF ChatInv
<1>2. CASE BeginTask(u)
  <2>1. /\ u \notin commands /\ handlers[u] = "started"
        /\ handlers' = [handlers EXCEPT ![u] = "running"]
        /\ given' = [given EXCEPT ![u] = LastTurns(chatHistory, ContextTurns)]
        /\ starts' = [starts EXCEPT ![u] = @ + 1] /\ limited' = TRUE
        /\ UNCHANGED <<queueVars, chatHistory, edits, unsure, crashes>>
    BY <1>2 DEF BeginTask, HandlerMoves
  <2>2. PICK m \in {"working", "none"} : statusMsg' = [statusMsg EXCEPT ![u] = m]
    BY <1>2 DEF BeginTask
  <2>3. /\ handlers'[u] = "running" /\ given'[u] = LastTurns(chatHistory, ContextTurns)
        /\ starts'[u] = starts[u] + 1 /\ starts[u] <= crashes /\ starts[u] \in Nat
        /\ \A v \in Updates : v # u =>
             /\ handlers'[v] = handlers[v] /\ given'[v] = given[v]
             /\ starts'[v] = starts[v] /\ statusMsg'[v] = statusMsg[v]
    BY <1>0, <2>1, <2>2 DEF ChatInv, TakenOncePerLife
  <2>4. \A v \in LastTurns(chatHistory, ContextTurns) : \E i \in DOMAIN chatHistory :
          v = chatHistory[i]
    BY DEF LastTurns
  <2>5. ChatTypeOK'
    <3>1. starts' \in [Updates -> 0..(MaxCrashes + 1)]
      <4>1. starts[u] + 1 \in 0..(MaxCrashes + 1)
        BY <1>0, <2>3, ChatAssumption
      <4>2. QED BY <1>0, <2>1, <4>1
    <3>2. given' \in [Updates -> SUBSET Updates]
      BY <1>0, <2>1, <2>4
    <3>3. handlers' \in [Updates -> HandlerStates]
            /\ statusMsg' \in [Updates -> {"none", "working", "final"}]
      BY <1>0, <2>1, <2>2 DEF HandlerStates
    <3>4. QED BY <2>1, <3>1, <3>2, <3>3 DEF ChatInv, ChatTypeOK, queueVars, HandlerStates
  <2>6. ConfirmedWereTaken' /\ EndsAreShown'
    BY <2>1, <2>3 DEF ChatInv, ConfirmedWereTaken, EndsAreShown, queueVars
  <2>7. TakenOncePerLife'
    <3>1. u < pollOffset
      BY <2>1 DEF ChatInv, ChatTypeOK, TakenOncePerLife, Updates
    <3>2. starts'[u] <= crashes + 1
      BY <1>0, <2>3
    <3>3. ~(u >= pollOffset)
      BY <3>1 DEF ChatInv, ChatTypeOK, Updates
    <3>4. QED BY <2>1, <2>3, <3>2, <3>3 DEF ChatInv, TakenOncePerLife, queueVars
  <2>8. HistoryIsOfTheDone'
    <3>1. \A v \in Updates : handlers[v] = "done" => handlers'[v] = "done" /\ v # u
      BY <2>1, <2>3
    <3>2. \A v \in given'[u] : v \notin commands \union {u} /\ handlers'[v] = "done"
      <4>1. ASSUME NEW v \in given'[u] PROVE v \notin commands \union {u} /\ handlers'[v] = "done"
        <5>1. PICK i \in DOMAIN chatHistory : v = chatHistory[i]
          BY <2>3, <2>4
        <5>2. v \in Updates /\ v \notin commands /\ handlers[v] = "done"
          BY <1>0, <5>1 DEF ChatInv, HistoryIsOfTheDone
        <5>3. QED BY <3>1, <5>2
      <4>2. QED BY <4>1
    <3>3. ASSUME NEW w \in Updates
          PROVE  /\ \A v \in given'[w] : v \notin commands \union {w} /\ handlers'[v] = "done"
                 /\ handlers'[w] \in {"running", "answering", "failed"} => w \notin commands
      <4>1. CASE w = u
        BY <2>1, <3>2, <4>1
      <4>2. CASE w # u
        BY <1>0, <2>3, <3>1, <4>2 DEF ChatInv, HistoryIsOfTheDone
      <4>3. QED BY <4>1, <4>2
    <3>4. QED BY <1>0, <2>1, <3>1, <3>3 DEF ChatInv, HistoryIsOfTheDone, queueVars
  <2>9. QED BY <2>5, <2>6, <2>7, <2>8 DEF ChatInv
<1>3. CASE SendEdit(u)
  <2>1. /\ handlers[u] = "running" /\ edits' = edits \union {u}
        /\ UNCHANGED <<queueVars, handlers, storeVars, statusMsg, unsure, countVars>>
    BY <1>3 DEF SendEdit
  <2>2. ChatTypeOK'
    BY <1>0, <2>1 DEF ChatInv, ChatTypeOK, queueVars, storeVars, countVars
  <2>3. EndsAreShown'
    BY <2>1 DEF ChatInv, EndsAreShown, queueVars
  <2>4. QED BY <2>1, <2>2, <2>3 DEF ChatInv, ConfirmedWereTaken, TakenOncePerLife,
     HistoryIsOfTheDone,
       queueVars, storeVars, countVars
<1>4. CASE EditArrives(u)
  <2>1. /\ u \in edits /\ edits' = edits \ {u} /\ statusMsg' = [statusMsg EXCEPT ![u] = "working"]
        /\ UNCHANGED <<queueVars, handlers, storeVars, unsure, countVars>>
    BY <1>4 DEF EditArrives
  <2>2. ChatTypeOK'
    BY <1>0, <2>1 DEF ChatInv, ChatTypeOK, queueVars, storeVars, countVars
  <2>3. EndsAreShown'
    BY <1>0, <2>1 DEF ChatInv, EndsAreShown, queueVars
  <2>4. QED BY <2>1, <2>2, <2>3 DEF ChatInv, ConfirmedWereTaken, TakenOncePerLife,
     HistoryIsOfTheDone,
       queueVars, storeVars, countVars
<1>5. CASE FinalEdit(u)
  <2>1. PICK to \in {"answering", "failed"} :
          handlers[u] = "running" /\ handlers' = [handlers EXCEPT ![u] = to]
    BY <1>5 DEF FinalEdit, HandlerMoves
  <2>2. /\ \/ /\ statusMsg' = [statusMsg EXCEPT ![u] = "final"]
             /\ unsure' = unsure \union ({u} \intersect edits)
           \/ unsure' = unsure \union {u} /\ UNCHANGED statusMsg
        /\ UNCHANGED <<queueVars, storeVars, edits, countVars>>
    BY <1>5 DEF FinalEdit
  <2>3. handlers'[u] = to /\ \A v \in Updates : v # u => handlers'[v] = handlers[v]
    BY <1>0, <2>1
  <2>4. ChatTypeOK'
    <3>1. handlers' \in [Updates -> HandlerStates]
      BY <1>0, <2>1 DEF HandlerStates
    <3>2. statusMsg' \in [Updates -> {"none", "working", "final"}] /\ unsure' \subseteq Updates
      BY <1>0, <2>2
    <3>3. QED BY <2>2, <3>1, <3>2 DEF ChatInv, ChatTypeOK, queueVars, storeVars, countVars,
       HandlerStates
  <2>5. ConfirmedWereTaken' /\ TakenOncePerLife'
    BY <2>1, <2>2, <2>3 DEF ChatInv, ConfirmedWereTaken, TakenOncePerLife, queueVars, countVars
  <2>6. HistoryIsOfTheDone'
    BY <1>0, <2>1, <2>2, <2>3 DEF ChatInv, HistoryIsOfTheDone, queueVars, storeVars
  <2>7. EndsAreShown'
    <3>1. u \notin unsure' => statusMsg'[u] = "final" /\ u \notin edits
      BY <1>0, <2>2
    <3>2. \A v \in Updates : v # u => statusMsg'[v] = statusMsg[v]
            /\ (v \in unsure' <=> v \in unsure)
      BY <1>0, <2>2
    <3>3. QED BY <2>2, <2>3, <3>1, <3>2 DEF ChatInv, EndsAreShown, queueVars
  <2>8. QED BY <2>4, <2>5, <2>6, <2>7 DEF ChatInv
<1>6. QED BY <1>1, <1>2, <1>3, <1>4, <1>5

\* The end of a message's goroutine.
LEMMA EndKeepsChatInv ==
  ASSUME ChatInv, NEW u \in Updates, ResetCommand(u) \/ AnswerTask(u)
  PROVE  ChatInv'
<1>0. /\ handlers \in [Updates -> HandlerStates] /\ chatHistory \in Seq(Updates)
      /\ \A v \in Updates : given[v] \subseteq Updates
      /\ \A i \in DOMAIN chatHistory : chatHistory[i] \in Updates
      /\ Len(chatHistory) \in Nat /\ Len(chatHistory) <= HistoryTurns
  BY DEF ChatInv, ChatTypeOK, HandlerStates
<1>1. /\ handlers[u] \in {"started", "answering"} /\ handlers' = [handlers EXCEPT ![u] = "done"]
      /\ handlers[u] = "started" => u \in commands
      /\ UNCHANGED <<queueVars, given, progressVars, countVars>> /\ limited' \in BOOLEAN
  BY DEF ResetCommand, AnswerTask, HandlerMoves, ChatInv, ChatTypeOK
<1>2. handlers'[u] = "done" /\ \A v \in Updates : v # u => handlers'[v] = handlers[v]
  BY <1>0, <1>1
<1>3. \E f \in [1..Len(chatHistory') -> 1..(Len(chatHistory) + 1)] :
        /\ chatHistory' \in Seq(Updates) /\ Len(chatHistory') <= HistoryTurns
        /\ \A i, j \in 1..Len(chatHistory') : f[i] = f[j] => i = j
        /\ \A i \in 1..Len(chatHistory') :
             IF f[i] = Len(chatHistory) + 1 THEN chatHistory'[i] = u /\ handlers[u] = "answering"
             ELSE chatHistory'[i] = chatHistory[f[i]]
  <2>1. CASE ResetCommand(u)
    <3>1. chatHistory' = <<>> /\ Len(chatHistory') = 0 /\ chatHistory' \in Seq(Updates)
      BY <2>1 DEF ResetCommand
    <3> DEFINE f == [i \in 1..Len(chatHistory') |-> i]
    <3>2. f \in [1..Len(chatHistory') -> 1..(Len(chatHistory) + 1)]
      BY <3>1
    <3>3. 1..Len(chatHistory') = {} /\ Len(chatHistory') <= HistoryTurns
      BY <3>1, ChatAssumption
    <3> HIDE DEF f
    <3>4. QED BY <3>1, <3>2, <3>3
  <2>2. CASE AnswerTask(u)
    <3> DEFINE h == Append(chatHistory, u)
               first == IF Len(h) > HistoryTurns THEN Len(h) - HistoryTurns + 1 ELSE 1
    <3>1. chatHistory' = SubSeq(h, first, Len(h)) /\ handlers[u] = "answering"
      BY <2>2 DEF AnswerTask, HandlerMoves
    <3>2. /\ h \in Seq(Updates) /\ Len(h) = Len(chatHistory) + 1
          /\ \A i \in 1..Len(chatHistory) : h[i] = chatHistory[i]
          /\ h[Len(chatHistory) + 1] = u
      BY <1>0, AppendProperties
    <3>3. first \in 1..(Len(h) + 1) /\ Len(h) - first + 1 <= HistoryTurns /\ Len(h) \in Nat
      BY <1>0, <3>2, ChatAssumption
    <3> HIDE DEF h, first
    <3>4. /\ chatHistory' \in Seq(Updates)
          /\ Len(chatHistory') = IF first <= Len(h) THEN Len(h) - first + 1 ELSE 0
          /\ \A i \in 1..(Len(h) - first + 1) : chatHistory'[i] = h[first + i - 1]
      BY <3>1, <3>2, <3>3, SubSeqProperties
    <3>5. Len(chatHistory') = Len(h) - first + 1
      BY <3>3, <3>4
    <3> DEFINE f == [i \in 1..Len(chatHistory') |-> first + i - 1]
    <3>6. f \in [1..Len(chatHistory') -> 1..(Len(chatHistory) + 1)]
      BY <3>2, <3>3, <3>5
    <3>7. \A i, j \in 1..Len(chatHistory') : f[i] = f[j] => i = j
      BY <3>3
    <3>8. \A i \in 1..Len(chatHistory') :
             IF f[i] = Len(chatHistory) + 1 THEN chatHistory'[i] = u /\ handlers[u] = "answering"
             ELSE chatHistory'[i] = chatHistory[f[i]]
      <4>1. ASSUME NEW i \in 1..Len(chatHistory')
            PROVE  IF f[i] = Len(chatHistory) + 1
                   THEN chatHistory'[i] = u /\ handlers[u] = "answering"
                   ELSE chatHistory'[i] = chatHistory[f[i]]
        <5>1. chatHistory'[i] = h[f[i]] /\ f[i] \in 1..(Len(chatHistory) + 1)
          BY <3>4, <3>5, <3>6
        <5> HIDE DEF f
        <5>2. f[i] = Len(chatHistory) + 1 \/ f[i] \in 1..Len(chatHistory)
          BY <1>0, <5>1
        <5>3. QED BY <3>1, <3>2, <5>1, <5>2
      <4>2. QED BY <4>1
    <3>9. QED BY <3>3, <3>4, <3>5, <3>6, <3>7, <3>8
  <2>3. QED BY <2>1, <2>2
<1>4. PICK f \in [1..Len(chatHistory') -> 1..(Len(chatHistory) + 1)] :
        /\ chatHistory' \in Seq(Updates) /\ Len(chatHistory') <= HistoryTurns
        /\ \A i, j \in 1..Len(chatHistory') : f[i] = f[j] => i = j
        /\ \A i \in 1..Len(chatHistory') :
             IF f[i] = Len(chatHistory) + 1 THEN chatHistory'[i] = u /\ handlers[u] = "answering"
             ELSE chatHistory'[i] = chatHistory[f[i]]
  BY <1>3
<1>5. ChatTypeOK'
  BY <1>0, <1>1, <1>4 DEF ChatInv, ChatTypeOK, queueVars, progressVars, countVars, HandlerStates
<1>6. ConfirmedWereTaken'
  BY <1>1, <1>2 DEF ChatInv, ConfirmedWereTaken, queueVars
<1>7. TakenOncePerLife'
  BY <1>1, <1>2 DEF ChatInv, TakenOncePerLife, queueVars, countVars
<1>8. HistoryIsOfTheDone'
  <2>1. \A v \in Updates : handlers[v] = "done" => handlers'[v] = "done" /\ v # u
    BY <1>1, <1>2
  <2>2. ASSUME NEW i \in 1..Len(chatHistory')
        PROVE  chatHistory'[i] \notin commands /\ handlers'[chatHistory'[i]] = "done"
    <3>1. CASE f[i] = Len(chatHistory) + 1
      <4>1. chatHistory'[i] = u /\ handlers[u] = "answering"
        BY <1>4, <3>1
      <4>2. QED BY <1>2, <4>1 DEF ChatInv, HistoryIsOfTheDone
    <3>2. CASE f[i] # Len(chatHistory) + 1
      <4>1. chatHistory'[i] = chatHistory[f[i]] /\ f[i] \in DOMAIN chatHistory
        BY <1>0, <1>4, <3>2
      <4>2. QED BY <1>0, <2>1, <4>1 DEF ChatInv, HistoryIsOfTheDone
    <3>3. QED BY <3>1, <3>2
  <2>3. ASSUME NEW i \in 1..Len(chatHistory'), NEW j \in 1..Len(chatHistory'), chatHistory'[i] =
          chatHistory'[j]
        PROVE  i = j
    <3>1. \A k \in 1..Len(chatHistory') : f[k] # Len(chatHistory) + 1 =>
            chatHistory'[k] = chatHistory[f[k]] /\ f[k] \in DOMAIN chatHistory
              /\ chatHistory'[k] # u
      <4>1. ASSUME NEW k \in 1..Len(chatHistory'), f[k] # Len(chatHistory) + 1
            PROVE  chatHistory'[k] = chatHistory[f[k]] /\ f[k] \in DOMAIN chatHistory
                   /\ chatHistory'[k] # u
        <5>1. chatHistory'[k] = chatHistory[f[k]] /\ f[k] \in DOMAIN chatHistory
          BY <1>0, <1>4, <4>1
        <5>2. handlers[chatHistory[f[k]]] = "done"
          BY <5>1 DEF ChatInv, HistoryIsOfTheDone
        <5>3. QED BY <1>1, <5>1, <5>2
      <4>2. QED BY <4>1
    <3>2. CASE f[i] # Len(chatHistory) + 1 /\ f[j] # Len(chatHistory) + 1
      BY <1>4, <2>3, <3>1, <3>2 DEF ChatInv, HistoryIsOfTheDone
    <3>3. CASE f[i] = Len(chatHistory) + 1 \/ f[j] = Len(chatHistory) + 1
      <4>1. f[i] = f[j]
        BY <1>4, <2>3, <3>1, <3>3
      <4>2. QED BY <1>4, <4>1
    <3>4. QED BY <3>2, <3>3
  <2>4. DOMAIN chatHistory' = 1..Len(chatHistory')
    BY <1>4
  <2>5. ASSUME NEW w \in Updates
        PROVE  /\ \A v \in given[w] : v \notin commands \union {w} /\ handlers'[v] = "done"
               /\ handlers'[w] \in {"running", "answering", "failed"} => w \notin commands
    BY <1>0, <1>2, <2>1 DEF ChatInv, HistoryIsOfTheDone
  <2>6. QED BY <1>1, <2>2, <2>3, <2>4, <2>5 DEF HistoryIsOfTheDone, queueVars
<1>9. EndsAreShown'
  BY <1>1, <1>2 DEF ChatInv, EndsAreShown, queueVars, progressVars
<1>10. QED BY <1>5, <1>6, <1>7, <1>8, <1>9 DEF ChatInv

\* Every step keeps it.
LEMMA ChatInvIsInductive == ChatInv /\ [ChatNext]_chatVars => ChatInv'
<1>1. ChatInv /\ UNCHANGED chatVars => ChatInv'
  BY DEF chatVars, queueVars, storeVars, progressVars, countVars, ChatInv, ChatTypeOK,
     ConfirmedWereTaken,
     TakenOncePerLife, HistoryIsOfTheDone, EndsAreShown
<1>2. QED
  BY <1>1, PollKeepsChatInv, CrashKeepsChatInv, MessageKeepsChatInv, EndKeepsChatInv DEF ChatNext

\* For every number of messages and crashes and every length of the history:
\* no message is lost by the polling loop, a task begins at most once in a
\* life of the server, and its end is shown, in the history and in the status
\* message.
THEOREM MessagesRunOnce == ChatSpec => [](ChatTypeOK /\ MessagesRunOnceAndShowTheirEnd)
<1>1. ChatInv => ChatTypeOK /\ MessagesRunOnceAndShowTheirEnd
  <2> SUFFICES ASSUME ChatInv PROVE MessagesRunOnceAndShowTheirEnd
    BY DEF ChatInv
  <2>1. \A u \in 1..confirmedTo : u \in Updates /\ u <= confirmedTo
    BY ChatAssumption DEF ChatInv, ChatTypeOK, Updates
  <2>2. QED BY <2>1 DEF ChatInv, ConfirmedWereTaken, TakenOncePerLife, HistoryIsOfTheDone,
     EndsAreShown,
         MessagesRunOnceAndShowTheirEnd
<1>2. QED BY <1>1, ChatInvInitially, ChatInvIsInductive, PTL DEF ChatSpec

-----------------------------------------------------------------------------
(* ActivityBroker: publishers at the full channel of a panel. *)

EventRecord == [by: Publishers, n: Nat]

\* Where a publisher is in its Publish.
VisitsShape ==
  visiting \in [Publishers -> [panel: Panels, stage: {"send", "drop",
    "again"}] \union {NotVisiting}]

InOrder(q) ==
  \A i, j \in DOMAIN q : i < j /\ q[i].by = q[j].by => q[i].n < q[j].n

\* No panel has an event its publisher has still to bring there.
NothingEarly ==
  \A s \in Panels, p \in Publishers :
    \A i \in DOMAIN Seen(s) : Seen(s)[i].by = p =>
      /\ Seen(s)[i].n <= sent[p]
      /\ s \in todo[p] \/ visiting[p].panel = s => Seen(s)[i].n < sent[p]

\* Where publishers have not met one visits at a time, and keeps the place it made.
MeetingsCrowd ==
  \A s \in Panels \ crowded, p \in Publishers :
    visiting[p].panel = s =>
      /\ \A q \in Publishers : visiting[q].panel = s => q = p
      /\ visiting[p].stage = "again" => Len(channel[s]) < ChannelCap

BrokerInv ==
  /\ BrokerTypeOK /\ VisitsShape /\ NothingEarly /\ MeetingsCrowd
  /\ \A s \in Panels : InOrder(Seen(s))
  /\ \A p \in Publishers : visiting[p].panel \notin todo[p]
  /\ givenUp \subseteq crowded

LEMMA SeenSequences ==
  ASSUME NEW r \in Seq(EventRecord), NEW c \in Seq(EventRecord)
  PROVE  /\ r \o c \in Seq(EventRecord) /\ Len(r \o c) = Len(r) + Len(c)
         /\ DOMAIN (r \o c) = 1..(Len(r) + Len(c))
         /\ \A i \in 1..(Len(r) + Len(c)) : (r \o c)[i] = IF i <= Len(r) THEN r[i]
              ELSE c[i - Len(r)]
BY ConcatProperties

\* A panel that gets an event sees it last.
LEMMA SeenGrows ==
  ASSUME NEW r \in Seq(EventRecord), NEW c \in Seq(EventRecord), NEW e \in EventRecord
  PROVE  /\ Append(c, e) \in Seq(EventRecord) /\ Len(Append(c, e)) = Len(c) + 1
         /\ r \o Append(c, e) = Append(r \o c, e)
<1>1. /\ Append(c, e) = c \o <<e>> /\ Append(c, e) \in Seq(EventRecord)
      /\ Len(Append(c, e)) = Len(c) + 1
  BY AppendIsConcat, AppendProperties
<1>2. Append(r \o c, e) = (r \o c) \o <<e>>
  BY SeenSequences, AppendIsConcat
<1>3. QED BY <1>1, <1>2, ConcatAssociative

\* One that reads sees what it saw.
LEMMA SeenStays ==
  ASSUME NEW r \in Seq(EventRecord), NEW c \in Seq(EventRecord), c # <<>>
  PROVE  /\ Append(r, Head(c)) \o Tail(c) = r \o c /\ Len(Tail(c)) = Len(c) - 1
         /\ Head(c) \in EventRecord /\ Tail(c) \in Seq(EventRecord)
         /\ Append(r, Head(c)) \in Seq(EventRecord)
<1>1. /\ Head(c) \in EventRecord /\ Tail(c) \in Seq(EventRecord) /\ <<Head(c)>> \o Tail(c) = c
      /\ Len(Tail(c)) = Len(c) - 1
  BY HeadTailProperties
<1>2. Append(r, Head(c)) = r \o <<Head(c)>> /\ <<Head(c)>> \in Seq(EventRecord)
      /\ Append(r, Head(c)) \in Seq(EventRecord)
  BY <1>1, AppendIsConcat, AppendProperties
<1>3. (r \o <<Head(c)>>) \o Tail(c) = r \o (<<Head(c)>> \o Tail(c))
  BY <1>1, <1>2, ConcatAssociative
<1>4. QED BY <1>1, <1>2, <1>3

\* One whose oldest event is dropped sees the others, in their places.
LEMMA SeenDrops ==
  ASSUME NEW r \in Seq(EventRecord), NEW c \in Seq(EventRecord), c # <<>>
  PROVE  \A i \in DOMAIN (r \o Tail(c)) :
           (r \o Tail(c))[i] = (r \o c)[IF i <= Len(r) THEN i ELSE i + 1]
           /\ (IF i <= Len(r) THEN i ELSE i + 1) \in DOMAIN (r \o c)
<1>1. /\ Tail(c) \in Seq(EventRecord) /\ Len(Tail(c)) = Len(c) - 1
      /\ \A i \in 1..Len(Tail(c)) : Tail(c)[i] = c[i + 1]
  BY HeadTailProperties
<1>2. Len(r) \in Nat /\ Len(c) \in Nat /\ Len(c) >= 1
  BY EmptySeq
<1>3. DOMAIN (r \o Tail(c)) = 1..(Len(r) + Len(c) - 1) /\ DOMAIN (r \o c) = 1..(Len(r) + Len(c))
  BY <1>1, <1>2, SeenSequences
<1>4. ASSUME NEW i \in 1..(Len(r) + Len(c) - 1), i <= Len(r)
      PROVE  (r \o Tail(c))[i] = (r \o c)[i] /\ i \in DOMAIN (r \o c)
  BY <1>1, <1>2, <1>3, <1>4, SeenSequences
<1>5. ASSUME NEW i \in 1..(Len(r) + Len(c) - 1), ~(i <= Len(r))
      PROVE  (r \o Tail(c))[i] = (r \o c)[i + 1] /\ i + 1 \in DOMAIN (r \o c)
  <2>1. (r \o Tail(c))[i] = Tail(c)[i - Len(r)]
    BY <1>1, <1>2, <1>5, SeenSequences
  <2>2. i - Len(r) \in 1..(Len(c) - 1) /\ (i - Len(r)) + 1 = (i + 1) - Len(r) /\ ~(i + 1 <= Len(r))
        /\ i + 1 \in 1..(Len(r) + Len(c))
    BY <1>2, <1>5
  <2>3. Tail(c)[i - Len(r)] = c[(i + 1) - Len(r)]
    BY <1>1, <2>2
  <2>4. (r \o c)[i + 1] = c[(i + 1) - Len(r)]
    BY <2>2, SeenSequences
  <2>5. QED BY <1>3, <2>1, <2>2, <2>3, <2>4
<1>6. QED BY <1>3, <1>4, <1>5

\* It holds at the start.
LEMMA BrokerInvInitially == BrokerInit => BrokerInv
<1> SUFFICES ASSUME BrokerInit PROVE BrokerInv
  OBVIOUS
<1>1. BrokerTypeOK /\ VisitsShape
  BY BrokerAssumption DEF BrokerInit, BrokerTypeOK, VisitsShape
<1>2. \A s \in Panels : DOMAIN Seen(s) = {}
  BY DEF BrokerInit, Seen
<1>3. QED BY <1>1, <1>2, BrokerAssumption DEF BrokerInit, BrokerInv, NothingEarly, MeetingsCrowd,
   InOrder, NotVisiting

\* A step that leaves what the panels see.
LEMMA PublisherKeepsBrokerInv ==
  ASSUME BrokerInv, NEW p \in Publishers, Publish(p) \/ Visit(p)
  PROVE  BrokerInv'
<1>0. /\ \A s \in Panels : channel[s] \in Seq(EventRecord) /\ read[s] \in Seq(EventRecord)
      /\ sent \in [Publishers -> 0..MaxEvents] /\ todo \in [Publishers -> SUBSET Panels]
      /\ \A s \in Panels : \A i \in DOMAIN Seen(s) : Seen(s)[i].n \in Nat
  <2>1. \A s \in Panels : channel[s] \in Seq(EventRecord) /\ read[s] \in Seq(EventRecord)
    BY DEF BrokerInv, BrokerTypeOK, EventRecord
  <2>2. \A s \in Panels : Seen(s) \in Seq(EventRecord)
    BY <2>1, SeenSequences DEF Seen
  <2>3. \A s \in Panels : \A i \in DOMAIN Seen(s) : Seen(s)[i] \in EventRecord
    BY <2>2
  <2>4. QED BY <2>1, <2>3 DEF BrokerInv, BrokerTypeOK, EventRecord
<1>1. CASE Publish(p)
  <2>1. /\ visiting[p] = NotVisiting /\ todo[p] = {} /\ sent[p] < MaxEvents
        /\ sent' = [sent EXCEPT ![p] = @ + 1] /\ todo' = [todo EXCEPT ![p] = subscribed]
        /\ UNCHANGED <<subscribed, channel, read, visiting, crowded, givenUp>>
    BY <1>1 DEF Publish, Publishing
  <2>2. sent'[p] = sent[p] + 1 /\ sent[p] \in Nat
          /\ \A q \in Publishers : q # p => sent'[q] = sent[q] /\ todo'[q] = todo[q]
    BY <1>0, <2>1
  <2>3. BrokerTypeOK' /\ VisitsShape'
    BY <2>1, <2>2, BrokerAssumption DEF BrokerInv, BrokerTypeOK, VisitsShape
  <2>4. \A s \in Panels : Seen(s)' = Seen(s)
    BY <2>1 DEF Seen
  <2>5. NothingEarly'
    BY <1>0, <2>1, <2>2, <2>4 DEF BrokerInv, NothingEarly
  <2>6. MeetingsCrowd' /\ givenUp' \subseteq crowded' /\ \A s \in Panels : InOrder(Seen(s)')
    BY <2>1, <2>4 DEF BrokerInv, MeetingsCrowd
  <2>7. \A q \in Publishers : visiting'[q].panel \notin todo'[q]
    BY <1>0, <2>1, <2>2, BrokerAssumption DEF BrokerInv, BrokerTypeOK
  <2>8. QED BY <2>3, <2>5, <2>6, <2>7 DEF BrokerInv, InOrder
<1>2. CASE Visit(p)
  <2>1. PICK s \in todo[p] :
          /\ visiting[p] = NotVisiting
          /\ visiting' = [visiting EXCEPT ![p] = [panel |-> s, stage |-> "send"]]
          /\ todo' = [todo EXCEPT ![p] = @ \ {s}]
          /\ crowded' = IF \E q \in Publishers : visiting[q].panel = s THEN crowded \union {s}
               ELSE crowded
          /\ UNCHANGED <<subscribed, channel, read, sent, givenUp>>
    BY <1>2 DEF Visit
  <2>2. /\ s \in Panels /\ visiting'[p] = [panel |-> s, stage |-> "send"]
        /\ todo'[p] = todo[p] \ {s}
        /\ \A q \in Publishers : q # p => visiting'[q] = visiting[q] /\ todo'[q] = todo[q]
    BY <1>0, <2>1 DEF BrokerInv, VisitsShape
  <2>3. BrokerTypeOK' /\ VisitsShape'
    BY <1>0, <2>1, <2>2 DEF BrokerInv, BrokerTypeOK, VisitsShape
  <2>4. \A x \in Panels : Seen(x)' = Seen(x)
    BY <2>1 DEF Seen
  <2>5. NothingEarly'
    <3>1. ASSUME NEW q \in Publishers, NEW x \in Panels, x \in todo'[q] \/ visiting'[q].panel = x
          PROVE  x \in todo[q] \/ visiting[q].panel = x
      BY <2>1, <2>2, <3>1
    <3>2. QED BY <2>1, <2>4, <3>1 DEF BrokerInv, NothingEarly
  <2>6. MeetingsCrowd'
    <3>1. ASSUME NEW x \in Panels \ crowded', NEW q \in Publishers, visiting'[q].panel = x
          PROVE  /\ \A u \in Publishers : visiting'[u].panel = x => u = q
                 /\ visiting'[q].stage = "again" => Len(channel'[x]) < ChannelCap
      <4>1. CASE x = s
        <5>1. \A u \in Publishers : visiting[u].panel # s
          BY <2>1, <3>1, <4>1
        <5>2. q = p
          BY <2>2, <3>1, <4>1, <5>1
        <5>3. QED BY <2>2, <4>1, <5>1, <5>2
      <4>2. CASE x # s
        <5>1. q # p /\ visiting[q].panel = x /\ x \notin crowded
          BY <2>1, <2>2, <3>1, <4>2
        <5>2. QED BY <2>1, <2>2, <4>2, <5>1 DEF BrokerInv, MeetingsCrowd
      <4>3. QED BY <4>1, <4>2
    <3>2. QED BY <3>1 DEF MeetingsCrowd
  <2>7. givenUp' \subseteq crowded' /\ \A x \in Panels : InOrder(Seen(x)')
    BY <2>1, <2>4 DEF BrokerInv
  <2>8. \A q \in Publishers : visiting'[q].panel \notin todo'[q]
    BY <2>1, <2>2 DEF BrokerInv
  <2>9. QED BY <2>3, <2>5, <2>6, <2>7, <2>8 DEF BrokerInv, InOrder
<1>3. QED BY <1>1, <1>2

\* The selects of Publish.
LEMMA SendKeepsBrokerInv ==
  ASSUME BrokerInv, NEW p \in Publishers, SendOrNot(p)
  PROVE  BrokerInv'
<1>0. visiting[p] \in [panel: Panels, stage: {"send", "again"}]
  <2>1. visiting[p].stage \in {"send", "again"}
    BY DEF SendOrNot
  <2>2. QED BY <2>1 DEF BrokerInv, VisitsShape, NotVisiting
<1>a. PICK s \in Panels : s = visiting[p].panel
  BY <1>0
<1> DEFINE full == Len(channel[s]) = ChannelCap
           again == visiting[p].stage = "again"
<1>b. PICK e : e = Event(p, sent[p])
  OBVIOUS
<1>1. /\ channel' = IF full THEN channel ELSE [channel EXCEPT ![s] = Append(@, e)]
      /\ visiting' = [visiting EXCEPT ![p] =
           IF full /\ ~again THEN [panel |-> s, stage |-> "drop"] ELSE NotVisiting]
      /\ givenUp' = IF full /\ again THEN givenUp \union {s} ELSE givenUp
      /\ UNCHANGED <<subscribed, read, sent, todo, crowded>>
  BY <1>a, <1>b DEF SendOrNot
<1>3. /\ channel \in [Panels -> Seq(EventRecord)] /\ read \in [Panels -> Seq(EventRecord)]
      /\ sent \in [Publishers -> 0..MaxEvents]
      /\ \A x \in Panels : Len(channel[x]) \in Nat /\ Len(channel[x]) <= ChannelCap
  <2>1. /\ channel \in [Panels -> Seq(EventRecord)] /\ read \in [Panels -> Seq(EventRecord)]
        /\ sent \in [Publishers -> 0..MaxEvents] /\ \A x \in Panels : Len(channel[x]) <= ChannelCap
    BY DEF BrokerInv, BrokerTypeOK, EventRecord
  <2>2. QED BY <2>1
<1>2. /\ e \in EventRecord /\ e.by = p /\ e.n = sent[p] /\ s \notin todo[p] /\ sent[p] \in Nat
      /\ \A x \in Panels : channel[x] \in Seq(EventRecord) /\ read[x] \in Seq(EventRecord)
  <2>1. s \notin todo[p]
    BY <1>a DEF BrokerInv
  <2>2. sent[p] \in Nat /\ e = [by |-> p, n |-> sent[p]]
    BY <1>b, <1>3 DEF Event
  <2>3. QED BY <1>3, <2>1, <2>2 DEF EventRecord
<1>4. visiting'[p] \in {NotVisiting, [panel |-> s, stage |-> "drop"]}
      /\ \A q \in Publishers : q # p => visiting'[q] = visiting[q]
  BY <1>1 DEF BrokerInv, VisitsShape
<1>5. VisitsShape' /\ \A q \in Publishers : visiting'[q].panel \notin todo'[q]
  <2>1. \A q \in Publishers : visiting'[q].panel \in {visiting[q].panel, NotVisiting.panel}
    BY <1>4, <1>a
  <2>2. \A q \in Publishers : todo[q] \subseteq Panels
    BY DEF BrokerInv, BrokerTypeOK
  <2>3. VisitsShape'
    BY <1>1, <1>2 DEF BrokerInv, VisitsShape
  <2>4. QED BY <1>1, <2>1, <2>2, <2>3, BrokerAssumption DEF BrokerInv
<1>6. CASE full
  <2>1. channel' = channel /\ \A x \in Panels : Seen(x)' = Seen(x)
    BY <1>1, <1>6 DEF Seen
  <2>2. s \in givenUp' => s \in crowded
    BY <1>1, <1>2, <1>3, <1>6, <1>a DEF BrokerInv, MeetingsCrowd
  <2>3. givenUp' \subseteq crowded' /\ givenUp' \subseteq Panels
    BY <1>1, <1>2, <2>2 DEF BrokerInv, BrokerTypeOK
  <2>4. BrokerTypeOK'
    BY <1>1, <2>1, <2>3 DEF BrokerInv, BrokerTypeOK
  <2>5. NothingEarly'
    <3>1. \A q \in Publishers, x \in Panels : visiting'[q].panel = x => visiting[q].panel = x
      BY <1>4, <1>a, BrokerAssumption
    <3>2. QED BY <1>1, <2>1, <3>1 DEF BrokerInv, NothingEarly
  <2>6. MeetingsCrowd'
    <3>1. \A q \in Publishers, x \in Panels : visiting'[q].panel = x =>
            visiting[q].panel = x /\ visiting'[q].stage \in {"drop", visiting[q].stage}
      BY <1>4, <1>a, BrokerAssumption
    <3>2. QED BY <1>1, <2>1, <3>1 DEF BrokerInv, MeetingsCrowd
  <2>7. QED BY <1>5, <2>1, <2>3, <2>4, <2>5, <2>6 DEF BrokerInv, InOrder
<1>7. CASE ~full
  <2>1. /\ channel' = [channel EXCEPT ![s] = Append(@, e)] /\ visiting'[p] = NotVisiting
        /\ givenUp' = givenUp
    BY <1>1, <1>7 DEF BrokerInv, VisitsShape
  <2>2. /\ channel'[s] = Append(channel[s], e)
             /\ \A x \in Panels : x # s => channel'[x] = channel[x]
        /\ channel'[s] \in Seq(EventRecord) /\ Len(channel'[s]) = Len(channel[s]) + 1
    BY <1>2, <1>3, <2>1, SeenGrows
  <2>3. Len(channel'[s]) <= ChannelCap
    <3>1. Len(channel[s]) # ChannelCap /\ ChannelCap \in Nat
      BY <1>7, BrokerAssumption
    <3>2. QED BY <1>2, <1>3, <2>2, <3>1
  <2>4. BrokerTypeOK'
    <3>1. \A x \in Panels : channel'[x] \in Seq(EventRecord) /\ Len(channel'[x]) <= ChannelCap
      BY <1>2, <1>3, <2>2, <2>3
    <3>2. channel' \in [Panels -> Seq(EventRecord)]
      BY <1>3, <2>1, <3>1
    <3>3. QED BY <1>1, <2>1, <3>1, <3>2 DEF BrokerInv, BrokerTypeOK, EventRecord
  <2>5. Seen(s)' = Append(Seen(s), e) /\ Seen(s) \in Seq(EventRecord)
        /\ \A x \in Panels : x # s => Seen(x)' = Seen(x)
    <3>1. Seen(s)' = read[s] \o Append(channel[s], e)
      BY <1>1, <2>2 DEF Seen
    <3>2. read[s] \o Append(channel[s], e) = Append(read[s] \o channel[s], e)
          /\ read[s] \o channel[s] \in Seq(EventRecord)
      BY <1>2, SeenGrows, SeenSequences
    <3>3. \A x \in Panels : x # s => Seen(x)' = Seen(x)
      BY <1>1, <2>2 DEF Seen
    <3>4. QED BY <3>1, <3>2, <3>3 DEF Seen
  <2>6. /\ DOMAIN Seen(s)' = 1..(Len(Seen(s)) + 1) /\ DOMAIN Seen(s) = 1..Len(Seen(s))
        /\ Seen(s)'[Len(Seen(s)) + 1] = e /\ Len(Seen(s)) \in Nat
        /\ \A i \in DOMAIN Seen(s) : Seen(s)'[i] = Seen(s)[i]
    BY <1>2, <2>5, AppendProperties
  <2>7. \A i \in DOMAIN Seen(s) : Seen(s)[i].by = p => Seen(s)[i].n < sent[p]
    BY <1>2, <1>a DEF BrokerInv, NothingEarly
  <2>8. \A i \in DOMAIN Seen(s)' : i \in DOMAIN Seen(s) \/ i = Len(Seen(s)) + 1
    BY <2>6
  <2>9. InOrder(Seen(s)')
    <3>1. ASSUME NEW i \in DOMAIN Seen(s)', NEW j \in DOMAIN Seen(s)', i < j, Seen(s)'[i].by =
            Seen(s)'[j].by
          PROVE  Seen(s)'[i].n < Seen(s)'[j].n
      <4>1. i \in DOMAIN Seen(s)
        BY <2>6, <3>1
      <4>2. CASE j = Len(Seen(s)) + 1
        BY <1>2, <2>6, <2>7, <3>1, <4>1, <4>2
      <4>3. CASE j \in DOMAIN Seen(s)
        BY <1>2, <2>6, <3>1, <4>1, <4>3 DEF BrokerInv, InOrder
      <4>4. QED BY <2>8, <4>2, <4>3
    <3>2. QED BY <3>1 DEF InOrder
  <2>10. \A q \in Publishers, x \in Panels : visiting'[q].panel = x =>
           visiting[q] = visiting'[q] /\ q # p
    BY <1>4, <2>1, BrokerAssumption
  <2>11. NothingEarly'
    <3>1. ASSUME NEW x \in Panels, NEW q \in Publishers, NEW i \in DOMAIN Seen(x)', Seen(x)'[i].by =
            q
          PROVE  /\ Seen(x)'[i].n <= sent'[q]
                 /\ x \in todo'[q] \/ visiting'[q].panel = x => Seen(x)'[i].n < sent'[q]
      <4>1. CASE x = s /\ i = Len(Seen(s)) + 1
        <5>1. q = p /\ Seen(x)'[i].n = sent'[q] /\ x \notin todo'[q] /\ sent[p] \in Nat
          BY <1>1, <1>2, <1>3, <2>6, <3>1, <4>1
        <5>2. visiting'[q].panel # x
          BY <2>10, <5>1
        <5>3. QED BY <1>1, <5>1, <5>2
      <4>2. CASE ~(x = s /\ i = Len(Seen(s)) + 1)
        <5>1. i \in DOMAIN Seen(x) /\ Seen(x)'[i] = Seen(x)[i]
          BY <2>5, <2>6, <2>8, <4>2, <3>1
        <5>2. QED BY <1>1, <2>10, <3>1, <5>1 DEF BrokerInv, NothingEarly
      <4>3. QED BY <4>1, <4>2
    <3>2. QED BY <3>1 DEF NothingEarly
  <2>12. MeetingsCrowd'
    <3>1. ASSUME NEW x \in Panels \ crowded, NEW q \in Publishers, visiting'[q].panel = x
          PROVE  /\ \A u \in Publishers : visiting'[u].panel = x => u = q
                 /\ visiting'[q].stage = "again" => Len(channel'[x]) < ChannelCap
      <4>1. visiting[q].panel = x /\ q # p /\ visiting'[q] = visiting[q]
        BY <2>10, <3>1
      <4>2. \A u \in Publishers : visiting'[u].panel = x => u = q
        BY <2>10, <4>1 DEF BrokerInv, MeetingsCrowd
      <4>3. x # s
        BY <1>a, <4>1 DEF BrokerInv, MeetingsCrowd
      <4>4. QED BY <2>2, <4>1, <4>2, <4>3 DEF BrokerInv, MeetingsCrowd
    <3>2. QED BY <1>1, <3>1 DEF MeetingsCrowd
  <2>13. \A x \in Panels : InOrder(Seen(x)')
    BY <2>5, <2>9 DEF BrokerInv
  <2>14. QED BY <1>1, <1>5, <2>1, <2>4, <2>11, <2>12, <2>13 DEF BrokerInv, InOrder
<1>8. QED BY <1>6, <1>7

LEMMA DropKeepsBrokerInv ==
  ASSUME BrokerInv, NEW p \in Publishers, DropOldest(p)
  PROVE  BrokerInv'
<1>1. PICK s \in Panels : s = visiting[p].panel /\ visiting[p].stage = "drop"
  <2>1. visiting[p].stage = "drop"
    BY DEF DropOldest
  <2>2. QED BY <2>1 DEF BrokerInv, VisitsShape, NotVisiting
<1>2. /\ channel' = [channel EXCEPT ![s] = IF @ = <<>> THEN @ ELSE Tail(@)]
      /\ visiting' = [visiting EXCEPT ![p].stage = "again"]
      /\ UNCHANGED <<subscribed, read, sent, todo, crowded, givenUp>>
  BY <1>1 DEF DropOldest
<1>3. /\ channel \in [Panels -> Seq(EventRecord)] /\ read \in [Panels -> Seq(EventRecord)]
      /\ \A x \in Panels : Len(channel[x]) \in Nat /\ Len(channel[x]) <= ChannelCap
  <2>1. /\ channel \in [Panels -> Seq(EventRecord)] /\ read \in [Panels -> Seq(EventRecord)]
        /\ \A x \in Panels : Len(channel[x]) <= ChannelCap
    BY DEF BrokerInv, BrokerTypeOK, EventRecord
  <2>2. QED BY <2>1
<1>4. /\ visiting'[p] = [panel |-> s, stage |-> "again"]
      /\ \A q \in Publishers : q # p => visiting'[q] = visiting[q]
      /\ \A q \in Publishers : visiting'[q].panel = visiting[q].panel
      /\ VisitsShape'
  BY <1>1, <1>2 DEF BrokerInv, VisitsShape, NotVisiting
<1>5. /\ channel'[s] \in Seq(EventRecord) /\ Len(channel'[s]) < ChannelCap
      /\ Len(channel'[s]) \in Nat
      /\ \A x \in Panels : x # s => channel'[x] = channel[x]
  <2>1. CASE channel[s] = <<>>
    <3>1. channel'[s] = <<>> /\ Len(channel'[s]) = 0
      BY <1>2, <1>3, <2>1
    <3>2. QED BY <1>2, <1>3, <3>1, BrokerAssumption
  <2>2. CASE channel[s] # <<>>
    <3>1. channel'[s] = Tail(channel[s])
      BY <1>2, <1>3, <2>2
    <3>2. Tail(channel[s]) \in Seq(EventRecord) /\ Len(Tail(channel[s])) = Len(channel[s]) - 1
          /\ Len(channel[s]) >= 1
      BY <1>3, <2>2, HeadTailProperties, EmptySeq
    <3>3. QED BY <1>2, <1>3, <3>1, <3>2, BrokerAssumption
  <2>3. QED BY <2>1, <2>2
<1>6. BrokerTypeOK'
  <2>1. \A x \in Panels : channel'[x] \in Seq(EventRecord) /\ Len(channel'[x]) <= ChannelCap
    BY <1>3, <1>5, BrokerAssumption
  <2>2. channel' \in [Panels -> Seq(EventRecord)]
    BY <1>2, <1>3, <2>1
  <2>3. QED BY <1>2, <2>1, <2>2 DEF BrokerInv, BrokerTypeOK, EventRecord
<1>7. ASSUME NEW x \in Panels
      PROVE  \E f \in [DOMAIN Seen(x)' -> DOMAIN Seen(x)] :
               /\ \A i, j \in DOMAIN Seen(x)' : i < j => f[i] < f[j]
               /\ \A i \in DOMAIN Seen(x)' : Seen(x)'[i] = Seen(x)[f[i]]
  <2>1. CASE Seen(x)' = Seen(x)
    <3> DEFINE f == [i \in DOMAIN Seen(x)' |-> i]
    <3>1. /\ f \in [DOMAIN Seen(x)' -> DOMAIN Seen(x)]
          /\ \A i, j \in DOMAIN Seen(x)' : i < j => f[i] < f[j]
          /\ \A i \in DOMAIN Seen(x)' : Seen(x)'[i] = Seen(x)[f[i]]
      BY <2>1
    <3>2. QED BY <3>1
  <2>2. CASE x = s /\ channel[s] # <<>>
    <3>1. Seen(x)' = read[s] \o Tail(channel[s]) /\ Seen(x) = read[s] \o channel[s]
      BY <1>2, <1>3, <2>2 DEF Seen
    <3>2. Len(read[s]) \in Nat /\ \A i \in DOMAIN Seen(x)' : i \in Int
      <4>1. Tail(channel[s]) \in Seq(EventRecord)
        BY <1>3, <2>2, HeadTailProperties
      <4>2. QED BY <1>3, <3>1, <4>1, SeenSequences
    <3> DEFINE f == [i \in DOMAIN Seen(x)' |-> IF i <= Len(read[s]) THEN i ELSE i + 1]
    <3>3. /\ f \in [DOMAIN Seen(x)' -> DOMAIN Seen(x)]
          /\ \A i \in DOMAIN Seen(x)' : Seen(x)'[i] = Seen(x)[f[i]]
      <4>1. \A i \in DOMAIN (read[s] \o Tail(channel[s])) :
              /\ (read[s] \o Tail(channel[s]))[i]
                   = (read[s] \o channel[s])[IF i <= Len(read[s]) THEN i ELSE i + 1]
              /\ (IF i <= Len(read[s]) THEN i ELSE i + 1) \in DOMAIN (read[s] \o channel[s])
        BY <1>3, <2>2, SeenDrops
      <4>2. \A i \in DOMAIN Seen(x)' :
              /\ Seen(x)'[i] = Seen(x)[IF i <= Len(read[s]) THEN i ELSE i + 1]
              /\ (IF i <= Len(read[s]) THEN i ELSE i + 1) \in DOMAIN Seen(x)
        BY ONLY <3>1, <4>1
      <4>3. QED BY ONLY <4>2
    <3>4. \A i, j \in DOMAIN Seen(x)' : i < j => f[i] < f[j]
      BY <3>2
    <3>5. QED BY <3>3, <3>4
  <2>3. CASE x # s \/ channel[s] = <<>>
    <3>1. channel'[x] = channel[x]
      BY <1>2, <1>3, <2>3
    <3>2. Seen(x)' = Seen(x)
      BY <1>2, <3>1 DEF Seen
    <3>3. QED BY <2>1, <3>2
  <2>4. QED BY <2>2, <2>3
<1>8. ASSUME NEW x \in Panels PROVE InOrder(Seen(x)')
  <2>1. PICK f \in [DOMAIN Seen(x)' -> DOMAIN Seen(x)] :
               /\ \A i, j \in DOMAIN Seen(x)' : i < j => f[i] < f[j]
               /\ \A i \in DOMAIN Seen(x)' : Seen(x)'[i] = Seen(x)[f[i]]
    BY <1>7
  <2>2. InOrder(Seen(x))
    BY DEF BrokerInv
  <2>3. QED BY <2>1, <2>2 DEF InOrder
<1>9. NothingEarly'
  <2>1. ASSUME NEW x \in Panels, NEW q \in Publishers, NEW i \in DOMAIN Seen(x)', Seen(x)'[i].by = q
        PROVE  /\ Seen(x)'[i].n <= sent'[q]
               /\ x \in todo'[q] \/ visiting'[q].panel = x => Seen(x)'[i].n < sent'[q]
    <3>1. PICK k \in DOMAIN Seen(x) : Seen(x)'[i] = Seen(x)[k]
      BY <1>7
    <3>2. QED BY <1>2, <1>4, <2>1, <3>1 DEF BrokerInv, NothingEarly
  <2>2. QED BY <2>1 DEF NothingEarly
<1>10. MeetingsCrowd'
  <2>1. ASSUME NEW x \in Panels \ crowded, NEW q \in Publishers, visiting'[q].panel = x
        PROVE  /\ \A u \in Publishers : visiting'[u].panel = x => u = q
               /\ visiting'[q].stage = "again" => Len(channel'[x]) < ChannelCap
    <3>1. \A u \in Publishers : visiting'[u].panel = x => u = q
      BY <1>4, <2>1 DEF BrokerInv, MeetingsCrowd
    <3>2. CASE x = s
      BY <1>5, <3>1, <3>2
    <3>3. CASE x # s
      <4>1. q # p
        BY <1>4, <2>1, <3>3
      <4>2. QED BY <1>4, <1>5, <2>1, <3>1, <3>3, <4>1 DEF BrokerInv, MeetingsCrowd
    <3>4. QED BY <3>2, <3>3
  <2>2. QED BY <1>2, <2>1 DEF MeetingsCrowd
<1>11. QED BY <1>2, <1>4, <1>6, <1>8, <1>9, <1>10 DEF BrokerInv, InOrder

\* A panel's own steps.
LEMMA PanelKeepsBrokerInv ==
  ASSUME BrokerInv, NEW s \in Panels, PanelReads(s) \/ Subscribe(s) \/ Cancel(s)
  PROVE  BrokerInv'
<1>1. /\ channel \in [Panels -> Seq(EventRecord)] /\ read \in [Panels -> Seq(EventRecord)]
      /\ \A x \in Panels : Len(channel[x]) \in Nat /\ Len(channel[x]) <= ChannelCap
  <2>1. /\ channel \in [Panels -> Seq(EventRecord)] /\ read \in [Panels -> Seq(EventRecord)]
        /\ \A x \in Panels : Len(channel[x]) <= ChannelCap
    BY DEF BrokerInv, BrokerTypeOK, EventRecord
  <2>2. QED BY <2>1
<1>2. UNCHANGED <<sent, visiting, todo, crowded, givenUp>> /\ subscribed' \subseteq Panels
  BY DEF PanelReads, Subscribe, Cancel, BrokerInv, BrokerTypeOK
<1>3. /\ channel' \in [Panels -> Seq(EventRecord)] /\ read' \in [Panels -> Seq(EventRecord)]
      /\ \A x \in Panels : Seen(x)' = Seen(x) /\ Len(channel'[x]) <= Len(channel[x])
  <2>1. CASE PanelReads(s)
    <3>1. /\ channel[s] # <<>> /\ read' = [read EXCEPT ![s] = Append(@, Head(channel[s]))]
          /\ channel' = [channel EXCEPT ![s] = Tail(@)]
      BY <2>1 DEF PanelReads
    <3>2. /\ Append(read[s], Head(channel[s])) \o Tail(channel[s]) = read[s] \o channel[s]
          /\ Len(Tail(channel[s])) = Len(channel[s]) - 1
          /\ Tail(channel[s]) \in Seq(EventRecord)
          /\ Append(read[s], Head(channel[s])) \in Seq(EventRecord)
      BY <1>1, <3>1, SeenStays
    <3>3. /\ channel'[s] = Tail(channel[s]) /\ read'[s] = Append(read[s], Head(channel[s]))
          /\ \A x \in Panels : x # s => channel'[x] = channel[x] /\ read'[x] = read[x]
          /\ channel' \in [Panels -> Seq(EventRecord)] /\ read' \in [Panels -> Seq(EventRecord)]
      BY <1>1, <3>1, <3>2
    <3>4. ASSUME NEW x \in Panels PROVE Seen(x)' = Seen(x) /\ Len(channel'[x]) <= Len(channel[x])
      <4>1. CASE x = s
        <5>1. Len(channel'[s]) = Len(channel[s]) - 1 /\ Len(channel[s]) \in Nat
          BY <1>1, <3>2, <3>3
        <5>2. Len(channel'[s]) <= Len(channel[s])
          BY <5>1
        <5>3. Seen(s)' = Seen(s)
          BY <3>2, <3>3 DEF Seen
        <5>4. QED BY <4>1, <5>2, <5>3
      <4>2. CASE x # s
        <5>1. channel'[x] = channel[x] /\ read'[x] = read[x] /\ Len(channel[x]) \in Nat
          BY <1>1, <3>3, <4>2
        <5>2. QED BY <5>1 DEF Seen
      <4>3. QED BY <4>1, <4>2
    <3>5. QED BY <3>3, <3>4
  <2>2. CASE Subscribe(s) \/ Cancel(s)
    <3>1. channel' = channel /\ read' = read
      BY <2>2 DEF Subscribe, Cancel
    <3>2. QED BY <1>1, <3>1 DEF Seen
  <2>3. QED BY <2>1, <2>2
<1>4. \A x \in Panels : Len(channel'[x]) \in Nat /\ Len(channel'[x]) <= ChannelCap
  BY <1>1, <1>3, BrokerAssumption
<1>5. BrokerTypeOK' /\ VisitsShape'
  BY <1>2, <1>3, <1>4 DEF BrokerInv, BrokerTypeOK, VisitsShape, EventRecord
<1>6. NothingEarly'
  BY <1>2, <1>3 DEF BrokerInv, NothingEarly
<1>7. MeetingsCrowd'
  <2>1. \A x \in Panels : Len(channel[x]) < ChannelCap => Len(channel'[x]) < ChannelCap
    BY <1>1, <1>3, <1>4, BrokerAssumption
  <2>2. QED BY <1>2, <2>1 DEF BrokerInv, MeetingsCrowd
<1>8. QED BY <1>2, <1>3, <1>5, <1>6, <1>7 DEF BrokerInv, InOrder

\* Every step keeps it.
LEMMA BrokerInvIsInductive == BrokerInv /\ [BrokerNext]_brokerVars => BrokerInv'
<1>1. BrokerInv /\ UNCHANGED brokerVars => BrokerInv'
  BY DEF brokerVars, BrokerInv, BrokerTypeOK, VisitsShape, NothingEarly, MeetingsCrowd, InOrder,
     Seen
<1>2. QED
  BY <1>1, PublisherKeepsBrokerInv, SendKeepsBrokerInv, DropKeepsBrokerInv, PanelKeepsBrokerInv
     DEF BrokerNext

\* For every set of publishers and panels and every capacity: a panel sees
\* the events of one publisher in order and none twice, and Publish gives up
\* on a new event only where two publishers met.
THEOREM PanelsAlwaysSeeTheNewest == BrokerSpec => [](BrokerTypeOK /\ PanelsSeeTheNewest)
<1>1. BrokerInv => BrokerTypeOK /\ PanelsSeeTheNewest
  BY DEF BrokerInv, PanelsSeeTheNewest, InOrder
<1>2. QED BY <1>1, BrokerInvInitially, BrokerInvIsInductive, PTL DEF BrokerSpec

-----------------------------------------------------------------------------
(* Lifecycle: the shutdown beside the requests it waits for. *)

\* The shutdown has got as far as the n-th component, or has begun to stop it.
Past(n) == hook.nr > n
Reached(n) == hook.nr > n \/ (hook.nr = n /\ hook.begun)

\* What is closed by each point of the shutdown, and what may not be yet.
ClosedInOrder ==
  /\ server \in {"starting", "waiting"} => hook = [nr |-> 1, begun |-> FALSE]
  /\ hook.nr = 1 => ~hook.begun
  /\ Reached(2) => "http" \notin open
  /\ Reached(4) => "agent-grpc" \notin open
  /\ "hitl-grpc" \notin open => Reached(5)
  /\ stores # {"memory", "mcp"} => Past(2)
  /\ Past(3) => "memory" \notin stores

\* What each server has waited for when the next component's turn comes.
WaitedFor ==
  /\ Past(2) /\ ~gaveUp => \A q \in Requests : request[q].door = "http" => ~UnderWay(q)
  /\ Past(4) => \A q \in Requests : request[q].door = "agent-grpc" => ~UnderWay(q)
  /\ server = "gone" /\ ~killed => Past(4) /\ "operator" \notin watchers

LifeInv == LifeTypeOK /\ ClosedInOrder /\ WaitedFor

LEMMA OrderOfShutdown ==
  /\ Len(ShutdownOrder) = 5
  /\ ShutdownOrder[1] = "telegram" /\ ShutdownOrder[2] = "http"
  /\ ShutdownOrder[3] = "orchestrator" /\ ShutdownOrder[4] = "agent-grpc"
  /\ ShutdownOrder[5] = "hitl-grpc"
BY DEF ShutdownOrder

\* It holds at the start.
LEMMA LifeInvInitially == LifeInit => LifeInv
<1> SUFFICES ASSUME LifeInit PROVE LifeInv
  OBVIOUS
<1>1. hook = [nr |-> 1, begun |-> FALSE] /\ ~Past(2) /\ ~Past(3) /\ ~Past(4) /\ ~Reached(2)
        /\ ~Reached(4)
  BY DEF LifeInit, Past, Reached
<1>2. LifeTypeOK
  <2>1. hook \in [nr: 1..Len(ShutdownOrder), begun: BOOLEAN]
    BY <1>1, OrderOfShutdown
  <2>2. QED BY <2>1 DEF LifeInit, LifeTypeOK
<1>3. ClosedInOrder
  BY <1>1 DEF LifeInit, ClosedInOrder, Doors
<1>4. WaitedFor
  BY <1>1 DEF LifeInit, WaitedFor
<1>5. QED BY <1>2, <1>3, <1>4 DEF LifeInv

\* A request that is past its door only moves on.
LEMMA StepKeepsLifeInv ==
  ASSUME LifeInv, NEW q \in Requests, 
         NEW from \in {"received", "running", "mcp", "help"},
         NEW to \in {"running", "mcp", "help", "done", "refused"}, Step(q, from, to)
  PROVE  LifeInv'
<1>1. UNCHANGED <<open, serving, stores, watchers, mainVars>>
  BY DEF Step
<1>2. request' = [request EXCEPT ![q].at = to] /\ request[q].at = from
  BY DEF Step
<1>3. LifeTypeOK'
  BY <1>1, <1>2 DEF LifeInv, LifeTypeOK, mainVars
<1>4. ClosedInOrder'
  BY <1>1 DEF LifeInv, ClosedInOrder, Past, Reached, mainVars
<1>5. \A r \in Requests : request'[r].door = request[r].door /\ (UnderWay(r)' => UnderWay(r))
  BY <1>2 DEF LifeInv, LifeTypeOK, UnderWay
<1>6. WaitedFor'
  BY <1>1, <1>5 DEF LifeInv, WaitedFor, Past, mainVars
<1>7. QED BY <1>3, <1>4, <1>6 DEF LifeInv

LEMMA RequestKeepsLifeInv ==
  ASSUME LifeInv, NEW q \in Requests,
         \/ TakeRequest(q) \/ BeginRequest(q) \/ AskServer(q) \/ ServerAnswers(q) \/ AskOperator(q)
         \/ OperatorAnswers(q) \/ HelpTimesOut(q) \/ FinishTask(q)
  PROVE  LifeInv'
<1>1. CASE TakeRequest(q)
  <2>1. PICK d \in TaskDoors \intersect open :
          request' = [request EXCEPT ![q] = [door |-> d, at |-> "received"]]
    BY <1>1 DEF TakeRequest
  <2>2. UNCHANGED <<open, serving, stores, watchers, mainVars>> /\ ServerUp
    BY <1>1 DEF TakeRequest
  <2>3. LifeTypeOK'
    BY <2>1, <2>2 DEF LifeInv, LifeTypeOK, mainVars
  <2>4. ClosedInOrder'
    BY <2>2 DEF LifeInv, ClosedInOrder, Past, Reached, mainVars
  <2>5. \A r \in Requests \ {q} : request'[r] = request[r]
    BY <2>1 DEF LifeInv, LifeTypeOK
  <2>6. request'[q].door = d
    BY <2>1 DEF LifeInv, LifeTypeOK
  <2>7. (Past(2) => d # "http") /\ (Past(4) => d # "agent-grpc")
    BY <2>1, OrderOfShutdown DEF LifeInv, LifeTypeOK, ClosedInOrder, Past, Reached
  <2>8. WaitedFor'
    BY <2>2, <2>5, <2>6, <2>7 DEF LifeInv, WaitedFor, Past, UnderWay, mainVars
  <2>9. QED BY <2>3, <2>4, <2>8 DEF LifeInv
<1>2. CASE BeginRequest(q)
  BY <1>2, StepKeepsLifeInv DEF BeginRequest
<1>3. CASE AskServer(q) \/ ServerAnswers(q) \/ AskOperator(q)
  BY <1>3, StepKeepsLifeInv DEF AskServer, ServerAnswers, AskOperator
<1>4. CASE OperatorAnswers(q) \/ HelpTimesOut(q) \/ FinishTask(q)
  BY <1>4, StepKeepsLifeInv DEF OperatorAnswers, HelpTimesOut, FinishTask
<1>5. QED BY <1>1, <1>2, <1>3, <1>4

LEMMA WatcherKeepsLifeInv ==
  ASSUME LifeInv, PollingEnds \/ \E w \in {"panel", "operator"} : WatcherComes(w)
         \/ WatcherLeaves(w)
  PROVE  LifeInv'
<1> USE DEF LifeInv, LifeTypeOK, ClosedInOrder, WaitedFor, Past, Reached, UnderWay, mainVars,
   ServerUp
<1>1. CASE PollingEnds
  BY <1>1 DEF PollingEnds
<1>2. ASSUME NEW w \in {"panel", "operator"}, WatcherComes(w) \/ WatcherLeaves(w) PROVE LifeInv'
  <2>1. UNCHANGED <<open, serving, stores, request, mainVars>> /\ server # "gone"
    BY <1>2 DEF WatcherComes, WatcherLeaves
  <2>2. watchers' \subseteq {"panel", "operator"}
    BY <1>2 DEF WatcherComes, WatcherLeaves
  <2>3. LifeTypeOK'
    BY <2>1, <2>2
  <2>4. ClosedInOrder' /\ WaitedFor'
    BY <2>1
  <2>5. QED BY <2>3, <2>4
<1>3. QED BY <1>1, <1>2

LEMMA SignalKeepsLifeInv ==
  ASSUME LifeInv, Signal \/ RunReturns \/ TakeSignal \/ SecondSignal
  PROVE  LifeInv'
<1> USE DEF LifeInv, LifeTypeOK, ClosedInOrder, WaitedFor, Past, Reached, UnderWay
<1>1. CASE Signal
  BY <1>1 DEF Signal, Stopping
<1>2. CASE RunReturns
  BY <1>2 DEF RunReturns
<1>3. CASE TakeSignal
  BY <1>3 DEF TakeSignal, Stopping
<1>4. CASE SecondSignal
  BY <1>4 DEF SecondSignal
<1>5. QED BY <1>1, <1>2, <1>3, <1>4

\* The shutdown itself: each step is one component's.
LEMMA HookKeepsLifeInv ==
  ASSUME LifeInv,
         \/ StopTelegram \/ \E d \in Doors : CloseDoor(d)
         \/ HttpStops \/ StopServing \/ CloseStore \/ CloseMcp \/ AgentGrpcStops \/ HitlGrpcStops
  PROVE  LifeInv'
<1> USE OrderOfShutdown DEF LifeInv, LifeTypeOK, ClosedInOrder, WaitedFor, Past, Reached, UnderWay,
   HookIs, HookBegins, HookOver
<1>0. hook.nr \in 1..5 /\ hook.begun \in BOOLEAN
  OBVIOUS
<1>1. CASE StopTelegram
  <2>1. hook.nr = 1
    BY <1>0, <1>1 DEF StopTelegram
  <2>2. QED BY <1>1, <2>1 DEF StopTelegram
<1>2. ASSUME NEW d \in Doors, CloseDoor(d) PROVE LifeInv'
  <2>1. \/ d = "http" /\ hook.nr = 2
        \/ d = "agent-grpc" /\ hook.nr = 4
        \/ d = "hitl-grpc" /\ hook.nr = 5
    BY <1>0, <1>2 DEF CloseDoor, Doors, TaskDoors
  <2>2. hook' = [nr |-> hook.nr, begun |-> TRUE] /\ open' = open \ {d} /\ server = "stopping"
    BY <1>2 DEF CloseDoor
  <2>3. UNCHANGED <<serving, stores, request, watchers, server, signalled, runOver, stopCtx,
  gaveUp, killed>>
    BY <1>2 DEF CloseDoor
  <2>4. QED BY <1>0, <2>1, <2>2, <2>3
<1>3. CASE HttpStops
  <2>1. hook.nr = 2 /\ hook.begun /\ hook' = [nr |-> 3, begun |-> FALSE] /\ server' = server
          /\ server = "stopping"
    BY <1>0, <1>3 DEF HttpStops
  <2>2. ~gaveUp' => \A q \in Requests : request[q].door = "http" => ~UnderWay(q)
    BY <1>3 DEF HttpStops, Through
  <2>3. UNCHANGED <<open, serving, stores, request, watchers, signalled, runOver, stopCtx, killed>>
          /\ gaveUp' \in BOOLEAN
    BY <1>3 DEF HttpStops
  <2>4. QED BY <2>1, <2>2, <2>3
<1>4. CASE StopServing
  <2>0. hook.nr = 3
    BY <1>0, <1>4 DEF StopServing
  <2>1. hook' = [nr |-> 3, begun |-> TRUE] /\ serving' = FALSE
    BY <1>4, <2>0 DEF StopServing
  <2>2. UNCHANGED <<open, stores, request, watchers, server, signalled, runOver, stopCtx, gaveUp,
  killed>>
        /\ server = "stopping"
    BY <1>4 DEF StopServing
  <2>3. LifeTypeOK'
    BY <2>0, <2>1, <2>2
  <2>4. QED BY <2>0, <2>1, <2>2, <2>3
<1>5. CASE CloseStore \/ CloseMcp
  <2>1. hook.nr = 3 /\ hook.begun /\ server = "stopping" /\ server' = server
          /\ "memory" \notin stores' /\ stores' \subseteq stores
    BY <1>0, <1>5 DEF CloseStore, CloseMcp
  <2>2. hook' = hook \/ hook' = [nr |-> 4, begun |-> FALSE]
    BY <1>0, <1>5, <2>1 DEF CloseStore, CloseMcp
  <2>3. UNCHANGED <<open, serving, request, watchers, signalled, runOver, stopCtx, gaveUp, killed>>
    BY <1>5 DEF CloseStore, CloseMcp
  <2>4. CASE hook' = hook
    BY <2>1, <2>3, <2>4
  <2>5. CASE hook' = [nr |-> 4, begun |-> FALSE]
    BY <2>1, <2>3, <2>5
  <2>6. QED BY <2>2, <2>4, <2>5
<1>6. CASE AgentGrpcStops
  <2>1. hook.nr = 4 /\ hook.begun /\ hook' = [nr |-> 5, begun |-> FALSE] /\ server' = server
          /\ server = "stopping"
    BY <1>0, <1>6 DEF AgentGrpcStops
  <2>2. \A q \in Requests : request[q].door = "agent-grpc" => ~UnderWay(q)
    BY <1>6 DEF AgentGrpcStops, Through
  <2>3. UNCHANGED <<open, serving, stores, request, watchers, signalled, runOver, stopCtx, gaveUp,
  killed>>
    BY <1>6 DEF AgentGrpcStops
  <2>4. QED BY <2>1, <2>2, <2>3
<1>7. CASE HitlGrpcStops
  <2>1. hook.nr = 5 /\ hook' = hook /\ server' = "gone" /\ "operator" \notin watchers
    BY <1>0, <1>7 DEF HitlGrpcStops
  <2>2. QED BY <1>7, <2>1 DEF HitlGrpcStops
<1>8. QED BY <1>1, <1>2, <1>3, <1>4, <1>5, <1>6, <1>7

\* Every step keeps it.
LEMMA LifeInvIsInductive == LifeInv /\ [LifeNext]_lifeVars => LifeInv'
<1> SUFFICES ASSUME LifeInv, [LifeNext]_lifeVars PROVE LifeInv'
  OBVIOUS
<1>1. CASE UNCHANGED lifeVars
  BY <1>1 DEF lifeVars, LifeInv, LifeTypeOK, ClosedInOrder, WaitedFor, Past, Reached, UnderWay
<1>2. QED
  BY <1>1, RequestKeepsLifeInv, WatcherKeepsLifeInv, SignalKeepsLifeInv, HookKeepsLifeInv
     DEF LifeNext

\* For every set of requests: unless a second signal kills it, the shutdown
\* of main.go and lifecycle.go spares what each of its components still
\* serves.
THEOREM ShutdownSpares == LifeSpec => [](LifeTypeOK /\ ShutdownSparesWhatItServes)
<1>1. LifeInv => LifeTypeOK /\ ShutdownSparesWhatItServes
  <2> SUFFICES ASSUME LifeInv, ~killed PROVE ShutdownSparesWhatItServes
    BY DEF LifeInv, ShutdownSparesWhatItServes
  <2> USE OrderOfShutdown DEF LifeInv, LifeTypeOK, ClosedInOrder, WaitedFor, Past, Reached
  <2>1. \A q \in Through("http") : server = "gone" \/ stores # {"memory", "mcp"} => gaveUp
    BY DEF Through
  <2>2. \A q \in Through("agent-grpc") : ServerUp
          /\ (request[q].at = "help" => "hitl-grpc" \in open)
    <3>1. Past(4) => Through("agent-grpc") = {}
      BY DEF Through
    <3>2. Reached(5) => Past(4)
      OBVIOUS
    <3>3. QED BY <3>1, <3>2 DEF ServerUp
  <2>3. QED BY <2>1, <2>2 DEF ShutdownSparesWhatItServes
<1>2. QED BY <1>1, LifeInvInitially, LifeInvIsInductive, PTL DEF LifeSpec

=============================================================================

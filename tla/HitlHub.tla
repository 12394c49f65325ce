------------------------------- MODULE HitlHub -------------------------------
(***************************************************************************)
(* The human-in-the-loop hub (internal/hitl/hub.go), the gRPC service over *)
(* it (internal/hitl/server.go) and the operator client (cmd/hitlctl).     *)
(*                                                                         *)
(* Three kinds of goroutines share the hub:                                *)
(*   - one RequestHelp call per task (the orchestrator calls it once for   *)
(*     a task, with an identifier NewTaskID minted for that task);         *)
(*   - one SubscribeHelpRequests stream per operator session;              *)
(*   - one SubmitHint handler per hint an operator sends.                  *)
(* An action is what a goroutine does between two points where another     *)
(* one may run: a critical section of Hub.mu, or one channel operation.    *)
(*                                                                         *)
(* A hint is identified with the operator session that wrote it: the text  *)
(* has no influence on the hub.                                            *)
(***************************************************************************)
EXTENDS Naturals, Sequences, FiniteSets

CONSTANTS
  Tasks,     \* task identifiers
  Sessions,  \* operator sessions, one per call of Subscribe (Hub.nextSubID)
  QueueCap,  \* capacity of a session's channel (16 in Subscribe)
  None       \* no hint, no task

ASSUME HubAssumption ==
  /\ QueueCap \in Nat \ {0}
  /\ None \notin Sessions
  /\ None \notin Tasks

VARIABLES
  subscribers, \* the keys of Hub.subscribers
  queue,       \* queue[s]: the channel of session s, oldest request first
  waiters,     \* the keys of Hub.waiters
  hintCh,      \* hintCh[t]: the one-slot channel RequestHelp made for t
  help,        \* help[t]: where the RequestHelp call of t is
  targets,     \* targets[t]: the subscribers of the snapshot not served yet
  answer,      \* answer[t]: the hint RequestHelp returns, or None
  outcome,     \* outcome[t]: which of its results RequestHelp returns
  stream,      \* stream[s]: where the stream handler of s is
  desk,        \* desk[s]: requests hitlctl received and has not treated
  submit,      \* submit[s]: the task whose channel the SubmitHint call of s
               \* found and has not written to yet, or None
  verdict      \* verdict[t][s]: what SubmitHint told s about its hint for t

hubVars == <<subscribers, queue, waiters, hintCh, help, targets, answer,
             outcome, stream, desk, submit, verdict>>

callVars == <<hintCh, help, targets, answer, outcome>>
operatorVars == <<desk, submit, verdict>>

HelpPc == {"idle", "broadcast", "waiting", "cleanup", "returned"}
Outcomes == {"pending", "hint", "noHint", "noSubscriber"}
StreamPc == {"fresh", "streaming", "closing", "closed"}
Verdicts == {"none", "accepted", "rejected"}

HubInit ==
  /\ subscribers = {}
  /\ queue = [s \in Sessions |-> <<>>]
  /\ waiters = {}
  /\ hintCh = [t \in Tasks |-> None]
  /\ help = [t \in Tasks |-> "idle"]
  /\ targets = [t \in Tasks |-> {}]
  /\ answer = [t \in Tasks |-> None]
  /\ outcome = [t \in Tasks |-> "pending"]
  /\ stream = [s \in Sessions |-> "fresh"]
  /\ desk = [s \in Sessions |-> <<>>]
  /\ submit = [s \in Sessions |-> None]
  /\ verdict = [t \in Tasks |-> [s \in Sessions |-> "none"]]

-----------------------------------------------------------------------------
(* RequestHelp *)

\* Mutant: the subscribers are copied, the waiter is not registered.
RegisterForgetsWaiter(t) ==
  /\ help[t] = "idle"
  /\ targets' = [targets EXCEPT ![t] = subscribers]
  /\ help' = [help EXCEPT ![t] = IF subscribers = {} THEN "cleanup" ELSE "broadcast"]
  /\ outcome' = [outcome EXCEPT ![t] = IF subscribers = {} THEN "noSubscriber" ELSE @]
  /\ UNCHANGED <<subscribers, queue, waiters, hintCh, answer, stream, operatorVars>>

\* The critical section: the waiter is in the map and the subscribers are
\* copied.  With nobody in the copy the call is over but for its deferred
\* delete.
Register(t) ==
  /\ help[t] = "idle"
  /\ waiters' = waiters \cup {t}
  /\ targets' = [targets EXCEPT ![t] = subscribers]
  /\ \/ /\ subscribers # {}
        /\ help' = [help EXCEPT ![t] = "broadcast"]
        /\ UNCHANGED outcome
     \/ /\ subscribers = {}
        /\ help' = [help EXCEPT ![t] = "cleanup"]
        /\ outcome' = [outcome EXCEPT ![t] = "noSubscriber"]
  /\ UNCHANGED <<subscribers, queue, hintCh, answer, stream, operatorVars>>

\* Mutant: the send blocks while the channel is full.
BroadcastBlocks(t, s) ==
  /\ help[t] = "broadcast"
  /\ s \in targets[t]
  /\ Len(queue[s]) < QueueCap
  /\ queue' = [queue EXCEPT ![s] = Append(@, t)]
  /\ targets' = [targets EXCEPT ![t] = @ \ {s}]
  /\ help' = IF targets[t] = {s} THEN [help EXCEPT ![t] = "waiting"] ELSE help
  /\ UNCHANGED <<subscribers, waiters, hintCh, answer, outcome, stream,
                 operatorVars>>

\* One non-blocking send of the broadcast loop, outside the lock: a full
\* channel drops the request, and a session that unsubscribed since the copy
\* still has a channel to write to.
Broadcast(t, s) ==
  /\ help[t] = "broadcast"
  /\ s \in targets[t]
  /\ queue' = IF Len(queue[s]) < QueueCap
                THEN [queue EXCEPT ![s] = Append(@, t)]
                ELSE queue
  /\ targets' = [targets EXCEPT ![t] = @ \ {s}]
  /\ help' = IF targets[t] = {s} THEN [help EXCEPT ![t] = "waiting"] ELSE help
  /\ UNCHANGED <<subscribers, waiters, hintCh, answer, outcome, stream,
                 operatorVars>>

\* select: the hint is there.
TakeHint(t) ==
  /\ help[t] = "waiting"
  /\ hintCh[t] # None
  /\ answer' = [answer EXCEPT ![t] = hintCh[t]]
  /\ hintCh' = [hintCh EXCEPT ![t] = None]
  /\ outcome' = [outcome EXCEPT ![t] = "hint"]
  /\ help' = [help EXCEPT ![t] = "cleanup"]
  /\ UNCHANGED <<subscribers, queue, waiters, targets, stream, operatorVars>>

\* Mutant: the delete is not deferred, and the timer's branch forgets it.
ExpireKeepsWaiter(t) ==
  /\ help[t] = "waiting"
  /\ outcome' = [outcome EXCEPT ![t] = "noHint"]
  /\ help' = [help EXCEPT ![t] = "returned"]
  /\ UNCHANGED <<subscribers, queue, waiters, hintCh, targets, answer, stream,
                 operatorVars>>

\* select: the timer fired or the caller's context is done.  Go picks either
\* case when a hint is there as well.
Expire(t) ==
  /\ help[t] = "waiting"
  /\ outcome' = [outcome EXCEPT ![t] = "noHint"]
  /\ help' = [help EXCEPT ![t] = "cleanup"]
  /\ UNCHANGED <<subscribers, queue, waiters, hintCh, targets, answer, stream,
                 operatorVars>>

\* The deferred critical section.
Unregister(t) ==
  /\ help[t] = "cleanup"
  /\ waiters' = waiters \ {t}
  /\ help' = [help EXCEPT ![t] = "returned"]
  /\ UNCHANGED <<subscribers, queue, hintCh, targets, answer, outcome, stream,
                 operatorVars>>

-----------------------------------------------------------------------------
(* SubscribeHelpRequests *)

Subscribe(s) ==
  /\ stream[s] = "fresh"
  /\ stream' = [stream EXCEPT ![s] = "streaming"]
  /\ subscribers' = subscribers \cup {s}
  /\ UNCHANGED <<queue, waiters, callVars, operatorVars>>

\* The handler takes a request off the channel and sends it; a failed Send
\* ends the stream and the request is gone.
Forward(s) ==
  /\ stream[s] = "streaming"
  /\ queue[s] # <<>>
  /\ queue' = [queue EXCEPT ![s] = Tail(@)]
  /\ \/ /\ desk' = [desk EXCEPT ![s] = Append(@, Head(queue[s]))]
        /\ UNCHANGED stream
     \/ /\ stream' = [stream EXCEPT ![s] = "closing"]
        /\ UNCHANGED desk
  /\ UNCHANGED <<subscribers, waiters, callVars, submit, verdict>>

\* The operator went away: the stream's context is done.
Disconnect(s) ==
  /\ stream[s] = "streaming"
  /\ stream' = [stream EXCEPT ![s] = "closing"]
  /\ UNCHANGED <<subscribers, queue, waiters, callVars, operatorVars>>

Unsubscribe(s) ==
  /\ stream[s] = "closing"
  /\ stream' = [stream EXCEPT ![s] = "closed"]
  /\ subscribers' = subscribers \ {s}
  /\ UNCHANGED <<queue, waiters, callVars, operatorVars>>

-----------------------------------------------------------------------------
(* hitlctl and SubmitHint *)

\* The operator skips the oldest request on its desk (Ctrl-D) ...
Skip(s) ==
  /\ submit[s] = None
  /\ desk[s] # <<>>
  /\ desk' = [desk EXCEPT ![s] = Tail(@)]
  /\ UNCHANGED <<subscribers, queue, waiters, callVars, stream, submit, verdict>>

\* ... or submits a hint for it.  The call needs no stream: it may come after
\* the session was closed.  DeliverHint looks the waiter up under the read lock.
SubmitHint(s) ==
  /\ submit[s] = None
  /\ desk[s] # <<>>
  /\ desk' = [desk EXCEPT ![s] = Tail(@)]
  /\ LET t == Head(desk[s]) IN
     \/ /\ t \in waiters
        /\ submit' = [submit EXCEPT ![s] = t]
        /\ UNCHANGED verdict
     \/ /\ t \notin waiters
        /\ verdict' = [verdict EXCEPT ![t][s] = "rejected"]
        /\ UNCHANGED submit
  /\ UNCHANGED <<subscribers, queue, waiters, callVars, stream>>

\* Mutant: a full channel has its hint replaced.
DeliverReplaces(s) ==
  /\ submit[s] # None
  /\ hintCh' = [hintCh EXCEPT ![submit[s]] = s]
  /\ verdict' = [verdict EXCEPT ![submit[s]][s] = "accepted"]
  /\ submit' = [submit EXCEPT ![s] = None]
  /\ UNCHANGED <<subscribers, queue, waiters, help, targets, answer, outcome,
                 stream, desk>>

\* DeliverHint after the unlock: the non-blocking send on the channel that
\* was found, whatever happened to the waiter since.
Deliver(s) ==
  /\ submit[s] # None
  /\ LET t == submit[s] IN
     \/ /\ hintCh[t] = None
        /\ hintCh' = [hintCh EXCEPT ![t] = s]
        /\ verdict' = [verdict EXCEPT ![t][s] = "accepted"]
     \/ /\ hintCh[t] # None
        /\ verdict' = [verdict EXCEPT ![t][s] = "rejected"]
        /\ UNCHANGED hintCh
  /\ submit' = [submit EXCEPT ![s] = None]
  /\ UNCHANGED <<subscribers, queue, waiters, help, targets, answer, outcome,
                 stream, desk>>

-----------------------------------------------------------------------------

\* The steps of a RequestHelp call after its first one, which the caller takes.
HelpStep(t) ==
  \/ \E s \in Sessions : Broadcast(t, s)
  \/ TakeHint(t)
  \/ Expire(t)
  \/ Unregister(t)

OperatorStep(s) ==
  \/ Subscribe(s)
  \/ Forward(s)
  \/ Disconnect(s)
  \/ Unsubscribe(s)
  \/ Skip(s)
  \/ SubmitHint(s)
  \/ Deliver(s)

HubNext ==
  \/ \E t \in Tasks : Register(t) \/ HelpStep(t)
  \/ \E s \in Sessions : OperatorStep(s)

HubSpec == HubInit /\ [][HubNext]_hubVars

-----------------------------------------------------------------------------
(* Properties *)

HubTypeOK ==
  /\ subscribers \subseteq Sessions
  /\ queue \in [Sessions -> Seq(Tasks)]
  /\ waiters \subseteq Tasks
  /\ hintCh \in [Tasks -> Sessions \cup {None}]
  /\ help \in [Tasks -> HelpPc]
  /\ targets \in [Tasks -> SUBSET Sessions]
  /\ answer \in [Tasks -> Sessions \cup {None}]
  /\ outcome \in [Tasks -> Outcomes]
  /\ stream \in [Sessions -> StreamPc]
  /\ desk \in [Sessions -> Seq(Tasks)]
  /\ submit \in [Sessions -> Tasks \cup {None}]
  /\ verdict \in [Tasks -> [Sessions -> Verdicts]]

Accepted(t) == {s \in Sessions : verdict[t][s] = "accepted"}

\* Where every accepted hint went: the task got it, or it lies in the task's
\* channel.  DeliverHint sends outside the lock, so the second case outlives
\* the call; but no hint reaches a task that was not accepted for it, and
\* none is accepted twice (DeliverHint, TakeHint).
AcceptedHintsAccountedFor ==
  \A t \in Tasks : Accepted(t) = ({answer[t], hintCh[t]} \ {None})

\* "Register the waiter BEFORE broadcasting so a fast operator response ...
\* can still deliver": an operator is only turned away when another hint was
\* accepted for the task, or the call is over.
RejectedOnlyWithReason ==
  \A t \in Tasks : \A s \in Sessions :
    verdict[t][s] = "rejected" =>
      Accepted(t) # {} \/ help[t] \in {"cleanup", "returned"}

\* The deferred delete runs on every way out of RequestHelp, and nobody
\* deletes the waiter of a call that still waits.
WaitersAreTheOpenCalls ==
  waiters = {t \in Tasks : help[t] \in {"broadcast", "waiting", "cleanup"}}

\* A call that found no operator is open until its deferred delete; any other
\* call is closed by its select.
RequestState(t) ==
  CASE help[t] = "idle" -> "idle"
    [] help[t] \in {"broadcast", "waiting"} -> "open"
    [] help[t] = "cleanup" /\ outcome[t] = "noSubscriber" -> "open"
    [] OTHER -> "closed"

Exchange == INSTANCE HelpExchange WITH
  Operators <- Sessions,
  request <- [t \in Tasks |-> RequestState(t)],
  accepted <- [t \in Tasks |-> Accepted(t)],
  used <- answer

\* The hub implements the help exchange: the lock, the channels and the
\* goroutines of Hub do what HelpExchange's five steps do.
ImplementsExchange == Exchange!Spec
=============================================================================

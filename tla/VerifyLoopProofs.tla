-------------------------- MODULE VerifyLoopProofs --------------------------
(***************************************************************************)
(* The hub, for every set of tasks and sessions and every queue capacity:  *)
(* no hint is lost or given twice, the hub implements the help exchange,   *)
(* and it turns an operator away with reason only. All follows from one    *)
(* inductive invariant. Then the retry loop around it: it takes no step of *)
(* the hub that HubSpec does not allow, so what is proved of the hub holds *)
(* of Spec; and on top of it, for every MaxRetries: the retry budget, when *)
(* help is asked, what the agent is shown, which lessons are kept and what *)
(* an error tells.                                                         *)
(***************************************************************************)
EXTENDS VerifyLoop, TLAPS

In(seq, t) == \E i \in 1 .. Len(seq) : seq[i] = t

Distinct(seq) == \A i, j \in 1 .. Len(seq) : seq[i] = seq[j] => i = j

\* A request is in at most one place between the hub and an operator: still to
\* be sent, in the channel, on the desk, in a SubmitHint call, or done with.
OnePlace ==
  \A s \in Sessions :
    /\ Distinct(queue[s])
    /\ Distinct(desk[s])
    /\ \A t \in Tasks :
         /\ s \in targets[t] => ~In(queue[s], t)
         /\ s \in targets[t] \/ In(queue[s], t) => ~In(desk[s], t)
         /\ s \in targets[t] \/ In(queue[s], t) \/ In(desk[s], t) => submit[s] # t
         /\ s \in targets[t] \/ In(queue[s], t) \/ In(desk[s], t) \/ submit[s] = t
              => verdict[t][s] = "none"

\* No operator has heard of a task whose call has not begun or found nobody.
NothingBeforeTheCall ==
  \A t \in Tasks : help[t] = "idle" \/ outcome[t] = "noSubscriber" =>
    /\ targets[t] = {}
    /\ hintCh[t] = None
    /\ \A s \in Sessions :
         /\ ~In(queue[s], t)
         /\ ~In(desk[s], t)
         /\ submit[s] # t
         /\ verdict[t][s] = "none"

\* A call has an outcome only once its select chose one, and an answer only if
\* that was a hint.
AnswerAfterSelect ==
  \A t \in Tasks :
    /\ help[t] \in {"idle", "broadcast", "waiting"} => outcome[t] = "pending"
    /\ outcome[t] = "hint" <=> answer[t] # None

HubInv ==
  /\ HubTypeOK
  /\ OnePlace
  /\ NothingBeforeTheCall
  /\ AnswerAfterSelect
  /\ AcceptedHintsAccountedFor
  /\ WaitersAreTheOpenCalls

-----------------------------------------------------------------------------
(* What a channel holds after one operation on it. *)

LEMMA InAppend ==
  ASSUME NEW S, NEW seq \in Seq(S), NEW e \in S, NEW t
  PROVE  In(Append(seq, e), t) <=> In(seq, t) \/ t = e
BY DEF In

LEMMA InTail ==
  ASSUME NEW S, NEW seq \in Seq(S), seq # <<>>, NEW t
  PROVE  In(seq, t) <=> t = Head(seq) \/ In(Tail(seq), t)
<1>1. Len(seq) \in Nat \ {0} /\ Head(seq) = seq[1] /\ Len(Tail(seq)) = Len(seq) - 1
  OBVIOUS
<1>2. \A i \in 1 .. Len(Tail(seq)) : Tail(seq)[i] = seq[i + 1]
  OBVIOUS
<1>3. ASSUME In(seq, t), t # Head(seq)  PROVE In(Tail(seq), t)
  <2>1. PICK i \in 1 .. Len(seq) : seq[i] = t
    BY <1>3 DEF In
  <2>2. i # 1 /\ i - 1 \in 1 .. Len(Tail(seq))
    BY <1>1, <1>3, <2>1
  <2>3. Tail(seq)[i - 1] = t
    BY <1>2, <2>1, <2>2
  <2>4. QED BY <2>2, <2>3 DEF In
<1>4. ASSUME In(Tail(seq), t)  PROVE In(seq, t)
  <2>1. PICK i \in 1 .. Len(Tail(seq)) : Tail(seq)[i] = t
    BY <1>4 DEF In
  <2>2. i + 1 \in 1 .. Len(seq) /\ seq[i + 1] = t
    BY <1>1, <1>2, <2>1
  <2>3. QED BY <2>2 DEF In
<1>5. In(seq, Head(seq))
  BY <1>1 DEF In
<1>6. QED BY <1>3, <1>4, <1>5

LEMMA DistinctAppend ==
  ASSUME NEW S, NEW seq \in Seq(S), NEW e \in S, Distinct(seq), ~In(seq, e)
  PROVE  Distinct(Append(seq, e))
BY DEF Distinct, In

LEMMA DistinctTail ==
  ASSUME NEW S, NEW seq \in Seq(S), seq # <<>>, Distinct(seq)
  PROVE  Distinct(Tail(seq)) /\ ~In(Tail(seq), Head(seq))
<1>1. Len(seq) \in Nat \ {0} /\ Head(seq) = seq[1] /\ Len(Tail(seq)) = Len(seq) - 1
  OBVIOUS
<1>2. \A i \in 1 .. Len(Tail(seq)) : Tail(seq)[i] = seq[i + 1] /\ i + 1 \in 1 .. Len(seq)
  BY <1>1
<1>3. QED BY <1>1, <1>2 DEF Distinct, In

-----------------------------------------------------------------------------
(* HubInv is inductive. *)

LEMMA HubInvInit == HubInit => HubInv
BY HubAssumption DEF HubInit, HubInv, HubTypeOK, HelpPc, Outcomes, StreamPc, Verdicts,
   OnePlace, Distinct, In, NothingBeforeTheCall, AnswerAfterSelect,
   AcceptedHintsAccountedFor, Accepted, WaitersAreTheOpenCalls

\* The critical section of RequestHelp.
LEMMA RegisterStep ==
  ASSUME HubInv, NEW t \in Tasks, Register(t)
  PROVE  HubInv'
<1> USE HubAssumption DEF HubInv, operatorVars, Register, HubTypeOK
<1>1. HubTypeOK'
  BY DEF HelpPc, Outcomes
<1>2. OnePlace'
  <2>1. \A u \in Tasks \ {t} : targets'[u] = targets[u]
    OBVIOUS
  <2>2. \A s \in Sessions :
          ~In(queue[s], t) /\ ~In(desk[s], t) /\ submit[s] # t /\ verdict[t][s] = "none"
    BY DEF NothingBeforeTheCall
  <2>3. QED BY <2>1, <2>2 DEF OnePlace
<1>3. NothingBeforeTheCall'
  <2>1. subscribers # {} => help'[t] = "broadcast" /\ outcome'[t] = "pending"
    BY DEF AnswerAfterSelect
  <2>2. \A u \in Tasks \ {t} :
          help'[u] = help[u] /\ outcome'[u] = outcome[u] /\ targets'[u] = targets[u]
    OBVIOUS
  <2>3. targets'[t] = subscribers
    OBVIOUS
  <2>4. UNCHANGED <<hintCh, queue, desk, submit, verdict>>
    OBVIOUS
  <2>5. QED BY <2>1, <2>2, <2>3, <2>4 DEF NothingBeforeTheCall
<1>4. AnswerAfterSelect' /\ AcceptedHintsAccountedFor'
  BY DEF AnswerAfterSelect, NothingBeforeTheCall, AcceptedHintsAccountedFor, Accepted
<1>5. WaitersAreTheOpenCalls'
  BY DEF WaitersAreTheOpenCalls
<1>6. QED BY <1>1, <1>2, <1>3, <1>4, <1>5

\* One send of the broadcast loop.
LEMMA BroadcastStep ==
  ASSUME HubInv, NEW t \in Tasks, NEW s \in Sessions, Broadcast(t, s)
  PROVE  HubInv'
<1> USE HubAssumption DEF HubInv, operatorVars, Broadcast, HubTypeOK
<1>1. HubTypeOK'
  BY DEF HelpPc, Outcomes
<1>2. /\ \A r \in Sessions \ {s} : queue'[r] = queue[r]
      /\ queue'[s] = Append(queue[s], t) \/ queue'[s] = queue[s]
      /\ \A u \in Tasks \ {t} : targets'[u] = targets[u]
      /\ targets'[t] = targets[t] \ {s}
  OBVIOUS
<1>3. ASSUME NEW u  PROVE In(queue'[s], u) => In(queue[s], u) \/ u = t
  BY <1>2, InAppend
<1>4. OnePlace'
  <2>1. Distinct(queue'[s])
    BY <1>2, DistinctAppend DEF OnePlace
  <2>2. QED BY <1>2, <1>3, <2>1 DEF OnePlace
<1>5. NothingBeforeTheCall'
  BY <1>2, <1>3 DEF NothingBeforeTheCall
<1>6. AnswerAfterSelect' /\ AcceptedHintsAccountedFor'
  BY DEF AnswerAfterSelect, AcceptedHintsAccountedFor, Accepted
<1>7. WaitersAreTheOpenCalls'
  BY DEF WaitersAreTheOpenCalls
<1>8. QED BY <1>1, <1>4, <1>5, <1>6, <1>7

\* The ways out of the select, and the deferred delete.
LEMMA TakeHintStep ==
  ASSUME HubInv, NEW t \in Tasks, TakeHint(t)
  PROVE  HubInv'
<1> USE HubAssumption DEF HubInv, operatorVars, TakeHint, HubTypeOK
<1>1. HubTypeOK'
  BY DEF HelpPc, Outcomes
<1>2. OnePlace' /\ NothingBeforeTheCall' /\ AnswerAfterSelect'
  BY DEF OnePlace, NothingBeforeTheCall, AnswerAfterSelect
<1>3. AcceptedHintsAccountedFor'
  <2>1. \A u \in Tasks : Accepted(u)' = Accepted(u)
    BY DEF Accepted
  <2>2. \A u \in Tasks \ {t} : answer'[u] = answer[u] /\ hintCh'[u] = hintCh[u]
    OBVIOUS
  <2>3. answer[t] = None /\ answer'[t] = hintCh[t] /\ hintCh'[t] = None
    BY DEF AnswerAfterSelect
  <2>4. QED BY <2>1, <2>2, <2>3 DEF AcceptedHintsAccountedFor
<1>4. WaitersAreTheOpenCalls'
  BY DEF WaitersAreTheOpenCalls
<1>5. QED BY <1>1, <1>2, <1>3, <1>4

LEMMA ExpireStep ==
  ASSUME HubInv, NEW t \in Tasks, Expire(t)
  PROVE  HubInv'
BY HubAssumption DEF HubInv, operatorVars, Expire, HubTypeOK, HelpPc, Outcomes, OnePlace,
   NothingBeforeTheCall, AnswerAfterSelect, AcceptedHintsAccountedFor, Accepted,
   WaitersAreTheOpenCalls

LEMMA UnregisterStep ==
  ASSUME HubInv, NEW t \in Tasks, Unregister(t)
  PROVE  HubInv'
BY HubAssumption DEF HubInv, operatorVars, Unregister, HubTypeOK, HelpPc, OnePlace,
   NothingBeforeTheCall, AnswerAfterSelect, AcceptedHintsAccountedFor, Accepted,
   WaitersAreTheOpenCalls

\* The stream handler moves a request from the channel to the desk, or loses it.
LEMMA ForwardStep ==
  ASSUME HubInv, NEW s \in Sessions, Forward(s)
  PROVE  HubInv'
<1>h. PICK h : h = Head(queue[s])
  OBVIOUS
<1>0. HubTypeOK /\ OnePlace /\ NothingBeforeTheCall /\ AnswerAfterSelect
      /\ AcceptedHintsAccountedFor /\ WaitersAreTheOpenCalls
  BY DEF HubInv
<1>1. /\ queue[s] \in Seq(Tasks) /\ queue[s] # <<>>
      /\ desk[s] \in Seq(Tasks)
      /\ h \in Tasks
      /\ Tail(queue[s]) \in Seq(Tasks)
      /\ Append(desk[s], h) \in Seq(Tasks)
  BY <1>0, <1>h DEF HubTypeOK, Forward
<1>2. /\ queue'[s] = Tail(queue[s])
      /\ \A r \in Sessions \ {s} : queue'[r] = queue[r] /\ desk'[r] = desk[r]
      /\ desk'[s] = Append(desk[s], h) \/ desk'[s] = desk[s]
  BY <1>0, <1>h DEF HubTypeOK, Forward
<1>u. UNCHANGED <<subscribers, waiters, hintCh, help, targets, answer, outcome, submit,
                  verdict>>
  BY DEF Forward, callVars
<1>3. HubTypeOK'
  BY <1>0, <1>1, <1>h DEF HubTypeOK, StreamPc, Forward, callVars
<1>4. \A u : In(queue[s], u) <=> u = h \/ In(Tail(queue[s]), u)
  BY <1>1, <1>h, InTail
<1>5. Distinct(Tail(queue[s])) /\ ~In(Tail(queue[s]), h)
  <2>1. Distinct(queue[s])
    BY <1>0 DEF OnePlace
  <2>2. QED BY <1>1, <1>h, <2>1, DistinctTail
<1>6. ~In(desk[s], h) /\ Distinct(desk[s])
  BY <1>0, <1>1, <1>4 DEF OnePlace
<1>7. Distinct(Append(desk[s], h)) /\ \A u : In(Append(desk[s], h), u) <=> In(desk[s], u) \/ u = h
  BY <1>1, <1>6, DistinctAppend, InAppend
<1>8. /\ Distinct(queue'[s]) /\ Distinct(desk'[s])
      /\ \A u : In(queue'[s], u) => In(queue[s], u) /\ u # h
      /\ \A u : In(desk'[s], u) => In(desk[s], u) \/ u = h
      /\ In(queue[s], h)
  BY <1>2, <1>4, <1>5, <1>6, <1>7
<1>9. OnePlace'
  <2>1. ASSUME NEW u \in Tasks
        PROVE  /\ s \in targets[u] => ~In(queue'[s], u)
               /\ s \in targets[u] \/ In(queue'[s], u) => ~In(desk'[s], u)
               /\ s \in targets[u] \/ In(queue'[s], u) \/ In(desk'[s], u)
                    => submit[s] # u
               /\ s \in targets[u] \/ In(queue'[s], u) \/ In(desk'[s], u) \/ submit[s] = u
                    => verdict[u][s] = "none"
    BY <1>0, <1>8 DEF OnePlace
  <2>2. QED BY <1>0, <1>2, <1>u, <1>8, <2>1 DEF OnePlace
<1>10. NothingBeforeTheCall'
  BY <1>0, <1>2, <1>u, <1>8 DEF NothingBeforeTheCall
<1>11. AnswerAfterSelect' /\ AcceptedHintsAccountedFor' /\ WaitersAreTheOpenCalls'
  BY <1>0, <1>u DEF AnswerAfterSelect, AcceptedHintsAccountedFor, Accepted,
     WaitersAreTheOpenCalls
<1>12. QED BY <1>3, <1>9, <1>10, <1>11 DEF HubInv

\* The steps of a stream that move no request.
LEMMA SessionStep ==
  ASSUME HubInv, NEW s \in Sessions, Subscribe(s) \/ Disconnect(s) \/ Unsubscribe(s)
  PROVE  HubInv'
<1>0. HubTypeOK /\ OnePlace /\ NothingBeforeTheCall /\ AnswerAfterSelect
      /\ AcceptedHintsAccountedFor /\ WaitersAreTheOpenCalls
  BY DEF HubInv
<1>1. UNCHANGED <<queue, waiters, hintCh, help, targets, answer, outcome, desk, submit,
                  verdict>>
  BY DEF Subscribe, Disconnect, Unsubscribe, callVars, operatorVars
<1>2. subscribers' \subseteq Sessions /\ stream' \in [Sessions -> StreamPc]
  BY <1>0 DEF HubTypeOK, StreamPc, Subscribe, Disconnect, Unsubscribe
<1>3. HubTypeOK'
  BY <1>0, <1>1, <1>2 DEF HubTypeOK
<1>4. OnePlace' /\ NothingBeforeTheCall'
  BY <1>0, <1>1 DEF OnePlace, NothingBeforeTheCall
<1>5. AnswerAfterSelect' /\ AcceptedHintsAccountedFor' /\ WaitersAreTheOpenCalls'
  BY <1>0, <1>1 DEF AnswerAfterSelect, AcceptedHintsAccountedFor, Accepted,
     WaitersAreTheOpenCalls
<1>6. QED BY <1>3, <1>4, <1>5 DEF HubInv

\* The operator takes the oldest request off its desk.
LEMMA SkipStep ==
  ASSUME HubInv, NEW s \in Sessions, Skip(s)
  PROVE  HubInv'
<1> USE HubAssumption DEF HubInv, callVars, Skip
<1>1. /\ desk[s] \in Seq(Tasks) /\ desk[s] # <<>>
      /\ desk'[s] = Tail(desk[s])
      /\ \A r \in Sessions \ {s} : desk'[r] = desk[r]
  BY DEF HubTypeOK
<1>2. HubTypeOK'
  BY DEF HubTypeOK
<1>3. ASSUME NEW u  PROVE In(desk'[s], u) => In(desk[s], u)
  BY <1>1, InTail
<1>4. Distinct(desk'[s])
  BY <1>1, DistinctTail DEF OnePlace
<1>5. OnePlace'
  BY <1>1, <1>3, <1>4 DEF OnePlace
<1>6. NothingBeforeTheCall'
  BY <1>1, <1>3 DEF NothingBeforeTheCall
<1>7. AnswerAfterSelect' /\ AcceptedHintsAccountedFor' /\ WaitersAreTheOpenCalls'
  BY DEF AnswerAfterSelect, AcceptedHintsAccountedFor, Accepted, WaitersAreTheOpenCalls
<1>8. QED BY <1>2, <1>5, <1>6, <1>7

LEMMA SubmitHintStep ==
  ASSUME HubInv, NEW s \in Sessions, SubmitHint(s)
  PROVE  HubInv'
<1> USE HubAssumption DEF HubInv, callVars
<1>h. PICK h : h = Head(desk[s])
  OBVIOUS
<1>1. /\ desk[s] \in Seq(Tasks) /\ desk[s] # <<>> /\ h \in Tasks
      /\ Tail(desk[s]) \in Seq(Tasks)
      /\ desk' = [desk EXCEPT ![s] = Tail(@)]
      /\ UNCHANGED <<subscribers, queue, waiters, hintCh, help, targets, answer,
                     outcome, stream>>
  BY <1>h DEF HubTypeOK, SubmitHint
<1>2. \/ submit' = [submit EXCEPT ![s] = h] /\ UNCHANGED verdict
      \/ verdict' = [verdict EXCEPT ![h][s] = "rejected"] /\ UNCHANGED submit
  BY <1>h DEF SubmitHint
<1>3. HubTypeOK'
  <2>1. submit' \in [Sessions -> Tasks \cup {None}]
    BY <1>1, <1>2 DEF HubTypeOK
  <2>2. verdict' \in [Tasks -> [Sessions -> Verdicts]]
    <3>1. [verdict EXCEPT ![h][s] = "rejected"] \in [Tasks -> [Sessions -> Verdicts]]
      BY <1>1 DEF HubTypeOK, Verdicts
    <3>2. QED BY <1>2, <3>1 DEF HubTypeOK
  <2>3. QED BY <1>1, <2>1, <2>2 DEF HubTypeOK
<1>4. /\ desk'[s] = Tail(desk[s])
      /\ \A r \in Sessions \ {s} : desk'[r] = desk[r] /\ submit'[r] = submit[r]
      /\ \A u \in Tasks : \A r \in Sessions :
           u # h \/ r # s => verdict'[u][r] = verdict[u][r]
      /\ submit'[s] = h \/ submit'[s] = submit[s]
      /\ submit'[s] = h => verdict'[h][s] = verdict[h][s]
      /\ submit[s] = None /\ verdict'[h][s] \in {"rejected", verdict[h][s]}
  BY <1>1, <1>2 DEF HubTypeOK, SubmitHint
<1>5. ASSUME NEW u  PROVE In(desk'[s], u) => In(desk[s], u) /\ u # h
  BY <1>1, <1>h, <1>4, InTail, DistinctTail DEF OnePlace
<1>6. /\ In(desk[s], h)
      /\ s \notin targets[h] /\ ~In(queue[s], h) /\ verdict[h][s] = "none"
  BY <1>1, <1>h, InTail DEF OnePlace
<1>7. OnePlace'
  <2>1. Distinct(desk'[s])
    BY <1>1, <1>4, DistinctTail DEF OnePlace
  <2>2. ASSUME NEW u \in Tasks
        PROVE  /\ s \in targets[u] => ~In(queue[s], u)
               /\ s \in targets[u] \/ In(queue[s], u) => ~In(desk'[s], u)
               /\ s \in targets[u] \/ In(queue[s], u) \/ In(desk'[s], u)
                    => submit'[s] # u
               /\ s \in targets[u] \/ In(queue[s], u) \/ In(desk'[s], u) \/ submit'[s] = u
                    => verdict'[u][s] = "none"
    BY <1>1, <1>4, <1>5, <1>6 DEF OnePlace
  <2>3. QED BY <1>1, <1>4, <2>1, <2>2 DEF OnePlace
<1>8. help[h] # "idle" /\ outcome[h] # "noSubscriber"
  BY <1>1, <1>6 DEF NothingBeforeTheCall
<1>9. NothingBeforeTheCall'
  BY <1>1, <1>4, <1>5, <1>8 DEF NothingBeforeTheCall
<1>10. AnswerAfterSelect' /\ WaitersAreTheOpenCalls'
  BY <1>1 DEF AnswerAfterSelect, WaitersAreTheOpenCalls
<1>11. AcceptedHintsAccountedFor'
  <2>1. \A u \in Tasks : Accepted(u)' = Accepted(u)
    BY <1>1, <1>4, <1>6 DEF Accepted
  <2>2. QED BY <1>1, <2>1 DEF AcceptedHintsAccountedFor
<1>12. QED BY <1>3, <1>7, <1>9, <1>10, <1>11

\* The send of DeliverHint, outside the lock.
LEMMA DeliverStep ==
  ASSUME HubInv, NEW s \in Sessions, Deliver(s)
  PROVE  HubInv'
<1> USE HubAssumption DEF HubInv
<1>t. PICK t : t = submit[s]
  OBVIOUS
<1>1. /\ t \in Tasks
      /\ submit' = [submit EXCEPT ![s] = None]
      /\ UNCHANGED <<subscribers, queue, waiters, help, targets, answer, outcome,
                     stream, desk>>
  BY <1>t DEF HubTypeOK, Deliver
<1>2. \/ /\ hintCh[t] = None
         /\ hintCh' = [hintCh EXCEPT ![t] = s]
         /\ verdict' = [verdict EXCEPT ![t][s] = "accepted"]
      \/ /\ hintCh[t] # None
         /\ hintCh' = hintCh
         /\ verdict' = [verdict EXCEPT ![t][s] = "rejected"]
  BY <1>t DEF Deliver
<1>3. HubTypeOK'
  <2>0. hintCh' \in [Tasks -> Sessions \cup {None}]
    <3>1. hintCh \in [Tasks -> Sessions \cup {None}]
      BY DEF HubTypeOK
    <3>2. hintCh' = hintCh \/ hintCh' = [hintCh EXCEPT ![t] = s]
      BY ONLY <1>2
    <3>3. QED BY ONLY <1>1, <3>1, <3>2
  <2>1. submit' \in [Sessions -> Tasks \cup {None}]
    BY <1>1 DEF HubTypeOK
  <2>2. ASSUME NEW v \in Verdicts
        PROVE  [verdict EXCEPT ![t][s] = v] \in [Tasks -> [Sessions -> Verdicts]]
    BY <1>1 DEF HubTypeOK
  <2>3. verdict' \in [Tasks -> [Sessions -> Verdicts]]
    BY <1>2, <2>2 DEF Verdicts
  <2>4. QED BY <1>1, <2>0, <2>1, <2>3 DEF HubTypeOK
<1>4. /\ submit'[s] = None
      /\ \A r \in Sessions \ {s} : submit'[r] = submit[r]
      /\ \A u \in Tasks : \A r \in Sessions :
           u # t \/ r # s => verdict'[u][r] = verdict[u][r]
      /\ \A u \in Tasks \ {t} : hintCh'[u] = hintCh[u]
  BY <1>1, <1>2 DEF HubTypeOK
<1>5. s \notin targets[t] /\ ~In(queue[s], t) /\ ~In(desk[s], t) /\ verdict[t][s] = "none"
  BY <1>1, <1>t DEF OnePlace
<1>6. OnePlace'
  BY <1>1, <1>4, <1>5 DEF OnePlace
<1>7. help[t] # "idle" /\ outcome[t] # "noSubscriber"
  BY <1>1, <1>t DEF NothingBeforeTheCall
<1>8. NothingBeforeTheCall'
  BY <1>1, <1>4, <1>7 DEF NothingBeforeTheCall
<1>9. AnswerAfterSelect' /\ WaitersAreTheOpenCalls'
  BY <1>1 DEF AnswerAfterSelect, WaitersAreTheOpenCalls
<1>10. AcceptedHintsAccountedFor'
  <2>1. \A u \in Tasks \ {t} : Accepted(u)' = Accepted(u)
    BY <1>1, <1>4 DEF Accepted
  <2>2. \A v : \A r \in Sessions :
          [verdict EXCEPT ![t][s] = v][t][r] = IF r = s THEN v ELSE verdict[t][r]
    BY <1>1 DEF HubTypeOK
  <2>3. answer' = answer /\ Accepted(t) = {answer[t], hintCh[t]} \ {None}
    BY <1>1 DEF AcceptedHintsAccountedFor
  <2>4. CASE hintCh[t] = None
    <3>1. verdict' = [verdict EXCEPT ![t][s] = "accepted"]
      BY <1>2, <2>4
    <3>2. Accepted(t)' = Accepted(t) \cup {s}
      BY <2>2, <3>1 DEF Accepted
    <3>3. hintCh'[t] = s /\ s # None
      BY <1>1, <1>2, <2>4, HubAssumption DEF HubTypeOK
    <3>4. Accepted(t)' = {answer'[t], hintCh'[t]} \ {None}
      BY <2>3, <2>4, <3>2, <3>3
    <3>5. QED BY <1>1, <1>4, <2>1, <3>4 DEF AcceptedHintsAccountedFor
  <2>5. CASE hintCh[t] # None
    <3>1. verdict' = [verdict EXCEPT ![t][s] = "rejected"] /\ hintCh' = hintCh
      BY <1>2, <2>5
    <3>2. Accepted(t)' = Accepted(t)
      BY <1>5, <2>2, <3>1 DEF Accepted
    <3>3. QED BY <1>1, <2>1, <3>1, <3>2 DEF AcceptedHintsAccountedFor
  <2>6. QED BY <2>4, <2>5
<1>11. QED BY <1>3, <1>6, <1>8, <1>9, <1>10

LEMMA HubInvStep == HubInv /\ [HubNext]_hubVars => HubInv'
<1> SUFFICES ASSUME HubInv, [HubNext]_hubVars PROVE HubInv'
  OBVIOUS
<1>1. CASE UNCHANGED hubVars
  BY <1>1 DEF HubInv, hubVars, HubTypeOK, OnePlace, NothingBeforeTheCall,
     AnswerAfterSelect, AcceptedHintsAccountedFor, Accepted, WaitersAreTheOpenCalls
<1>2. CASE HubNext
  BY <1>2, RegisterStep, BroadcastStep, TakeHintStep, ExpireStep, UnregisterStep,
     SessionStep, ForwardStep, SkipStep, SubmitHintStep, DeliverStep
     DEF HubNext, HelpStep, OperatorStep
<1>3. QED BY <1>1, <1>2

THEOREM HubInvariant == HubSpec => []HubInv
BY HubInvInit, HubInvStep, PTL DEF HubSpec

-----------------------------------------------------------------------------
(* What follows for the exchange and for the operators. *)

\* Once a verdict is given it stays, and a call moves forward only.
LEMMA RejectedInit == HubInit => RejectedOnlyWithReason
BY DEF HubInit, RejectedOnlyWithReason

LEMMA RejectedStep ==
  HubInv /\ RejectedOnlyWithReason /\ [HubNext]_hubVars => RejectedOnlyWithReason'
<1> SUFFICES ASSUME HubInv, RejectedOnlyWithReason, [HubNext]_hubVars
             PROVE  RejectedOnlyWithReason'
  OBVIOUS
<1>0. HubTypeOK /\ NothingBeforeTheCall /\ AcceptedHintsAccountedFor
      /\ WaitersAreTheOpenCalls /\ OnePlace
  BY DEF HubInv
<1>1. ASSUME UNCHANGED verdict,
             \A u \in Tasks : help[u] \in {"cleanup", "returned"}
                => help'[u] \in {"cleanup", "returned"}
      PROVE  RejectedOnlyWithReason'
  BY <1>1 DEF RejectedOnlyWithReason, Accepted
<1>2. CASE UNCHANGED hubVars
  BY <1>1, <1>2 DEF hubVars
<1>3. ASSUME NEW t \in Tasks, Register(t)  PROVE RejectedOnlyWithReason'
  BY <1>0, <1>1, <1>3 DEF Register, operatorVars, HubTypeOK
<1>4. ASSUME NEW t \in Tasks, HelpStep(t)  PROVE RejectedOnlyWithReason'
  <2>1. UNCHANGED verdict
    BY <1>4 DEF HelpStep, Broadcast, TakeHint, Expire, Unregister, operatorVars
  <2>2. \A u \in Tasks : help[u] \in {"cleanup", "returned"}
                => help'[u] \in {"cleanup", "returned"}
    BY <1>0, <1>4 DEF HelpStep, Broadcast, TakeHint, Expire, Unregister, HubTypeOK
  <2>3. QED BY <1>1, <2>1, <2>2
<1>5. ASSUME NEW s \in Sessions,
             Subscribe(s) \/ Forward(s) \/ Disconnect(s) \/ Unsubscribe(s) \/ Skip(s)
      PROVE  RejectedOnlyWithReason'
  <2>1. UNCHANGED <<verdict, help>>
    BY <1>5 DEF Subscribe, Forward, Disconnect, Unsubscribe, Skip, operatorVars, callVars
  <2>2. QED BY <1>1, <2>1
<1>6. ASSUME NEW s \in Sessions, SubmitHint(s)  PROVE RejectedOnlyWithReason'
  <2>0. PICK t : t = Head(desk[s])
    OBVIOUS
  <2>1. t \in Tasks /\ In(desk[s], t) /\ help' = help
    BY <1>0, <1>6, <2>0, InTail DEF SubmitHint, HubTypeOK, callVars
  <2>2. CASE UNCHANGED verdict
    BY <1>1, <2>1, <2>2
  <2>3. CASE verdict' # verdict
    <3>1. t \notin waiters /\ verdict' = [verdict EXCEPT ![t][s] = "rejected"]
      BY <1>6, <2>0, <2>3 DEF SubmitHint
    <3>2. help[t] # "idle"
      BY <1>0, <2>1 DEF NothingBeforeTheCall
    <3>3. help[t] = "returned"
      BY <1>0, <2>1, <3>1, <3>2 DEF WaitersAreTheOpenCalls, HubTypeOK, HelpPc
    <3>4. \A u \in Tasks \ {t} : verdict'[u] = verdict[u]
      BY <1>0, <3>1 DEF HubTypeOK
    <3>5. QED BY <2>1, <3>3, <3>4 DEF RejectedOnlyWithReason, Accepted
  <2>4. QED BY <2>2, <2>3
<1>7. ASSUME NEW s \in Sessions, Deliver(s)  PROVE RejectedOnlyWithReason'
  <2>0. PICK t : t = submit[s]
    OBVIOUS
  <2>1. t \in Tasks /\ help' = help
    BY <1>0, <1>7, <2>0 DEF Deliver, HubTypeOK
  <2>2. PICK v : /\ verdict' = [verdict EXCEPT ![t][s] = v]
                 /\ v = "accepted" \/ (v = "rejected" /\ hintCh[t] # None)
    BY <1>7, <2>0 DEF Deliver
  <2>3. verdict[t][s] = "none"
    BY <1>0, <2>0, <2>1 DEF OnePlace
  <2>4. \A u \in Tasks \ {t} : verdict'[u] = verdict[u]
    BY <1>0, <2>2 DEF HubTypeOK
  <2>5. \A r \in Sessions : verdict'[t][r] = IF r = s THEN v ELSE verdict[t][r]
    BY <1>0, <2>1, <2>2 DEF HubTypeOK
  <2>6. Accepted(t) \subseteq Accepted(t)'
    BY <2>3, <2>5 DEF Accepted
  <2>7. v = "accepted" => s \in Accepted(t)'
    BY <2>5 DEF Accepted
  <2>8. v = "rejected" => Accepted(t) # {}
    BY <1>0, <2>1, <2>2 DEF AcceptedHintsAccountedFor
  <2>9. Accepted(t)' # {}
    BY <2>2, <2>6, <2>7, <2>8
  <2>10. QED BY <2>1, <2>4, <2>9 DEF RejectedOnlyWithReason, Accepted
<1>8. QED BY <1>2, <1>3, <1>4, <1>5, <1>6, <1>7 DEF HubNext, OperatorStep

\* No operator is turned away from a task that still waits for its first hint:
\* the waiter is registered before the first request goes out (RequestHelp), and
\* the channel is full only if another hint is in it (DeliverHint).
THEOREM HubRejects == HubSpec => []RejectedOnlyWithReason
BY RejectedInit, RejectedStep, HubInvariant, PTL DEF HubSpec

-----------------------------------------------------------------------------
(* The refinement. *)

\* The abstract state stays if none of its parts changes.
LEMMA Stutter ==
  ASSUME UNCHANGED answer,
         \A u \in Tasks : RequestState(u)' = RequestState(u) /\ Accepted(u)' = Accepted(u)
  PROVE  UNCHANGED Exchange!exchangeVars
BY DEF Exchange!exchangeVars

LEMMA ExchangeInit == HubInit => Exchange!Init
BY DEF HubInit, Exchange!Init, RequestState, Accepted

\* A call asks when it registers.
LEMMA RegisterAsks ==
  ASSUME HubInv, NEW t \in Tasks, Register(t)
  PROVE  Exchange!Ask(t)
<1>0. HubTypeOK /\ NothingBeforeTheCall
  BY DEF HubInv
<1>1. RequestState(t) = "idle" /\ RequestState(t)' = "open"
  BY <1>0 DEF Register, RequestState, HubTypeOK, NothingBeforeTheCall
<1>2. \A u \in Tasks \ {t} : RequestState(u)' = RequestState(u)
  BY <1>0 DEF Register, RequestState, HubTypeOK
<1>3. UNCHANGED answer /\ \A u \in Tasks : Accepted(u)' = Accepted(u)
  BY DEF Register, Accepted, operatorVars
<1>4. QED BY <1>1, <1>2, <1>3 DEF Exchange!Ask

\* A call that received a hint answers with it.
LEMMA TakeHintAnswers ==
  ASSUME HubInv, NEW t \in Tasks, TakeHint(t)
  PROVE  \E o \in Sessions : Exchange!Answer(t, o)
<1>0. HubTypeOK /\ AcceptedHintsAccountedFor
  BY DEF HubInv
<1>1. PICK o \in Sessions : o = hintCh[t]
  BY <1>0 DEF TakeHint, HubTypeOK
<1>2. o \in Accepted(t)
  BY <1>0, <1>1 DEF TakeHint, AcceptedHintsAccountedFor
<1>3. RequestState(t) = "open" /\ RequestState(t)' = "closed"
  BY <1>0 DEF TakeHint, RequestState, HubTypeOK
<1>4. \A u \in Tasks \ {t} : RequestState(u)' = RequestState(u)
  BY <1>0 DEF TakeHint, RequestState, HubTypeOK
<1>5. answer' = [answer EXCEPT ![t] = o] /\ \A u \in Tasks : Accepted(u)' = Accepted(u)
  BY <1>1 DEF TakeHint, Accepted, operatorVars
<1>6. QED BY <1>2, <1>3, <1>4, <1>5 DEF Exchange!Answer

\* The timer of a call gives up.
LEMMA ExpireGivesUp ==
  ASSUME HubInv, NEW t \in Tasks, Expire(t)
  PROVE  Exchange!GiveUp(t)
<1>0. HubTypeOK
  BY DEF HubInv
<1>1. RequestState(t) = "open" /\ RequestState(t)' = "closed"
  BY <1>0 DEF Expire, RequestState, HubTypeOK
<1>2. \A u \in Tasks \ {t} : RequestState(u)' = RequestState(u)
  BY <1>0 DEF Expire, RequestState, HubTypeOK
<1>3. UNCHANGED answer /\ \A u \in Tasks : Accepted(u)' = Accepted(u)
  BY DEF Expire, Accepted, operatorVars
<1>4. QED BY <1>1, <1>2, <1>3 DEF Exchange!GiveUp

\* The deferred delete gives up if nobody was asked, and stutters otherwise.
LEMMA UnregisterGivesUp ==
  ASSUME HubInv, NEW t \in Tasks, Unregister(t)
  PROVE  Exchange!GiveUp(t) \/ UNCHANGED Exchange!exchangeVars
<1>0. HubTypeOK
  BY DEF HubInv
<1>1. RequestState(t)' = "closed"
  BY <1>0 DEF Unregister, RequestState, HubTypeOK
<1>2. \A u \in Tasks \ {t} : RequestState(u)' = RequestState(u)
  BY <1>0 DEF Unregister, RequestState, HubTypeOK
<1>3. UNCHANGED answer /\ \A u \in Tasks : Accepted(u)' = Accepted(u)
  BY DEF Unregister, Accepted, operatorVars
<1>4. RequestState(t) \in {"open", "closed"}
  BY DEF Unregister, RequestState
<1>5. CASE RequestState(t) = "open"
  BY <1>1, <1>2, <1>3, <1>5 DEF Exchange!GiveUp
<1>6. CASE RequestState(t) = "closed"
  BY <1>1, <1>2, <1>3, <1>6, Stutter
<1>7. QED BY <1>4, <1>5, <1>6

\* A hint is accepted only into an empty channel, hence only when every hint
\* accepted before it was read, and from an operator that had no verdict yet.
LEMMA DeliverAccepts ==
  ASSUME HubInv, NEW s \in Sessions, Deliver(s)
  PROVE  (\E t \in Tasks : Exchange!Accept(t, s)) \/ UNCHANGED Exchange!exchangeVars
<1>0. HubTypeOK /\ OnePlace /\ NothingBeforeTheCall /\ AcceptedHintsAccountedFor
  BY DEF HubInv
<1>1. PICK t : t = submit[s]
  OBVIOUS
<1>2. t \in Tasks /\ UNCHANGED <<help, outcome, answer>>
  BY <1>0, <1>1 DEF Deliver, HubTypeOK
<1>3. PICK v : /\ verdict' = [verdict EXCEPT ![t][s] = v]
               /\ (v = "accepted" /\ hintCh[t] = None) \/ v = "rejected"
  BY <1>1 DEF Deliver
<1>4. verdict[t][s] = "none" /\ help[t] # "idle"
  BY <1>0, <1>1, <1>2 DEF OnePlace, NothingBeforeTheCall
<1>5. \A u \in Tasks \ {t} : Accepted(u)' = Accepted(u)
  BY <1>0, <1>3 DEF Accepted, HubTypeOK
<1>6. \A r \in Sessions : verdict'[t][r] = IF r = s THEN v ELSE verdict[t][r]
  BY <1>0, <1>2, <1>3 DEF HubTypeOK
<1>7. \A u \in Tasks : RequestState(u)' = RequestState(u)
  BY <1>2 DEF RequestState
<1>8. CASE v = "accepted" /\ hintCh[t] = None
  <2>1. Accepted(t)' = Accepted(t) \cup {s} /\ s \notin Accepted(t)
    BY <1>4, <1>6, <1>8 DEF Accepted
  <2>2. Accepted(t) \ {answer[t]} = {}
    BY <1>0, <1>2, <1>8 DEF AcceptedHintsAccountedFor
  <2>3. RequestState(t) # "idle"
    BY <1>4 DEF RequestState
  <2>4. Exchange!Accept(t, s)
    BY <1>2, <1>5, <1>7, <2>1, <2>2, <2>3 DEF Exchange!Accept, Exchange!Unread
  <2>5. QED BY <1>2, <2>4
<1>9. CASE v = "rejected"
  <2>1. Accepted(t)' = Accepted(t)
    BY <1>4, <1>6, <1>9 DEF Accepted
  <2>2. QED BY <1>2, <1>5, <1>7, <2>1, Stutter
<1>10. QED BY <1>3, <1>8, <1>9

\* Every other step of the hub changes nothing the exchange shows.
LEMMA OtherStutters ==
  ASSUME HubInv,
         \/ \E t \in Tasks, s \in Sessions : Broadcast(t, s)
         \/ \E s \in Sessions : \/ Subscribe(s) \/ Forward(s) \/ Disconnect(s)
                                \/ Unsubscribe(s) \/ Skip(s) \/ SubmitHint(s)
  PROVE  UNCHANGED Exchange!exchangeVars
<1>0. HubTypeOK /\ OnePlace
  BY DEF HubInv
<1>1. ASSUME NEW t \in Tasks, NEW s \in Sessions, Broadcast(t, s)
      PROVE  UNCHANGED Exchange!exchangeVars
  <2>1. \A u \in Tasks : RequestState(u)' = RequestState(u)
    BY <1>0, <1>1 DEF Broadcast, RequestState, HubTypeOK
  <2>2. QED BY <1>1, <2>1, Stutter DEF Broadcast, Accepted, operatorVars
<1>2. ASSUME NEW s \in Sessions,
             Subscribe(s) \/ Forward(s) \/ Disconnect(s) \/ Unsubscribe(s) \/ Skip(s)
      PROVE  UNCHANGED Exchange!exchangeVars
  <2>1. UNCHANGED <<help, outcome, answer, verdict>>
    BY <1>2 DEF Subscribe, Forward, Disconnect, Unsubscribe, Skip, callVars, operatorVars
  <2>2. QED BY <2>1, Stutter DEF RequestState, Accepted
<1>3. ASSUME NEW s \in Sessions, SubmitHint(s)
      PROVE  UNCHANGED Exchange!exchangeVars
  <2>1. PICK t : t = Head(desk[s])
    OBVIOUS
  <2>2. UNCHANGED <<help, outcome, answer>> /\ t \in Tasks /\ In(desk[s], t)
    <3>1. UNCHANGED <<help, outcome, answer>> /\ desk[s] # <<>>
      BY <1>3 DEF SubmitHint, callVars
    <3>2. desk[s] \in Seq(Tasks)
      BY <1>0 DEF HubTypeOK
    <3>3. QED BY <2>1, <3>1, <3>2, InTail
  <2>3. verdict[t][s] = "none"
    BY <1>0, <2>2 DEF OnePlace
  <2>4. verdict' = verdict \/ verdict' = [verdict EXCEPT ![t][s] = "rejected"]
    BY <1>3, <2>1 DEF SubmitHint
  <2>5. \A u \in Tasks : Accepted(u)' = Accepted(u)
    <3>1. CASE verdict' = verdict
      BY <3>1 DEF Accepted
    <3>2. CASE verdict' = [verdict EXCEPT ![t][s] = "rejected"]
      <4>1. \A u \in Tasks \ {t} : verdict'[u] = verdict[u]
        BY <1>0, <3>2 DEF HubTypeOK
      <4>2. \A r \in Sessions : verdict'[t][r] = IF r = s THEN "rejected" ELSE verdict[t][r]
        BY <1>0, <2>2, <3>2 DEF HubTypeOK
      <4>3. QED BY <2>3, <4>1, <4>2 DEF Accepted
    <3>3. QED BY <2>4, <3>1, <3>2
  <2>6. QED BY <2>2, <2>5, Stutter DEF RequestState
<1>4. QED BY <1>1, <1>2, <1>3

LEMMA ExchangeStep ==
  HubInv /\ [HubNext]_hubVars => [Exchange!Next]_(Exchange!exchangeVars)
<1> SUFFICES ASSUME HubInv, [HubNext]_hubVars
             PROVE  [Exchange!Next]_(Exchange!exchangeVars)
  OBVIOUS
<1>1. CASE UNCHANGED hubVars
  BY <1>1, Stutter DEF hubVars, RequestState, Accepted
<1>2. ASSUME NEW t \in Tasks, Register(t)  PROVE Exchange!Next
  BY <1>2, RegisterAsks DEF Exchange!Next
<1>3. ASSUME NEW t \in Tasks, HelpStep(t)
      PROVE  Exchange!Next \/ UNCHANGED Exchange!exchangeVars
  BY <1>3, TakeHintAnswers, ExpireGivesUp, UnregisterGivesUp, OtherStutters
     DEF HelpStep, Exchange!Next
<1>4. ASSUME NEW s \in Sessions, OperatorStep(s)
      PROVE  Exchange!Next \/ UNCHANGED Exchange!exchangeVars
  BY <1>4, DeliverAccepts, OtherStutters DEF OperatorStep, Exchange!Next
<1>5. QED BY <1>1, <1>2, <1>3, <1>4 DEF HubNext

\* Locks, channels and goroutines of the hub do what the five steps of the help
\* exchange do: one request per task, one accepted hint per answer, and at most
\* one accepted hint that nobody reads.
THEOREM HubImplementsExchange == HubSpec => ImplementsExchange
<1>1. HubInit => Exchange!Init
  BY ExchangeInit
<1>2. HubInv /\ [HubNext]_hubVars => [Exchange!Next]_(Exchange!exchangeVars)
  BY ExchangeStep
<1>3. QED BY <1>1, <1>2, HubInvariant, PTL
   DEF HubSpec, ImplementsExchange, Exchange!Spec

-----------------------------------------------------------------------------
(* The loop around the hub. *)

LEMMA LoopRunsTheHub == Spec => HubSpec
<1>1. Init => HubInit
  BY DEF Init
<1>2. [Next]_vars => [HubNext]_hubVars
  <2>1. ASSUME NEW t \in Tasks, SingleShot(t)  PROVE UNCHANGED hubVars
    BY <2>1 DEF SingleShot
  <2>2. ASSUME NEW t \in Tasks, Begin(t)  PROVE UNCHANGED hubVars
    BY <2>2 DEF Begin
  <2>3. ASSUME NEW t \in Tasks, Attempt(t)  PROVE UNCHANGED hubVars
    BY <2>3 DEF Attempt
  <2>4. ASSUME NEW t \in Tasks, AskHelp(t)  PROVE HubNext
    BY <2>4 DEF AskHelp, HubNext
  <2>5. ASSUME NEW t \in Tasks, HubStep(t)  PROVE HubNext
    BY <2>5 DEF HubStep, HubNext
  <2>6. ASSUME NEW t \in Tasks, HelpReturns(t)  PROVE UNCHANGED hubVars
    BY <2>6 DEF HelpReturns
  <2>7. ASSUME NEW s \in Sessions, Operate(s)  PROVE HubNext
    BY <2>7 DEF Operate, HubNext
  <2>8. UNCHANGED vars => UNCHANGED hubVars
    BY DEF vars
  <2>9. QED BY <2>1, <2>2, <2>3, <2>4, <2>5, <2>6, <2>7, <2>8 DEF Next
<1>3. QED BY <1>1, <1>2, PTL DEF Spec, HubSpec

\* A hint an operator was told is accepted is the task's answer or lies in its
\* channel; nothing else is in either (DeliverHint, RequestHelp).
THEOREM AcceptedHints == Spec => []AcceptedHintsAccountedFor
<1>1. HubInv => AcceptedHintsAccountedFor
  BY DEF HubInv
<1>2. QED BY <1>1, LoopRunsTheHub, HubInvariant, PTL

\* The waiters map holds the calls that have not returned, no more, no fewer:
\* the deferred delete of RequestHelp runs on every way out.
THEOREM Waiters == Spec => []WaitersAreTheOpenCalls
<1>1. HubInv => WaitersAreTheOpenCalls
  BY DEF HubInv
<1>2. QED BY <1>1, LoopRunsTheHub, HubInvariant, PTL

\* An operator is turned away only after another hint was accepted for the task
\* or when the call of the task is over (RequestHelp, DeliverHint).
THEOREM Rejections == Spec => []RejectedOnlyWithReason
BY LoopRunsTheHub, HubRejects, PTL

\* The hub, driven by the retry loop and by the operators, implements the help
\* exchange.
THEOREM LoopImplementsExchange == Spec => ImplementsExchange
BY LoopRunsTheHub, HubImplementsExchange, PTL

-----------------------------------------------------------------------------
(* The retry loop.  Its invariant is about one task at a time: tasks meet in *)
(* the hub only, and what a task needs of the hub is in HubInv.              *)

\* The agent ran once in every attempt that is over.
RunsAreCounted(t) ==
  /\ attempt[t] \in 1 .. TotalAttempts
  /\ phase[t] = "idle" => runs[t] = <<>> /\ attempt[t] = 1
  /\ phase[t] = "attempt" => Len(runs[t]) = attempt[t] - 1
  /\ phase[t] \in {"ask", "asking"} =>
       /\ hitlCfg.hook
       /\ attempt[t] = PreHITLAttempts
       /\ Len(runs[t]) = PreHITLAttempts
  /\ phase[t] = "returned" => Len(runs[t]) \in 1 .. TotalAttempts

\* There is a hint in the extra attempt and after it, and at no other time; it
\* is what the task's call returned.
HintComesLast(t) ==
  /\ phase[t] \in {"idle", "ask", "asking"} => hint[t] = None
  /\ phase[t] = "attempt" => (hint[t] # None <=> attempt[t] = PreHITLAttempts + 1)
  /\ phase[t] = "returned" =>
       (hint[t] # None <=> Len(runs[t]) = PreHITLAttempts + 1)
  /\ hint[t] # None => help[t] = "returned" /\ outcome[t] = "hint" /\ hint[t] = answer[t]

\* The call is open while the loop waits for it and only then, and it is made
\* when the ordinary attempts are used up.
HelpIsAsked(t) ==
  /\ phase[t] \in {"attempt", "ask", "asking"} => directive[t]
  /\ phase[t] \in {"idle", "ask"} => help[t] = "idle"
  /\ phase[t] = "asking" => help[t] # "idle"
  /\ phase[t] = "attempt" /\ hint[t] = None => help[t] = "idle"
  /\ help[t] \in {"broadcast", "waiting", "cleanup"} => phase[t] = "asking"
  /\ help[t] # "idle" =>
       hitlCfg.hook /\ directive[t] /\ Len(runs[t]) >= PreHITLAttempts
  /\ help[t] # "idle" /\ result[t] = "success" => Len(runs[t]) = PreHITLAttempts + 1

PromptsInOrder(t) ==
  \A i \in 1 .. Len(runs[t]) :
    runs[t][i] = IF i = 1 THEN "pristine"
                 ELSE IF i > PreHITLAttempts THEN "hint" ELSE "previous"

\* What the loop stored and returned, and why.
EndIsExplained(t) ==
  /\ phase[t] # "returned" => lessons[t] = {} /\ result[t] = "none"
  /\ \A l \in lessons[t] :
       result[t] = "success" /\ hint[t] # None /\ l.hint = hint[t]
  /\ result[t] = "unavailable" => outcome[t] = "noSubscriber"
  /\ result[t] = "hookError" => outcome[t] = "noHint" /\ Len(runs[t]) = PreHITLAttempts
  /\ result[t] = "exhausted" => hint[t] # None /\ Len(runs[t]) = TotalAttempts
  /\ result[t] = "verifyFailed" => help[t] = "idle" /\ Len(runs[t]) = TotalAttempts

LoopOf(t) ==
  /\ RunsAreCounted(t)
  /\ HintComesLast(t)
  /\ HelpIsAsked(t)
  /\ PromptsInOrder(t)
  /\ EndIsExplained(t)

LoopInv ==
  /\ TypeOK
  /\ \A t \in Tasks : LoopOf(t)

\* A task nothing happened to.
LEMMA OthersKeepTheirLoop ==
  ASSUME NEW u \in Tasks, LoopOf(u), UNCHANGED <<hitlCfg, directive>>,
         phase'[u] = phase[u], attempt'[u] = attempt[u], runs'[u] = runs[u],
         hint'[u] = hint[u], lessons'[u] = lessons[u], result'[u] = result[u],
         help'[u] = help[u], answer'[u] = answer[u], outcome'[u] = outcome[u]
  PROVE  LoopOf(u)'
<1>1. PreHITLAttempts' = PreHITLAttempts /\ TotalAttempts' = TotalAttempts
  BY DEF PreHITLAttempts, TotalAttempts
<1>2. RunsAreCounted(u)'
  BY <1>1 DEF LoopOf, RunsAreCounted
<1>3. HintComesLast(u)'
  BY <1>1 DEF LoopOf, HintComesLast
<1>4. HelpIsAsked(u)'
  BY <1>1 DEF LoopOf, HelpIsAsked
<1>5. PromptsInOrder(u)'
  BY <1>1 DEF LoopOf, PromptsInOrder
<1>6. EndIsExplained(u)'
  BY <1>1 DEF LoopOf, EndIsExplained
<1>7. QED BY <1>2, <1>3, <1>4, <1>5, <1>6 DEF LoopOf

\* The number of attempts, as the provers need it.
LEMMA AttemptsAreCounted ==
  ASSUME TypeOK
  PROVE  /\ PreHITLAttempts \in Nat \ {0}
         /\ hitlCfg.hook \in BOOLEAN
         /\ hitlCfg.hook => TotalAttempts = PreHITLAttempts + 1
         /\ ~hitlCfg.hook => TotalAttempts = PreHITLAttempts
BY LoopAssumption DEF TypeOK, PreHITLAttempts, TotalAttempts

LEMMA LoopInvInit == Init => LoopInv
<1> SUFFICES ASSUME Init  PROVE LoopInv
  OBVIOUS
<1>1. TypeOK
  BY HubInvInit DEF Init, HubInv, TypeOK, Phases, Results
<1>2. ASSUME NEW t \in Tasks  PROVE LoopOf(t)
  <2>1. RunsAreCounted(t)
    BY <1>1, AttemptsAreCounted DEF Init, RunsAreCounted
  <2>2. HintComesLast(t) /\ HelpIsAsked(t)
    BY DEF Init, HubInit, HintComesLast, HelpIsAsked
  <2>3. PromptsInOrder(t) /\ EndIsExplained(t)
    BY DEF Init, PromptsInOrder, EndIsExplained
  <2>4. QED BY <2>1, <2>2, <2>3 DEF LoopOf
<1>3. QED BY <1>1, <1>2 DEF LoopInv

\* A task without a directive runs its agent once.
LEMMA SingleShotStep ==
  ASSUME HubInv', LoopInv, NEW t \in Tasks, SingleShot(t)
  PROVE  LoopInv'
<1>1. PICK r \in {"success", "agentError"} :
        /\ phase' = [phase EXCEPT ![t] = "returned"]
        /\ result' = [result EXCEPT ![t] = r]
  BY DEF SingleShot, Return
<1>2. /\ phase[t] = "idle" /\ ~directive[t]
      /\ runs' = [runs EXCEPT ![t] = <<"pristine">>]
      /\ UNCHANGED <<hitlCfg, directive, attempt, hint, lessons>>
      /\ UNCHANGED <<help, answer, outcome>>
  BY DEF SingleShot, hubVars
<1>3. TypeOK'
  <2>1. <<"pristine">> \in Seq(Prompts)
    BY DEF Prompts
  <2>2. QED BY <1>1, <1>2, <2>1 DEF LoopInv, TypeOK, HubInv, Phases, Results
<1>4. ASSUME NEW u \in Tasks, u # t  PROVE LoopOf(u)'
  BY <1>1, <1>2, <1>4, OthersKeepTheirLoop DEF LoopInv, TypeOK
<1>5. LoopOf(t)'
  <2>1. /\ phase'[t] = "returned" /\ runs'[t] = <<"pristine">> /\ result'[t] = r
        /\ lessons'[t] = {} /\ hint'[t] = None /\ help'[t] = "idle"
        /\ Len(runs'[t]) = 1 /\ attempt'[t] = 1 /\ ~directive'[t]
    BY <1>1, <1>2 DEF LoopInv, LoopOf, TypeOK, RunsAreCounted, HintComesLast,
       HelpIsAsked, EndIsExplained
  <2>2. PreHITLAttempts' = PreHITLAttempts /\ TotalAttempts' = TotalAttempts
    BY <1>2 DEF PreHITLAttempts, TotalAttempts
  <2>3. RunsAreCounted(t)' /\ HintComesLast(t)'
    BY <2>1, <2>2, AttemptsAreCounted DEF LoopInv, RunsAreCounted, HintComesLast
  <2>4. HelpIsAsked(t)' /\ EndIsExplained(t)'
    BY <1>1, <2>1 DEF HelpIsAsked, EndIsExplained
  <2>5. PromptsInOrder(t)'
    BY <2>1 DEF PromptsInOrder
  <2>6. QED BY <2>3, <2>4, <2>5 DEF LoopOf
<1>6. QED BY <1>3, <1>4, <1>5 DEF LoopInv

LEMMA BeginStep ==
  ASSUME HubInv', LoopInv, NEW t \in Tasks, Begin(t)
  PROVE  LoopInv'
<1>1. /\ phase[t] = "idle" /\ directive[t]
      /\ phase' = [phase EXCEPT ![t] = "attempt"]
      /\ UNCHANGED <<hitlCfg, directive, attempt, runs, hint, lessons, result>>
      /\ UNCHANGED <<help, answer, outcome>>
  BY DEF Begin, hubVars
<1>2. TypeOK'
  BY <1>1 DEF LoopInv, TypeOK, HubInv, Phases
<1>3. ASSUME NEW u \in Tasks, u # t  PROVE LoopOf(u)'
  BY <1>1, <1>3, OthersKeepTheirLoop DEF LoopInv, TypeOK
<1>4. LoopOf(t)'
  <2>1. phase'[t] = "attempt"
    BY <1>1 DEF LoopInv, TypeOK
  <2>2. /\ runs[t] = <<>> /\ attempt[t] = 1 /\ hint[t] = None /\ help[t] = "idle"
        /\ lessons[t] = {} /\ result[t] = "none"
    BY <1>1 DEF LoopInv, LoopOf, RunsAreCounted, HintComesLast, HelpIsAsked,
       EndIsExplained
  <2>3. PreHITLAttempts' = PreHITLAttempts /\ TotalAttempts' = TotalAttempts
    BY <1>1 DEF PreHITLAttempts, TotalAttempts
  <2>4. RunsAreCounted(t)' /\ HintComesLast(t)'
    BY <1>1, <2>1, <2>2, <2>3, AttemptsAreCounted
    DEF LoopInv, RunsAreCounted, HintComesLast
  <2>5. HelpIsAsked(t)' /\ EndIsExplained(t)' /\ PromptsInOrder(t)'
    BY <1>1, <2>1, <2>2 DEF HelpIsAsked, EndIsExplained, PromptsInOrder
  <2>6. QED BY <2>4, <2>5 DEF LoopOf
<1>5. QED BY <1>2, <1>3, <1>4 DEF LoopInv

\* What Append does to the runs of a task.
LEMMA OneMoreRun ==
  ASSUME NEW seq \in Seq(Prompts), NEW e \in Prompts
  PROVE  /\ Append(seq, e) \in Seq(Prompts)
         /\ Len(Append(seq, e)) = Len(seq) + 1
         /\ \A i \in 1 .. Len(seq) : Append(seq, e)[i] = seq[i]
         /\ Append(seq, e)[Len(seq) + 1] = e
OBVIOUS

LEMMA AttemptStep ==
  ASSUME HubInv', LoopInv, NEW t \in Tasks, Attempt(t)
  PROVE  LoopInv'
<1>1. /\ phase[t] = "attempt"
      /\ runs' = [runs EXCEPT ![t] = Append(@, Prompt(t))]
      /\ UNCHANGED <<hitlCfg, directive, hint>>
      /\ UNCHANGED <<help, answer, outcome>>
  BY DEF Attempt, hubVars
<1>2. /\ attempt[t] \in 1 .. TotalAttempts /\ Len(runs[t]) = attempt[t] - 1
      /\ hint[t] # None <=> attempt[t] = PreHITLAttempts + 1
      /\ hint[t] # None => help[t] = "returned" /\ outcome[t] = "hint" /\ hint[t] = answer[t]
      /\ hint[t] = None => help[t] = "idle"
      /\ directive[t] /\ lessons[t] = {} /\ result[t] = "none"
  BY <1>1 DEF LoopInv, LoopOf, RunsAreCounted, HintComesLast, HelpIsAsked, EndIsExplained
<1>3. /\ PreHITLAttempts \in Nat \ {0} /\ hitlCfg.hook \in BOOLEAN
      /\ hitlCfg.hook => TotalAttempts = PreHITLAttempts + 1
      /\ ~hitlCfg.hook => TotalAttempts = PreHITLAttempts
      /\ PreHITLAttempts' = PreHITLAttempts /\ TotalAttempts' = TotalAttempts
  BY <1>1, AttemptsAreCounted DEF LoopInv, PreHITLAttempts, TotalAttempts
<1>4. /\ attempt[t] \in Nat /\ runs[t] \in Seq(Prompts) /\ Prompt(t) \in Prompts
      /\ Len(runs[t]) + 1 = attempt[t]
  BY <1>2, <1>3 DEF LoopInv, TypeOK, Prompt, Prompts
<1>5. /\ Append(runs[t], Prompt(t)) \in Seq(Prompts)
      /\ runs'[t] = Append(runs[t], Prompt(t))
      /\ \A u \in Tasks \ {t} : runs'[u] = runs[u]
      /\ Len(runs'[t]) = attempt[t]
      /\ \A i \in 1 .. Len(runs[t]) : runs'[t][i] = runs[t][i]
      /\ runs'[t][attempt[t]] = Prompt(t)
  BY <1>1, <1>4, OneMoreRun DEF LoopInv, TypeOK
<1>6. /\ \A u \in Tasks \ {t} :
           /\ phase'[u] = phase[u] /\ attempt'[u] = attempt[u]
           /\ lessons'[u] = lessons[u] /\ result'[u] = result[u]
      /\ phase' \in [Tasks -> Phases] /\ result' \in [Tasks -> Results]
      /\ attempt' \in [Tasks -> Nat] /\ lessons' \in [Tasks -> SUBSET Lessons]
  <2>1. CASE Passes(t)
    <3>1. HintInjected(t) => LessonOf(t) \in Lessons
      BY DEF LoopInv, TypeOK, HintInjected, LessonOf, Lessons
    <3>2. /\ phase' = [phase EXCEPT ![t] = "returned"]
          /\ result' = [result EXCEPT ![t] = "success"]
          /\ attempt' = attempt
      BY <2>1 DEF Passes, Return
    <3>3. \/ lessons' = lessons
          \/ /\ LessonOf(t) \in Lessons
             /\ lessons' = [lessons EXCEPT ![t] = @ \cup {LessonOf(t)}]
      BY <2>1, <3>1 DEF Passes
    <3>4. /\ lessons' \in [Tasks -> SUBSET Lessons]
          /\ \A u \in Tasks \ {t} : lessons'[u] = lessons[u]
      <4>1. lessons \in [Tasks -> SUBSET Lessons]
        BY DEF LoopInv, TypeOK
      <4>2. PICK new \in SUBSET Lessons :
              lessons' = lessons \/ lessons' = [lessons EXCEPT ![t] = new]
        BY <3>3, <4>1
      <4>3. QED BY <4>1, <4>2
    <3>5. QED BY <3>2, <3>4 DEF LoopInv, TypeOK, Phases, Results
  <2>2. CASE Fails(t)
    <3>1. lessons' = lessons /\ (attempt' = attempt \/ attempt' = [attempt EXCEPT ![t] = @ + 1])
      BY <2>2 DEF Fails
    <3>2. PICK r \in {"exhausted", "verifyFailed"}, p \in {"ask", "returned"} :
            /\ phase' = phase \/ phase' = [phase EXCEPT ![t] = p]
            /\ result' = result \/ result' = [result EXCEPT ![t] = r]
      BY <2>2 DEF Fails, Return
    <3>3. /\ phase' \in [Tasks -> Phases] /\ result' \in [Tasks -> Results]
          /\ \A u \in Tasks \ {t} : phase'[u] = phase[u] /\ result'[u] = result[u]
      <4>1. phase \in [Tasks -> Phases] /\ result \in [Tasks -> Results]
        BY DEF LoopInv, TypeOK
      <4>2. r \in Results /\ p \in Phases
        BY DEF Phases, Results
      <4>3. phase' \in [Tasks -> Phases] /\ \A u \in Tasks \ {t} : phase'[u] = phase[u]
        BY ONLY <3>2, <4>1, <4>2
      <4>4. result' \in [Tasks -> Results] /\ \A u \in Tasks \ {t} : result'[u] = result[u]
        BY ONLY <3>2, <4>1, <4>2
      <4>5. QED BY <4>3, <4>4
    <3>4. attempt' \in [Tasks -> Nat] /\ \A u \in Tasks \ {t} : attempt'[u] = attempt[u]
      BY <3>1 DEF LoopInv, TypeOK
    <3>5. QED BY <3>1, <3>3, <3>4 DEF LoopInv, TypeOK
  <2>3. QED BY <2>1, <2>2 DEF Attempt
<1>7. \* How the attempt of t ends.
      \/ /\ phase'[t] = "returned" /\ result'[t] = "success" /\ attempt'[t] = attempt[t]
         /\ lessons'[t] = {} \/ (hint[t] # None /\ lessons'[t] = {LessonOf(t)})
      \/ /\ phase'[t] = "ask" /\ result'[t] = "none" /\ attempt'[t] = attempt[t]
         /\ lessons'[t] = {}
         /\ hint[t] = None /\ attempt[t] = PreHITLAttempts /\ hitlCfg.hook
      \/ /\ phase'[t] = "returned" /\ attempt'[t] = attempt[t] /\ lessons'[t] = {}
         /\ attempt[t] = TotalAttempts
         /\ result'[t] = IF hint[t] # None THEN "exhausted" ELSE "verifyFailed"
      \/ /\ phase'[t] = "attempt" /\ result'[t] = "none" /\ lessons'[t] = {}
         /\ attempt'[t] = attempt[t] + 1
         /\ attempt[t] # TotalAttempts
         /\ hint[t] # None \/ attempt[t] # PreHITLAttempts \/ ~hitlCfg.hook
  <2>1. CASE Passes(t)
    BY <1>2, <2>1 DEF Passes, Return, HintInjected, LoopInv, TypeOK
  <2>2. CASE Fails(t)
    BY <1>1, <1>2, <2>2 DEF Fails, AsksForHelp, Return, HintInjected, LoopInv, TypeOK
  <2>3. QED BY <2>1, <2>2 DEF Attempt
<1>8. TypeOK'
  BY <1>1, <1>5, <1>6 DEF LoopInv, TypeOK, HubInv
<1>9. ASSUME NEW u \in Tasks, u # t  PROVE LoopOf(u)'
  BY <1>1, <1>5, <1>6, <1>9, OthersKeepTheirLoop DEF LoopInv
<1>10. LoopOf(t)'
  <2>1. RunsAreCounted(t)' /\ HintComesLast(t)'
    BY <1>1, <1>2, <1>3, <1>4, <1>5, <1>7 DEF RunsAreCounted, HintComesLast
  <2>2. HelpIsAsked(t)' /\ EndIsExplained(t)'
    BY <1>1, <1>2, <1>3, <1>4, <1>5, <1>7 DEF HelpIsAsked, EndIsExplained, LessonOf
  <2>3. PromptsInOrder(t)'
    <3>1. Prompt(t) = IF attempt[t] = 1 THEN "pristine"
                      ELSE IF attempt[t] > PreHITLAttempts THEN "hint" ELSE "previous"
      BY <1>2, <1>3, <1>4 DEF Prompt, HintInjected
    <3>2. PromptsInOrder(t)
      BY DEF LoopInv, LoopOf
    <3>3. ASSUME NEW i \in 1 .. Len(runs'[t])
          PROVE  runs'[t][i] = IF i = 1 THEN "pristine"
                               ELSE IF i > PreHITLAttempts THEN "hint" ELSE "previous"
      <4>1. i = attempt[t] \/ i \in 1 .. Len(runs[t])
        BY <1>4, <1>5
      <4>2. CASE i = attempt[t]
        BY <1>5, <3>1, <4>2
      <4>3. CASE i \in 1 .. Len(runs[t])
        BY <1>5, <3>2, <4>3 DEF PromptsInOrder
      <4>4. QED BY <4>1, <4>2, <4>3
    <3>4. QED BY <1>3, <3>3 DEF PromptsInOrder
  <2>4. QED BY <2>1, <2>2, <2>3 DEF LoopOf
<1>11. QED BY <1>8, <1>9, <1>10 DEF LoopInv

LEMMA AskHelpStep ==
  ASSUME HubInv', LoopInv, NEW t \in Tasks, AskHelp(t)
  PROVE  LoopInv'
<1>1. /\ phase[t] = "ask"
      /\ phase' = [phase EXCEPT ![t] = "asking"]
      /\ UNCHANGED <<hitlCfg, directive, attempt, runs, hint, lessons, result, answer>>
  BY DEF AskHelp, Register
<1>2. /\ help'[t] \in {"broadcast", "cleanup"}
      /\ \A u \in Tasks \ {t} : help'[u] = help[u] /\ outcome'[u] = outcome[u]
  BY DEF AskHelp, Register, LoopInv, TypeOK, HubTypeOK
<1>3. TypeOK'
  BY <1>1 DEF LoopInv, TypeOK, HubInv, Phases
<1>4. ASSUME NEW u \in Tasks, u # t  PROVE LoopOf(u)'
  BY <1>1, <1>2, <1>4, OthersKeepTheirLoop DEF LoopInv, TypeOK
<1>5. LoopOf(t)'
  <2>1. phase'[t] = "asking"
    BY <1>1 DEF LoopInv, TypeOK
  <2>2. PreHITLAttempts' = PreHITLAttempts /\ TotalAttempts' = TotalAttempts
    BY <1>1 DEF PreHITLAttempts, TotalAttempts
  <2>3. PreHITLAttempts \in Nat
    BY AttemptsAreCounted DEF LoopInv
  <2>4. RunsAreCounted(t)' /\ HintComesLast(t)'
    BY <1>1, <2>1, <2>2 DEF LoopInv, LoopOf, RunsAreCounted, HintComesLast
  <2>5. HelpIsAsked(t)'
    BY <1>1, <1>2, <2>1, <2>2, <2>3
    DEF LoopInv, LoopOf, RunsAreCounted, HelpIsAsked, EndIsExplained
  <2>6. PromptsInOrder(t)' /\ EndIsExplained(t)'
    BY <1>1, <2>1, <2>2 DEF LoopInv, LoopOf, PromptsInOrder, EndIsExplained
  <2>7. QED BY <2>4, <2>5, <2>6 DEF LoopOf
<1>6. QED BY <1>3, <1>4, <1>5 DEF LoopInv

\* A call moves only while the loop of its task waits for it.
LEMMA HubStepStep ==
  ASSUME HubInv', LoopInv, NEW t \in Tasks, HubStep(t)
  PROVE  LoopInv'
<1>1. UNCHANGED <<hitlCfg, directive, phase, attempt, runs, hint, lessons, result>>
  BY DEF HubStep, loopVars
<1>2. /\ help[t] \in {"broadcast", "waiting", "cleanup"}
      /\ help'[t] \in {"broadcast", "waiting", "cleanup", "returned"}
      /\ \A u \in Tasks \ {t} :
           help'[u] = help[u] /\ answer'[u] = answer[u] /\ outcome'[u] = outcome[u]
  BY DEF HubStep, HelpStep, Broadcast, TakeHint, Expire, Unregister, LoopInv, TypeOK,
     HubTypeOK
<1>3. TypeOK'
  BY <1>1 DEF LoopInv, TypeOK, HubInv
<1>4. ASSUME NEW u \in Tasks, u # t  PROVE LoopOf(u)'
  BY <1>1, <1>2, <1>4, OthersKeepTheirLoop DEF LoopInv
<1>5. LoopOf(t)'
  <2>1. phase[t] = "asking" /\ hint[t] = None /\ lessons[t] = {} /\ result[t] = "none"
    BY <1>2 DEF LoopInv, LoopOf, HelpIsAsked, HintComesLast, EndIsExplained
  <2>2. PreHITLAttempts' = PreHITLAttempts /\ TotalAttempts' = TotalAttempts
    BY <1>1 DEF PreHITLAttempts, TotalAttempts
  <2>3. RunsAreCounted(t)' /\ PromptsInOrder(t)'
    BY <1>1, <2>2 DEF LoopInv, LoopOf, RunsAreCounted, PromptsInOrder
  <2>4. HintComesLast(t)' /\ EndIsExplained(t)'
    BY <1>1, <2>1 DEF HintComesLast, EndIsExplained
  <2>5. HelpIsAsked(t)'
    BY <1>1, <1>2, <2>1, <2>2 DEF LoopInv, LoopOf, HelpIsAsked
  <2>6. QED BY <2>3, <2>4, <2>5 DEF LoopOf
<1>6. QED BY <1>3, <1>4, <1>5 DEF LoopInv

LEMMA HelpReturnsStep ==
  ASSUME HubInv', LoopInv, NEW t \in Tasks, HelpReturns(t)
  PROVE  LoopInv'
<1>1. /\ phase[t] = "asking" /\ help[t] = "returned"
      /\ UNCHANGED <<hitlCfg, directive, runs, lessons>>
      /\ UNCHANGED <<help, answer, outcome>>
  BY DEF HelpReturns, hubVars
<1>2. \/ /\ outcome[t] = "hint"
         /\ hint' = [hint EXCEPT ![t] = answer[t]]
         /\ attempt' = [attempt EXCEPT ![t] = @ + 1]
         /\ phase' = [phase EXCEPT ![t] = "attempt"]
         /\ UNCHANGED result
      \/ /\ phase' = [phase EXCEPT ![t] = "returned"]
         /\ \/ outcome[t] = "noSubscriber"
               /\ result' = [result EXCEPT ![t] = "unavailable"]
            \/ outcome[t] = "noHint"
               /\ result' = [result EXCEPT ![t] = "hookError"]
         /\ UNCHANGED <<hint, attempt>>
  BY DEF HelpReturns, Return
<1>3. TypeOK'
  <2>1. answer[t] \in Sessions \cup {None} /\ attempt[t] + 1 \in Nat
    BY DEF LoopInv, TypeOK, HubTypeOK
  <2>2. PICK p \in Phases, r \in Results :
          /\ phase' = [phase EXCEPT ![t] = p]
          /\ result' = result \/ result' = [result EXCEPT ![t] = r]
          /\ hint' = hint \/ hint' = [hint EXCEPT ![t] = answer[t]]
          /\ attempt' = attempt \/ attempt' = [attempt EXCEPT ![t] = attempt[t] + 1]
    BY <1>2 DEF Phases, Results
  <2>3. phase' \in [Tasks -> Phases]
    BY <2>2 DEF LoopInv, TypeOK
  <2>4. result' \in [Tasks -> Results]
    BY <2>2 DEF LoopInv, TypeOK
  <2>5. hint' \in [Tasks -> Sessions \cup {None}]
    BY <2>1, <2>2 DEF LoopInv, TypeOK
  <2>6. attempt' \in [Tasks -> Nat]
    BY <2>1, <2>2 DEF LoopInv, TypeOK
  <2>7. HubTypeOK'
    BY DEF HubInv
  <2>8. QED BY <1>1, <2>3, <2>4, <2>5, <2>6, <2>7 DEF LoopInv, TypeOK
<1>4. ASSUME NEW u \in Tasks, u # t  PROVE LoopOf(u)'
  BY <1>1, <1>2, <1>4, OthersKeepTheirLoop DEF LoopInv, TypeOK
<1>5. LoopOf(t)'
  <2>1. /\ hitlCfg.hook /\ directive[t] /\ hint[t] = None
        /\ attempt[t] = PreHITLAttempts /\ Len(runs[t]) = PreHITLAttempts
        /\ lessons[t] = {} /\ result[t] = "none"
    BY <1>1 DEF LoopInv, LoopOf, RunsAreCounted, HelpIsAsked, HintComesLast,
       EndIsExplained
  <2>2. /\ PreHITLAttempts \in Nat \ {0} /\ TotalAttempts = PreHITLAttempts + 1
        /\ PreHITLAttempts' = PreHITLAttempts /\ TotalAttempts' = TotalAttempts
    BY <1>1, <2>1, AttemptsAreCounted DEF LoopInv, PreHITLAttempts, TotalAttempts
  <2>3. outcome[t] = "hint" => answer[t] # None
    BY <1>1 DEF HubInv, AnswerAfterSelect
  <2>4. \/ /\ outcome[t] = "hint" /\ hint'[t] = answer[t] /\ hint'[t] # None
           /\ attempt'[t] = PreHITLAttempts + 1 /\ phase'[t] = "attempt"
           /\ result'[t] = "none"
        \/ /\ phase'[t] = "returned" /\ hint'[t] = None
           /\ attempt'[t] = PreHITLAttempts
           /\ \/ outcome[t] = "noSubscriber" /\ result'[t] = "unavailable"
              \/ outcome[t] = "noHint" /\ result'[t] = "hookError"
    BY <1>2, <2>1, <2>3 DEF LoopInv, TypeOK
  <2>5. RunsAreCounted(t)' /\ HintComesLast(t)'
    BY <1>1, <2>1, <2>2, <2>4 DEF RunsAreCounted, HintComesLast
  <2>6. HelpIsAsked(t)' /\ EndIsExplained(t)'
    BY <1>1, <2>1, <2>2, <2>4 DEF HelpIsAsked, EndIsExplained
  <2>7. PromptsInOrder(t)'
    BY <1>1, <2>2 DEF LoopInv, LoopOf, PromptsInOrder
  <2>8. QED BY <2>5, <2>6, <2>7 DEF LoopOf
<1>6. QED BY <1>3, <1>4, <1>5 DEF LoopInv

\* Operators do not touch a call.
LEMMA OperateStep ==
  ASSUME HubInv', LoopInv, NEW s \in Sessions, Operate(s)
  PROVE  LoopInv'
<1>1. UNCHANGED <<hitlCfg, directive, phase, attempt, runs, hint, lessons, result>>
  BY DEF Operate, loopVars
<1>2. UNCHANGED <<help, answer, outcome>>
  BY DEF Operate, OperatorStep, Subscribe, Forward, Disconnect, Unsubscribe, Skip,
     SubmitHint, Deliver, callVars
<1>3. TypeOK'
  BY <1>1 DEF LoopInv, TypeOK, HubInv
<1>4. ASSUME NEW u \in Tasks  PROVE LoopOf(u)'
  BY <1>1, <1>2, OthersKeepTheirLoop DEF LoopInv
<1>5. QED BY <1>3, <1>4 DEF LoopInv

LEMMA LoopInvStep == HubInv' /\ LoopInv /\ [Next]_vars => LoopInv'
<1> SUFFICES ASSUME HubInv', LoopInv, [Next]_vars  PROVE LoopInv'
  OBVIOUS
<1>1. CASE UNCHANGED vars
  <2>1. /\ UNCHANGED <<hitlCfg, directive, phase, attempt, runs, hint, lessons, result>>
        /\ UNCHANGED <<help, answer, outcome>>
    BY <1>1 DEF vars, hubVars, loopVars
  <2>2. \A u \in Tasks : LoopOf(u)'
    BY <2>1, OthersKeepTheirLoop DEF LoopInv
  <2>3. TypeOK'
    BY <2>1 DEF LoopInv, TypeOK, HubInv
  <2>4. QED BY <2>2, <2>3 DEF LoopInv
<1>2. CASE Next
  BY <1>2, SingleShotStep, BeginStep, AttemptStep, AskHelpStep, HubStepStep,
     HelpReturnsStep, OperateStep DEF Next
<1>3. QED BY <1>1, <1>2

\* The invariant, for every task.
LEMMA LoopInvariant == Spec => [](HubInv /\ LoopInv)
BY LoopInvInit, LoopInvStep, LoopRunsTheHub, HubInvariant, PTL DEF Spec

\* Every variable of the hub and of the loop keeps its type.
THEOREM LoopTypes == Spec => []TypeOK
<1>1. LoopInv => TypeOK
  BY DEF LoopInv
<1>2. QED BY <1>1, LoopInvariant, PTL

\* The agent runs at most MaxRetries + 1 times, and once more only for a task
\* whose call returned a hint the hub accepted (executeWithRetry).
THEOREM Budget == Spec => []BudgetIsKept
<1>1. HubInv /\ LoopInv => BudgetIsKept
  <2> SUFFICES ASSUME HubInv, LoopInv, NEW t \in Tasks,
                      Len(runs[t]) > PreHITLAttempts
               PROVE  /\ Len(runs[t]) = PreHITLAttempts + 1
                      /\ outcome[t] = "hint"
                      /\ answer[t] \in Accepted(t)
    BY DEF BudgetIsKept
  <2>1. LoopOf(t) /\ phase[t] \in Phases /\ PreHITLAttempts \in Nat \ {0}
    BY AttemptsAreCounted DEF LoopInv, TypeOK
  <2>2. /\ TotalAttempts \in {PreHITLAttempts, PreHITLAttempts + 1}
        /\ Len(runs[t]) \in Nat
    BY AttemptsAreCounted DEF LoopInv, TypeOK
  <2>3. Len(runs[t]) = PreHITLAttempts + 1 /\ phase[t] = "returned"
    BY <2>1, <2>2 DEF LoopOf, RunsAreCounted, Phases
  <2>4. outcome[t] = "hint"
    BY <2>1, <2>3 DEF LoopOf, HintComesLast
  <2>5. answer[t] \in Accepted(t)
    BY <2>4 DEF HubInv, AnswerAfterSelect, AcceptedHintsAccountedFor
  <2>6. QED BY <2>3, <2>4, <2>5
<1>2. QED BY <1>1, LoopInvariant, PTL

\* No request for a task reaches an operator before the task has used up its
\* ordinary attempts (executeWithRetry, RequestHelp).
THEOREM HelpIsForTheStuck == Spec => []HelpOnlyWhenStuck
<1>1. LoopInv => HelpOnlyWhenStuck
  BY DEF LoopInv, LoopOf, HelpIsAsked, HelpOnlyWhenStuck
<1>2. QED BY <1>1, LoopInvariant, PTL

\* Each attempt is shown what its number says: the task, the last failure, and
\* the hint in the extra attempt (executeWithRetry).
THEOREM Protocol == Spec => []PromptsFollowProtocol
<1>1. LoopInv => PromptsFollowProtocol
  BY DEF LoopInv, LoopOf, PromptsInOrder, PromptsFollowProtocol
<1>2. QED BY <1>1, LoopInvariant, PTL

\* A stored lesson belongs to a task that passed with the hint it credits, and
\* an operator was told that this hint was accepted (RecordLesson).
THEOREM LessonsCredit == Spec => []LessonsAreEarned
<1>1. HubInv /\ LoopInv => LessonsAreEarned
  <2> SUFFICES ASSUME HubInv, LoopInv, NEW t \in Tasks, NEW l \in lessons[t]
               PROVE  /\ result[t] = "success"
                      /\ runs[t][Len(runs[t])] = "hint"
                      /\ l.hint = answer[t] /\ l.hint \in Accepted(t)
    BY DEF LessonsAreEarned
  <2>1. LoopOf(t) /\ PreHITLAttempts \in Nat \ {0}
    BY AttemptsAreCounted DEF LoopInv
  <2>2. result[t] = "success" /\ hint[t] # None /\ l.hint = hint[t]
    BY <2>1 DEF LoopOf, EndIsExplained
  <2>3. phase[t] = "returned"
    BY <2>1, <2>2 DEF LoopOf, EndIsExplained
  <2>4. Len(runs[t]) = PreHITLAttempts + 1 /\ hint[t] = answer[t]
    BY <2>1, <2>2, <2>3 DEF LoopOf, HintComesLast
  <2>5. runs[t][Len(runs[t])] = "hint"
    BY <2>1, <2>4 DEF LoopOf, PromptsInOrder
  <2>6. answer[t] \in Accepted(t)
    BY <2>2, <2>4 DEF HubInv, AcceptedHintsAccountedFor
  <2>7. QED BY <2>2, <2>4, <2>5, <2>6
<1>2. QED BY <1>1, LoopInvariant, PTL

\* The error a task returns tells what its help call met: no operator, no hint,
\* a hint that did not help, or no hook at all (executeWithRetry).
THEOREM ResultsTellTheTruth == Spec => []ResultMatchesHub
<1>1. HubInv /\ LoopInv => ResultMatchesHub
  <2> SUFFICES ASSUME HubInv, LoopInv, NEW t \in Tasks
      PROVE  /\ result[t] = "unavailable" =>
                  \A s \in Sessions : verdict[t][s] = "none" /\ submit[s] # t
             /\ result[t] = "hookError" =>
                  answer[t] = None /\ Len(runs[t]) = PreHITLAttempts
             /\ result[t] = "exhausted" =>
                  answer[t] # None /\ Len(runs[t]) = TotalAttempts
             /\ result[t] = "verifyFailed" =>
                  help[t] = "idle" /\ Len(runs[t]) = TotalAttempts
    BY DEF ResultMatchesHub
  <2>1. EndIsExplained(t) /\ HintComesLast(t)
    BY DEF LoopInv, LoopOf
  <2>2. result[t] = "unavailable" =>
          \A s \in Sessions : verdict[t][s] = "none" /\ submit[s] # t
    BY <2>1 DEF EndIsExplained, HubInv, NothingBeforeTheCall
  <2>3. result[t] = "hookError" => answer[t] = None
    BY <2>1 DEF EndIsExplained, HubInv, AnswerAfterSelect
  <2>4. result[t] = "exhausted" => answer[t] # None
    BY <2>1 DEF EndIsExplained, HintComesLast
  <2>5. QED BY <2>1, <2>2, <2>3, <2>4 DEF EndIsExplained
<1>2. QED BY <1>1, LoopInvariant, PTL
=============================================================================

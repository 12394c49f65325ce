-------------------------- MODULE LlmRoutingProofs --------------------------
(***************************************************************************)
(* The safety of the circuit breaker under concurrent calls, for every     *)
(* number of callers and providers and every threshold; and of a streamed  *)
(* answer, for every capacity of the channels it comes through.            *)
(***************************************************************************)
EXTENDS LlmRouting, ChunkStream, SequenceTheorems, TLAPS

\* A goroutine past the router's selection has a provider.
Targeted ==
  \A c \in Callers :
    phase[c] \in {"admit", "inFlight", "clearError", "setError"} => target[c] \in Providers

RoutingInv == TypeOK /\ Targeted /\ ClosedBelowThreshold

-----------------------------------------------------------------------------
(* One operation on a breaker. *)

BreakerTypeOK ==
  /\ state \in [Providers -> CircuitStates]
  /\ failures \in [Providers -> 0 .. Threshold]
  /\ cooled \in [Providers -> BOOLEAN]

BreakerOK == BreakerTypeOK /\ ClosedBelowThreshold

\* What a step may do to a breaker that is open.
OpenStep(p) == state[p] = "open" /\ state'[p] # "open" => cooled[p] /\ state'[p] = "halfOpen"

LEMMA AllowOK ==
  ASSUME BreakerOK, NEW p \in Providers, Allow(p), UNCHANGED <<failures, cooled>>
  PROVE  BreakerOK' /\ \A q \in Providers : OpenStep(q)
BY DEF BreakerOK, BreakerTypeOK, ClosedBelowThreshold, Allow, CircuitStates, OpenStep

LEMMA SuccessOK ==
  ASSUME BreakerOK, NEW p \in Providers, RecordSuccess(p)
  PROVE  BreakerOK' /\ \A q \in Providers : OpenStep(q)
<1> USE RoutingAssumption
<1>1. BreakerTypeOK'
  BY DEF BreakerOK, BreakerTypeOK, RecordSuccess, CircuitStates
<1>2. ClosedBelowThreshold'
  BY DEF BreakerOK, BreakerTypeOK, ClosedBelowThreshold, RecordSuccess
<1>3. \A q \in Providers : OpenStep(q)
  BY DEF BreakerOK, BreakerTypeOK, RecordSuccess, OpenStep
<1>4. QED BY <1>1, <1>2, <1>3 DEF BreakerOK

LEMMA FailureOK ==
  ASSUME BreakerOK, NEW p \in Providers, RecordFailure(p)
  PROVE  BreakerOK' /\ \A q \in Providers : OpenStep(q)
<1> USE RoutingAssumption
<1> DEFINE reached == failures[p] + 1 >= Threshold
<1>1. /\ failures[p] \in 0 .. Threshold
      /\ failures' = [failures EXCEPT ![p] = IF reached THEN Threshold ELSE @ + 1]
      /\ state' = [state EXCEPT ![p] = IF reached THEN "open" ELSE @]
      /\ cooled' = [cooled EXCEPT ![p] = FALSE]
  BY DEF BreakerOK, BreakerTypeOK, RecordFailure
<1>2. (IF reached THEN Threshold ELSE failures[p] + 1) \in 0 .. Threshold
  BY <1>1
<1>3. failures' \in [Providers -> 0 .. Threshold]
  BY <1>1, <1>2 DEF BreakerOK, BreakerTypeOK
<1>4. state' \in [Providers -> CircuitStates] /\ cooled' \in [Providers -> BOOLEAN]
  BY <1>1 DEF BreakerOK, BreakerTypeOK, CircuitStates
<1>5. ClosedBelowThreshold'
  BY <1>1 DEF BreakerOK, BreakerTypeOK, ClosedBelowThreshold
<1>6. \A q \in Providers : OpenStep(q)
  BY <1>1 DEF BreakerOK, BreakerTypeOK, OpenStep
<1>7. QED BY <1>3, <1>4, <1>5, <1>6 DEF BreakerOK, BreakerTypeOK

LEMMA AskOK ==
  ASSUME BreakerOK, NEW p \in Providers, AskAvailable(p), UNCHANGED <<failures, cooled>>
  PROVE  BreakerOK' /\ \A q \in Providers : OpenStep(q)
<1>1. CASE UNCHANGED state
  BY <1>1 DEF BreakerOK, BreakerTypeOK, ClosedBelowThreshold, OpenStep
<1>2. CASE Allow(p)
  BY <1>2, AllowOK
<1>3. QED BY <1>1, <1>2 DEF AskAvailable

LEMMA StillOK ==
  ASSUME BreakerOK, UNCHANGED breakerVars
  PROVE  BreakerOK' /\ \A q \in Providers : OpenStep(q)
BY DEF BreakerOK, BreakerTypeOK, ClosedBelowThreshold, OpenStep, breakerVars

-----------------------------------------------------------------------------
(* The call's own variables. *)

CallTypeOK ==
  /\ lastError \in [Providers -> BOOLEAN]
  /\ phase \in [Callers -> Phases]
  /\ request \in [Callers -> Requests]
  /\ toAsk \in [Callers -> SUBSET Providers]
  /\ available \in [Callers -> SUBSET Providers]
  /\ target \in [Callers -> Providers \cup {None}]

CallOK == CallTypeOK /\ Targeted

LEMMA DoneOK ==
  ASSUME CallOK, NEW c \in Callers, Done(c), lastError' \in [Providers -> BOOLEAN]
  PROVE  CallOK'
BY DEF CallOK, CallTypeOK, Targeted, Done, Phases, Requests, NoRequest

LEMMA SettleOK ==
  ASSUME CallOK, NEW c \in Callers, phase[c] = "inFlight",
         NEW next \in {"clearError", "setError"}, Settle(c, next), UNCHANGED lastError
  PROVE  CallOK' /\ phase'[c] # "inFlight"
         /\ \A d \in Callers \ {c} : phase'[d] = phase[d] /\ target'[d] = target[d]
<1>1. CASE KeepsLastError(c)
  BY <1>1 DEF CallOK, CallTypeOK, Targeted, Settle, Phases
<1>2. CASE ~KeepsLastError(c)
  <2>1. Done(c) /\ lastError' \in [Providers -> BOOLEAN]
    BY <1>2 DEF Settle, CallOK, CallTypeOK
  <2>2. QED BY <2>1, DoneOK DEF Done, CallOK, CallTypeOK
<1>3. QED BY <1>1, <1>2

\* What a step may do to the requests that are in flight.
FlightStep(p) ==
  state[p] = "open" /\ ~cooled[p] => InFlight(p)' \subseteq InFlight(p)

\* Every step keeps the invariant and respects an open breaker.
LEMMA StepOK ==
  ASSUME RoutingInv, [Next]_vars
  PROVE  RoutingInv' /\ \A p \in Providers : OpenStep(p) /\ FlightStep(p)
<1>0. BreakerOK /\ CallOK
  BY DEF RoutingInv, TypeOK, BreakerOK, BreakerTypeOK, CallOK, CallTypeOK
<1> SUFFICES BreakerOK' /\ CallOK' /\ \A p \in Providers : OpenStep(p) /\ FlightStep(p)
  BY DEF RoutingInv, TypeOK, BreakerOK, BreakerTypeOK, CallOK, CallTypeOK
<1>1. CASE UNCHANGED vars
  <2>1. UNCHANGED breakerVars /\ CallOK' /\ \A p \in Providers : FlightStep(p)
    BY <1>0, <1>1 DEF vars, providerVars, callVars, CallOK, CallTypeOK, Targeted,
       FlightStep, InFlight
  <2>2. QED BY <1>0, <2>1, StillOK
<1>2. ASSUME NEW p \in Providers, CoolDown(p)
      PROVE  BreakerOK' /\ CallOK' /\ \A q \in Providers : OpenStep(q) /\ FlightStep(q)
  BY <1>0, <1>2 DEF CoolDown, callVars, BreakerOK, BreakerTypeOK, ClosedBelowThreshold,
     OpenStep, FlightStep, InFlight, CallOK, CallTypeOK, Targeted
<1>3. ASSUME NEW c \in Callers, Route(c)
      PROVE  BreakerOK' /\ CallOK' /\ \A q \in Providers : OpenStep(q) /\ FlightStep(q)
  <2>1. UNCHANGED breakerVars
    BY <1>3 DEF Route, providerVars
  <2>2. CallOK'
    BY <1>0, <1>3 DEF Route, providerVars, CallOK, CallTypeOK, Targeted, Phases
  <2>3. \A q \in Providers : FlightStep(q)
    BY <1>0, <1>3 DEF Route, FlightStep, InFlight, CallOK, CallTypeOK
  <2>4. QED BY <1>0, <2>1, <2>2, <2>3, StillOK
<1>4. ASSUME NEW c \in Callers, NEW p \in Providers, Ask(c, p)
      PROVE  BreakerOK' /\ CallOK' /\ \A q \in Providers : OpenStep(q) /\ FlightStep(q)
  <2>1. AskAvailable(p) /\ UNCHANGED <<failures, cooled>>
    BY <1>4 DEF Ask
  <2>2. CallOK'
    BY <1>0, <1>4 DEF Ask, CallOK, CallTypeOK, Targeted
  <2>3. \A q \in Providers : FlightStep(q)
    BY <1>4 DEF Ask, FlightStep, InFlight
  <2>4. QED BY <1>0, <2>1, <2>2, <2>3, AskOK
<1>5. ASSUME NEW c \in Callers, NoneAvailable(c) \/ Refuse(c) \/ Abandon(c)
      PROVE  BreakerOK' /\ CallOK' /\ \A q \in Providers : OpenStep(q) /\ FlightStep(q)
  <2>1. Done(c) /\ UNCHANGED breakerVars /\ UNCHANGED lastError
    BY <1>5 DEF NoneAvailable, Refuse, Abandon, providerVars
  <2>2. CallOK'
    BY <1>0, <2>1, DoneOK DEF CallOK, CallTypeOK
  <2>3. \A q \in Providers : FlightStep(q)
    BY <1>0, <2>1 DEF Done, FlightStep, InFlight, CallOK, CallTypeOK
  <2>4. QED BY <1>0, <2>1, <2>2, <2>3, StillOK
<1>6. ASSUME NEW c \in Callers, Select(c)
      PROVE  BreakerOK' /\ CallOK' /\ \A q \in Providers : OpenStep(q) /\ FlightStep(q)
  <2>1. CallOK'
    BY <1>0, <1>6 DEF Select, CallOK, CallTypeOK, Targeted, Phases, Requests
  <2>2. \A q \in Providers : FlightStep(q)
    BY <1>0, <1>6 DEF Select, FlightStep, InFlight, CallOK, CallTypeOK
  <2>3. UNCHANGED <<failures, cooled>>
    BY <1>6 DEF Select
  <2>4. (\E p \in Providers : AskAvailable(p)) \/ UNCHANGED breakerVars
    BY <1>0, <1>6 DEF Select, CallOK, CallTypeOK, Requests, breakerVars
  <2>5. QED BY <1>0, <2>1, <2>2, <2>3, <2>4, AskOK, StillOK
<1>7. ASSUME NEW c \in Callers, Admit(c)
      PROVE  BreakerOK' /\ CallOK' /\ \A q \in Providers : OpenStep(q) /\ FlightStep(q)
  <2>1. target[c] \in Providers /\ Allow(target[c]) /\ UNCHANGED <<failures, cooled>>
    BY <1>0, <1>7 DEF Admit, CallOK, Targeted
  <2>2. CallOK'
    BY <1>0, <1>7, <2>1 DEF Admit, CallOK, CallTypeOK, Targeted, Phases
  <2>3. \A q \in Providers : FlightStep(q)
    <3>1. state[target[c]] # "open" \/ cooled[target[c]]
      BY <1>7 DEF Admit, Allows
    <3>2. \A d \in Callers \ {c} : phase'[d] = phase[d] /\ target'[d] = target[d]
      BY <1>0, <1>7 DEF Admit, CallOK, CallTypeOK
    <3>3. target'[c] = target[c]
      BY <1>7 DEF Admit
    <3>4. QED BY <3>1, <3>2, <3>3 DEF FlightStep, InFlight
  <2>4. QED BY <1>0, <2>1, <2>2, <2>3, AllowOK
<1>8. ASSUME NEW c \in Callers, Answer(c) \/ Fail(c)
      PROVE  BreakerOK' /\ CallOK' /\ \A q \in Providers : OpenStep(q) /\ FlightStep(q)
  <2>1. target[c] \in Providers
    BY <1>0, <1>8 DEF Answer, Fail, CallOK, Targeted
  <2>2. UNCHANGED breakerVars \/ RecordSuccess(target[c]) \/ RecordFailure(target[c])
    BY <1>8 DEF Answer, Fail
  <2>3. CallOK' /\ phase'[c] # "inFlight"
        /\ \A d \in Callers \ {c} : phase'[d] = phase[d] /\ target'[d] = target[d]
    BY <1>0, <1>8, SettleOK DEF Answer, Fail
  <2>4. \A q \in Providers : FlightStep(q)
    BY <2>3 DEF FlightStep, InFlight
  <2>5. QED BY <1>0, <2>1, <2>2, <2>3, <2>4, StillOK, SuccessOK, FailureOK
<1>9. ASSUME NEW c \in Callers, WriteLastError(c)
      PROVE  BreakerOK' /\ CallOK' /\ \A q \in Providers : OpenStep(q) /\ FlightStep(q)
  <2>1. Done(c) /\ UNCHANGED breakerVars
    BY <1>9 DEF WriteLastError
  <2>2. lastError' \in [Providers -> BOOLEAN]
    BY <1>0, <1>9 DEF WriteLastError, CallOK, CallTypeOK
  <2>3. \A q \in Providers : FlightStep(q)
    BY <1>0, <2>1 DEF Done, FlightStep, InFlight, CallOK, CallTypeOK
  <2>4. QED BY <1>0, <2>1, <2>2, <2>3, DoneOK, StillOK
<1>10. QED
  BY <1>1, <1>2, <1>3, <1>4, <1>5, <1>6, <1>7, <1>8, <1>9 DEF Next, CallStep

LEMMA RoutingInit == Init => RoutingInv
BY RoutingAssumption DEF Init, RoutingInv, TypeOK, CircuitStates, Phases, Requests, NoRequest,
   Targeted, ClosedBelowThreshold

LEMMA RoutingInvariant == Spec => []RoutingInv
<1>1. RoutingInv /\ [Next]_vars => RoutingInv'
  BY StepOK
<1>2. QED BY RoutingInit, <1>1, PTL DEF Spec

-----------------------------------------------------------------------------

\* The types of the variables.
THEOREM RoutingTypes == Spec => []TypeOK
<1>1. RoutingInv => TypeOK
  BY DEF RoutingInv
<1>2. QED BY <1>1, RoutingInvariant, PTL

\* A breaker that lets everything through has fewer failures than the threshold,
\* however many calls record their results in whatever order (RecordFailure).
THEOREM BreakerOpensInTime == Spec => []ClosedBelowThreshold
<1>1. RoutingInv => ClosedBelowThreshold
  BY DEF RoutingInv
<1>2. QED BY <1>1, RoutingInvariant, PTL

\* An open breaker is left through half-open only, and only after the timeout: a
\* late success of an older request does not close it (RecordSuccess, Allow).
THEOREM BreakerStaysOpen == Spec => OpenUntilCool
<1>1. RoutingInv /\ [Next]_vars =>
        [\A p \in Providers :
           state[p] = "open" /\ state'[p] # "open" => cooled[p] /\ state'[p] = "halfOpen"]_vars
  BY StepOK DEF OpenStep
<1>2. QED BY <1>1, RoutingInvariant, PTL DEF Spec, OpenUntilCool

\* No request starts on a provider whose breaker is open and has not cooled, not
\* even by a caller that saw it available before (Complete, Stream, checkCircuit).
THEOREM CoolingIsRespected == Spec => NoRequestWhileCooling
<1>1. RoutingInv /\ [Next]_vars =>
        [\A p \in Providers :
           state[p] = "open" /\ ~cooled[p] => InFlight(p)' \subseteq InFlight(p)]_vars
  BY StepOK DEF FlightStep
<1>2. QED BY <1>1, RoutingInvariant, PTL DEF Spec, NoRequestWhileCooling
-----------------------------------------------------------------------------
(* ChunkStream: the text of a streamed answer on its way.  The invariant   *)
(* has a witness: the text w the agent's stream carries, of which the      *)
(* client has d, the channel of the gRPC door the part from e to f, the    *)
(* agent's channel the part from g to k, and, as long as the agent works,  *)
(* its two channels from the provider the rest.                            *)

Texts == Seq(Nat)

\* The chunks of q carry, one behind the other, the text of w from lo to hi:
\* cuts[n] is where the n-th chunk ends.
Span(q, w, lo, hi) ==
  \E cuts : /\ cuts[0] = lo /\ cuts[Len(q)] = hi
            /\ \A n \in 0..Len(q) : cuts[n] \in 0..Len(w)
            /\ \A n \in 1..Len(q) : /\ cuts[n - 1] <= cuts[n]
                                    /\ q[n].text = SubSeq(w, cuts[n - 1] + 1, cuts[n])

LEMMA EmptySpan ==
  ASSUME NEW w \in Texts, NEW lo \in 0..Len(w)
  PROVE  /\ Span(<<>>, w, lo, lo)
         /\ \A hi : Span(<<>>, w, lo, hi) => hi = lo
<1>1. Span(<<>>, w, lo, lo)
  <2> DEFINE cuts == [n \in 0..0 |-> lo]
  <2>1. cuts[0] = lo /\ Len(<<>>) = 0
    OBVIOUS
  <2> HIDE DEF cuts
  <2>2. \A n \in 0..0 : n = 0
    OBVIOUS
  <2>3. \A n \in 1..0 : FALSE
    OBVIOUS
  <2>4. QED BY <2>1, <2>2, <2>3 DEF Span
<1>2. \A hi : Span(<<>>, w, lo, hi) => hi = lo
  BY DEF Span
<1>3. QED BY <1>1, <1>2

LEMMA SpanBounds ==
  ASSUME NEW S, NEW q \in Seq(S), NEW w \in Texts, NEW lo, NEW hi, Span(q, w, lo, hi)
  PROVE  lo \in 0..Len(w) /\ hi \in 0..Len(w)
<1>1. Len(q) \in Nat
  OBVIOUS
<1>2. 0 \in 0..Len(q) /\ Len(q) \in 0..Len(q)
  BY <1>1
<1>3. QED BY <1>2 DEF Span

\* What is taken from the front of a queue.
LEMMA SpanFirst ==
  ASSUME NEW S, NEW q \in Seq(S), q # <<>>, NEW w \in Texts, NEW lo, NEW hi, Span(q, w, lo, hi)
  PROVE  \E m \in lo..Len(w) : /\ Head(q).text = SubSeq(w, lo + 1, m)
                               /\ Span(Tail(q), w, m, hi)
<1>1. /\ Len(q) \in Nat /\ 1 \in 1..Len(q) /\ Head(q) = q[1] /\ Len(Tail(q)) = Len(q) - 1
      /\ \A n \in 1..(Len(q) - 1) : Tail(q)[n] = q[n + 1]
  BY HeadTailProperties, EmptySeq
<1>2. PICK cuts : /\ cuts[0] = lo /\ cuts[Len(q)] = hi
                  /\ \A n \in 0..Len(q) : cuts[n] \in 0..Len(w)
                  /\ \A n \in 1..Len(q) : /\ cuts[n - 1] <= cuts[n]
                                          /\ q[n].text = SubSeq(w, cuts[n - 1] + 1, cuts[n])
  BY DEF Span
<1>3. cuts[1] \in lo..Len(w) /\ Head(q).text = SubSeq(w, lo + 1, cuts[1])
  <2>1. cuts[1 - 1] = lo /\ lo \in 0..Len(w) /\ cuts[1] \in 0..Len(w) /\ Len(w) \in Nat
    BY <1>1, <1>2
  <2>2. cuts[1 - 1] <= cuts[1] /\ q[1].text = SubSeq(w, cuts[1 - 1] + 1, cuts[1])
    BY <1>1, <1>2
  <2>3. QED BY <1>1, <2>1, <2>2
<1>4. Span(Tail(q), w, cuts[1], hi)
  <2> DEFINE rest == [n \in 0..(Len(q) - 1) |-> cuts[n + 1]]
  <2>1. rest[0] = cuts[1] /\ rest[Len(q) - 1] = hi
    BY <1>1, <1>2
  <2>2. \A n \in 0..(Len(q) - 1) : rest[n] \in 0..Len(w)
    BY <1>1, <1>2
  <2>3. ASSUME NEW n \in 1..(Len(q) - 1)
        PROVE  rest[n - 1] <= rest[n] /\ Tail(q)[n].text = SubSeq(w, rest[n - 1] + 1, rest[n])
    <3>1. n + 1 \in 1..Len(q) /\ (n + 1) - 1 = n /\ Tail(q)[n] = q[n + 1]
      BY <1>1
    <3>2. rest[n - 1] = cuts[n] /\ rest[n] = cuts[n + 1]
      BY <1>1
    <3> HIDE DEF rest
    <3>3. /\ cuts[(n + 1) - 1] <= cuts[n + 1]
          /\ q[n + 1].text = SubSeq(w, cuts[(n + 1) - 1] + 1, cuts[n + 1])
      BY <1>2, <3>1
    <3>4. QED BY <3>1, <3>2, <3>3
  <2> HIDE DEF rest
  <2>4. QED BY <1>1, <2>1, <2>2, <2>3 DEF Span
<1>5. QED BY <1>3, <1>4

\* What is put at the end of a queue.
LEMMA SpanLast ==
  ASSUME NEW S, NEW q \in Seq(S), NEW c \in S, NEW w \in Texts, NEW lo, NEW hi,
         Span(q, w, lo, hi), NEW m \in hi..Len(w), c.text = SubSeq(w, hi + 1, m)
  PROVE  Span(Append(q, c), w, lo, m)
<1> DEFINE r == Append(q, c)
<1>1. /\ Len(q) \in Nat /\ r \in Seq(S) /\ Len(r) = Len(q) + 1 /\ r[Len(q) + 1] = c
      /\ \A n \in 1..Len(q) : r[n] = q[n]
  BY AppendProperties
<1>2. PICK cuts : /\ cuts[0] = lo /\ cuts[Len(q)] = hi
                  /\ \A n \in 0..Len(q) : cuts[n] \in 0..Len(w)
                  /\ \A n \in 1..Len(q) : /\ cuts[n - 1] <= cuts[n]
                                          /\ q[n].text = SubSeq(w, cuts[n - 1] + 1, cuts[n])
  BY DEF Span
<1>3. hi \in 0..Len(w) /\ m \in 0..Len(w) /\ hi <= m
  BY SpanBounds
<1> DEFINE more == [n \in 0..(Len(q) + 1) |-> IF n = Len(q) + 1 THEN m ELSE cuts[n]]
<1>4. more[Len(q) + 1] = m /\ \A n \in 0..Len(q) : more[n] = cuts[n]
  BY <1>1
<1> HIDE DEF r, more
<1>5. more[0] = lo /\ \A n \in 0..(Len(q) + 1) : more[n] \in 0..Len(w)
  <2>1. 0 \in 0..Len(q) /\ \A n \in 0..(Len(q) + 1) : n \in 0..Len(q) \/ n = Len(q) + 1
    BY <1>1
  <2>2. QED BY <1>2, <1>3, <1>4, <2>1
<1>6. ASSUME NEW n \in 1..(Len(q) + 1)
      PROVE  more[n - 1] <= more[n] /\ r[n].text = SubSeq(w, more[n - 1] + 1, more[n])
  <2>1. CASE n = Len(q) + 1
    <3>1. n - 1 = Len(q) /\ Len(q) \in 0..Len(q)
      BY <1>1, <2>1
    <3>2. more[n - 1] = hi /\ more[n] = m /\ r[n] = c
      BY <1>1, <1>2, <1>4, <2>1, <3>1
    <3>3. QED BY <1>3, <3>2
  <2>2. CASE n # Len(q) + 1
    <3>1. n \in 1..Len(q) /\ n - 1 \in 0..Len(q) /\ n \in 0..Len(q)
      BY <1>1, <2>2
    <3>2. more[n - 1] = cuts[n - 1] /\ more[n] = cuts[n] /\ r[n] = q[n]
      BY <1>1, <1>4, <3>1
    <3>3. QED BY <1>2, <3>1, <3>2
  <2>3. QED BY <2>1, <2>2
<1>7. Span(r, w, lo, m)
  BY <1>1, <1>4, <1>5, <1>6 DEF Span
<1>8. QED BY <1>7 DEF r

\* What is added behind a text.
LEMMA LongerText ==
  ASSUME NEW w \in Texts, NEW t \in Texts
  PROVE  /\ w \o t \in Texts /\ Len(w \o t) = Len(w) + Len(t)
         /\ \A a \in Nat \ {0}, b \in 0..Len(w) : SubSeq(w \o t, a, b) = SubSeq(w, a, b)
         /\ SubSeq(w \o t, Len(w) + 1, Len(w) + Len(t)) = t
<1> DEFINE v == w \o t
<1>1. Len(w) \in Nat /\ Len(t) \in Nat
  BY DEF Texts
<1>2. /\ v \in Seq(Nat) /\ Len(v) = Len(w) + Len(t)
      /\ \A i \in 1..Len(w) + Len(t) : v[i] = IF i <= Len(w) THEN w[i] ELSE t[i - Len(w)]
  BY ConcatProperties DEF Texts
<1> HIDE DEF v
<1>3. ASSUME NEW a \in Nat \ {0}, NEW b \in 0..Len(w)
      PROVE  SubSeq(v, a, b) = SubSeq(w, a, b)
  <2>1. \A i \in a..b : v[i] = w[i] /\ w[i] \in Nat
    <3>1. \A i \in 1..Len(w) : w[i] \in Nat
      BY DEF Texts
    <3>2. \A i \in a..b : i \in 1..Len(w) /\ i \in 1..Len(w) + Len(t) /\ i <= Len(w)
      BY <1>1
    <3>3. QED BY <1>2, <3>1, <3>2
  <2>2. /\ SubSeq(v, a, b) \in Seq(Nat) /\ Len(SubSeq(v, a, b)) = IF a <= b THEN b - a + 1 ELSE 0
        /\ \A i \in 1..(b - a + 1) : SubSeq(v, a, b)[i] = v[a + i - 1]
    BY <1>1, <2>1, SubSeqProperties
  <2>3. /\ SubSeq(w, a, b) \in Seq(Nat) /\ Len(SubSeq(w, a, b)) = IF a <= b THEN b - a + 1 ELSE 0
        /\ \A i \in 1..(b - a + 1) : SubSeq(w, a, b)[i] = w[a + i - 1]
    BY <1>1, <2>1, SubSeqProperties
  <2> DEFINE x == SubSeq(v, a, b)
             y == SubSeq(w, a, b)
  <2> HIDE DEF x, y
  <2>4. \A i \in 1..Len(x) : i \in 1..(b - a + 1) /\ a + i - 1 \in a..b
    BY <1>1, <2>2 DEF x
  <2>5. \A i \in 1..Len(x) : x[i] = y[i]
    BY <2>1, <2>2, <2>3, <2>4 DEF x, y
  <2>6. QED BY <2>2, <2>3, <2>5, SeqEqual DEF x, y
<1>4. SubSeq(v, Len(w) + 1, Len(w) + Len(t)) = t
  <2> DEFINE x == SubSeq(v, Len(w) + 1, Len(w) + Len(t))
  <2>1. \A i \in (Len(w) + 1)..(Len(w) + Len(t)) : v[i] = t[i - Len(w)] /\ i - Len(w) \in 1..Len(t)
    BY <1>1, <1>2
  <2>2. \A i \in 1..Len(t) : t[i] \in Nat
    BY DEF Texts
  <2>3. /\ x \in Seq(Nat)
        /\ Len(x) = IF Len(w) + 1 <= Len(w) + Len(t)
                    THEN (Len(w) + Len(t)) - (Len(w) + 1) + 1 ELSE 0
        /\ \A i \in 1..((Len(w) + Len(t)) - (Len(w) + 1) + 1) : x[i] = v[(Len(w) + 1) + i - 1]
    BY <1>1, <2>1, <2>2, SubSeqProperties
  <2> HIDE DEF x
  <2>4. Len(x) = Len(t) /\ \A i \in 1..Len(t) : x[i] = v[Len(w) + i]
    BY <1>1, <2>3
  <2>5. \A i \in 1..Len(t) : x[i] = t[i]
    <3>1. \A i \in 1..Len(t) : /\ Len(w) + i \in 1..Len(w) + Len(t) /\ ~(Len(w) + i <= Len(w))
                               /\ (Len(w) + i) - Len(w) = i
      BY <1>1
    <3>2. QED BY <1>2, <2>4, <3>1
  <2>6. QED BY <2>3, <2>4, <2>5, SeqEqual DEF x, Texts
<1>5. QED BY <1>2, <1>3, <1>4 DEF v, Texts

LEMMA SpanLonger ==
  ASSUME NEW S, NEW q \in Seq(S), NEW w \in Texts, NEW t \in Texts, NEW lo, NEW hi,
         Span(q, w, lo, hi)
  PROVE  Span(q, w \o t, lo, hi)
<1>1. PICK cuts : /\ cuts[0] = lo /\ cuts[Len(q)] = hi
                  /\ \A n \in 0..Len(q) : cuts[n] \in 0..Len(w)
                  /\ \A n \in 1..Len(q) : /\ cuts[n - 1] <= cuts[n]
                                          /\ q[n].text = SubSeq(w, cuts[n - 1] + 1, cuts[n])
  BY DEF Span
<1>2. Len(w) \in Nat /\ Len(t) \in Nat /\ Len(w \o t) = Len(w) + Len(t) /\ Len(q) \in Nat
  BY LongerText DEF Texts
<1>3. \A n \in 0..Len(q) : cuts[n] \in 0..Len(w \o t)
  <2>1. 0..Len(w) \subseteq 0..Len(w \o t)
    BY ONLY <1>2
  <2>2. QED BY ONLY <1>1, <2>1
<1>4. ASSUME NEW n \in 1..Len(q)
      PROVE  q[n].text = SubSeq(w \o t, cuts[n - 1] + 1, cuts[n])
  <2>1. cuts[n - 1] + 1 \in Nat \ {0} /\ cuts[n] \in 0..Len(w)
    <3>1. n - 1 \in 0..Len(q) /\ n \in 0..Len(q)
      BY ONLY <1>2
    <3>2. cuts[n - 1] \in 0..Len(w) /\ cuts[n] \in 0..Len(w)
      BY <1>1, <3>1
    <3>3. QED BY ONLY <1>2, <3>2
  <2>2. q[n].text = SubSeq(w, cuts[n - 1] + 1, cuts[n])
    BY <1>1
  <2>3. SubSeq(w \o t, cuts[n - 1] + 1, cuts[n]) = SubSeq(w, cuts[n - 1] + 1, cuts[n])
    <3>1. \A a \in Nat \ {0}, b \in 0..Len(w) : SubSeq(w \o t, a, b) = SubSeq(w, a, b)
      BY LongerText
    <3>2. QED BY ONLY <2>1, <3>1
  <2>4. QED BY <2>2, <2>3
<1> DEFINE v == w \o t
<1> HIDE DEF v
<1>5. \A n \in 0..Len(q) : cuts[n] \in 0..Len(v)
  BY <1>3 DEF v
<1>6. \A n \in 1..Len(q) : cuts[n - 1] <= cuts[n] /\ q[n].text = SubSeq(v, cuts[n - 1] + 1, cuts[n])
  BY <1>1, <1>4 DEF v
<1>7. Span(q, v, lo, hi)
  BY <1>1, <1>5, <1>6 DEF Span
<1>8. QED BY <1>7 DEF v

LEMMA Joined ==
  ASSUME NEW w \in Texts, NEW m \in 0..Len(w), NEW b \in 0..m, NEW a \in 1..(b + 1)
  PROVE  SubSeq(w, a, b) \o SubSeq(w, b + 1, m) = SubSeq(w, a, m)
<1> DEFINE x == SubSeq(w, a, b)
           y == SubSeq(w, b + 1, m)
           z == SubSeq(w, a, m)
<1>1. /\ Len(w) \in Nat /\ m \in Nat /\ b \in Nat /\ a \in Nat
      /\ b <= m /\ m <= Len(w) /\ 1 <= a /\ a <= b + 1
  BY DEF Texts
<1>2. \A i \in 1..Len(w) : w[i] \in Nat
  BY DEF Texts
<1>3. /\ x \in Seq(Nat) /\ Len(x) = b - a + 1
      /\ \A i \in 1..(b - a + 1) : x[i] = w[a + i - 1]
  <2>1. \A i \in a..b : w[i] \in Nat
    BY <1>1, <1>2
  <2>2. /\ x \in Seq(Nat) /\ Len(x) = IF a <= b THEN b - a + 1 ELSE 0
        /\ \A i \in 1..(b - a + 1) : x[i] = w[a + i - 1]
    BY <1>1, <2>1, SubSeqProperties
  <2> HIDE DEF x
  <2>3. QED BY <1>1, <2>2
<1>4. /\ y \in Seq(Nat) /\ Len(y) = m - b
      /\ \A i \in 1..(m - b) : y[i] = w[b + i]
  <2>1. \A i \in (b + 1)..m : w[i] \in Nat
    BY <1>1, <1>2
  <2>2. /\ y \in Seq(Nat) /\ Len(y) = IF b + 1 <= m THEN m - (b + 1) + 1 ELSE 0
        /\ \A i \in 1..(m - (b + 1) + 1) : y[i] = w[(b + 1) + i - 1]
    BY <1>1, <2>1, SubSeqProperties
  <2> HIDE DEF y
  <2>3. QED BY <1>1, <2>2
<1>5. /\ z \in Seq(Nat) /\ Len(z) = m - a + 1
      /\ \A i \in 1..(m - a + 1) : z[i] = w[a + i - 1]
  <2>1. \A i \in a..m : w[i] \in Nat
    BY <1>1, <1>2
  <2>2. /\ z \in Seq(Nat) /\ Len(z) = IF a <= m THEN m - a + 1 ELSE 0
        /\ \A i \in 1..(m - a + 1) : z[i] = w[a + i - 1]
    BY <1>1, <2>1, SubSeqProperties
  <2> HIDE DEF z
  <2>3. QED BY <1>1, <2>2
<1> HIDE DEF x, y, z
<1>6. /\ x \o y \in Seq(Nat) /\ Len(x \o y) = Len(x) + Len(y)
      /\ \A i \in 1..Len(x) + Len(y) : (x \o y)[i] = IF i <= Len(x) THEN x[i] ELSE y[i - Len(x)]
  BY <1>3, <1>4, ConcatProperties
<1>7. Len(x \o y) = m - a + 1 /\ Len(x) + Len(y) = m - a + 1
  BY <1>1, <1>3, <1>4, <1>6
<1>8. ASSUME NEW i \in 1..(m - a + 1) PROVE (x \o y)[i] = z[i]
  <2>1. CASE i <= b - a + 1
    BY <1>1, <1>3, <1>5, <1>6, <1>7, <2>1
  <2>2. CASE ~(i <= b - a + 1)
    <3>1. (x \o y)[i] = y[i - (b - a + 1)] /\ i - (b - a + 1) \in 1..(m - b)
      <4>1. i \in 1..Len(x) + Len(y)
        BY <1>7
      <4>2. ~(i <= Len(x)) /\ Len(x) = b - a + 1
        BY <1>1, <1>3, <2>2
      <4>3. i - (b - a + 1) \in 1..(m - b)
        BY <1>1, <2>2
      <4>4. QED BY <1>6, <4>1, <4>2, <4>3
    <3>2. b + (i - (b - a + 1)) = a + i - 1
      BY <1>1
    <3>3. QED BY <1>4, <1>5, <3>1, <3>2
  <2>3. QED BY <2>1, <2>2
<1>9. x \o y = z
  BY <1>5, <1>6, <1>7, <1>8, SeqEqual
<1>10. QED BY <1>9 DEF x, y, z

-----------------------------------------------------------------------------

Chunks == [text: Texts, tool: BOOLEAN, done: BOOLEAN, usage: BOOLEAN, error: BOOLEAN]
Pipes == {"raw", "routed", "agent", "grpc"}

StreamTypes ==
  /\ door \in {"grpc", "http"} /\ caller \in {"live", "timeout", "left"}
  /\ wire \in [Pipes -> Seq(Chunks)]
  /\ pc \in [source: {"idle", "running", "over"}, router: {"idle", "running", "over"},
             agent: {"asking", "hearing", "over"}, adapter: {"running", "over"},
             server: {"running", "over"}]
  /\ source \in [text: Texts, closed: BOOLEAN, pieces: Nat]
  /\ hearing \in [asks: Nat, text: Texts, tools: BOOLEAN, finished: BOOLEAN]
  /\ past \in Texts /\ delivered \in Texts
  /\ ended \in {"none", "final", "done", "status", "broken", "error"}

\* A last chunk in a pipe, and the last chunk of an answer.
HasLast(q) == \E i \in 1..Len(q) : q[i].done
HasFinal(q) == \E i \in 1..Len(q) : q[i].done /\ q[i].usage

\* Nothing is behind a last chunk.
Ends(q) == \A i \in 1..Len(q) : q[i].done => i = Len(q)

\* A last chunk has the usage or an error.
MarkedChunk(c) == (c.error => c.done) /\ (c.done => (c.usage <=> ~c.error))
Marked(q) == \A i \in 1..Len(q) : MarkedChunk(q[i])

\* Before a last chunk came nobody is left who could send another.
Marks ==
  /\ \A p \in Pipes : Ends(wire[p])
  /\ \A p \in Pipes \ {"grpc"} : Marked(wire[p])
  /\ HasLast(wire["raw"]) => pc.source # "running"
  /\ HasLast(wire["routed"]) => wire["raw"] = <<>> /\ pc.source # "running"
  /\ HasLast(wire["agent"]) => pc.agent = "over"
  /\ HasLast(wire["grpc"]) =>
       pc.agent = "over" /\ pc.adapter = "over" /\ wire["agent"] = <<>>

Control ==
  /\ pc.agent # "hearing" => wire["raw"] = <<>> /\ wire["routed"] = <<>> /\ pc.source # "running"
  /\ pc.router = "over" => wire["raw"] = <<>> /\ pc.source # "running"
  /\ hearing.asks = 0 => /\ past = <<>> /\ hearing.text = <<>> /\ pc.agent # "hearing"
                         /\ ~source.closed
                         /\ pc.agent = "asking" => source.text = <<>>
  /\ pc.source = "running" => ~source.closed
  /\ Len(wire["grpc"]) <= 1
  /\ door = "http" => wire["grpc"] = <<>> /\ pc.adapter = "over"
  /\ door = "grpc" /\ pc.adapter = "over" /\ pc.agent # "over" => Cancelled
  /\ door = "http" /\ pc.server = "over" => pc.agent = "over"
  /\ ended # "none" => pc.server = "over"

EndedInFull == ended = "final" => pc.agent = "over" /\ delivered = SentInFull

\* The text w of the agent's stream up to k, on its way: delivered up to d, in
\* the channel of the gRPC door from e to f, in the agent's from g to k.
Down(w, d, e, f, g, k) ==
  /\ d \in 0..Len(w) /\ delivered = SubSeq(w, 1, d)
  /\ d <= e /\ (caller # "left" => d = e)
  /\ Span(wire["grpc"], w, e, f)
  /\ f <= g /\ (door = "http" \/ pc.adapter = "running" => f = g)
  /\ Span(wire["agent"], w, g, k)
  /\ HasFinal(wire["agent"]) => k = Len(w) /\ w = SentInFull
  /\ HasFinal(wire["grpc"]) => f = Len(w) /\ w = SentInFull

\* What the agent still hears: the rest of the answer, in the two channels of
\* the provider's stream.
Up(w, k) ==
  IF pc.agent = "over" THEN IsPrefix(w, SentInFull)
  ELSE /\ w = past \o Sent
       /\ Len(past) <= k /\ hearing.text = SubSeq(w, Len(past) + 1, k)
       /\ \E r : Span(wire["routed"], w, k, r) /\ Span(wire["raw"], w, r, Len(w))

Carried == \E w \in Texts : \E d, e, f, g, k : Down(w, d, e, f, g, k) /\ Up(w, k)

StreamInv == StreamTypes /\ Marks /\ Control /\ EndedInFull /\ Carried

-----------------------------------------------------------------------------

LEMMA SentIsText == StreamTypes => Sent \in Texts
<1>1. \A t \in Texts : t \o t \in Texts
  BY DEF Texts
<1>2. StreamTypes => source.text \in Texts
  BY DEF StreamTypes
<1>3. QED BY <1>1, <1>2 DEF Sent

LEMMA NoMarks ==
  Ends(<<>>) /\ Marked(<<>>) /\ ~HasLast(<<>>) /\ ~HasFinal(<<>>)
<1>1. \A i \in 1..Len(<<>>) : FALSE
  OBVIOUS
<1>2. QED BY <1>1 DEF Ends, Marked, HasLast, HasFinal

LEMMA FinalIsLast ==
  ASSUME NEW q, HasFinal(q)
  PROVE  HasLast(q)
BY DEF HasFinal, HasLast

LEMMA TailMarks ==
  ASSUME NEW q \in Seq(Chunks), q # <<>>, Ends(q)
  PROVE  /\ Tail(q) \in Seq(Chunks) /\ Head(q) \in Chunks
         /\ Ends(Tail(q))
         /\ HasLast(Tail(q)) => HasLast(q) /\ ~Head(q).done
         /\ HasFinal(Tail(q)) => HasFinal(q) /\ ~Head(q).done
         /\ Head(q).done => HasLast(q) /\ Tail(q) = <<>>
         /\ Head(q).done /\ Head(q).usage => HasFinal(q)
         /\ Marked(q) => Marked(Tail(q)) /\ MarkedChunk(Head(q))
<1>1. /\ Tail(q) \in Seq(Chunks) /\ Head(q) \in Chunks /\ Head(q) = q[1]
      /\ Len(q) \in Nat /\ 1 \in 1..Len(q) /\ Len(Tail(q)) = Len(q) - 1
      /\ \A i \in 1..(Len(q) - 1) : Tail(q)[i] = q[i + 1] /\ i + 1 \in 1..Len(q)
  BY HeadTailProperties, EmptySeq
<1> DEFINE t == Tail(q)
           h == Head(q)
<1> HIDE DEF t, h
<1>2. /\ h = q[1] /\ Len(t) = Len(q) - 1
      /\ \A i \in 1..(Len(q) - 1) : t[i] = q[i + 1] /\ i + 1 \in 1..Len(q)
  BY <1>1 DEF t, h
<1> DEFINE Behind(i) == i + 1 \in 1..Len(q) /\ t[i] = q[i + 1] /\ i + 1 # 1
<1>0. \A i \in 1..Len(t) : Behind(i) /\ (i + 1 = Len(q) => i = Len(t))
  <2>1. \A i \in 1..Len(t) : /\ i \in 1..(Len(q) - 1) /\ i + 1 # 1
                             /\ i + 1 = Len(q) => i = Len(t)
    <3>1. Len(q) \in Nat /\ Len(t) = Len(q) - 1
      BY <1>1, <1>2
    <3>2. QED BY ONLY <3>1
  <2>2. QED BY <1>2, <2>1
<1>3. Ends(t)
  BY <1>0 DEF Ends
<1>4. HasLast(t) => HasLast(q) /\ ~h.done
  <2> SUFFICES ASSUME NEW i \in 1..Len(t), t[i].done PROVE HasLast(q) /\ ~h.done
    BY DEF HasLast
  <2>1. Behind(i)
    BY <1>0
  <2>2. q[i + 1].done /\ i + 1 = Len(q)
    BY <2>1 DEF Ends
  <2>3. ~q[1].done
    BY <1>1, <2>1, <2>2 DEF Ends
  <2>4. QED BY <1>2, <2>1, <2>2, <2>3 DEF HasLast
<1>5. HasFinal(t) => HasFinal(q) /\ ~h.done
  <2> SUFFICES ASSUME NEW i \in 1..Len(t), t[i].done, t[i].usage PROVE HasFinal(q) /\ ~h.done
    BY DEF HasFinal
  <2>1. Behind(i)
    BY <1>0
  <2>2. HasFinal(q)
    BY <2>1 DEF HasFinal
  <2>3. HasLast(t)
    BY DEF HasLast
  <2>4. QED BY <1>4, <2>2, <2>3
<1>6. h.done => HasLast(q) /\ t = <<>>
  <2>1. h.done => HasLast(q) /\ Len(q) = 1
    BY <1>1, <1>2 DEF Ends, HasLast
  <2>2. Len(q) = 1 => t = <<>>
    <3>1. t \in Seq(Chunks)
      BY <1>1 DEF t
    <3>2. Len(q) = 1 => Len(t) = 0
      BY <1>2
    <3>3. QED BY <3>1, <3>2, EmptySeq
  <2>3. QED BY <2>1, <2>2
<1>7. h.done /\ h.usage => HasFinal(q)
  BY <1>1, <1>2 DEF HasFinal
<1>8. Marked(q) => Marked(t) /\ MarkedChunk(h)
  BY <1>1, <1>2 DEF Marked
<1>9. QED BY <1>1, <1>3, <1>4, <1>5, <1>6, <1>7, <1>8 DEF t, h

LEMMA AppendMarks ==
  ASSUME NEW q \in Seq(Chunks), NEW c \in Chunks, ~HasLast(q)
  PROVE  /\ Append(q, c) \in Seq(Chunks) /\ Append(q, c) # <<>>
         /\ Ends(Append(q, c))
         /\ HasLast(Append(q, c)) => c.done
         /\ HasFinal(Append(q, c)) => c.done /\ c.usage
         /\ Marked(q) /\ MarkedChunk(c) => Marked(Append(q, c))
<1> DEFINE r == Append(q, c)
<1>1. /\ r \in Seq(Chunks) /\ Len(q) \in Nat /\ Len(r) = Len(q) + 1 /\ r[Len(q) + 1] = c
      /\ \A i \in 1..Len(q) : r[i] = q[i]
  BY AppendProperties
<1> HIDE DEF r
<1>2. \A i \in 1..Len(r) : i = Len(q) + 1 \/ (i \in 1..Len(q) /\ r[i] = q[i])
  BY <1>1
<1>3. \A i \in 1..Len(q) : ~q[i].done
  BY DEF HasLast
<1>4. Ends(r)
  BY <1>1, <1>2, <1>3 DEF Ends
<1>5. HasLast(r) => c.done
  BY <1>1, <1>2, <1>3 DEF HasLast
<1>6. HasFinal(r) => c.done /\ c.usage
  BY <1>1, <1>2, <1>3 DEF HasFinal
<1>7. Marked(q) /\ MarkedChunk(c) => Marked(r)
  BY <1>1, <1>2 DEF Marked
<1>8. r # <<>>
  BY <1>1
<1>9. QED BY <1>1, <1>4, <1>5, <1>6, <1>7, <1>8 DEF r

\* The pipes after a chunk was put in, taken out, or handed on.
LEMMA PipeSteps ==
  ASSUME wire \in [Pipes -> Seq(Chunks)], NEW p \in Pipes
  PROVE  /\ \A c \in Chunks : Put(p, c) =>
              /\ wire' \in [Pipes -> Seq(Chunks)]
              /\ wire'[p] = Append(wire[p], c) /\ \A o \in Pipes \ {p} : wire'[o] = wire[o]
         /\ Take(p) /\ wire[p] # <<>> =>
              /\ wire' \in [Pipes -> Seq(Chunks)]
              /\ wire'[p] = Tail(wire[p]) /\ \A o \in Pipes \ {p} : wire'[o] = wire[o]
         /\ \A q \in Pipes \ {p}, c \in Chunks : HandOn(p, q, c) /\ wire[p] # <<>> =>
              /\ wire' \in [Pipes -> Seq(Chunks)]
              /\ wire'[p] = Tail(wire[p]) /\ wire'[q] = Append(wire[q], c)
              /\ \A o \in Pipes \ {p, q} : wire'[o] = wire[o]
<1>1. wire[p] \in Seq(Chunks)
  OBVIOUS
<1>2. \A c \in Chunks, q \in Pipes : Append(wire[q], c) \in Seq(Chunks)
  OBVIOUS
<1>3. wire[p] # <<>> => Tail(wire[p]) \in Seq(Chunks)
  BY <1>1, HeadTailProperties
<1>4. QED BY <1>2, <1>3 DEF Put, Take, HandOn

LEMMA HandedOn ==
  ASSUME wire \in [Pipes -> Seq(Chunks)], NEW p \in Pipes, NEW q \in Pipes, p # q,
         NEW c \in Chunks, wire[p] # <<>>, HandOn(p, q, c)
  PROVE  /\ wire'[p] = Tail(wire[p]) /\ wire'[q] = Append(wire[q], c)
         /\ \A o \in Pipes \ {p, q} : wire'[o] = wire[o]
BY PipeSteps

-----------------------------------------------------------------------------

LEMMA StreamTypesKept == StreamTypes /\ [StreamNext]_streamVars => StreamTypes'
<1> SUFFICES ASSUME StreamTypes, [StreamNext]_streamVars PROVE StreamTypes'
  OBVIOUS
<1> USE DEF Pipes
<1>1. \A c \in Chunks : /\ c.text \in Texts
                        /\ ContentChunk(c.text) \in Chunks
                        /\ [c EXCEPT !.tool = FALSE, !.error = FALSE] \in Chunks
  BY DEF Chunks, ContentChunk, Chunk
<1>2. /\ <<>> \in Texts /\ ToolCallChunk \in Chunks /\ StreamError \in Chunks
      /\ \A t \in Texts : FinalChunk(t) \in Chunks /\ ContentChunk(t) \in Chunks
  BY DEF Chunks, Texts, ToolCallChunk, StreamError, FinalChunk, ContentChunk, Chunk
<1>3. \A s, t \in Texts : s \o t \in Texts
  BY DEF Texts
<1>4. \A p \in Pipes : wire[p] # <<>> => Head(wire[p]) \in Chunks
  BY HeadTailProperties DEF StreamTypes
<1>5. wire \in [Pipes -> Seq(Chunks)]
  BY DEF StreamTypes
<1>6. CASE CallerGoes \/ SourceEnds \/ RouterEnds \/ ServerStops \/ UNCHANGED streamVars
  BY <1>6 DEF CallerGoes, SourceEnds, RouterEnds, ServerStops, ServerEnds, streamVars, StreamTypes
<1>7. ASSUME NEW c \in Chunks, NEW next \in {"running", "over"}, SourceSends(c, next)
      PROVE  StreamTypes'
  <2>1. wire' \in [Pipes -> Seq(Chunks)]
    BY <1>5, <1>7, PipeSteps DEF SourceSends
  <2>2. source' \in [text: Texts, closed: BOOLEAN, pieces: Nat]
    <3>0. source.text \in Texts /\ source.pieces + 1 \in Nat /\ c.text \in Texts
      <4>1. source.text \in Texts /\ source.pieces + 1 \in Nat
        BY DEF StreamTypes
      <4>2. c \in Chunks /\ c.text \in Texts
        BY <1>1
      <4>3. QED BY <4>1, <4>2
    <3>1. source.text \o c.text \in Texts
      BY <1>3, <3>0
    <3>2. (c.done /\ ~c.error) \in BOOLEAN
      OBVIOUS
    <3>3. QED BY <1>7, <3>0, <3>1, <3>2 DEF SourceSends
  <2>3. /\ pc' = [pc EXCEPT !.source = next]
        /\ UNCHANGED <<door, caller, hearing, past, delivered, ended>>
    BY <1>7 DEF SourceSends
  <2>4. QED BY <2>1, <2>2, <2>3 DEF StreamTypes
<1>8. CASE Speak \/ SpeakToolCall \/ SpeakFinal \/ SpeakError
  <2>1. /\ source.text \in Texts /\ <<source.pieces + 1>> \in Texts
        /\ (IF dialect = "openai" THEN source.text ELSE <<>>) \in Texts
    BY <1>2 DEF StreamTypes, Texts
  <2>2. QED
    BY <1>2, <1>3, <1>7, <1>8, <2>1 DEF Speak, SpeakToolCall, SpeakFinal, SpeakError
<1>9. CASE RouterForwards
  <2>1. wire["raw"] # <<>> /\ HandOn("raw", "routed", Head(wire["raw"]))
    BY <1>9 DEF RouterForwards
  <2>2. wire' \in [Pipes -> Seq(Chunks)]
    BY <1>4, <1>5, <2>1, PipeSteps
  <2>3. QED BY <1>9, <2>2 DEF RouterForwards, StreamTypes
<1>10. ASSUME NEW c \in Chunks, AgentEndsWith(c), source' \in [text: Texts, closed: BOOLEAN, pieces: Nat]
       PROVE  StreamTypes'
  <2>1. wire' \in [Pipes -> Seq(Chunks)]
    BY <1>5, <1>10, PipeSteps DEF AgentEndsWith
  <2>2. /\ pc' = [pc EXCEPT !.agent = "over"]
        /\ UNCHANGED <<door, caller, hearing, past, delivered, ended>>
    BY <1>10 DEF AgentEndsWith
  <2>3. QED BY <1>10, <2>1, <2>2 DEF StreamTypes
<1>11. CASE AnswerAtOnce \/ AskModelFails
  <2>1. <<0>> \in Texts
    BY DEF Texts
  <2>2. /\ source \in [text: Texts, closed: BOOLEAN, pieces: Nat]
        /\ [source EXCEPT !.text = <<0>>] \in [text: Texts, closed: BOOLEAN, pieces: Nat]
    BY <2>1 DEF StreamTypes
  <2>3. QED BY <1>2, <1>10, <1>11, <2>1, <2>2 DEF AnswerAtOnce, AskModelFails
<1>12. CASE AskModel
  <2>1. past \o Sent \in Texts /\ hearing.asks + 1 \in Nat
    BY <1>3, SentIsText DEF StreamTypes
  <2>2. Silent \in [text: Texts, closed: BOOLEAN, pieces: Nat]
    BY <1>2 DEF Silent
  <2>3. hearing' \in [asks: Nat, text: Texts, tools: BOOLEAN, finished: BOOLEAN]
    BY <1>2, <1>12, <2>1 DEF AskModel
  <2>4. QED BY <1>12, <2>1, <2>2, <2>3 DEF AskModel, StreamTypes
<1>13. CASE Hear
  <2> DEFINE c == Head(wire["routed"])
  <2>1. /\ wire["routed"] # <<>>
        /\ \/ HandOn("routed", "agent", c) \/ HandOn("routed", "agent", ContentChunk(c.text))
           \/ HandOn("routed", "agent", ToolCallChunk) \/ Take("routed")
        /\ pc' = [pc EXCEPT !.agent = IF c.error THEN "over" ELSE @]
        /\ hearing' = [hearing EXCEPT !.text = @ \o c.text, !.tools = @ \/ c.tool,
                                      !.finished = @ \/ c.done]
        /\ UNCHANGED <<door, dialect, caller, source, past, delivered, ended>>
    BY <1>13 DEF Hear
  <2>2. c \in Chunks
    BY <1>4, <2>1
  <2> HIDE DEF c
  <2>3. wire' \in [Pipes -> Seq(Chunks)]
    BY <1>1, <1>2, <1>5, <2>1, <2>2, PipeSteps
  <2>4. hearing.text \o c.text \in Texts
    BY <1>1, <1>3, <2>2 DEF StreamTypes
  <2>5. hearing' \in [asks: Nat, text: Texts, tools: BOOLEAN, finished: BOOLEAN]
    BY <2>1, <2>4 DEF StreamTypes
  <2>6. pc' \in [source: {"idle", "running", "over"}, router: {"idle", "running", "over"},
                 agent: {"asking", "hearing", "over"}, adapter: {"running", "over"},
                 server: {"running", "over"}]
    BY <2>1 DEF StreamTypes
  <2>7. QED BY <2>1, <2>3, <2>5, <2>6 DEF StreamTypes
<1>14. CASE HeardAll
  <2>1. CASE pc' = [pc EXCEPT !.agent = "asking"]
             /\ UNCHANGED <<door, dialect, caller, wire, hearing, past, delivered, ended, source>>
    BY <2>1 DEF StreamTypes
  <2>2. CASE AgentEndsWith(FinalChunk(hearing.text)) /\ UNCHANGED source
    BY <1>2, <1>10, <2>2 DEF StreamTypes
  <2>3. QED BY <1>14, <2>1, <2>2 DEF HeardAll
<1>15. CASE AdapterRelays
  <2> DEFINE c == Head(wire["agent"])
             s == [c EXCEPT !.tool = FALSE, !.error = FALSE]
  <2>1. /\ wire["agent"] # <<>> /\ (HandOn("agent", "grpc", s) \/ Take("agent"))
        /\ pc' = [pc EXCEPT !.adapter = IF s.done THEN "over" ELSE @]
             \/ pc' = [pc EXCEPT !.adapter = "over"]
        /\ UNCHANGED <<door, dialect, caller, source, hearing, past, delivered, ended>>
    BY <1>15 DEF AdapterRelays
  <2>2. s \in Chunks
    BY <1>1, <1>4, <2>1
  <2> HIDE DEF c, s
  <2>3. wire' \in [Pipes -> Seq(Chunks)]
    BY <1>5, <2>1, <2>2, PipeSteps
  <2>4. QED BY <2>1, <2>3 DEF StreamTypes
<1>16. ASSUME NEW p \in Pipes, NEW how \in {"final", "done", "status", "broken", "error"},
              wire[p] # <<>>, Take(p),
              delivered' = delivered \/ delivered' = delivered \o Head(wire[p]).text,
              ServerEnds(how) \/ UNCHANGED <<ended, pc>>,
              UNCHANGED <<door, dialect, caller, source, hearing, past>>
       PROVE  StreamTypes'
  <2>1. wire' \in [Pipes -> Seq(Chunks)]
    BY <1>5, <1>16, PipeSteps
  <2>2. Head(wire[p]).text \in Texts
    BY <1>1, <1>4, <1>16
  <2>3. delivered' \in Texts
    <3>1. delivered \in Texts
      BY DEF StreamTypes
    <3>2. delivered' = delivered \/ delivered' = delivered \o Head(wire[p]).text
      BY ONLY <1>16
    <3>3. QED BY ONLY <1>3, <2>2, <3>1, <3>2
  <2>4. QED BY <1>16, <2>1, <2>3 DEF StreamTypes, ServerEnds
<1>17. CASE ServerSends
  <2>1. /\ wire["grpc"] # <<>> /\ Take("grpc")
        /\ delivered' = delivered \/ delivered' = delivered \o Head(wire["grpc"]).text
        /\ \/ ServerEnds("broken") \/ ServerEnds("final") \/ ServerEnds("done")
           \/ UNCHANGED <<ended, pc>>
        /\ UNCHANGED <<door, dialect, caller, source, hearing, past>>
    BY <1>17 DEF ServerSends
  <2>2. QED BY <1>16, <2>1
<1>18. CASE HttpWrites
  <2>1. /\ wire["agent"] # <<>> /\ Take("agent")
        /\ delivered' = delivered \/ delivered' = delivered \o Head(wire["agent"]).text
        /\ \/ ServerEnds("error") \/ ServerEnds("broken") \/ ServerEnds("final")
           \/ UNCHANGED <<ended, pc>>
        /\ UNCHANGED <<door, dialect, caller, source, hearing, past>>
    BY <1>18 DEF HttpWrites
  <2>2. QED BY <1>16, <2>1
<1>19. QED
  BY <1>6, <1>8, <1>9, <1>11, <1>12, <1>13, <1>14, <1>15, <1>17, <1>18 DEF StreamNext

-----------------------------------------------------------------------------

\* What the source sends: after a last chunk it is over.
LEMMA SourceSendsMarked ==
  ASSUME StreamTypes, Control, Speak \/ SpeakToolCall \/ SpeakFinal \/ SpeakError
  PROVE  \E c \in Chunks, next \in {"running", "over"} :
           /\ MarkedChunk(c) /\ (c.done => next = "over")
           /\ SourceSends(c, next) /\ Sent' = Sent \o c.text /\ (next = "running" => ~source'.closed)
<1>1. source.text \in Texts /\ source.text \o <<>> = source.text
  BY ConcatEmptySeq DEF StreamTypes, Texts
<1>2. \A t \in Texts : /\ ContentChunk(t) \in Chunks /\ MarkedChunk(ContentChunk(t))
                       /\ ContentChunk(t).text = t /\ ContentChunk(t).done = FALSE
                       /\ FinalChunk(t) \in Chunks /\ MarkedChunk(FinalChunk(t))
                       /\ FinalChunk(t).text = t /\ FinalChunk(t).done /\ FinalChunk(t).error = FALSE
  BY DEF Chunks, MarkedChunk, ContentChunk, FinalChunk, Chunk
<1>3. /\ ToolCallChunk \in Chunks /\ MarkedChunk(ToolCallChunk)
      /\ ToolCallChunk.text = <<>> /\ ToolCallChunk.done = FALSE
      /\ StreamError \in Chunks /\ MarkedChunk(StreamError) /\ StreamError.text = <<>>
      /\ StreamError.done /\ StreamError.error
  BY DEF Chunks, MarkedChunk, ToolCallChunk, StreamError, Chunk, Texts
<1>4. ASSUME NEW c \in Chunks, NEW next \in {"running", "over"}, SourceSends(c, next)
      PROVE  /\ Sent = source.text
             /\ c.done = FALSE => Sent' = Sent \o c.text /\ ~source'.closed
             /\ c.done /\ c.error => Sent' = Sent
             /\ c.done /\ c.error = FALSE /\ dialect = "openai" => Sent' = Sent \o source.text
             /\ c.done /\ c.error = FALSE /\ dialect # "openai" => Sent' = Sent
  <2>1. Sent = source.text
    BY <1>4 DEF SourceSends, Control, Sent
  <2>2. /\ source'.text = IF c.done THEN source.text ELSE source.text \o c.text
        /\ source'.closed = (c.done /\ ~c.error) /\ dialect' = dialect
    BY <1>4 DEF SourceSends
  <2>3. QED BY <2>1, <2>2 DEF Sent
<1>5. CASE Speak
  <2>1. <<source.pieces + 1>> \in Texts
    BY DEF StreamTypes, Texts
  <2>2. PICK t \in Texts : SourceSends(ContentChunk(t), "running")
    BY <1>5, <2>1 DEF Speak
  <2>3. QED BY <1>2, <1>4, <2>2
<1>6. CASE SpeakToolCall
  BY <1>3, <1>4, <1>6 DEF SpeakToolCall
<1>7. CASE SpeakFinal
  <2> DEFINE t == IF dialect = "openai" THEN source.text ELSE <<>>
  <2>1. t \in Texts
    BY <1>1 DEF Texts
  <2>2. SourceSends(FinalChunk(t), "over")
    BY <1>7 DEF SpeakFinal
  <2>3. FinalChunk(t) \in Chunks /\ FinalChunk(t).text = t /\ FinalChunk(t).done
        /\ FinalChunk(t).error = FALSE /\ MarkedChunk(FinalChunk(t))
    BY <1>2, <2>1
  <2>4. Sent' = Sent \o t
    BY <1>1, <1>4, <2>2, <2>3
  <2> HIDE DEF t
  <2>5. QED BY <2>2, <2>3, <2>4
<1>8. CASE SpeakError
  <2>1. SourceSends(StreamError, "over")
    BY <1>8 DEF SpeakError
  <2>2. Sent' = Sent /\ Sent = source.text
    BY <1>3, <1>4, <2>1
  <2>3. QED BY <1>1, <1>3, <2>1, <2>2
<1>9. QED BY <1>5, <1>6, <1>7, <1>8

\* What the agent passes on of what it hears.
LEMMA Hears ==
  ASSUME StreamTypes, Marks, Hear
  PROVE  LET c == Head(wire["routed"])
         IN  /\ wire["routed"] # <<>> /\ c \in Chunks /\ pc.agent = "hearing"
             /\ pc' = [pc EXCEPT !.agent = IF c.error THEN "over" ELSE @]
             /\ hearing' = [hearing EXCEPT !.text = @ \o c.text, !.tools = @ \/ c.tool,
                                           !.finished = @ \/ c.done]
             /\ UNCHANGED <<door, dialect, caller, source, past, delivered, ended>>
             /\ \/ /\ c.text = <<>> /\ c.error = FALSE
                   /\ Take("routed")
                \/ \E x \in Chunks : /\ x.text = c.text /\ MarkedChunk(x)
                                     /\ x.done => x = c /\ c.error
                                     /\ HandOn("routed", "agent", x)
<1> DEFINE c == Head(wire["routed"])
<1>1. /\ wire["routed"] # <<>> /\ pc.agent = "hearing"
      /\ pc' = [pc EXCEPT !.agent = IF c.error THEN "over" ELSE @]
      /\ hearing' = [hearing EXCEPT !.text = @ \o c.text, !.tools = @ \/ c.tool,
                                    !.finished = @ \/ c.done]
      /\ UNCHANGED <<door, dialect, caller, source, past, delivered, ended>>
      /\ IF c.error THEN HandOn("routed", "agent", c)
         ELSE IF c.text # <<>> THEN HandOn("routed", "agent", ContentChunk(c.text))
         ELSE IF c.tool THEN HandOn("routed", "agent", ToolCallChunk)
         ELSE Take("routed")
  BY DEF Hear
<1>2. c \in Chunks /\ MarkedChunk(c)
  BY <1>1, TailMarks DEF StreamTypes, Marks, Pipes
<1>3. /\ ContentChunk(c.text) \in Chunks /\ MarkedChunk(ContentChunk(c.text))
      /\ ContentChunk(c.text).text = c.text /\ ContentChunk(c.text).done = FALSE
      /\ ToolCallChunk \in Chunks /\ MarkedChunk(ToolCallChunk)
      /\ ToolCallChunk.text = <<>> /\ ToolCallChunk.done = FALSE
  BY <1>2 DEF Chunks, MarkedChunk, ContentChunk, ToolCallChunk, Chunk, Texts
<1> HIDE DEF c
<1>4. c.error \in BOOLEAN
  BY <1>2 DEF Chunks
<1>5. \/ c.text = <<>> /\ c.error = FALSE /\ Take("routed")
      \/ \E x \in Chunks : /\ x.text = c.text /\ MarkedChunk(x)
                           /\ x.done => x = c /\ c.error
                           /\ HandOn("routed", "agent", x)
  <2>1. CASE c.error
    BY <1>1, <1>2, <2>1
  <2>2. CASE ~c.error /\ c.text # <<>>
    BY <1>1, <1>3, <2>2
  <2>3. CASE ~c.error /\ c.text = <<>> /\ c.tool
    BY <1>1, <1>3, <2>3
  <2>4. CASE ~c.error /\ c.text = <<>> /\ ~c.tool
    BY <1>1, <1>4, <2>4
  <2>5. QED BY <2>1, <2>2, <2>3, <2>4
<1>6. QED BY <1>1, <1>2, <1>5 DEF c

\* What the adapter of the gRPC door does.
LEMMA Relays ==
  ASSUME StreamTypes, Marks, AdapterRelays
  PROVE  LET c == Head(wire["agent"])
         IN  /\ wire["agent"] # <<>> /\ c \in Chunks /\ pc.adapter = "running"
             /\ UNCHANGED <<door, dialect, caller, source, hearing, past, delivered, ended>>
             /\ \/ \E s \in Chunks :
                     /\ s.text = c.text /\ s.done = c.done /\ s.usage = c.usage
                     /\ HandOn("agent", "grpc", s)
                     /\ pc' = [pc EXCEPT !.adapter = IF s.done THEN "over" ELSE @]
                \/ Cancelled /\ Take("agent") /\ pc' = [pc EXCEPT !.adapter = "over"]
<1> DEFINE c == Head(wire["agent"])
           s == [c EXCEPT !.tool = FALSE, !.error = FALSE]
<1>1. /\ wire["agent"] # <<>> /\ pc.adapter = "running"
      /\ UNCHANGED <<door, dialect, caller, source, hearing, past, delivered, ended>>
      /\ \/ HandOn("agent", "grpc", s) /\ pc' = [pc EXCEPT !.adapter = IF s.done THEN "over" ELSE @]
         \/ Cancelled /\ Take("agent") /\ pc' = [pc EXCEPT !.adapter = "over"]
  BY DEF AdapterRelays
<1>2. c \in Chunks
  BY <1>1, TailMarks DEF StreamTypes, Marks, Pipes
<1> HIDE DEF c
<1>3. s \in Chunks /\ s.text = c.text /\ s.done = c.done /\ s.usage = c.usage
  BY <1>2 DEF Chunks
<1> HIDE DEF s
<1>4. QED BY <1>1, <1>2, <1>3 DEF c

-----------------------------------------------------------------------------

LEMMA MarksAndControlKept ==
  StreamTypes /\ Marks /\ Control /\ [StreamNext]_streamVars => Marks' /\ Control'
<1> SUFFICES ASSUME StreamTypes, Marks, Control, [StreamNext]_streamVars PROVE Marks' /\ Control'
  OBVIOUS
<1> USE DEF Pipes
<1>1. /\ wire \in [Pipes -> Seq(Chunks)]
      /\ wire["raw"] \in Seq(Chunks) /\ wire["routed"] \in Seq(Chunks)
      /\ wire["agent"] \in Seq(Chunks) /\ wire["grpc"] \in Seq(Chunks)
  BY DEF StreamTypes
<1>2. \A p \in Pipes : Ends(wire[p]) /\ (p # "grpc" => Marked(wire[p]))
  BY DEF Marks
<1>3. /\ pc.agent # "over" => ~HasLast(wire["agent"]) /\ ~HasLast(wire["grpc"])
      /\ pc.source = "running" => /\ ~HasLast(wire["raw"]) /\ ~HasLast(wire["routed"])
                                  /\ pc.agent = "hearing" /\ pc.router # "over"
      /\ wire["raw"] # <<>> => pc.agent = "hearing" /\ ~HasLast(wire["routed"])
      /\ HasLast(wire["agent"]) => pc.agent = "over"
  BY DEF Marks, Control
<1>4. CASE CallerGoes \/ SourceEnds \/ RouterEnds \/ ServerStops \/ UNCHANGED streamVars
  <2>1. /\ UNCHANGED <<door, wire, hearing, past>>
        /\ pc.source # "running" => pc'.source # "running"
        /\ UNCHANGED <<pc.agent, pc.adapter>>
        /\ pc'.router = "over" => pc.router = "over" \/ (wire["raw"] = <<>> /\ pc.source = "over")
        /\ Cancelled => Cancelled'
        /\ source' = source
        /\ ended' # "none" => pc'.server = "over"
        /\ door = "http" => pc'.server = pc.server
    <3>1. CASE CallerGoes
      BY <3>1 DEF CallerGoes, Control, Cancelled
    <3>2. CASE SourceEnds
      BY <3>2 DEF SourceEnds, StreamTypes, Control, Cancelled
    <3>3. CASE RouterEnds
      BY <3>3 DEF RouterEnds, StreamTypes, Control, Cancelled
    <3>4. CASE ServerStops
      BY <3>4 DEF ServerStops, ServerEnds, StreamTypes, Control, Cancelled
    <3>5. CASE UNCHANGED streamVars
      BY <3>5 DEF streamVars, Control, Cancelled
    <3>6. QED BY <1>4, <3>1, <3>2, <3>3, <3>4, <3>5
  <2>2. Marks'
    BY <2>1 DEF Marks
  <2>3. Control'
    BY <2>1 DEF Control
  <2>4. QED BY <2>2, <2>3
<1>5. CASE Speak \/ SpeakToolCall \/ SpeakFinal \/ SpeakError
  <2>1. PICK c \in Chunks, next \in {"running", "over"} :
          /\ MarkedChunk(c) /\ (c.done => next = "over")
          /\ SourceSends(c, next) /\ (next = "running" => ~source'.closed)
    BY <1>5, SourceSendsMarked
  <2>2. /\ pc.source = "running" /\ Put("raw", c) /\ pc' = [pc EXCEPT !.source = next]
        /\ UNCHANGED <<door, dialect, caller, hearing, past, delivered, ended>>
    BY <2>1 DEF SourceSends
  <2>3. /\ wire'["raw"] = Append(wire["raw"], c) /\ wire'["routed"] = wire["routed"]
        /\ wire'["agent"] = wire["agent"] /\ wire'["grpc"] = wire["grpc"]
    BY <1>1, <2>1, <2>2, PipeSteps
  <2>4. /\ Ends(wire'["raw"]) /\ Marked(wire'["raw"])
        /\ HasLast(wire'["raw"]) => c.done
    BY <1>1, <1>2, <1>3, <2>1, <2>2, <2>3, AppendMarks
  <2>5. pc'.source = next /\ UNCHANGED <<pc.agent, pc.router, pc.adapter, pc.server>>
    BY <2>2 DEF StreamTypes
  <2>6. Marks'
    BY <1>2, <1>3, <2>1, <2>2, <2>3, <2>4, <2>5 DEF Marks
  <2>7. Control'
    BY <1>3, <2>1, <2>2, <2>3, <2>5 DEF Control, Cancelled
  <2>8. QED BY <2>6, <2>7
<1>6. CASE RouterForwards
  <2> DEFINE c == Head(wire["raw"])
  <2>1. /\ wire["raw"] # <<>> /\ HandOn("raw", "routed", c)
        /\ UNCHANGED <<door, dialect, caller, pc, source, hearing, past, delivered, ended>>
    BY <1>6 DEF RouterForwards
  <2>2. /\ c \in Chunks /\ MarkedChunk(c)
        /\ c.done => HasLast(wire["raw"]) /\ Tail(wire["raw"]) = <<>>
        /\ Ends(Tail(wire["raw"])) /\ Marked(Tail(wire["raw"]))
        /\ HasLast(Tail(wire["raw"])) => HasLast(wire["raw"])
    BY <1>1, <1>2, <2>1, TailMarks
  <2> HIDE DEF c
  <2>3. /\ wire'["raw"] = Tail(wire["raw"]) /\ wire'["routed"] = Append(wire["routed"], c)
        /\ wire'["agent"] = wire["agent"] /\ wire'["grpc"] = wire["grpc"]
    BY <1>1, <2>1, <2>2, PipeSteps
  <2>4. /\ Ends(wire'["routed"]) /\ Marked(wire'["routed"])
        /\ HasLast(wire'["routed"]) => c.done
    BY <1>1, <1>2, <1>3, <2>1, <2>2, <2>3, AppendMarks
  <2>5. Marks'
    BY <1>2, <1>3, <2>1, <2>2, <2>3, <2>4 DEF Marks
  <2>6. pc.agent = "hearing" /\ pc.router # "over"
    BY <1>3, <2>1 DEF Control
  <2>7. Control'
    BY <2>1, <2>3, <2>6 DEF Control, Cancelled
  <2>8. QED BY <2>5, <2>7
<1>7. ASSUME NEW c \in Chunks, MarkedChunk(c), AgentEndsWith(c), pc.agent # "over",
             wire["raw"] = <<>>, wire["routed"] = <<>>, pc.source # "running",
             hearing.asks = 0 => ~source'.closed
      PROVE  Marks' /\ Control'
  <2>1. /\ wire'["agent"] = Append(wire["agent"], c) /\ wire'["raw"] = wire["raw"]
        /\ wire'["routed"] = wire["routed"] /\ wire'["grpc"] = wire["grpc"]
        /\ pc' = [pc EXCEPT !.agent = "over"]
        /\ UNCHANGED <<door, caller, hearing, past, delivered, ended>>
    BY <1>1, <1>7, PipeSteps DEF AgentEndsWith
  <2>2. Ends(wire'["agent"]) /\ Marked(wire'["agent"])
    BY <1>1, <1>2, <1>3, <1>7, <2>1, AppendMarks
  <2>3. pc'.agent = "over" /\ UNCHANGED <<pc.source, pc.router, pc.adapter, pc.server>>
    BY <2>1 DEF StreamTypes
  <2>4. Marks'
    BY <1>2, <1>3, <1>7, <2>1, <2>2, <2>3 DEF Marks
  <2>5. Control'
    BY <1>7, <2>1, <2>3 DEF Control, Cancelled
  <2>6. QED BY <2>4, <2>5
<1>8. CASE AnswerAtOnce \/ AskModelFails
  <2>1. FinalChunk(<<0>>) \in Chunks /\ StreamError \in Chunks
        /\ MarkedChunk(FinalChunk(<<0>>)) /\ MarkedChunk(StreamError)
    BY DEF Chunks, Texts, MarkedChunk, FinalChunk, StreamError, Chunk
  <2>2. pc.agent = "asking" /\ (AgentEndsWith(FinalChunk(<<0>>)) \/ AgentEndsWith(StreamError))
    BY <1>8 DEF AnswerAtOnce, AskModelFails
  <2>3. /\ wire["raw"] = <<>> /\ wire["routed"] = <<>> /\ pc.source # "running"
        /\ hearing.asks = 0 => ~source'.closed
    BY <1>8, <2>2 DEF Control, AnswerAtOnce, AskModelFails, StreamTypes
  <2>4. QED BY <1>7, <2>1, <2>2, <2>3
<1>9. CASE AskModel
  <2>1. /\ pc.agent = "asking" /\ wire' = wire /\ hearing'.asks = hearing.asks + 1
        /\ pc' = [pc EXCEPT !.agent = "hearing", !.source = "running", !.router = "running"]
        /\ UNCHANGED <<door, dialect, caller, delivered, ended>>
    BY <1>9 DEF AskModel
  <2>2. wire["raw"] = <<>> /\ wire["routed"] = <<>>
    BY <2>1 DEF Control
  <2>3. /\ pc'.agent = "hearing" /\ pc'.source = "running" /\ pc'.router = "running"
        /\ UNCHANGED <<pc.adapter, pc.server>>
    BY <2>1 DEF StreamTypes
  <2>4. hearing.asks + 1 # 0 /\ ~source'.closed
    BY <1>9 DEF StreamTypes, AskModel, Silent
  <2>5. Marks'
    BY <1>2, <1>3, <2>1, <2>2, <2>3, NoMarks DEF Marks
  <2>6. Control'
    BY <1>3, <2>1, <2>2, <2>3, <2>4 DEF Control, Cancelled
  <2>7. QED BY <2>5, <2>6
<1>10. CASE Hear
  <2> DEFINE c == Head(wire["routed"])
  <2>1. /\ wire["routed"] # <<>> /\ c \in Chunks /\ pc.agent = "hearing"
        /\ pc' = [pc EXCEPT !.agent = IF c.error THEN "over" ELSE @]
        /\ hearing' = [hearing EXCEPT !.text = @ \o c.text, !.tools = @ \/ c.tool,
                                      !.finished = @ \/ c.done]
        /\ UNCHANGED <<door, dialect, caller, source, past, delivered, ended>>
        /\ \/ /\ c.text = <<>> /\ c.error = FALSE
              /\ Take("routed")
           \/ \E x \in Chunks : /\ x.text = c.text /\ MarkedChunk(x)
                                /\ x.done => x = c /\ c.error
                                /\ HandOn("routed", "agent", x)
    BY <1>10, Hears
  <2>2. /\ MarkedChunk(c)
        /\ c.done => HasLast(wire["routed"]) /\ Tail(wire["routed"]) = <<>>
        /\ Ends(Tail(wire["routed"])) /\ Marked(Tail(wire["routed"]))
        /\ HasLast(Tail(wire["routed"])) => HasLast(wire["routed"])
    BY <1>1, <1>2, <2>1, TailMarks
  <2> HIDE DEF c
  <2>3. /\ wire'["routed"] = Tail(wire["routed"])
        /\ wire'["raw"] = wire["raw"] /\ wire'["grpc"] = wire["grpc"]
        /\ \/ wire'["agent"] = wire["agent"] /\ c.error = FALSE
           \/ \E x \in Chunks : /\ MarkedChunk(x) /\ (x.done => c.error)
                                /\ wire'["agent"] = Append(wire["agent"], x)
    <3>1. CASE c.error = FALSE /\ Take("routed")
      BY <1>1, <2>1, <3>1, PipeSteps
    <3>2. CASE \E x \in Chunks : /\ x.text = c.text /\ MarkedChunk(x)
                                 /\ x.done => x = c /\ c.error
                                 /\ HandOn("routed", "agent", x)
      <4>1. PICK x \in Chunks : /\ x.text = c.text /\ MarkedChunk(x)
                                /\ x.done => x = c /\ c.error
                                /\ HandOn("routed", "agent", x)
        BY <3>2
      <4>2. /\ wire'["routed"] = Tail(wire["routed"]) /\ wire'["agent"] = Append(wire["agent"], x)
            /\ wire'["raw"] = wire["raw"] /\ wire'["grpc"] = wire["grpc"]
        BY <1>1, <2>1, <4>1, HandedOn
      <4>3. QED BY <4>1, <4>2
    <3>3. QED BY <2>1, <3>1, <3>2
  <2>4. /\ Ends(wire'["agent"]) /\ Marked(wire'["agent"])
        /\ HasLast(wire'["agent"]) => c.error
    <3>1. CASE wire'["agent"] = wire["agent"]
      BY <1>2, <1>3, <2>1, <3>1
    <3>2. CASE \E x \in Chunks : /\ MarkedChunk(x) /\ (x.done => c.error)
                                 /\ wire'["agent"] = Append(wire["agent"], x)
      <4>1. PICK x \in Chunks : /\ MarkedChunk(x) /\ (x.done => c.error)
                                /\ wire'["agent"] = Append(wire["agent"], x)
        BY <3>2
      <4>2. QED BY <1>1, <1>2, <1>3, <2>1, <4>1, AppendMarks
    <3>3. QED BY <2>3, <3>1, <3>2
  <2>5. /\ pc'.agent = IF c.error THEN "over" ELSE "hearing"
        /\ UNCHANGED <<pc.source, pc.router, pc.adapter, pc.server>>
        /\ hearing'.asks = hearing.asks
    BY <2>1 DEF StreamTypes
  <2>6. c.error => wire["raw"] = <<>> /\ wire'["routed"] = <<>> /\ pc.source # "running"
    BY <2>2, <2>3 DEF MarkedChunk, Marks
  <2>7. Marks'
    BY <1>2, <1>3, <2>1, <2>2, <2>3, <2>4, <2>5, <2>6 DEF Marks
  <2>8. Control'
    BY <1>3, <2>1, <2>3, <2>5, <2>6 DEF Control, Cancelled
  <2>9. QED BY <2>7, <2>8
<1>11. CASE HeardAll
  <2>1. /\ pc.agent = "hearing" /\ wire["routed"] = <<>> /\ pc.router = "over" /\ source' = source
        /\ \/ /\ pc' = [pc EXCEPT !.agent = "asking"]
              /\ UNCHANGED <<door, dialect, caller, wire, hearing, past, delivered, ended>>
           \/ AgentEndsWith(FinalChunk(hearing.text))
    BY <1>11 DEF HeardAll
  <2>2. wire["raw"] = <<>> /\ pc.source # "running" /\ hearing.asks # 0
    BY <2>1 DEF Control
  <2>3. FinalChunk(hearing.text) \in Chunks /\ MarkedChunk(FinalChunk(hearing.text))
    BY DEF Chunks, MarkedChunk, FinalChunk, Chunk, StreamTypes
  <2>4. CASE AgentEndsWith(FinalChunk(hearing.text))
    BY <1>7, <2>1, <2>2, <2>3, <2>4
  <2>5. CASE pc' = [pc EXCEPT !.agent = "asking"]
             /\ UNCHANGED <<door, dialect, caller, wire, hearing, past, delivered, ended>>
    <3>1. pc'.agent = "asking" /\ UNCHANGED <<pc.source, pc.router, pc.adapter, pc.server>>
      BY <2>5 DEF StreamTypes
    <3>2. Marks'
      BY <1>2, <1>3, <2>1, <2>5, <3>1 DEF Marks
    <3>3. Control'
      BY <2>1, <2>2, <2>5, <3>1 DEF Control, Cancelled
    <3>4. QED BY <3>2, <3>3
  <2>6. QED BY <2>1, <2>4, <2>5
<1>12. CASE AdapterRelays
  <2> DEFINE c == Head(wire["agent"])
  <2>1. /\ wire["agent"] # <<>> /\ c \in Chunks /\ pc.adapter = "running"
        /\ UNCHANGED <<door, dialect, caller, source, hearing, past, delivered, ended>>
        /\ \/ \E s \in Chunks :
                /\ s.text = c.text /\ s.done = c.done /\ s.usage = c.usage
                /\ HandOn("agent", "grpc", s)
                /\ pc' = [pc EXCEPT !.adapter = IF s.done THEN "over" ELSE @]
           \/ Cancelled /\ Take("agent") /\ pc' = [pc EXCEPT !.adapter = "over"]
    BY <1>12, Relays
  <2>2. /\ c.done => HasLast(wire["agent"]) /\ Tail(wire["agent"]) = <<>>
        /\ Ends(Tail(wire["agent"])) /\ Marked(Tail(wire["agent"]))
        /\ HasLast(Tail(wire["agent"])) => HasLast(wire["agent"])
    BY <1>1, <1>2, <2>1, TailMarks
  <2> HIDE DEF c
  <2>3. door = "grpc" /\ ~HasLast(wire["grpc"])
    BY <2>1 DEF Control, Marks, StreamTypes
  <2>4. CASE Cancelled /\ Take("agent") /\ pc' = [pc EXCEPT !.adapter = "over"]
    <3>1. /\ wire'["agent"] = Tail(wire["agent"]) /\ wire'["raw"] = wire["raw"]
          /\ wire'["routed"] = wire["routed"] /\ wire'["grpc"] = wire["grpc"]
      BY <1>1, <2>1, <2>4, PipeSteps
    <3>2. pc'.adapter = "over" /\ UNCHANGED <<pc.source, pc.router, pc.agent, pc.server>>
      BY <2>4 DEF StreamTypes
    <3>3. Marks'
      BY <1>2, <1>3, <2>2, <2>3, <3>1, <3>2 DEF Marks
    <3>4. Control'
      BY <2>1, <2>3, <2>4, <3>1, <3>2 DEF Control, Cancelled
    <3>5. QED BY <3>3, <3>4
  <2>5. ASSUME NEW s \in Chunks, s.done = c.done, HandOn("agent", "grpc", s),
               pc' = [pc EXCEPT !.adapter = IF s.done THEN "over" ELSE @]
        PROVE  Marks' /\ Control'
    <3>1. /\ wire'["agent"] = Tail(wire["agent"]) /\ wire'["grpc"] = Append(wire["grpc"], s)
          /\ wire'["raw"] = wire["raw"] /\ wire'["routed"] = wire["routed"]
      BY <1>1, <2>1, <2>5, HandedOn
    <3>2. /\ pc'.adapter = IF s.done THEN "over" ELSE "running"
          /\ UNCHANGED <<pc.source, pc.router, pc.agent, pc.server>>
      BY <2>1, <2>5 DEF StreamTypes
    <3>3. Ends(wire'["grpc"]) /\ (HasLast(wire'["grpc"]) => s.done) /\ Len(wire'["grpc"]) <= 1
      <4>1. Len(wire["grpc"]) < 1
        BY <2>5 DEF HandOn, Room
      <4>2. Len(Append(wire["grpc"], s)) = Len(wire["grpc"]) + 1 /\ Len(wire["grpc"]) \in Nat
        BY <1>1
      <4>3. QED BY <1>1, <2>3, <3>1, <4>1, <4>2, AppendMarks
    <3>4. s.done => pc.agent = "over" /\ wire'["agent"] = <<>>
      BY <1>3, <2>2, <2>5, <3>1
    <3>5. Marks'
      BY <1>2, <1>3, <2>2, <3>1, <3>2, <3>3, <3>4 DEF Marks
    <3>6. Control'
      BY <2>1, <2>3, <3>1, <3>2, <3>3, <3>4 DEF Control, Cancelled
    <3>7. QED BY <3>5, <3>6
  <2>6. QED BY <2>1, <2>4, <2>5
<1>13. CASE ServerSends
  <2>1. /\ wire["grpc"] # <<>> /\ Take("grpc") /\ door = "grpc"
        /\ \/ ServerEnds("broken") \/ ServerEnds("final") \/ ServerEnds("done")
           \/ UNCHANGED <<ended, pc>>
        /\ UNCHANGED <<door, dialect, caller, source, hearing, past>>
    BY <1>13 DEF ServerSends
  <2>2. /\ Ends(Tail(wire["grpc"])) /\ Tail(wire["grpc"]) \in Seq(Chunks)
        /\ HasLast(Tail(wire["grpc"])) => HasLast(wire["grpc"])
        /\ Len(Tail(wire["grpc"])) <= 1
    <3>1. Len(Tail(wire["grpc"])) <= 1
      BY <1>1, <2>1 DEF Control
    <3>2. QED BY <1>1, <1>2, <2>1, <3>1, TailMarks
  <2>3. /\ wire'["grpc"] = Tail(wire["grpc"]) /\ wire'["raw"] = wire["raw"]
        /\ wire'["routed"] = wire["routed"] /\ wire'["agent"] = wire["agent"]
    BY <1>1, <2>1, PipeSteps
  <2>4. /\ UNCHANGED <<pc.source, pc.router, pc.agent, pc.adapter>>
        /\ (pc' = pc /\ ended' = ended) \/ pc'.server = "over"
    BY <2>1 DEF StreamTypes, ServerEnds
  <2>5. Marks'
    BY <1>2, <1>3, <2>1, <2>2, <2>3, <2>4 DEF Marks
  <2>6. Control'
    BY <2>1, <2>2, <2>3, <2>4 DEF Control, Cancelled
  <2>7. QED BY <2>5, <2>6
<1>14. CASE HttpWrites
  <2> DEFINE c == Head(wire["agent"])
  <2>1. /\ wire["agent"] # <<>> /\ Take("agent") /\ door = "http"
        /\ IF ~c.done THEN UNCHANGED <<ended, pc>>
           ELSE ServerEnds("error") \/ ServerEnds("broken") \/ ServerEnds("final")
        /\ UNCHANGED <<door, dialect, caller, source, hearing, past>>
    BY <1>14 DEF HttpWrites
  <2>2. /\ c.done => HasLast(wire["agent"])
        /\ Ends(Tail(wire["agent"])) /\ Marked(Tail(wire["agent"]))
        /\ HasLast(Tail(wire["agent"])) => HasLast(wire["agent"])
    BY <1>1, <1>2, <2>1, TailMarks
  <2> HIDE DEF c
  <2>3. /\ wire'["agent"] = Tail(wire["agent"]) /\ wire'["raw"] = wire["raw"]
        /\ wire'["routed"] = wire["routed"] /\ wire'["grpc"] = wire["grpc"]
    BY <1>1, <2>1, PipeSteps
  <2>4. /\ UNCHANGED <<pc.source, pc.router, pc.agent, pc.adapter>>
        /\ (pc' = pc /\ ended' = ended) \/ (pc'.server = "over" /\ pc.agent = "over")
    BY <1>3, <2>1, <2>2 DEF StreamTypes, ServerEnds
  <2>5. ~HasLast(wire["grpc"])
    BY <2>1 DEF Marks
  <2>6. Marks'
    BY <1>2, <1>3, <2>1, <2>2, <2>3, <2>4, <2>5 DEF Marks
  <2>7. Control'
    BY <2>1, <2>3, <2>4 DEF Control, Cancelled
  <2>8. QED BY <2>6, <2>7
<1>15. QED
  BY <1>4, <1>5, <1>6, <1>8, <1>9, <1>10, <1>11, <1>12, <1>13, <1>14 DEF StreamNext

-----------------------------------------------------------------------------

LEMMA PrefixFacts ==
  ASSUME NEW w \in Texts
  PROVE  /\ IsPrefix(w, w)
         /\ \A t \in Texts : IsPrefix(w, w \o t)
         /\ \A d \in 0..Len(w), v \in Texts :
              IsPrefix(w, v) => IsPrefix(SubSeq(w, 1, d), v)
<1>1. Len(w) \in Nat /\ SubSeq(w, 1, Len(w)) = w
  <2>1. w \in Seq(Nat)
    BY DEF Texts
  <2>2. QED BY <2>1, SubSeqFull
<1>2. IsPrefix(w, w)
  BY <1>1 DEF IsPrefix
<1>3. ASSUME NEW t \in Texts PROVE IsPrefix(w, w \o t)
  <2>1. /\ Len(w \o t) = Len(w) + Len(t) /\ Len(t) \in Nat
        /\ SubSeq(w \o t, 1, Len(w)) = SubSeq(w, 1, Len(w))
    <3>1. 1 \in Nat \ {0} /\ Len(w) \in 0..Len(w) /\ Len(t) \in Nat
      BY <1>1 DEF Texts
    <3>2. QED BY <3>1, LongerText
  <2> DEFINE v == w \o t
  <2> HIDE DEF v
  <2>2. Len(w) <= Len(v) /\ SubSeq(v, 1, Len(w)) = SubSeq(w, 1, Len(w))
    BY <1>1, <2>1 DEF v
  <2>3. IsPrefix(w, v)
    BY <2>2 DEF IsPrefix
  <2>4. QED BY <2>3 DEF v
<1>4. ASSUME NEW d \in 0..Len(w), NEW v \in Texts, IsPrefix(w, v)
      PROVE  IsPrefix(SubSeq(w, 1, d), v)
  <2> DEFINE u == SubSeq(w, 1, d)
  <2>1. Len(w) <= Len(v) /\ SubSeq(w, 1, Len(w)) = SubSeq(v, 1, Len(w)) /\ Len(v) \in Nat
    BY <1>4 DEF IsPrefix, Texts
  <2>2. \A i \in 1..Len(w) : w[i] \in Nat /\ v[i] \in Nat
    BY <2>1 DEF Texts
  <2>3. \A i \in 1..Len(w) : w[i] = v[i]
    <3>1. \A i \in 1..Len(w) : SubSeq(w, 1, Len(w))[i] = w[i]
      BY <1>1
    <3>2. \A i \in 1..Len(w) : SubSeq(v, 1, Len(w))[i] = v[i]
      <4>1. \A i \in 1..(Len(w) - 1 + 1) : SubSeq(v, 1, Len(w))[i] = v[1 + i - 1]
        BY <1>1, <2>2, SubSeqProperties
      <4>2. \A i \in 1..Len(w) : i \in 1..(Len(w) - 1 + 1) /\ 1 + i - 1 = i
        BY <1>1
      <4>3. QED BY <4>1, <4>2
    <3>3. QED BY <2>1, <3>1, <3>2
  <2>4. d \in Nat /\ d <= Len(w) /\ d <= Len(v)
    BY <1>1, <2>1
  <2>5. \A i \in 1..d : w[i] \in Nat /\ v[i] \in Nat /\ w[i] = v[i]
    BY <1>1, <2>2, <2>3, <2>4
  <2>6. u \in Seq(Nat) /\ Len(u) = d /\ \A i \in 1..d : u[i] = w[i]
    <3>1. /\ u \in Seq(Nat) /\ Len(u) = IF 1 <= d THEN d - 1 + 1 ELSE 0
          /\ \A i \in 1..(d - 1 + 1) : u[i] = w[1 + i - 1]
      BY <2>4, <2>5, SubSeqProperties
    <3> HIDE DEF u
    <3>2. QED BY <2>4, <3>1
  <2> DEFINE x == SubSeq(v, 1, d)
  <2>7. x \in Seq(Nat) /\ Len(x) = d /\ \A i \in 1..d : x[i] = v[i]
    <3>1. /\ x \in Seq(Nat) /\ Len(x) = IF 1 <= d THEN d - 1 + 1 ELSE 0
          /\ \A i \in 1..(d - 1 + 1) : x[i] = v[1 + i - 1]
      BY <2>4, <2>5, SubSeqProperties
    <3> HIDE DEF x
    <3>2. QED BY <2>4, <3>1
  <2> HIDE DEF u, x
  <2>8. u = x /\ SubSeq(u, 1, Len(u)) = u
    BY <2>5, <2>6, <2>7, SeqEqual, SubSeqFull
  <2>9. Len(u) <= Len(v) /\ SubSeq(u, 1, Len(u)) = SubSeq(v, 1, Len(u))
    BY <2>4, <2>6, <2>8 DEF x
  <2>10. IsPrefix(u, v)
    BY <2>9 DEF IsPrefix
  <2>11. QED BY <2>10 DEF u
<1>5. QED BY <1>2, <1>3, <1>4

LEMMA NothingBetween ==
  ASSUME NEW w \in Texts, NEW k \in 0..Len(w), NEW m \in k..Len(w), SubSeq(w, k + 1, m) = <<>>
  PROVE  m = k
<1>1. Len(w) \in Nat /\ k \in Nat /\ m \in Nat /\ k <= m /\ m <= Len(w)
  BY DEF Texts
<1>2. \A i \in (k + 1)..m : w[i] \in Nat
  BY <1>1 DEF Texts
<1>3. Len(SubSeq(w, k + 1, m)) = IF k + 1 <= m THEN m - (k + 1) + 1 ELSE 0
  BY <1>1, <1>2, SubSeqProperties
<1>4. Len(SubSeq(w, k + 1, m)) = 0
  BY EmptySeq
<1>5. QED BY <1>1, <1>3, <1>4

\* The bounds of what is on its way.
LEMMA OnItsWay ==
  ASSUME StreamTypes, NEW w \in Texts, NEW d, NEW e, NEW f, NEW g, NEW k,
         Down(w, d, e, f, g, k)
  PROVE  /\ Len(w) \in Nat /\ d \in 0..Len(w) /\ e \in 0..Len(w) /\ f \in 0..Len(w)
         /\ g \in 0..Len(w) /\ k \in 0..Len(w)
         /\ wire["grpc"] \in Seq(Chunks) /\ wire["agent"] \in Seq(Chunks)
<1>1. wire["grpc"] \in Seq(Chunks) /\ wire["agent"] \in Seq(Chunks) /\ Len(w) \in Nat
  BY DEF StreamTypes, Pipes, Texts
<1>2. d \in 0..Len(w) /\ Span(wire["grpc"], w, e, f) /\ Span(wire["agent"], w, g, k)
  BY DEF Down
<1>3. QED BY <1>1, <1>2, SpanBounds

\* What the agent has heard when nothing is left to hear.
LEMMA AllHeard ==
  ASSUME StreamTypes, NEW w \in Texts, NEW k \in 0..Len(w), Up(w, k), pc.agent # "over",
         wire["raw"] = <<>>, wire["routed"] = <<>>
  PROVE  k = Len(w) /\ hearing.text = Sent /\ w = past \o Sent
<1>1. PICK r : Span(<<>>, w, k, r) /\ Span(<<>>, w, r, Len(w))
  BY DEF Up
<1>2. k = Len(w)
  BY <1>1, EmptySpan
<1>3. w = past \o Sent /\ hearing.text = SubSeq(w, Len(past) + 1, Len(w))
  BY <1>2 DEF Up
<1>4. past \in Texts /\ Sent \in Texts
  BY SentIsText DEF StreamTypes
<1>5. QED BY <1>2, <1>3, <1>4, LongerText

\* The text grows behind what the agent has sent so far.
LEMMA DownLonger ==
  ASSUME StreamTypes, Marks, pc.agent # "over", NEW w \in Texts, NEW t \in Texts,
         NEW d, NEW e, NEW f, NEW g, NEW k, Down(w, d, e, f, g, k)
  PROVE  Down(w \o t, d, e, f, g, k)
<1> DEFINE v == w \o t
<1>1. /\ v \in Texts /\ Len(v) \in Nat /\ Len(w) <= Len(v) /\ SubSeq(v, 1, d) = SubSeq(w, 1, d)
      /\ Span(wire["grpc"], v, e, f) /\ Span(wire["agent"], v, g, k)
  <2>1. /\ wire["grpc"] \in Seq(Chunks) /\ wire["agent"] \in Seq(Chunks)
        /\ d \in 0..Len(w) /\ Len(w) \in Nat /\ Len(t) \in Nat
    BY OnItsWay DEF Texts
  <2>2. Span(wire["grpc"], w, e, f) /\ Span(wire["agent"], w, g, k)
    BY DEF Down
  <2>3. Span(wire["grpc"], v, e, f) /\ Span(wire["agent"], v, g, k)
    BY <2>1, <2>2, SpanLonger
  <2>4. /\ v \in Texts /\ Len(v) = Len(w) + Len(t)
        /\ \A a \in Nat \ {0}, b \in 0..Len(w) : SubSeq(v, a, b) = SubSeq(w, a, b)
    BY LongerText
  <2> HIDE DEF v
  <2>5. Len(v) \in Nat /\ Len(w) <= Len(v)
    BY ONLY <2>1, <2>4
  <2>6. SubSeq(v, 1, d) = SubSeq(w, 1, d)
    <3>1. 1 \in Nat \ {0}
      OBVIOUS
    <3>2. QED BY ONLY <2>1, <2>4, <3>1
  <2>7. QED BY ONLY <2>3, <2>4, <2>5, <2>6
<1> HIDE DEF v
<1>2. ~HasFinal(wire["agent"]) /\ ~HasFinal(wire["grpc"])
  BY FinalIsLast DEF Marks
<1>3. d \in 0..Len(v)
  BY <1>1, OnItsWay
<1>4. Down(v, d, e, f, g, k)
  BY <1>1, <1>2, <1>3 DEF Down
<1>5. QED BY <1>4 DEF v

LEMMA LongerStill ==
  \A s, t, u \in Texts : (s \o t) \o u = s \o (t \o u)
<1> TAKE s, t, u \in Texts
<1>1. s \in Seq(Nat) /\ t \in Seq(Nat) /\ u \in Seq(Nat)
  BY DEF Texts
<1>2. QED BY <1>1, ConcatAssociative

\* Nothing moves.
LEMMA CarriedIdle ==
  ASSUME StreamTypes, EndedInFull,
         NEW w \in Texts, NEW d, NEW e, NEW f, NEW g, NEW k, Down(w, d, e, f, g, k), Up(w, k),
         CallerGoes \/ SourceEnds \/ RouterEnds \/ ServerStops \/ UNCHANGED streamVars
  PROVE  Carried' /\ EndedInFull'
<1>1. /\ UNCHANGED <<door, dialect, wire, delivered, hearing, past, source>>
      /\ caller' # "left" => caller # "left"
      /\ pc'.agent = pc.agent /\ pc'.adapter = pc.adapter
      /\ ended' = "final" => ended = "final"
  <2>1. CASE CallerGoes
    BY <2>1 DEF CallerGoes, StreamTypes
  <2>2. CASE SourceEnds
    BY <2>2 DEF SourceEnds, StreamTypes
  <2>3. CASE RouterEnds
    BY <2>3 DEF RouterEnds, StreamTypes
  <2>4. CASE ServerStops
    BY <2>4 DEF ServerStops, ServerEnds, StreamTypes
  <2>5. CASE UNCHANGED streamVars
    BY <2>5 DEF streamVars
  <2>6. QED BY <2>1, <2>2, <2>3, <2>4, <2>5
<1>2. SentInFull' = SentInFull
  BY <1>1 DEF SentInFull, Sent
<1>3. EndedInFull'
  BY <1>1, <1>2 DEF EndedInFull
<1>4. Down(w, d, e, f, g, k)'
  BY <1>1, <1>2 DEF Down
<1>5. Up(w, k)'
  BY <1>1, <1>2 DEF Up, Sent
<1>6. QED BY <1>3, <1>4, <1>5 DEF Carried

\* The provider's text grows.
LEMMA CarriedBySource ==
  ASSUME StreamTypes, Marks, Control, EndedInFull,
         NEW w \in Texts, NEW d, NEW e, NEW f, NEW g, NEW k, Down(w, d, e, f, g, k), Up(w, k),
         Speak \/ SpeakToolCall \/ SpeakFinal \/ SpeakError
  PROVE  Carried' /\ EndedInFull'
<1>1. PICK c \in Chunks, next \in {"running", "over"} :
        SourceSends(c, next) /\ Sent' = Sent \o c.text
  BY SourceSendsMarked
<1>2. /\ wire'["raw"] = Append(wire["raw"], c) /\ wire'["routed"] = wire["routed"]
      /\ wire'["agent"] = wire["agent"] /\ wire'["grpc"] = wire["grpc"]
      /\ wire["raw"] \in Seq(Chunks) /\ wire["routed"] \in Seq(Chunks)
  BY <1>1, PipeSteps DEF SourceSends, StreamTypes, Pipes
<1>3. /\ UNCHANGED <<door, caller, hearing, past, delivered, ended>>
      /\ pc'.agent = pc.agent /\ pc'.adapter = pc.adapter /\ pc.agent = "hearing"
      /\ Sent' = Sent \o c.text
  BY <1>1 DEF SourceSends, StreamTypes, Control
<1>4. EndedInFull'
  BY <1>3 DEF EndedInFull
<1>5. c.text \in Texts /\ Sent \in Texts /\ past \in Texts
  BY SentIsText DEF Chunks, StreamTypes
<1>6. PICK v : v = w \o c.text
  OBVIOUS
<1>7. /\ v \in Texts /\ Len(v) = Len(w) + Len(c.text) /\ Len(w) \in Nat /\ Len(c.text) \in Nat
      /\ \A a \in Nat \ {0}, b \in 0..Len(w) : SubSeq(v, a, b) = SubSeq(w, a, b)
      /\ SubSeq(v, Len(w) + 1, Len(v)) = c.text
  BY <1>5, <1>6, LongerText DEF Texts
<1>8. Down(v, d, e, f, g, k)
  BY <1>3, <1>5, <1>6, DownLonger
<1>9. ~HasFinal(wire["agent"]) /\ ~HasFinal(wire["grpc"])
  BY <1>3, FinalIsLast DEF Marks
<1>10. Down(v, d, e, f, g, k)'
  BY <1>2, <1>3, <1>8, <1>9 DEF Down
<1>11. v = past' \o Sent'
  <2>1. w = past \o Sent
    BY <1>3 DEF Up
  <2>2. (past \o Sent) \o c.text = past \o (Sent \o c.text)
    BY <1>5, LongerStill
  <2>3. QED BY <1>3, <1>6, <2>1, <2>2
<1>12. PICK r : Span(wire["routed"], w, k, r) /\ Span(wire["raw"], w, r, Len(w))
  BY <1>3 DEF Up
<1>13. Span(wire["routed"], v, k, r) /\ Span(wire["raw"], v, r, Len(w))
  BY <1>2, <1>5, <1>6, <1>12, SpanLonger
<1>14. Span(Append(wire["raw"], c), v, r, Len(v))
  <2>1. Len(v) \in Len(w)..Len(v)
    BY <1>7
  <2>2. QED BY <1>2, <1>7, <1>13, <2>1, SpanLast
<1>15. k \in 0..Len(w)
  BY OnItsWay
<1>16. Len(past) <= k /\ hearing.text = SubSeq(v, Len(past) + 1, k)
  <2>1. Len(past) + 1 \in Nat \ {0}
    BY <1>5 DEF Texts
  <2>2. Len(past) <= k /\ hearing.text = SubSeq(w, Len(past) + 1, k)
    BY <1>3 DEF Up
  <2>3. QED BY <1>7, <1>15, <2>1, <2>2
<1>17. Up(v, k)'
  BY <1>2, <1>3, <1>11, <1>13, <1>14, <1>16 DEF Up
<1>18. QED BY <1>4, <1>7, <1>10, <1>17 DEF Carried

\* The router hands on.
LEMMA CarriedByRouter ==
  ASSUME StreamTypes, Marks, Control, EndedInFull,
         NEW w \in Texts, NEW d, NEW e, NEW f, NEW g, NEW k, Down(w, d, e, f, g, k), Up(w, k),
         RouterForwards
  PROVE  Carried' /\ EndedInFull'
<1> DEFINE c == Head(wire["raw"])
<1>1. /\ wire["raw"] # <<>> /\ HandOn("raw", "routed", c)
      /\ UNCHANGED <<door, dialect, caller, pc, source, hearing, past, delivered, ended>>
  BY DEF RouterForwards
<1>2. /\ wire["raw"] \in Seq(Chunks) /\ wire["routed"] \in Seq(Chunks) /\ c \in Chunks
  BY <1>1, TailMarks DEF StreamTypes, Pipes, Marks
<1> HIDE DEF c
<1>3. /\ wire'["raw"] = Tail(wire["raw"]) /\ wire'["routed"] = Append(wire["routed"], c)
      /\ wire'["agent"] = wire["agent"] /\ wire'["grpc"] = wire["grpc"]
  BY <1>1, <1>2, HandedOn DEF StreamTypes, Pipes
<1>4. SentInFull' = SentInFull
  BY <1>1 DEF SentInFull, Sent
<1>5. EndedInFull' /\ Down(w, d, e, f, g, k)'
  BY <1>1, <1>3, <1>4 DEF EndedInFull, Down
<1>6. pc.agent = "hearing"
  BY <1>1 DEF Control
<1>7. PICK r : Span(wire["routed"], w, k, r) /\ Span(wire["raw"], w, r, Len(w))
  BY <1>6 DEF Up
<1>8. PICK m \in r..Len(w) : /\ c.text = SubSeq(w, r + 1, m)
                             /\ Span(Tail(wire["raw"]), w, m, Len(w))
  BY <1>1, <1>2, <1>7, SpanFirst DEF c
<1>9. Span(Append(wire["routed"], c), w, k, m)
  BY <1>2, <1>7, <1>8, SpanLast
<1>10. Up(w, k)'
  BY <1>1, <1>3, <1>6, <1>8, <1>9 DEF Up, Sent
<1>11. QED BY <1>5, <1>10 DEF Carried

\* The agent asks again: the answer it heard becomes history.
LEMMA CarriedByAsking ==
  ASSUME StreamTypes, Marks, Control, EndedInFull,
         NEW w \in Texts, NEW d, NEW e, NEW f, NEW g, NEW k, Down(w, d, e, f, g, k), Up(w, k),
         AskModel
  PROVE  Carried' /\ EndedInFull'
<1>1. /\ pc.agent = "asking" /\ past' = past \o Sent /\ Sent' = <<>>
      /\ hearing'.text = <<>> /\ pc'.agent = "hearing" /\ pc'.adapter = pc.adapter
      /\ UNCHANGED <<door, caller, wire, delivered, ended>>
  BY DEF AskModel, StreamTypes, Silent, Sent
<1>2. wire["raw"] = <<>> /\ wire["routed"] = <<>>
  BY <1>1 DEF Control
<1>0. k \in 0..Len(w) /\ Len(w) \in Nat
  BY OnItsWay
<1>3. k = Len(w) /\ w = past \o Sent
  BY <1>0, <1>1, <1>2, AllHeard
<1>4. ~HasFinal(wire["agent"]) /\ ~HasFinal(wire["grpc"])
  BY <1>1, FinalIsLast DEF Marks
<1>5. EndedInFull' /\ Down(w, d, e, f, g, k)'
  BY <1>1, <1>4 DEF EndedInFull, Down
<1>6. Span(<<>>, w, k, k) /\ Len(w) \in Nat
  BY <1>0, EmptySpan
<1>7. w \o <<>> = w /\ SubSeq(w, Len(w) + 1, Len(w)) = <<>>
  <2>1. w \in Seq(Nat)
    BY DEF Texts
  <2>2. w \o <<>> = w
    BY <2>1, ConcatEmptySeq
  <2>3. \A i \in (Len(w) + 1)..Len(w) : w[i] \in Nat
    BY <1>6
  <2>4. /\ SubSeq(w, Len(w) + 1, Len(w)) \in Seq(Nat)
        /\ Len(SubSeq(w, Len(w) + 1, Len(w))) =
             IF Len(w) + 1 <= Len(w) THEN Len(w) - (Len(w) + 1) + 1 ELSE 0
    BY <1>6, <2>3, SubSeqProperties
  <2>5. Len(SubSeq(w, Len(w) + 1, Len(w))) = 0
    BY <1>6, <2>4
  <2>6. QED BY <2>2, <2>4, <2>5, EmptySeq
<1>8. w = past' \o Sent' /\ Len(past') <= k /\ hearing'.text = SubSeq(w, Len(past') + 1, k)
  <2>1. past' = w
    BY <1>1, <1>3
  <2>2. Len(w) <= Len(w)
    BY <1>6
  <2>3. QED BY <1>1, <1>3, <1>7, <2>1, <2>2
<1>9. Up(w, k)'
  BY <1>1, <1>2, <1>3, <1>6, <1>8 DEF Up
<1>10. QED BY <1>5, <1>9 DEF Carried

\* The agent's last chunk, put behind all it has sent.
LEMMA CarriedByEnd ==
  ASSUME StreamTypes, Marks, Control, EndedInFull,
         NEW w \in Texts, NEW d, NEW e, NEW f, NEW g, NEW k, Down(w, d, e, f, g, k), Up(w, k),
         pc.agent # "over", k = Len(w),
         NEW c \in Chunks, AgentEndsWith(c),
         NEW v, v = w \o c.text, IsPrefix(v, SentInFull'), c.usage => v = SentInFull'
  PROVE  Carried' /\ EndedInFull'
<1>1. /\ wire'["agent"] = Append(wire["agent"], c) /\ wire'["grpc"] = wire["grpc"]
      /\ wire["agent"] \in Seq(Chunks)
  BY PipeSteps DEF AgentEndsWith, StreamTypes, Pipes
<1>2. /\ UNCHANGED <<door, caller, hearing, past, delivered, ended>>
      /\ pc'.agent = "over" /\ pc'.adapter = pc.adapter
  BY DEF AgentEndsWith, StreamTypes
<1>3. EndedInFull'
  BY <1>2 DEF EndedInFull
<1>4. /\ v \in Texts /\ Len(v) = Len(w) + Len(c.text) /\ Len(w) \in Nat /\ Len(c.text) \in Nat
      /\ c.text = SubSeq(v, Len(w) + 1, Len(v))
  <2>1. c.text \in Texts
    BY DEF Chunks
  <2>2. QED BY <2>1, LongerText DEF Texts
<1>5. Down(v, d, e, f, g, k)
  <2>1. c.text \in Texts
    BY DEF Chunks
  <2>2. QED BY <2>1, DownLonger
<1>6. ~HasLast(wire["agent"]) /\ ~HasFinal(wire["grpc"])
  BY FinalIsLast DEF Marks
<1>7. HasFinal(Append(wire["agent"], c)) => c.usage
  BY <1>1, <1>6, AppendMarks
<1>8. Span(Append(wire["agent"], c), v, g, Len(v))
  <2>1. Len(v) \in k..Len(v) /\ c.text = SubSeq(v, k + 1, Len(v))
    <3>1. k \in Nat /\ k <= Len(v) /\ Len(v) \in Nat
      BY <1>4
    <3>2. Len(v) \in k..Len(v)
      BY ONLY <3>1
    <3>3. QED BY <1>4, <3>2
  <2>2. Span(wire["agent"], v, g, k)
    BY <1>5 DEF Down
  <2>3. QED BY <1>1, <1>4, <2>1, <2>2, SpanLast
<1>9. Down(v, d, e, f, g, Len(v))'
  BY <1>1, <1>2, <1>5, <1>6, <1>7, <1>8 DEF Down
<1>10. Up(v, Len(v))'
  BY <1>2 DEF Up
<1>11. QED BY <1>3, <1>4, <1>9, <1>10 DEF Carried

\* What was sent so far is part of the whole.
LEMMA SentSoFar ==
  ASSUME StreamTypes, Control
  PROVE  /\ past \o Sent \in Texts
         /\ (past \o Sent) \o <<>> = past \o Sent
         /\ IsPrefix(past \o Sent, SentInFull)
<1>1. past \in Texts /\ Sent \in Texts
  BY SentIsText DEF StreamTypes
<1> DEFINE u == past \o Sent
<1>2. u \in Texts
  BY <1>1, LongerText
<1>3. u \o <<>> = u
  BY <1>2, ConcatEmptySeq DEF Texts
<1>4. CASE hearing.asks = 0
  <2>1. past = <<>>
    BY <1>4 DEF Control
  <2>2. u = Sent
    BY <1>1, <2>1, ConcatEmptySeq DEF Texts
  <2>3. IsPrefix(Sent, Sent)
    BY <1>1, PrefixFacts
  <2>4. SentInFull = Sent
    BY <1>4 DEF SentInFull
  <2>5. QED BY <1>2, <1>3, <2>2, <2>3, <2>4
<1>5. CASE hearing.asks # 0
  <2>1. SentInFull = u \o Sent
    BY <1>5 DEF SentInFull
  <2> HIDE DEF u
  <2>2. IsPrefix(u, u \o Sent)
    BY <1>1, <1>2, PrefixFacts
  <2>3. QED BY <1>2, <1>3, <2>1, <2>2 DEF u
<1>6. QED BY <1>4, <1>5

LEMMA ChunksOfTheAgent ==
  /\ StreamError \in Chunks /\ StreamError.text = <<>> /\ StreamError.usage = FALSE
  /\ \A t \in Texts : FinalChunk(t) \in Chunks /\ FinalChunk(t).text = t
BY DEF StreamError, FinalChunk, Chunk, Chunks, Texts

\* The agent gives up.
LEMMA CarriedByError ==
  ASSUME StreamTypes, Marks, Control, EndedInFull,
         NEW w \in Texts, NEW d, NEW e, NEW f, NEW g, NEW k, Down(w, d, e, f, g, k), Up(w, k),
         pc.agent = "asking", AgentEndsWith(StreamError), source' = source
  PROVE  Carried' /\ EndedInFull'
<1>1. wire["raw"] = <<>> /\ wire["routed"] = <<>> /\ k \in 0..Len(w)
  BY OnItsWay DEF Control
<1>2. k = Len(w) /\ w = past \o Sent
  BY <1>1, AllHeard
<1>3. SentInFull' = SentInFull
  BY DEF AgentEndsWith, SentInFull, Sent
<1>4. w \o <<>> = w /\ IsPrefix(w, SentInFull')
  BY <1>2, <1>3, SentSoFar
<1>5. w = w \o StreamError.text /\ (StreamError.usage => w = SentInFull')
  BY <1>4, ChunksOfTheAgent
<1> HIDE DEF StreamError
<1>6. QED BY <1>2, <1>4, <1>5, ChunksOfTheAgent, CarriedByEnd

\* A skill or the pipeline answers the task.
LEMMA CarriedAtOnce ==
  ASSUME StreamTypes, Marks, Control, EndedInFull,
         NEW w \in Texts, NEW d, NEW e, NEW f, NEW g, NEW k, Down(w, d, e, f, g, k), Up(w, k),
         AnswerAtOnce
  PROVE  Carried' /\ EndedInFull'
<1>1. pc.agent = "asking" /\ hearing.asks = 0
  BY DEF AnswerAtOnce
<1>2. CASE AgentEndsWith(StreamError) /\ UNCHANGED source
  BY <1>1, <1>2, CarriedByError
<1>3. CASE AgentEndsWith(FinalChunk(<<0>>)) /\ source' = [source EXCEPT !.text = <<0>>]
  <2>1. wire["raw"] = <<>> /\ wire["routed"] = <<>> /\ k \in 0..Len(w)
    BY <1>1, OnItsWay DEF Control
  <2>2. k = Len(w) /\ w = past \o Sent
    BY <1>1, <2>1, AllHeard
  <2>3. w = <<>>
    <3>1. past = <<>> /\ Sent = <<>>
      BY <1>1 DEF Control, Sent
    <3>2. <<>> \o <<>> = <<>>
      BY ConcatEmptySeq
    <3>3. QED BY <2>2, <3>1, <3>2
  <2>4. SentInFull' = <<0>>
    BY <1>1, <1>3 DEF AgentEndsWith, StreamTypes, SentInFull, Sent, Control
  <2>5. <<0>> \in Texts /\ w \o <<0>> = <<0>>
    BY <2>3, ConcatEmptySeq DEF Texts
  <2>6. PICK v : v = <<0>>
    OBVIOUS
  <2>7. v \in Texts /\ SentInFull' = v /\ IsPrefix(v, SentInFull') /\ v = w \o v
    BY <2>4, <2>5, <2>6, PrefixFacts
  <2>8. AgentEndsWith(FinalChunk(v)) /\ FinalChunk(v) \in Chunks /\ FinalChunk(v).text = v
    BY <1>3, <2>6, <2>7, ChunksOfTheAgent
  <2>9. QED BY <1>1, <2>2, <2>7, <2>8, CarriedByEnd
<1>4. QED BY <1>2, <1>3 DEF AnswerAtOnce

\* The answer is complete.
LEMMA CarriedWhenHeard ==
  ASSUME StreamTypes, Marks, Control, EndedInFull,
         NEW w \in Texts, NEW d, NEW e, NEW f, NEW g, NEW k, Down(w, d, e, f, g, k), Up(w, k),
         HeardAll
  PROVE  Carried' /\ EndedInFull'
<1>1. /\ pc.agent = "hearing" /\ wire["routed"] = <<>> /\ wire["raw"] = <<>> /\ source' = source
      /\ k \in 0..Len(w)
  BY OnItsWay DEF HeardAll, Control
<1>2. k = Len(w) /\ hearing.text = Sent /\ w = past \o Sent
  BY <1>1, AllHeard
<1>3. CASE /\ pc' = [pc EXCEPT !.agent = "asking"]
           /\ UNCHANGED <<door, dialect, caller, wire, hearing, past, delivered, ended>>
  <2>1. pc'.agent = "asking" /\ pc'.adapter = pc.adapter
    BY <1>3 DEF StreamTypes
  <2>2. SentInFull' = SentInFull
    BY <1>1, <1>3 DEF SentInFull, Sent
  <2>3. EndedInFull' /\ Down(w, d, e, f, g, k)'
    BY <1>1, <1>3, <2>1, <2>2 DEF EndedInFull, Down
  <2>4. Up(w, k)'
    BY <1>1, <1>3, <2>1 DEF Up, Sent
  <2>5. QED BY <2>3, <2>4 DEF Carried
<1>4. CASE AgentEndsWith(FinalChunk(hearing.text))
  <2>1. hearing.asks # 0
    BY <1>1 DEF Control
  <2>2. SentInFull' = w \o Sent
    BY <1>1, <1>2, <1>4, <2>1 DEF AgentEndsWith, SentInFull, Sent
  <2>3. PICK t : t = Sent
    OBVIOUS
  <2>4. t \in Texts
    BY <2>3, SentIsText
  <2>5. PICK v : v = w \o t
    OBVIOUS
  <2>6. SentInFull' = v /\ IsPrefix(v, SentInFull')
    BY <2>2, <2>3, <2>4, <2>5, LongerText, PrefixFacts
  <2>7. AgentEndsWith(FinalChunk(t)) /\ FinalChunk(t) \in Chunks /\ FinalChunk(t).text = t
    BY <1>2, <1>4, <2>3, <2>4, ChunksOfTheAgent
  <2>8. QED BY <1>1, <1>2, <2>5, <2>6, <2>7, CarriedByEnd
<1>5. QED BY <1>3, <1>4 DEF HeardAll

\* The agent hears a chunk, and passes it on.
LEMMA CarriedByHearing ==
  ASSUME StreamTypes, Marks, Control, EndedInFull,
         NEW w \in Texts, NEW d, NEW e, NEW f, NEW g, NEW k, Down(w, d, e, f, g, k), Up(w, k),
         Hear
  PROVE  Carried' /\ EndedInFull'
<1> DEFINE c == Head(wire["routed"])
<1>1. /\ wire["routed"] # <<>> /\ c \in Chunks /\ pc.agent = "hearing"
      /\ pc' = [pc EXCEPT !.agent = IF c.error THEN "over" ELSE @]
      /\ hearing' = [hearing EXCEPT !.text = @ \o c.text, !.tools = @ \/ c.tool,
                                    !.finished = @ \/ c.done]
      /\ UNCHANGED <<door, dialect, caller, source, past, delivered, ended>>
      /\ \/ c.text = <<>> /\ c.error = FALSE /\ Take("routed")
         \/ \E x \in Chunks : /\ x.text = c.text /\ MarkedChunk(x)
                              /\ x.done => x = c /\ c.error
                              /\ HandOn("routed", "agent", x)
  BY Hears
<1>2. /\ wire["routed"] \in Seq(Chunks) /\ wire["agent"] \in Seq(Chunks)
      /\ ~HasLast(wire["agent"]) /\ ~HasFinal(wire["grpc"])
  BY <1>1, FinalIsLast DEF StreamTypes, Pipes, Marks
<1>3. PICK r : Span(wire["routed"], w, k, r) /\ Span(wire["raw"], w, r, Len(w))
  BY <1>1 DEF Up, Sent
<1>4. PICK m \in k..Len(w) : c.text = SubSeq(w, k + 1, m) /\ Span(Tail(wire["routed"]), w, m, r)
  BY <1>1, <1>2, <1>3, SpanFirst
<1> HIDE DEF c
<1>5. /\ hearing'.text = hearing.text \o c.text /\ hearing'.asks = hearing.asks
      /\ pc'.adapter = pc.adapter /\ (~c.error => pc'.agent = "hearing")
      /\ c.error => pc'.agent = "over"
  BY <1>1 DEF StreamTypes
<1>6. /\ Len(w) \in Nat /\ k \in 0..Len(w) /\ Len(past) \in Nat /\ Len(past) <= k
      /\ w = past \o Sent /\ hearing.text = SubSeq(w, Len(past) + 1, k)
  <2>1. Len(w) \in Nat /\ k \in 0..Len(w)
    BY OnItsWay
  <2>2. Len(past) \in Nat
    BY DEF StreamTypes, Texts
  <2>3. QED BY <1>1, <2>1, <2>2 DEF Up
<1>7. Len(past) <= m /\ hearing'.text = SubSeq(w, Len(past) + 1, m)
  <2>1. m \in 0..Len(w) /\ k \in 0..m /\ Len(past) + 1 \in 1..(k + 1) /\ Len(past) <= m
    BY <1>4, <1>6
  <2>2. SubSeq(w, Len(past) + 1, k) \o SubSeq(w, k + 1, m) = SubSeq(w, Len(past) + 1, m)
    BY <2>1, Joined
  <2>3. QED BY <1>4, <1>5, <1>6, <2>1, <2>2
<1>8. SentInFull' = SentInFull
  BY <1>1, <1>5 DEF SentInFull, Sent
<1>9. EndedInFull'
  BY <1>1 DEF EndedInFull
<1>10. CASE c.text = <<>> /\ c.error = FALSE /\ Take("routed")
  <2>1. m = k
    BY <1>4, <1>6, <1>10, NothingBetween
  <2>2. /\ wire'["routed"] = Tail(wire["routed"]) /\ wire'["raw"] = wire["raw"]
        /\ wire'["agent"] = wire["agent"] /\ wire'["grpc"] = wire["grpc"]
    BY <1>1, <1>10, PipeSteps DEF StreamTypes, Pipes
  <2>3. Down(w, d, e, f, g, k)'
    BY <1>1, <1>5, <1>8, <2>2 DEF Down
  <2>4. Up(w, k)'
    BY <1>1, <1>3, <1>4, <1>5, <1>6, <1>7, <1>10, <2>1, <2>2 DEF Up, Sent
  <2>5. QED BY <1>9, <2>3, <2>4 DEF Carried
<1>11. CASE \E x \in Chunks : /\ x.text = c.text /\ MarkedChunk(x)
                              /\ x.done => x = c /\ c.error
                              /\ HandOn("routed", "agent", x)
  <2>1. PICK x \in Chunks : /\ x.text = c.text /\ MarkedChunk(x)
                            /\ x.done => x = c /\ c.error
                            /\ HandOn("routed", "agent", x)
    BY <1>11
  <2>2. /\ wire'["routed"] = Tail(wire["routed"]) /\ wire'["agent"] = Append(wire["agent"], x)
        /\ wire'["raw"] = wire["raw"] /\ wire'["grpc"] = wire["grpc"]
    BY <1>1, <2>1, HandedOn DEF StreamTypes, Pipes
  <2>3. ~HasFinal(Append(wire["agent"], x))
    BY <1>2, <2>1, AppendMarks DEF MarkedChunk
  <2>4. Span(Append(wire["agent"], x), w, g, m)
    <3>1. Span(wire["agent"], w, g, k)
      BY DEF Down
    <3>2. QED BY <1>2, <1>4, <2>1, <3>1, SpanLast
  <2>5. Down(w, d, e, f, g, m)'
    BY <1>1, <1>2, <1>5, <2>2, <2>3, <2>4 DEF Down
  <2>6. Up(w, m)'
    <3>1. CASE c.error
      <4>1. IsPrefix(w, SentInFull')
        BY <1>6, <1>8, SentSoFar
      <4>2. QED BY <1>5, <3>1, <4>1 DEF Up, Sent
    <3>2. CASE ~c.error
      BY <1>1, <1>3, <1>4, <1>5, <1>6, <1>7, <2>2, <3>2 DEF Up, Sent
    <3>3. QED BY <3>1, <3>2
  <2>7. QED BY <1>9, <2>5, <2>6 DEF Carried
<1>12. QED BY <1>1, <1>10, <1>11

\* The agent's reader takes a chunk: where its text is.
LEMMA TakenOff ==
  ASSUME StreamTypes, Marks, NEW p \in Pipes, wire[p] # <<>>,
         NEW w \in Texts, NEW lo, NEW hi, Span(wire[p], w, lo, hi)
  PROVE  LET c == Head(wire[p])
         IN  /\ c \in Chunks /\ wire[p] \in Seq(Chunks)
             /\ \E m \in lo..Len(w) : /\ c.text = SubSeq(w, lo + 1, m)
                                      /\ Span(Tail(wire[p]), w, m, hi)
                                      /\ c.done => m = hi
             /\ c.done /\ c.usage => HasFinal(wire[p])
             /\ HasFinal(Tail(wire[p])) => HasFinal(wire[p])
<1> DEFINE c == Head(wire[p])
<1>1. wire[p] \in Seq(Chunks) /\ Ends(wire[p])
  BY DEF StreamTypes, Marks
<1>2. /\ c \in Chunks /\ (c.done => Tail(wire[p]) = <<>>)
      /\ c.done /\ c.usage => HasFinal(wire[p])
      /\ HasFinal(Tail(wire[p])) => HasFinal(wire[p])
  BY <1>1, TailMarks
<1>3. PICK m \in lo..Len(w) : c.text = SubSeq(w, lo + 1, m) /\ Span(Tail(wire[p]), w, m, hi)
  BY <1>1, SpanFirst
<1>4. c.done => m = hi
  <2>1. m \in 0..Len(w)
    <3>1. lo \in 0..Len(w) /\ Len(w) \in Nat
      BY <1>1, SpanBounds DEF Texts
    <3>2. QED BY <3>1
  <2>2. Span(<<>>, w, m, hi) => hi = m
    BY <2>1, EmptySpan
  <2> HIDE DEF c
  <2>3. QED BY <1>2, <1>3, <2>2
<1>5. QED BY <1>1, <1>2, <1>3, <1>4

\* The adapter relays a chunk, or lets it go and stops.
LEMMA CarriedByAdapter ==
  ASSUME StreamTypes, Marks, Control, EndedInFull,
         NEW w \in Texts, NEW d, NEW e, NEW f, NEW g, NEW k, Down(w, d, e, f, g, k), Up(w, k),
         AdapterRelays
  PROVE  Carried' /\ EndedInFull'
<1> DEFINE c == Head(wire["agent"])
<1>1. /\ wire["agent"] # <<>> /\ pc.adapter = "running"
      /\ UNCHANGED <<door, dialect, caller, source, hearing, past, delivered, ended>>
      /\ \/ \E s \in Chunks :
              /\ s.text = c.text /\ s.done = c.done /\ s.usage = c.usage
              /\ HandOn("agent", "grpc", s)
              /\ pc' = [pc EXCEPT !.adapter = IF s.done THEN "over" ELSE @]
         \/ Cancelled /\ Take("agent") /\ pc' = [pc EXCEPT !.adapter = "over"]
  BY Relays
<1>2. f = g /\ Span(wire["agent"], w, g, k) /\ Span(wire["grpc"], w, e, f)
  BY <1>1 DEF Down
<1>3. PICK m \in g..Len(w) : /\ c.text = SubSeq(w, g + 1, m)
                             /\ Span(Tail(wire["agent"]), w, m, k)
                             /\ c.done => m = k
                             /\ c.done /\ c.usage => HasFinal(wire["agent"])
                             /\ HasFinal(Tail(wire["agent"])) => HasFinal(wire["agent"])
  BY <1>1, <1>2, TakenOff DEF Pipes
<1> HIDE DEF c
<1>4. /\ wire["grpc"] \in Seq(Chunks) /\ ~HasLast(wire["grpc"]) /\ ~HasFinal(wire["grpc"])
      /\ wire["agent"] \in Seq(Chunks)
  BY <1>1, FinalIsLast DEF StreamTypes, Pipes, Marks
<1>5. /\ pc'.agent = pc.agent /\ Len(w) \in Nat
      /\ g \in 0..Len(w) /\ m \in 0..Len(w) /\ g <= m /\ f <= m
  BY <1>1, <1>2, <1>3, OnItsWay DEF StreamTypes
<1>6. SentInFull' = SentInFull
  BY <1>1 DEF SentInFull, Sent
<1>7. EndedInFull'
  BY <1>1, <1>5, <1>6 DEF EndedInFull
<1>8. wire'["raw"] = wire["raw"] /\ wire'["routed"] = wire["routed"] => Up(w, k)'
  BY <1>1, <1>5, <1>6 DEF Up, Sent
<1>9. CASE \E s \in Chunks :
             /\ s.text = c.text /\ s.done = c.done /\ s.usage = c.usage
             /\ HandOn("agent", "grpc", s)
             /\ pc' = [pc EXCEPT !.adapter = IF s.done THEN "over" ELSE @]
  <2>1. PICK s \in Chunks :
          /\ s.text = c.text /\ s.done = c.done /\ s.usage = c.usage
          /\ HandOn("agent", "grpc", s)
    BY <1>9
  <2>2. /\ wire'["agent"] = Tail(wire["agent"]) /\ wire'["grpc"] = Append(wire["grpc"], s)
        /\ wire'["raw"] = wire["raw"] /\ wire'["routed"] = wire["routed"]
    BY <1>1, <2>1, HandedOn DEF StreamTypes, Pipes
  <2>3. Span(Append(wire["grpc"], s), w, e, m)
    BY <1>2, <1>3, <1>4, <2>1, SpanLast
  <2>4. HasFinal(Append(wire["grpc"], s)) => m = Len(w) /\ w = SentInFull'
    <3>1. HasFinal(Append(wire["grpc"], s)) => c.done /\ c.usage
      BY <1>4, <2>1, AppendMarks
    <3>2. HasFinal(wire["agent"]) => k = Len(w) /\ w = SentInFull
      BY DEF Down
    <3>3. QED BY <1>3, <1>6, <3>1, <3>2
  <2>5. HasFinal(Tail(wire["agent"])) => k = Len(w) /\ w = SentInFull'
    BY <1>3, <1>6 DEF Down
  <2>6. Down(w, d, e, m, m, k)'
    BY <1>1, <1>3, <1>5, <2>2, <2>3, <2>4, <2>5 DEF Down
  <2>7. QED BY <1>7, <1>8, <2>2, <2>6 DEF Carried
<1>10. CASE Take("agent") /\ pc' = [pc EXCEPT !.adapter = "over"]
  <2>1. /\ wire'["agent"] = Tail(wire["agent"]) /\ wire'["grpc"] = wire["grpc"]
        /\ wire'["raw"] = wire["raw"] /\ wire'["routed"] = wire["routed"]
    BY <1>1, <1>10, PipeSteps DEF StreamTypes, Pipes
  <2>2. pc'.adapter = "over" /\ door = "grpc"
    BY <1>1, <1>10 DEF StreamTypes, Control
  <2>3. Down(w, d, e, f, m, k)'
    <3>1. HasFinal(Tail(wire["agent"])) => k = Len(w) /\ w = SentInFull'
      BY <1>3, <1>6 DEF Down
    <3>2. QED BY <1>1, <1>3, <1>4, <1>5, <2>1, <2>2, <3>1 DEF Down
  <2>4. QED BY <1>7, <1>8, <2>1, <2>3 DEF Carried
<1>11. QED BY <1>1, <1>9, <1>10

\* What is delivered when a server writes on.
LEMMA WrittenOn ==
  ASSUME StreamTypes, NEW w \in Texts, NEW d \in 0..Len(w), NEW e \in 0..Len(w), d <= e,
         NEW m \in e..Len(w), delivered = SubSeq(w, 1, d), caller # "left" => d = e,
         NEW t, t = SubSeq(w, e + 1, m),
         delivered' = IF caller = "left" THEN delivered ELSE delivered \o t, caller' = caller
  PROVE  \E n \in 0..Len(w) : /\ n <= m /\ delivered' = SubSeq(w, 1, n)
                              /\ caller' # "left" => n = m
<1>1. CASE caller = "left"
  BY <1>1
<1>2. CASE caller # "left"
  <2>1. Len(w) \in Nat
    BY DEF Texts
  <2>2. e \in 0..m /\ m \in 0..Len(w) /\ 1 \in 1..(e + 1)
    BY <2>1
  <2>3. SubSeq(w, 1, e) \o SubSeq(w, e + 1, m) = SubSeq(w, 1, m)
    BY <2>2, Joined
  <2>4. delivered' = SubSeq(w, 1, m) /\ m <= m
    <3>1. delivered' = SubSeq(w, 1, e) \o SubSeq(w, e + 1, m)
      BY <1>2
    <3>2. m <= m
      BY <2>1, <2>2
    <3>3. QED BY <2>3, <3>1, <3>2
  <2>5. QED BY <2>2, <2>4
<1>3. QED BY <1>1, <1>2

LEMMA WholeText ==
  ASSUME NEW w \in Texts
  PROVE  SubSeq(w, 1, Len(w)) = w
<1>1. w \in Seq(Nat)
  BY DEF Texts
<1>2. QED BY <1>1, SubSeqFull

\* The gRPC handler sends.
LEMMA CarriedByServer ==
  ASSUME StreamTypes, Marks, Control, EndedInFull,
         NEW w \in Texts, NEW d, NEW e, NEW f, NEW g, NEW k, Down(w, d, e, f, g, k), Up(w, k),
         ServerSends
  PROVE  Carried' /\ EndedInFull'
<1> DEFINE c == Head(wire["grpc"])
<1>1. /\ wire["grpc"] # <<>> /\ pc.server = "running" /\ Take("grpc")
      /\ delivered' = IF caller = "left" THEN delivered ELSE delivered \o c.text
      /\ \/ caller = "left" /\ ServerEnds("broken")
         \/ caller # "left" /\ c.done /\ ServerEnds(IF c.usage THEN "final" ELSE "done")
         \/ ~c.done /\ UNCHANGED <<ended, pc>>
      /\ UNCHANGED <<door, dialect, caller, source, hearing, past>>
  BY DEF ServerSends
<1>2. Span(wire["grpc"], w, e, f) /\ (HasFinal(wire["grpc"]) => f = Len(w) /\ w = SentInFull)
  BY DEF Down
<1>3. PICK m \in e..Len(w) : /\ c.text = SubSeq(w, e + 1, m)
                             /\ Span(Tail(wire["grpc"]), w, m, f)
                             /\ c.done => m = f
                             /\ c.done /\ c.usage => HasFinal(wire["grpc"])
                             /\ HasFinal(Tail(wire["grpc"])) => HasFinal(wire["grpc"])
  BY <1>1, <1>2, TakenOff DEF Pipes
<1> HIDE DEF c
<1>4. /\ Len(w) \in Nat /\ d \in 0..Len(w) /\ e \in 0..Len(w) /\ d <= e
      /\ delivered = SubSeq(w, 1, d) /\ (caller # "left" => d = e)
  BY OnItsWay DEF Down
<1>5. PICK n \in 0..Len(w) : /\ n <= m /\ delivered' = SubSeq(w, 1, n)
                             /\ caller' # "left" => n = m
  BY <1>1, <1>3, <1>4, WrittenOn
<1>6. /\ wire'["grpc"] = Tail(wire["grpc"]) /\ wire'["agent"] = wire["agent"]
      /\ wire'["raw"] = wire["raw"] /\ wire'["routed"] = wire["routed"]
  BY <1>1, PipeSteps DEF StreamTypes, Pipes
<1>7. pc'.agent = pc.agent /\ pc'.adapter = pc.adapter
  BY <1>1 DEF ServerEnds, StreamTypes
<1>8. SentInFull' = SentInFull
  BY <1>1 DEF SentInFull, Sent
<1>9. ended' = "final" => caller # "left" /\ c.done /\ c.usage
  BY <1>1 DEF ServerEnds, Control
<1>10. EndedInFull'
  <2> SUFFICES ASSUME ended' = "final" PROVE pc'.agent = "over" /\ delivered' = SentInFull'
    BY DEF EndedInFull
  <2>1. HasFinal(wire["grpc"]) /\ m = f /\ caller' # "left"
    BY <1>1, <1>3, <1>9
  <2>2. pc.agent = "over"
    BY <2>1, FinalIsLast DEF Marks
  <2>3. n = Len(w) /\ w = SentInFull
    BY <1>2, <1>5, <2>1
  <2>4. QED BY <1>5, <1>7, <1>8, <2>2, <2>3, WholeText
<1>11. Down(w, n, m, f, g, k)'
  BY <1>1, <1>2, <1>3, <1>5, <1>6, <1>7, <1>8 DEF Down
<1>12. Up(w, k)'
  BY <1>1, <1>6, <1>7, <1>8 DEF Up, Sent
<1>13. QED BY <1>10, <1>11, <1>12 DEF Carried

\* The HTTP handler writes.
LEMMA CarriedByHttp ==
  ASSUME StreamTypes, Marks, Control, EndedInFull,
         NEW w \in Texts, NEW d, NEW e, NEW f, NEW g, NEW k, Down(w, d, e, f, g, k), Up(w, k),
         HttpWrites
  PROVE  Carried' /\ EndedInFull'
<1> DEFINE c == Head(wire["agent"])
<1>1. /\ wire["agent"] # <<>> /\ door = "http" /\ pc.server = "running" /\ Take("agent")
      /\ delivered' = IF caller = "left" THEN delivered ELSE delivered \o c.text
      /\ IF ~c.done THEN UNCHANGED <<ended, pc>>
         ELSE ServerEnds(IF c.error THEN "error" ELSE IF caller = "left" THEN "broken" ELSE "final")
      /\ UNCHANGED <<door, dialect, caller, source, hearing, past>>
  BY DEF HttpWrites
<1>2. /\ Span(wire["agent"], w, g, k) /\ (HasFinal(wire["agent"]) => k = Len(w) /\ w = SentInFull)
      /\ wire["grpc"] = <<>> /\ f = g /\ Span(wire["grpc"], w, e, f)
  BY <1>1 DEF Down, Control
<1>3. PICK m \in g..Len(w) : /\ c.text = SubSeq(w, g + 1, m)
                             /\ Span(Tail(wire["agent"]), w, m, k)
                             /\ c.done => m = k
                             /\ c.done /\ c.usage => HasFinal(wire["agent"])
                             /\ HasFinal(Tail(wire["agent"])) => HasFinal(wire["agent"])
  BY <1>1, <1>2, TakenOff DEF Pipes
<1>4. MarkedChunk(c) /\ (c.done => HasLast(wire["agent"]))
  BY <1>1, TailMarks DEF StreamTypes, Pipes, Marks
<1> HIDE DEF c
<1>5. /\ Len(w) \in Nat /\ d \in 0..Len(w) /\ e \in 0..Len(w) /\ d <= e
      /\ delivered = SubSeq(w, 1, d) /\ (caller # "left" => d = e) /\ g \in 0..Len(w)
  BY OnItsWay DEF Down
<1>6. e = g
  BY <1>2, <1>5, EmptySpan
<1>7. PICK n \in 0..Len(w) : /\ n <= m /\ delivered' = SubSeq(w, 1, n)
                             /\ caller' # "left" => n = m
  BY <1>1, <1>3, <1>5, <1>6, WrittenOn
<1>8. /\ wire'["agent"] = Tail(wire["agent"]) /\ wire'["grpc"] = <<>>
      /\ wire'["raw"] = wire["raw"] /\ wire'["routed"] = wire["routed"]
  BY <1>1, <1>2, PipeSteps DEF StreamTypes, Pipes
<1>9. pc'.agent = pc.agent /\ pc'.adapter = pc.adapter
  BY <1>1 DEF ServerEnds, StreamTypes
<1>10. SentInFull' = SentInFull
  BY <1>1 DEF SentInFull, Sent
<1>11. ended' = "final" => caller # "left" /\ c.done /\ c.usage
  BY <1>1, <1>4 DEF ServerEnds, Control, MarkedChunk
<1>12. EndedInFull'
  <2> SUFFICES ASSUME ended' = "final" PROVE pc'.agent = "over" /\ delivered' = SentInFull'
    BY DEF EndedInFull
  <2>1. HasFinal(wire["agent"]) /\ m = k /\ caller' # "left"
    BY <1>1, <1>3, <1>11
  <2>2. pc.agent = "over"
    BY <2>1, FinalIsLast DEF Marks
  <2>3. n = Len(w) /\ w = SentInFull
    BY <1>2, <1>7, <2>1
  <2>4. QED BY <1>7, <1>9, <1>10, <2>2, <2>3, WholeText
<1>13. Span(<<>>, w, m, m) /\ m <= m
  <2>1. m \in 0..Len(w)
    BY <1>3, <1>5
  <2>2. QED BY <1>5, <2>1, EmptySpan
<1>14. Down(w, n, m, m, m, k)'
  BY <1>1, <1>2, <1>3, <1>7, <1>8, <1>9, <1>10, <1>13, NoMarks DEF Down
<1>15. Up(w, k)'
  BY <1>1, <1>8, <1>9, <1>10 DEF Up, Sent
<1>16. QED BY <1>12, <1>14, <1>15 DEF Carried

\* The limits of the channels and of the answers.
Capacity(p) == IF p = "grpc" THEN 1 ELSE PipeCap

StreamBounds ==
  /\ dialect \in {"openai", "anthropic"} /\ hearing.asks <= MaxAsks
  /\ \A p \in Pipes : Len(wire[p]) <= Capacity(p)

\* A chunk is put where there is room.
LEMMA PipesHaveRoom ==
  ASSUME StreamTypes, StreamBounds, NEW p \in Pipes
  PROVE  /\ \A c \in Chunks : Put(p, c) => \A o \in Pipes : Len(wire'[o]) <= Capacity(o)
         /\ Take(p) /\ wire[p] # <<>> => \A o \in Pipes : Len(wire'[o]) <= Capacity(o)
         /\ \A q \in Pipes \ {p}, c \in Chunks :
              HandOn(p, q, c) /\ wire[p] # <<>> => \A o \in Pipes : Len(wire'[o]) <= Capacity(o)
<1>1. \A o \in Pipes : /\ wire[o] \in Seq(Chunks) /\ Len(wire[o]) \in Nat
                       /\ Len(wire[o]) <= Capacity(o) /\ Capacity(o) \in Nat
  BY StreamAssumption DEF StreamTypes, StreamBounds, Capacity
<1>2. wire \in [Pipes -> Seq(Chunks)]
  BY DEF StreamTypes
<1>3. \A o \in Pipes, c \in Chunks :
        Room(o) => Len(Append(wire[o], c)) <= Capacity(o)
  <2> TAKE o \in Pipes, c \in Chunks
  <2>1. Len(Append(wire[o], c)) = Len(wire[o]) + 1
    BY <1>1, AppendProperties
  <2>2. Room(o) => Len(wire[o]) < Capacity(o)
    BY DEF Room, Capacity
  <2>3. QED BY <1>1, <2>1, <2>2
<1>4. \A o \in Pipes : wire[o] # <<>> => Len(Tail(wire[o])) <= Capacity(o)
  <2> TAKE o \in Pipes
  <2>1. wire[o] # <<>> => Len(Tail(wire[o])) = Len(wire[o]) - 1
    BY <1>1, HeadTailProperties
  <2>2. QED BY <1>1, <2>1
<1>5. ASSUME NEW c \in Chunks, Put(p, c), NEW o \in Pipes PROVE Len(wire'[o]) <= Capacity(o)
  BY <1>1, <1>2, <1>3, <1>5, PipeSteps DEF Put
<1>6. ASSUME Take(p), wire[p] # <<>>, NEW o \in Pipes PROVE Len(wire'[o]) <= Capacity(o)
  BY <1>1, <1>2, <1>4, <1>6, PipeSteps
<1>7. ASSUME NEW q \in Pipes \ {p}, NEW c \in Chunks, HandOn(p, q, c), wire[p] # <<>>,
             NEW o \in Pipes
      PROVE  Len(wire'[o]) <= Capacity(o)
  <2>1. /\ wire'[p] = Tail(wire[p]) /\ wire'[q] = Append(wire[q], c)
        /\ \A n \in Pipes \ {p, q} : wire'[n] = wire[n]
    BY <1>2, <1>7, HandedOn
  <2>2. Room(q)
    BY <1>7 DEF HandOn
  <2>3. QED BY <1>1, <1>3, <1>4, <1>7, <2>1, <2>2
<1>8. QED BY <1>5, <1>6, <1>7

LEMMA StreamBoundsKept ==
  ASSUME StreamTypes, Marks, Control, StreamBounds, [StreamNext]_streamVars
  PROVE  StreamBounds'
<1> USE DEF Pipes
<1>1. CASE UNCHANGED <<wire, hearing, dialect>>
  BY <1>1 DEF StreamBounds
<1>2. ASSUME UNCHANGED dialect, hearing'.asks <= MaxAsks,
             \A o \in Pipes : Len(wire'[o]) <= Capacity(o)
      PROVE  StreamBounds'
  BY <1>2 DEF StreamBounds
<1>3. CASE CallerGoes \/ SourceEnds \/ RouterEnds \/ ServerStops \/ UNCHANGED streamVars
  BY <1>1, <1>3 DEF CallerGoes, SourceEnds, RouterEnds, ServerStops, streamVars
<1>4. CASE Speak \/ SpeakToolCall \/ SpeakFinal \/ SpeakError
  <2>1. PICK c \in Chunks, next \in {"running", "over"} :
          SourceSends(c, next)
    BY <1>4, SourceSendsMarked
  <2>2. Put("raw", c) /\ UNCHANGED <<dialect, hearing>>
    BY <2>1 DEF SourceSends
  <2>3. QED BY <1>2, <2>2, PipesHaveRoom DEF StreamBounds
<1>5. CASE RouterForwards
  <2>1. /\ wire["raw"] # <<>> /\ HandOn("raw", "routed", Head(wire["raw"]))
        /\ UNCHANGED <<dialect, hearing>>
    BY <1>5 DEF RouterForwards
  <2>2. Head(wire["raw"]) \in Chunks
    BY <2>1, TailMarks DEF StreamTypes, Marks
  <2>3. QED BY <1>2, <2>1, <2>2, PipesHaveRoom DEF StreamBounds
<1>6. ASSUME NEW c \in Chunks, AgentEndsWith(c) PROVE StreamBounds'
  <2>1. Put("agent", c) /\ UNCHANGED <<dialect, hearing>>
    BY <1>6 DEF AgentEndsWith
  <2>2. QED BY <1>2, <2>1, PipesHaveRoom DEF StreamBounds
<1>7. CASE AnswerAtOnce \/ AskModelFails
  <2>1. <<0>> \in Texts
    BY DEF Texts
  <2>2. AgentEndsWith(FinalChunk(<<0>>)) \/ AgentEndsWith(StreamError)
    BY <1>7 DEF AnswerAtOnce, AskModelFails
  <2>3. QED BY <1>6, <2>1, <2>2, ChunksOfTheAgent
<1>8. CASE AskModel
  <2>1. hearing'.asks = hearing.asks + 1 /\ hearing.asks < MaxAsks /\ hearing.asks \in Nat
    BY <1>8 DEF AskModel, StreamTypes
  <2>2. hearing'.asks <= MaxAsks
    BY <2>1, StreamAssumption
  <2>3. UNCHANGED <<wire, dialect>>
    BY <1>8 DEF AskModel
  <2>4. QED BY <2>2, <2>3 DEF StreamBounds
<1>9. CASE Hear
  <2> DEFINE c == Head(wire["routed"])
  <2>1. /\ wire["routed"] # <<>> /\ UNCHANGED dialect /\ hearing'.asks = hearing.asks
        /\ \/ Take("routed")
           \/ \E x \in Chunks : HandOn("routed", "agent", x)
    BY <1>9, Hears DEF StreamTypes
  <2>2. QED BY <1>2, <2>1, PipesHaveRoom DEF StreamBounds
<1>10. CASE HeardAll
  <2>1. CASE UNCHANGED <<dialect, wire, hearing>>
    BY <1>1, <2>1
  <2>2. CASE AgentEndsWith(FinalChunk(hearing.text))
    <3>1. hearing.text \in Texts
      BY DEF StreamTypes
    <3>2. QED BY <1>6, <2>2, <3>1, ChunksOfTheAgent
  <2>3. QED BY <1>10, <2>1, <2>2 DEF HeardAll
<1>11. CASE AdapterRelays
  <2>1. /\ wire["agent"] # <<>> /\ UNCHANGED <<dialect, hearing>>
        /\ (\E s \in Chunks : HandOn("agent", "grpc", s)) \/ Take("agent")
    BY <1>11, Relays
  <2>2. QED BY <1>2, <2>1, PipesHaveRoom DEF StreamBounds
<1>12. CASE ServerSends
  <2>1. wire["grpc"] # <<>> /\ Take("grpc") /\ UNCHANGED <<dialect, hearing>>
    BY <1>12 DEF ServerSends
  <2>2. QED BY <1>2, <2>1, PipesHaveRoom DEF StreamBounds
<1>13. CASE HttpWrites
  <2>1. wire["agent"] # <<>> /\ Take("agent") /\ UNCHANGED <<dialect, hearing>>
    BY <1>13 DEF HttpWrites
  <2>2. QED BY <1>2, <2>1, PipesHaveRoom DEF StreamBounds
<1>14. QED
  BY <1>3, <1>4, <1>5, <1>7, <1>8, <1>9, <1>10, <1>11, <1>12, <1>13 DEF StreamNext

LEMMA StreamStarts == StreamInit => StreamInv
<1> SUFFICES ASSUME StreamInit PROVE StreamInv
  OBVIOUS
<1>1. <<>> \in Texts /\ <<>> \in Seq(Chunks) /\ Len(<<>>) = 0
  BY DEF Texts
<1>2. StreamTypes
  BY <1>1 DEF StreamInit, StreamTypes, Pipes, Silent
<1>3. \A p \in Pipes : wire[p] = <<>>
  BY DEF StreamInit, Pipes
<1>4. Marks /\ EndedInFull
  BY <1>3, NoMarks DEF StreamInit, Marks, EndedInFull, Pipes
<1>5. Control
  BY <1>1, <1>3 DEF StreamInit, Control, Pipes, Silent
<1>6. Span(<<>>, <<>>, 0, 0) /\ SubSeq(<<>>, 1, 0) = <<>>
  BY <1>1, EmptySpan, WholeText
<1>7. Down(<<>>, 0, 0, 0, 0, 0)
  <2>1. wire["grpc"] = <<>> /\ wire["agent"] = <<>> /\ delivered = <<>> /\ 0 \in 0..Len(<<>>)
    BY <1>1, <1>3 DEF StreamInit, Pipes
  <2>2. QED BY <1>6, <2>1, NoMarks DEF Down
<1>8. Up(<<>>, 0)
  <2>1. /\ wire["raw"] = <<>> /\ wire["routed"] = <<>> /\ past = <<>> /\ Sent = <<>>
        /\ hearing.text = <<>> /\ pc.agent # "over"
    BY <1>3 DEF StreamInit, Pipes, Silent, Sent
  <2>2. <<>> \o <<>> = <<>>
    BY ConcatEmptySeq
  <2>3. Len(past) <= 0 /\ Len(past) + 1 = 1
    BY <1>1, <2>1
  <2>4. QED BY <1>1, <1>6, <2>1, <2>2, <2>3 DEF Up
<1>9. QED BY <1>1, <1>2, <1>4, <1>5, <1>7, <1>8 DEF StreamInv, Carried

LEMMA StreamKept == StreamInv /\ [StreamNext]_streamVars => StreamInv'
<1> SUFFICES ASSUME StreamInv, [StreamNext]_streamVars PROVE StreamInv'
  OBVIOUS
<1>1. StreamTypes /\ Marks /\ Control /\ EndedInFull /\ Carried
  BY DEF StreamInv
<1>2. StreamTypes' /\ Marks' /\ Control'
  BY <1>1, StreamTypesKept, MarksAndControlKept
<1>3. PICK w \in Texts : \E d, e, f, g, k : Down(w, d, e, f, g, k) /\ Up(w, k)
  BY <1>1 DEF Carried
<1>4. PICK d, e, f, g, k : Down(w, d, e, f, g, k) /\ Up(w, k)
  BY <1>3
<1>5. Carried' /\ EndedInFull'
  <2>1. CASE CallerGoes \/ SourceEnds \/ RouterEnds \/ ServerStops \/ UNCHANGED streamVars
    BY <1>1, <1>4, <2>1, CarriedIdle
  <2>2. CASE Speak \/ SpeakToolCall \/ SpeakFinal \/ SpeakError
    BY <1>1, <1>4, <2>2, CarriedBySource
  <2>3. CASE RouterForwards
    BY <1>1, <1>4, <2>3, CarriedByRouter
  <2>4. CASE AnswerAtOnce
    BY <1>1, <1>4, <2>4, CarriedAtOnce
  <2>5. CASE AskModel
    BY <1>1, <1>4, <2>5, CarriedByAsking
  <2>6. CASE AskModelFails
    <3>1. pc.agent = "asking" /\ AgentEndsWith(StreamError) /\ source' = source
      BY <2>6 DEF AskModelFails
    <3>2. QED BY <1>1, <1>4, <3>1, CarriedByError
  <2>7. CASE Hear
    BY <1>1, <1>4, <2>7, CarriedByHearing
  <2>8. CASE HeardAll
    BY <1>1, <1>4, <2>8, CarriedWhenHeard
  <2>9. CASE AdapterRelays
    BY <1>1, <1>4, <2>9, CarriedByAdapter
  <2>10. CASE ServerSends
    BY <1>1, <1>4, <2>10, CarriedByServer
  <2>11. CASE HttpWrites
    BY <1>1, <1>4, <2>11, CarriedByHttp
  <2>12. QED
    BY <2>1, <2>2, <2>3, <2>4, <2>5, <2>6, <2>7, <2>8, <2>9, <2>10, <2>11 DEF StreamNext
<1>6. QED BY <1>2, <1>5 DEF StreamInv

(* Whatever the capacity of the channels, the number of pieces and of      *)
(* answers: the client of a streamed task (internal/agent/loop.go          *)
(* ExecuteStream, internal/agentgrpc) is sent, in order and without a      *)
(* hole, what the provider's goroutine and the agent put in, and all of it *)
(* when its stream ends with the usage.  That is the answer repeated: once *)
(* more by the agent, and once more by the OpenAI client before it.  No    *)
(* goroutine is left blocked behind a reader that went away, but for a     *)
(* cancelled context on the gRPC door.  No channel takes more than fits.   *)
THEOREM StreamsAlwaysReachTheirReader ==
  StreamSpec => [](StreamTypeOK /\ StreamsReachTheirReader)
<1> DEFINE Inv == StreamInv /\ StreamBounds
<1>1. StreamInit => Inv
  <2> SUFFICES ASSUME StreamInit PROVE StreamInv /\ StreamBounds
    OBVIOUS
  <2>1. \A p \in Pipes : wire[p] = <<>> /\ Len(wire[p]) <= Capacity(p)
    BY StreamAssumption DEF StreamInit, Pipes, Capacity
  <2>2. StreamBounds
    BY <2>1, StreamAssumption DEF StreamInit, StreamBounds
  <2>3. QED BY <2>2, StreamStarts
<1>2. Inv /\ [StreamNext]_streamVars => Inv'
  BY StreamKept, StreamBoundsKept DEF StreamInv
<1>3. Inv => StreamTypeOK
  <2> SUFFICES ASSUME StreamTypes, StreamBounds PROVE StreamTypeOK
    BY DEF StreamInv
  <2>1. DOMAIN wire = Pipes /\ hearing.asks \in 0..MaxAsks
    BY StreamAssumption DEF StreamTypes, StreamBounds
  <2>2. QED BY <2>1 DEF StreamTypes, StreamBounds, StreamTypeOK, Capacity
<1>4. Inv => StreamsReachTheirReader
  <2> SUFFICES ASSUME StreamInv PROVE StreamsReachTheirReader
    OBVIOUS
  <2>1. StreamTypes /\ Control /\ EndedInFull
    BY DEF StreamInv
  <2>0. PICK w \in Texts : \E d, e, f, g, k : Down(w, d, e, f, g, k) /\ Up(w, k)
    BY DEF StreamInv, Carried
  <2>2. PICK d, e, f, g, k : Down(w, d, e, f, g, k) /\ Up(w, k)
    BY <2>0
  <2>3. IsPrefix(w, SentInFull)
    BY <2>1, <2>2, SentSoFar DEF Up
  <2>4. SentInFull \in Texts
    <3>1. past \in Texts /\ Sent \in Texts
      BY <2>1, SentIsText DEF StreamTypes
    <3>2. QED BY <3>1, LongerText DEF SentInFull
  <2>5. IsPrefix(delivered, SentInFull)
    <3>1. d \in 0..Len(w) /\ delivered = SubSeq(w, 1, d)
      BY <2>2 DEF Down
    <3>2. QED BY <2>3, <2>4, <3>1, PrefixFacts
  <2>6. door \in {"grpc", "http"}
    BY <2>1 DEF StreamTypes
  <2>7. QED BY <2>1, <2>5, <2>6 DEF StreamsReachTheirReader, EndedInFull, Control, AgentsReader
<1>5. QED BY <1>1, <1>2, <1>3, <1>4, PTL DEF StreamSpec
=============================================================================

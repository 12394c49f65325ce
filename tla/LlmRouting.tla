----------------------------- MODULE LlmRouting -----------------------------
(***************************************************************************)
(* Completion requests on their way to an LLM provider: the router         *)
(* (internal/llm/router.go, with StrategyFallback, the only strategy the   *)
(* orchestrator installs), the provider registry, the OpenAI-compatible    *)
(* and the Anthropic client, and the circuit breaker each client has.      *)
(*                                                                         *)
(* Every caller is a goroutine in Route or RouteStream.  An action is one  *)
(* critical section: of the breaker, of a client's mu, or of the router.   *)
(* The retries inside Complete touch none of this state; they are part of  *)
(* the time a request is in flight.                                        *)
(***************************************************************************)
EXTENDS Naturals

CONSTANTS
  Callers,    \* goroutines that route requests, one after another
  OpenAI,     \* providers served by OpenAIClient
  Anthropic,  \* providers served by AnthropicClient, with an API key
  Threshold,  \* failureThreshold of NewCircuitBreaker
  None        \* no provider

Providers == OpenAI \cup Anthropic

ASSUME RoutingAssumption ==
  /\ Threshold \in Nat \ {0}
  /\ OpenAI \cap Anthropic = {}
  /\ None \notin Providers

VARIABLES
  state,     \* state[p]: CircuitBreaker.state
  failures,  \* failures[p]: CircuitBreaker.failures, up to the threshold
  cooled,    \* cooled[p]: lastFailureTime is longer ago than resetTimeout
  lastError, \* lastError[p]: the OpenAIClient has a lastError
  phase,     \* phase[c]: where the goroutine is
  request,   \* request[c]: how it calls the client, and the provider it prefers
  toAsk,     \* toAsk[c]: providers GetAvailable has not come to yet
  available, \* available[c]: providers GetAvailable found available
  target     \* target[c]: the provider selected

breakerVars == <<state, failures, cooled>>
providerVars == <<breakerVars, lastError>>
callVars == <<phase, request, toAsk, available, target>>
vars == <<providerVars, callVars>>

CircuitStates == {"closed", "open", "halfOpen"}
Phases == {"idle", "scan", "admit", "inFlight", "clearError", "setError"}
Requests == [mode : {"complete", "stream"}, preferred : Providers \cup {None}]

NoRequest == [mode |-> "complete", preferred |-> None]

Init ==
  /\ state = [p \in Providers |-> "closed"]
  /\ failures = [p \in Providers |-> 0]
  /\ cooled = [p \in Providers |-> TRUE]
  /\ lastError = [p \in Providers |-> FALSE]
  /\ phase = [c \in Callers |-> "idle"]
  /\ request = [c \in Callers |-> NoRequest]
  /\ toAsk = [c \in Callers |-> {}]
  /\ available = [c \in Callers |-> {}]
  /\ target = [c \in Callers |-> None]

-----------------------------------------------------------------------------
(* CircuitBreaker *)

\* The result of Allow ...
Allows(p) == state[p] # "open" \/ cooled[p]

\* Mutant: the breaker lets a test through and stays open.
AllowStaysOpen(p) == UNCHANGED state

\* ... and what it does to the breaker.
Allow(p) == state' = [state EXCEPT ![p] = IF @ = "open" /\ cooled[p] THEN "halfOpen" ELSE @]

\* Mutant: a success takes one failure back instead of all.
RecordSuccessOne(p) ==
  /\ state' = [state EXCEPT ![p] = IF @ = "halfOpen" THEN "closed" ELSE @]
  /\ failures' = [failures EXCEPT ![p] = @ - 1]
  /\ UNCHANGED cooled

\* Mutant: any success closes the breaker.
RecordSuccessCloses(p) ==
  /\ state' = [state EXCEPT ![p] = "closed"]
  /\ failures' = [failures EXCEPT ![p] = 0]
  /\ UNCHANGED cooled

RecordSuccess(p) ==
  /\ state' = [state EXCEPT ![p] = IF @ = "halfOpen" THEN "closed" ELSE @]
  /\ failures' = [failures EXCEPT ![p] = 0]
  /\ UNCHANGED cooled

\* Mutant: > for >=.
RecordFailureLate(p) ==
  LET reached == failures[p] + 1 > Threshold IN
  /\ failures' = [failures EXCEPT ![p] = IF reached THEN Threshold ELSE @ + 1]
  /\ state' = [state EXCEPT ![p] = IF reached THEN "open" ELSE @]
  /\ cooled' = [cooled EXCEPT ![p] = FALSE]

\* The counter goes on beyond the threshold in the code; nothing but a
\* comparison with the threshold reads it.
RecordFailure(p) ==
  LET reached == failures[p] + 1 >= Threshold IN
  /\ failures' = [failures EXCEPT ![p] = IF reached THEN Threshold ELSE @ + 1]
  /\ state' = [state EXCEPT ![p] = IF reached THEN "open" ELSE @]
  /\ cooled' = [cooled EXCEPT ![p] = FALSE]

\* resetTimeout has passed since the last failure.
CoolDown(p) ==
  /\ ~cooled[p]
  /\ cooled' = [cooled EXCEPT ![p] = TRUE]
  /\ UNCHANGED <<state, failures, lastError, callVars>>

-----------------------------------------------------------------------------
(* IsAvailable: the OpenAI client only looks, the Anthropic client calls     *)
(* Allow, so that asking may move its breaker to half-open.                  *)

IsAvailable(p) ==
  IF p \in OpenAI THEN ~lastError[p] /\ state[p] # "open" ELSE Allows(p)

AskAvailable(p) ==
  IF p \in OpenAI THEN UNCHANGED state ELSE Allow(p)

-----------------------------------------------------------------------------
(* Route and RouteStream *)

Done(c) ==
  /\ phase' = [phase EXCEPT ![c] = "idle"]
  /\ request' = [request EXCEPT ![c] = NoRequest]
  /\ available' = [available EXCEPT ![c] = {}]
  /\ target' = [target EXCEPT ![c] = None]
  /\ UNCHANGED toAsk

Route(c) ==
  /\ phase[c] = "idle"
  /\ phase' = [phase EXCEPT ![c] = "scan"]
  /\ \E r \in Requests : request' = [request EXCEPT ![c] = r]
  /\ toAsk' = [toAsk EXCEPT ![c] = Providers]
  /\ UNCHANGED <<providerVars, available, target>>

\* GetAvailable comes to p, in the order of a Go map: any.
Ask(c, p) ==
  /\ phase[c] = "scan"
  /\ p \in toAsk[c]
  /\ toAsk' = [toAsk EXCEPT ![c] = @ \ {p}]
  /\ available' = [available EXCEPT ![c] = IF IsAvailable(p) THEN @ \cup {p} ELSE @]
  /\ AskAvailable(p)
  /\ UNCHANGED <<failures, cooled, lastError, phase, request, target>>

\* ErrNoAvailableProviders.
NoneAvailable(c) ==
  /\ phase[c] = "scan"
  /\ toAsk[c] = {}
  /\ available[c] = {}
  /\ Done(c)
  /\ UNCHANGED providerVars

\* selectFallback: the preferred provider is asked once more, and need not be
\* among those the scan found.
Select(c) ==
  LET preferred == request[c].preferred IN
  /\ phase[c] = "scan"
  /\ toAsk[c] = {}
  /\ available[c] # {}
  /\ \/ /\ preferred # None
        /\ IsAvailable(preferred)
        /\ AskAvailable(preferred)
        /\ target' = [target EXCEPT ![c] = preferred]
     \/ /\ preferred # None => ~IsAvailable(preferred)
        /\ \E p \in available[c] : target' = [target EXCEPT ![c] = p]
        /\ UNCHANGED state
  /\ phase' = [phase EXCEPT ![c] = "admit"]
  /\ available' = [available EXCEPT ![c] = {}]
  /\ UNCHANGED <<failures, cooled, lastError, request, toAsk>>

-----------------------------------------------------------------------------
(* Complete and Stream of both clients *)

\* Mutant: the client trusts the router's scan.
AdmitUnasked(c) ==
  /\ phase[c] = "admit"
  /\ phase' = [phase EXCEPT ![c] = "inFlight"]
  /\ UNCHANGED <<providerVars, request, toAsk, available, target>>

\* The breaker is asked again: what the scan saw may be stale.
Admit(c) ==
  /\ phase[c] = "admit"
  /\ Allows(target[c])
  /\ Allow(target[c])
  /\ phase' = [phase EXCEPT ![c] = "inFlight"]
  /\ UNCHANGED <<failures, cooled, lastError, request, toAsk, available, target>>

\* ErrCircuitOpen; the router tries no other provider.
Refuse(c) ==
  /\ phase[c] = "admit"
  /\ ~Allows(target[c])
  /\ Done(c)
  /\ UNCHANGED providerVars

\* OpenAIClient.Complete goes on to write lastError after the breaker's
\* critical section; the other calls are over.
KeepsLastError(c) == target[c] \in OpenAI /\ request[c].mode = "complete"

Settle(c, next) ==
  IF KeepsLastError(c)
    THEN /\ phase' = [phase EXCEPT ![c] = next]
         /\ UNCHANGED <<request, toAsk, available, target>>
    ELSE Done(c)

\* The provider answered.  A stream of the Anthropic client does not tell the
\* breaker.
Answer(c) ==
  /\ phase[c] = "inFlight"
  /\ \/ /\ target[c] \in Anthropic
        /\ request[c].mode = "stream"
        /\ UNCHANGED breakerVars
     \/ /\ target[c] \in OpenAI \/ request[c].mode = "complete"
        /\ RecordSuccess(target[c])
  /\ Settle(c, "clearError")
  /\ UNCHANGED lastError

\* No answer, an error status or a body that does not decode.
Fail(c) ==
  /\ phase[c] = "inFlight"
  /\ RecordFailure(target[c])
  /\ Settle(c, "setError")
  /\ UNCHANGED lastError

\* The ways out that record nothing: the request cannot be marshalled, the
\* context is done or its deadline too close for a retry, a stream is cut
\* short or nobody reads it.
Abandon(c) ==
  /\ phase[c] = "inFlight"
  /\ Done(c)
  /\ UNCHANGED providerVars

WriteLastError(c) ==
  /\ phase[c] \in {"clearError", "setError"}
  /\ lastError' = [lastError EXCEPT ![target[c]] = (phase[c] = "setError")]
  /\ Done(c)
  /\ UNCHANGED breakerVars

-----------------------------------------------------------------------------

\* The steps of a call that was made.
CallStep(c) ==
  \/ \E p \in Providers : Ask(c, p)
  \/ NoneAvailable(c)
  \/ Select(c)
  \/ Admit(c)
  \/ Refuse(c)
  \/ Answer(c)
  \/ Fail(c)
  \/ Abandon(c)
  \/ WriteLastError(c)

Next ==
  \/ \E c \in Callers : Route(c) \/ CallStep(c)
  \/ \E p \in Providers : CoolDown(p)

\* A call goes on (its HTTP client has a timeout), time passes, and there is
\* always another request to route.
Fairness ==
  /\ \A c \in Callers : WF_vars(Route(c)) /\ WF_vars(CallStep(c))
  /\ \A p \in Providers : WF_vars(CoolDown(p))

Spec == Init /\ [][Next]_vars /\ Fairness

-----------------------------------------------------------------------------
(* Properties *)

\* The types of the variables.
TypeOK ==
  /\ state \in [Providers -> CircuitStates]
  /\ failures \in [Providers -> 0 .. Threshold]
  /\ cooled \in [Providers -> BOOLEAN]
  /\ lastError \in [Providers -> BOOLEAN]
  /\ phase \in [Callers -> Phases]
  /\ request \in [Callers -> Requests]
  /\ toAsk \in [Callers -> SUBSET Providers]
  /\ available \in [Callers -> SUBSET Providers]
  /\ target \in [Callers -> Providers \cup {None}]

InFlight(p) == {c \in Callers : phase[c] = "inFlight" /\ target[c] = p}

\* A breaker that lets everything through has fewer failures than the threshold,
\* whatever order the successes and failures of concurrent calls are recorded in.
ClosedBelowThreshold ==
  \A p \in Providers : state[p] = "closed" => failures[p] < Threshold

\* An open breaker stays open until its timeout has passed, and then a test comes
\* before it closes: the late success of a request sent before it opened does
\* not close it (RecordSuccess).
OpenUntilCool ==
  [][\A p \in Providers :
       state[p] = "open" /\ state'[p] # "open" => cooled[p] /\ state'[p] = "halfOpen"]_vars

\* No request starts on a provider whose breaker is open and has not cooled,
\* though its caller saw the provider available earlier.
NoRequestWhileCooling ==
  [][\A p \in Providers :
       state[p] = "open" /\ ~cooled[p] => InFlight(p)' \subseteq InFlight(p)]_vars

\* An Anthropic provider that was cut off is tried again as long as requests come.
AnthropicTriedAgain ==
  \A p \in Anthropic : state[p] = "open" ~> state[p] # "open"

\* The same for every provider: CircuitHalfOpen "is the state where a test request
\* is allowed" (circuit.go), and requests keep coming.
EveryProviderTriedAgain ==
  \A p \in Providers : state[p] = "open" ~> state[p] # "open"
=============================================================================

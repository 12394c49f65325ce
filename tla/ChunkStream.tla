----------------------------- MODULE ChunkStream -----------------------------
(***************************************************************************)
(* A streamed answer on its way from the provider to the client: the       *)
(* reading goroutine of a client (internal/llm/client.go, anthropic.go),   *)
(* Router.RouteStream, Agent.ExecuteStream (internal/agent/loop.go), then  *)
(* the gRPC adapter and handler (internal/agentgrpc) or the HTTP handler   *)
(* (cmd/server/main.go).  Each is a goroutine that receives from one       *)
(* channel and sends into the next; all sends block, but for the adapter's. *)
(* A goroutine takes a chunk only when it can hand it on, which makes each *)
(* channel one place shorter.  What the breakers are told is LlmRouting's, *)
(* what the conversation holds React's.                                    *)
(***************************************************************************)
EXTENDS Naturals, Sequences, SequencesExt

CONSTANTS
  PipeCap,     \* capacity of the channels: 10 or 16, 10 and 100 in the code
  MaxPieces,   \* bound: content deltas in one model answer
  MaxAsks      \* AgentConfig.MaxIterations

ASSUME StreamAssumption == PipeCap \in Nat \ {0} /\ MaxPieces \in Nat /\ MaxAsks \in Nat

VARIABLES
  door,       \* "grpc" or "http"
  dialect,    \* "openai" or "anthropic"
  caller,     \* "live", "timeout" (the deadline passed) or "left"
  wire,       \* the channels: raw, routed, agent, grpc
  pc,         \* where each goroutine is
  source,     \* the answer: what the model said, whether its last chunk was sent
  hearing,    \* the local variables of ExecuteStream
  past,       \* history: what was sent of the earlier answers
  delivered,      \* text sent to the client
  ended     \* how the client's stream ended

streamVars == <<door, dialect, caller, wire, pc, source, hearing, past, delivered, ended>>

Chunk(text, tool, done, usage, error) ==
  [text |-> text, tool |-> tool, done |-> done, usage |-> usage, error |-> error]
ContentChunk(text) == Chunk(text, FALSE, FALSE, FALSE, FALSE)
ToolCallChunk      == Chunk(<<>>, TRUE, FALSE, FALSE, FALSE)
FinalChunk(text)   == Chunk(text, FALSE, TRUE, TRUE, FALSE)
StreamError        == Chunk(<<>>, FALSE, TRUE, FALSE, TRUE)

Silent == [text |-> <<>>, closed |-> FALSE, pieces |-> 0]

\* What the provider's goroutine sent of an answer: the last chunk of the
\* OpenAI client repeats the whole content.
Sent ==
  IF source.closed /\ dialect = "openai" THEN source.text \o source.text ELSE source.text

StreamInit ==
  /\ door \in {"grpc", "http"} /\ dialect \in {"openai", "anthropic"}
  /\ caller = "live"
  /\ wire = [p \in {"raw", "routed", "agent", "grpc"} |-> <<>>]
  /\ pc = [source |-> "idle", router |-> "idle", agent |-> "asking",
           adapter |-> IF door = "grpc" THEN "running" ELSE "over", server |-> "running"]
  /\ source = Silent
  /\ hearing = [asks |-> 0, text |-> <<>>, tools |-> FALSE, finished |-> FALSE]
  /\ past = <<>> /\ delivered = <<>> /\ ended = "none"

\* The HTTP handler's context does not depend on the request's.
Cancelled == caller = "timeout" \/ (caller = "left" /\ door = "grpc")

Room(p) == Len(wire[p]) < (IF p = "grpc" THEN 1 ELSE PipeCap)
Put(p, c) == Room(p) /\ wire' = [wire EXCEPT ![p] = Append(@, c)]
Take(p) == wire' = [wire EXCEPT ![p] = Tail(@)]
HandOn(p, q, c) ==
  Room(q) /\ wire' = [wire EXCEPT ![p] = Tail(@), ![q] = Append(@, c)]

CallerGoes ==
  /\ caller = "live" /\ ended = "none" /\ caller' \in {"timeout", "left"}
  /\ UNCHANGED <<door, dialect, wire, pc, source, hearing, past, delivered, ended>>

----------------------------------------------------------------------------
(* The provider's goroutine.  A cancelled request closes the body; what     *)
(* the scanner has already read may still be sent.                          *)

SourceSends(c, next) ==
  /\ pc.source = "running" /\ Put("raw", c)
  /\ source' = [text   |-> IF c.done THEN source.text ELSE source.text \o c.text,
                closed |-> c.done /\ ~c.error, pieces |-> source.pieces + 1]
  /\ pc' = [pc EXCEPT !.source = next]
  /\ UNCHANGED <<door, dialect, caller, hearing, past, delivered, ended>>

Speak ==
  source.pieces < MaxPieces /\ SourceSends(ContentChunk(<<source.pieces + 1>>), "running")

\* Only the Anthropic client reads tool calls from a stream.
SpeakToolCall ==
  dialect = "anthropic" /\ source.pieces < MaxPieces /\ SourceSends(ToolCallChunk, "running")

SpeakFinal ==
  SourceSends(FinalChunk(IF dialect = "openai" THEN source.text ELSE <<>>), "over")

\* A chunk that does not decode, an error event, a broken connection, or
\* the context's end.
SpeakError == SourceSends(StreamError, "over")

\* The provider closed the connection, or said [DONE], without a finish.
SourceEnds ==
  /\ pc.source = "running" /\ ~Cancelled
  /\ pc' = [pc EXCEPT !.source = "over"]
  /\ UNCHANGED <<door, dialect, caller, wire, source, hearing, past, delivered, ended>>

RouterForwards ==
  /\ pc.router = "running" /\ wire.raw # <<>>
  /\ HandOn("raw", "routed", Head(wire.raw))
  /\ UNCHANGED <<door, dialect, caller, pc, source, hearing, past, delivered, ended>>

RouterEnds ==
  /\ pc.router = "running" /\ wire.raw = <<>> /\ pc.source = "over"
  /\ pc' = [pc EXCEPT !.router = "over"]
  /\ UNCHANGED <<door, dialect, caller, wire, source, hearing, past, delivered, ended>>

----------------------------------------------------------------------------
(* Agent.ExecuteStream *)

AgentEndsWith(c) ==
  /\ Put("agent", c) /\ pc' = [pc EXCEPT !.agent = "over"]
  /\ UNCHANGED <<door, dialect, caller, hearing, past, delivered, ended>>

\* A matching skill or the orchestrated pipeline: one final chunk or an error.
AnswerAtOnce ==
  /\ pc.agent = "asking" /\ hearing.asks = 0
  /\ \/ AgentEndsWith(FinalChunk(<<0>>)) /\ source' = [source EXCEPT !.text = <<0>>]
     \/ AgentEndsWith(StreamError) /\ UNCHANGED source

\* thinkStream: RouteStream starts the two goroutines of the next answer.
AskModel ==
  /\ pc.agent = "asking" /\ hearing.asks < MaxAsks
  /\ pc' = [pc EXCEPT !.agent = "hearing", !.source = "running", !.router = "running"]
  /\ past' = past \o Sent /\ source' = Silent
  /\ hearing' = [asks |-> hearing.asks + 1, text |-> <<>>, tools |-> FALSE, finished |-> FALSE]
  /\ UNCHANGED <<door, dialect, caller, wire, delivered, ended>>

\* No provider, a refused request, or ErrMaxIterations.
AskModelFails ==
  /\ pc.agent = "asking" /\ AgentEndsWith(StreamError) /\ UNCHANGED source

\* Mutant: a chunk is passed on as it is, with the mark of the last one.
HearAndPassOn ==
  /\ pc.agent = "hearing" /\ wire.routed # <<>>
  /\ LET c == Head(wire.routed)
     IN /\ HandOn("routed", "agent", c)
        /\ pc' = [pc EXCEPT !.agent = IF c.error THEN "over" ELSE @]
        /\ hearing' = [hearing EXCEPT !.text = @ \o c.text, !.tools = @ \/ c.tool,
                                      !.finished = @ \/ c.done]
  /\ UNCHANGED <<door, dialect, caller, source, past, delivered, ended>>

Hear ==
  /\ pc.agent = "hearing" /\ wire.routed # <<>>
  /\ LET c == Head(wire.routed)
     IN /\ IF c.error THEN HandOn("routed", "agent", c)
           ELSE IF c.text # <<>> THEN HandOn("routed", "agent", ContentChunk(c.text))
           ELSE IF c.tool THEN HandOn("routed", "agent", ToolCallChunk)
           ELSE Take("routed")
        /\ pc' = [pc EXCEPT !.agent = IF c.error THEN "over" ELSE @]
        /\ hearing' = [hearing EXCEPT !.text = @ \o c.text, !.tools = @ \/ c.tool,
                                      !.finished = @ \/ c.done]
  /\ UNCHANGED <<door, dialect, caller, source, past, delivered, ended>>

\* The answer is complete: run the tools it asked for, or it is the answer
\* of the task, or it was cut and the model is asked again.
HeardAll ==
  /\ pc.agent = "hearing" /\ wire.routed = <<>> /\ pc.router = "over"
  /\ \/ /\ hearing.tools \/ ~hearing.finished
        /\ pc' = [pc EXCEPT !.agent = "asking"]
        /\ UNCHANGED <<door, dialect, caller, wire, hearing, past, delivered, ended>>
     \/ ~hearing.tools /\ hearing.finished /\ AgentEndsWith(FinalChunk(hearing.text))
  /\ UNCHANGED source

----------------------------------------------------------------------------
(* The doors *)

\* OrchestratorBackend.ExecuteStream: errors become a last chunk like any
\* other; a cancelled context lets it go without sending.
AdapterRelays ==
  /\ pc.adapter = "running" /\ wire.agent # <<>>
  /\ LET c == Head(wire.agent)
         s == [c EXCEPT !.tool = FALSE, !.error = FALSE]
     IN \/ /\ HandOn("agent", "grpc", s)
           /\ pc' = [pc EXCEPT !.adapter = IF s.done THEN "over" ELSE @]
        \/ Cancelled /\ Take("agent") /\ pc' = [pc EXCEPT !.adapter = "over"]
  /\ UNCHANGED <<door, dialect, caller, source, hearing, past, delivered, ended>>

ServerEnds(how) == ended' = how /\ pc' = [pc EXCEPT !.server = "over"]

\* A send to a client that left may fail or go nowhere.
ServerSends ==
  /\ door = "grpc" /\ pc.server = "running" /\ wire.grpc # <<>>
  /\ LET c == Head(wire.grpc)
     IN /\ Take("grpc")
        /\ delivered' = IF caller = "left" THEN delivered ELSE delivered \o c.text
        /\ \/ caller = "left" /\ ServerEnds("broken")
           \/ caller # "left" /\ c.done /\ ServerEnds(IF c.usage THEN "final" ELSE "done")
           \/ ~c.done /\ UNCHANGED <<ended, pc>>
  /\ UNCHANGED <<door, dialect, caller, source, hearing, past>>

\* A closed channel without a last chunk is a Done of the handler's own; the
\* select may as well see the context first.
ServerStops ==
  /\ door = "grpc" /\ pc.server = "running"
  /\ \/ pc.adapter = "over" /\ wire.grpc = <<>> /\ ServerEnds("done")
     \/ Cancelled /\ ServerEnds("status")
  /\ UNCHANGED <<door, dialect, caller, wire, source, hearing, past, delivered>>

\* handleStream writes on, whether or not somebody reads.
HttpWrites ==
  /\ door = "http" /\ pc.server = "running" /\ wire.agent # <<>>
  /\ LET c == Head(wire.agent)
     IN /\ Take("agent")
        /\ delivered' = IF caller = "left" THEN delivered ELSE delivered \o c.text
        /\ IF ~c.done THEN UNCHANGED <<ended, pc>>
           ELSE ServerEnds(IF c.error THEN "error" ELSE IF caller = "left" THEN "broken" ELSE "final")
  /\ UNCHANGED <<door, dialect, caller, source, hearing, past>>

StreamNext ==
  \/ CallerGoes \/ Speak \/ SpeakToolCall \/ SpeakFinal \/ SpeakError \/ SourceEnds
  \/ RouterForwards \/ RouterEnds \/ AnswerAtOnce \/ AskModel \/ AskModelFails \/ Hear \/ HeardAll
  \/ AdapterRelays \/ ServerSends \/ ServerStops \/ HttpWrites

StreamSpec == StreamInit /\ [][StreamNext]_streamVars

----------------------------------------------------------------------------
StreamTypeOK ==
  /\ door \in {"grpc", "http"} /\ dialect \in {"openai", "anthropic"}
  /\ caller \in {"live", "timeout", "left"}
  /\ \A p \in DOMAIN wire : Len(wire[p]) <= (IF p = "grpc" THEN 1 ELSE PipeCap)
  /\ pc \in [source: {"idle", "running", "over"}, router: {"idle", "running", "over"},
             agent: {"asking", "hearing", "over"}, adapter: {"running", "over"},
             server: {"running", "over"}]
  /\ hearing.asks \in 0..MaxAsks
  /\ ended \in {"none", "final", "done", "status", "broken", "error"}

\* All that goes towards the client.  It is not the model's text once:
\* ExecuteStream ends with a chunk that has the content it heard again.
SentInFull == IF hearing.asks = 0 THEN Sent ELSE past \o Sent \o Sent

\* Whoever receives what the agent sends.
AgentsReader == IF door = "grpc" THEN pc.adapter ELSE pc.server

(* Four channels and several answers lose and reorder nothing: what the     *)
(* client is sent is, in order and without a hole, what the agent and the   *)
(* provider's goroutine put in, repetitions included, and all of it when    *)
(* the stream ends with the token usage.  (That an answer is put in more    *)
(* than once is the code's, and PartsMakeTheAnswer's business.)  No         *)
(* goroutine is left blocked behind a reader that went away: the agent goes *)
(* only when the channels behind it are empty, and the agent's own reader   *)
(* goes before it only when the context was cancelled, on the gRPC door.    *)
StreamsReachTheirReader ==
  /\ IsPrefix(delivered, SentInFull)
  /\ ended = "final" => delivered = SentInFull
  /\ pc.agent = "over" => wire.raw = <<>> /\ wire.routed = <<>>
  /\ AgentsReader = "over" /\ pc.agent # "over" => Cancelled /\ door = "grpc"

(* The parts of one answer, put together, are the answer: each is a content *)
(* delta, as agent_service.pb.go:193 has it ("partial is the content        *)
(* delta").                                                                 *)
PartsMakeTheAnswer ==
  ended = "final" /\ door = "grpc" /\ hearing.asks = 1 => delivered = source.text

=============================================================================

-------------------------------- MODULE Chat --------------------------------
(***************************************************************************)
(* One chat request (internal/chat/service.go, stream.go): the model       *)
(* provider is resolved, then asked in turns; the tools it calls are run   *)
(* and their results sent back with the next turn, until it answers or the *)
(* turns are used up.  The reply is one document (Chat) or a stream of     *)
(* events (Stream); a streamed turn is read chunk by chunk                 *)
(* (internal/llm/openrouter_stream.go, ollama_stream.go).                  *)
(*                                                                         *)
(* Texts are left out: a delta is counted, the arguments of a call are     *)
(* Pieces of which a provider sends one after the other, and JSON is an    *)
(* object, null, another value or broken.  The messages of the user come   *)
(* first in every request and are left out as well.                        *)
(***************************************************************************)
EXTENDS Naturals, FiniteSets, SequencesExt, Providers

CONSTANTS
    Config,     \* configurations of the server
    Provider, Model,  \* what a request may name ("" for nothing)
    MaxTurns,
    Pieces,     \* a call arrives as name and Pieces - 1 parts of arguments
    MaxCalls, MaxDeltas  \* bounds: calls and deltas of one turn

\* splitCommaList drops the empty entries of an allowlist.
ASSUME ChatAssumption ==
    /\ \A config \in Config : NewRegistry(config) /\ "" \notin Range(config.allowlist)
    /\ {MaxTurns, MaxDeltas} \subseteq Nat \ {0} /\ Pieces \in Nat \ {0, 1} /\ MaxCalls \in Nat

VARIABLES
    request,       \* what the client asked for; once resolved, who serves it
    at,            \* where the request is
    turn,          \* turns that were asked for
    meant,         \* the calls the model means to make this turn
    sent,          \* how many pieces of each the provider has sent
    deltas,        \* deltas the provider has sent this turn
    content,       \* deltas in the content of the response
    merged,        \* calls put together so far, in order of appearance
    calls,         \* calls of the response that are not answered yet
    conversation,  \* what was added to it after the user's messages
    toolCalls,     \* calls that were run
    events,        \* what the client was told
    listening      \* the client has not gone away

response == <<meant, sent, deltas, content, merged>>
vars == <<request, at, turn, response, calls, conversation, toolCalls, events, listening>>

Init ==
    /\ request \in [stream : BOOLEAN, config : Config, provider : Provider, model : Model,
                    roles : BOOLEAN]
    /\ at = "open"
    /\ turn = 0
    /\ meant = << >> /\ sent = << >> /\ merged = << >> /\ deltas = 0 /\ content = 0
    /\ calls = << >> /\ conversation = << >> /\ toolCalls = << >>
    /\ events = << >>
    /\ listening = TRUE

\* A write to a client that has gone away fails or is lost.
Write(event) == events' = IF listening THEN Append(events, event) ELSE events
WriteFails == ~listening /\ UNCHANGED events

\* The request ends with an error, a streamed one with an error event.
Fail == at' = "over" /\ Write([event |-> "error"])

-----------------------------------------------------------------------------
(* The request                                                             *)

\* ParseProviderID knows two providers.
ParseProviderID(name) == name \in {"", "ollama", "openrouter"}
Open ==
    /\ at = "open"
    /\ LET served == Resolve(request.config, request.provider, request.model)
       IN /\ IF ParseProviderID(request.provider) /\ served # Refused /\ request.roles
             THEN at' = "ask" /\ UNCHANGED events
             ELSE Fail
          /\ request' = [stream |-> request.stream, provider |-> served.provider]
    /\ UNCHANGED <<turn, response, calls, conversation, toolCalls, listening>>

\* Bug: one turn more than permitted.
OneTurnMore == turn <= MaxTurns
TurnsLeft == turn < MaxTurns
ExceedTurns ==
    /\ at = "ask" /\ ~TurnsLeft
    /\ Fail
    /\ UNCHANGED <<request, turn, response, calls, conversation, toolCalls, listening>>

\* Ollama checks the arguments itself, other providers pass on what the model wrote.
Arguments == {"object", "null", "value"} \cup
                 (IF request.provider = "ollama" THEN {} ELSE {"broken"})
Ask ==
    /\ at = "ask" /\ TurnsLeft
    /\ turn' = turn + 1
    /\ \E n \in 0..MaxCalls : meant' \in [1..n -> Arguments] /\ sent' = [i \in 1..n |-> 0]
    /\ at' = "read"
    /\ UNCHANGED <<request, deltas, content, merged, calls, conversation, toolCalls, events, listening>>

\* The exchange with the provider fails: refused, broken off, not decoded,
\* cancelled because the client is gone, or over after five minutes.
NoTimeout == FALSE  \* Bug: an HTTP client without a time-out.
Timeout == at = "read"
BreakOff ==
    /\ Timeout
    /\ Fail
    /\ UNCHANGED <<request, turn, response, calls, conversation, toolCalls, listening>>

-----------------------------------------------------------------------------
(* A response                                                              *)

\* Whoever has no id for a call gets one; in a whole response of Ollama it
\* stays empty.
EnsureToolCallIDs(made) ==
    [i \in DOMAIN made |-> IF made[i].id = << >> THEN [made[i] EXCEPT !.id = <<0, i - 1>>]
                                                 ELSE made[i]]

\* Bug: what earlier turns ran is forgotten.
LastTurnOnly(n) == Write([event |-> "done", calls |-> calls, content |-> n]) \/ WriteFails
\* The answer is given, with the calls that were run; PostChat shows arguments
\* as objects, null as an empty one, and else fails.
StreamDone(n) == Write([event |-> "done", calls |-> toolCalls, content |-> n]) \/ WriteFails
PostChat(n) ==
    Write(IF \A k \in DOMAIN toolCalls : toolCalls[k].arguments \in {"object", "null"}
          THEN [event |-> "done", calls |-> toolCalls, content |-> n]
          ELSE [event |-> "error"])

\* The response is complete: its calls have to be run, or it is the answer.
Respond(made, n) ==
    /\ deltas' = 0 /\ content' = 0 /\ merged' = << >>
    /\ IF made # << >>
       THEN /\ at' = "start"
            /\ calls' = made
            /\ conversation' = Append(conversation, [role |-> "assistant", calls |-> made])
            /\ UNCHANGED events
       ELSE /\ at' = "over"
            /\ IF request.stream THEN StreamDone(n) ELSE PostChat(n)
            /\ UNCHANGED <<calls, conversation>>

\* Complete: the response arrives as a whole.
FromOllamaMessage == [i \in DOMAIN meant |-> [id |-> << >>, arguments |-> meant[i]]]
FromOpenRouterMessage == [i \in DOMAIN meant |-> [id |-> <<turn, i>>, arguments |-> meant[i]]]
Complete ==
    /\ at = "read" /\ ~request.stream
    /\ \E n \in 0..1 : Respond(IF request.provider = "ollama" THEN FromOllamaMessage
                                                           ELSE FromOpenRouterMessage, n)
    /\ UNCHANGED <<request, turn, meant, sent, toolCalls, listening>>

\* A delta is passed on; OpenRouter's are collected as well, of Ollama's only
\* that of the last chunk.
ReadDelta ==
    /\ at = "read" /\ request.stream /\ deltas < MaxDeltas
    /\ deltas' = deltas + 1
    /\ IF request.provider = "openrouter" THEN content' = content + 1 ELSE UNCHANGED content
    /\ \/ Write([event |-> "delta"]) /\ UNCHANGED at
       \/ WriteFails /\ at' = "over"
    /\ UNCHANGED <<request, turn, meant, sent, merged, calls, conversation, toolCalls, listening>>

-----------------------------------------------------------------------------
(* openrouter_stream.go                                                    *)

Entry(i) == SelectInSeq(merged, LAMBDA e : e.index = i)
\* Bug: a later part of the arguments replaces the earlier ones.
Overwrite(text, k) == <<k>>
Extend(text, k) == Append(text, k)
\* Piece k of call i: the first has id and name, the others extend the arguments.
Add(i, k) ==
    LET opened == IF Entry(i) = 0
                  THEN Append(merged, [index |-> i, id |-> << >>, text |-> << >>])
                  ELSE merged
        e == IF Entry(i) = 0 THEN Len(opened) ELSE Entry(i)
    IN IF k = 1 THEN [opened EXCEPT ![e].id = <<turn, i>>]
                ELSE [opened EXCEPT ![e].text = Extend(@, k)]

\* Pieces of one call arrive in order, those of several calls mixed.
ReadPiece(i) ==
    /\ at = "read" /\ request.stream /\ request.provider = "openrouter"
    /\ sent[i] < Pieces
    /\ sent' = [sent EXCEPT ![i] = @ + 1]
    /\ merged' = Add(i, sent[i] + 1)
    /\ UNCHANGED <<request, at, turn, meant, deltas, content, calls, conversation, toolCalls,
                   events, listening>>

\* No arguments are an empty object; some of them are no JSON.
ParseToolArguments(e) ==
    CASE e.text = << >> -> "object"
      [] e.text = [k \in 1..Pieces - 1 |-> k + 1] -> meant[e.index]
      [] OTHER -> "broken"
Build == [e \in DOMAIN merged |->
            [id |-> merged[e].id, arguments |-> ParseToolArguments(merged[e])]]

\* [DONE] or the end of the body, whether or not everything was sent.
EndOpenRouter ==
    /\ at = "read" /\ request.stream /\ request.provider = "openrouter"
    /\ Respond(EnsureToolCallIDs(Build), content)
    /\ UNCHANGED <<request, turn, meant, sent, toolCalls, listening>>

-----------------------------------------------------------------------------
(* ollama_stream.go                                                        *)

\* Calls in a chunk that is not the last one are not kept.
SendEarly ==
    /\ at = "read" /\ request.stream /\ request.provider = "ollama"
    /\ \E i \in DOMAIN meant : sent[i] = 0
    /\ sent' = [i \in DOMAIN meant |-> Pieces]
    /\ UNCHANGED <<request, at, turn, meant, deltas, content, merged, calls, conversation,
                   toolCalls, events, listening>>

\* The last chunk, with the calls not sent yet; or the body ends without one.
EndOllama ==
    /\ at = "read" /\ request.stream /\ request.provider = "ollama"
    /\ \E made \in {<< >>, IF \A i \in DOMAIN meant : sent[i] = 0 THEN FromOllamaMessage ELSE << >>},
          n \in 0..deltas : Respond(EnsureToolCallIDs(made), n)
    /\ UNCHANGED <<request, turn, meant, sent, toolCalls, listening>>

-----------------------------------------------------------------------------
(* The calls of a response                                                 *)

\* Stream announces a call; broken arguments cannot be encoded, and a stream
\* whose write fails ends without a further event.
StartTool ==
    /\ at = "start"
    /\ IF ~request.stream THEN at' = "run" /\ UNCHANGED events
       ELSE IF Head(calls).arguments = "broken" THEN at' = "over" /\ UNCHANGED events
       ELSE \/ at' = "run" /\ Write([event |-> "tool_start", id |-> Head(calls).id])
            \/ at' = "over" /\ WriteFails
    /\ UNCHANGED <<request, turn, response, calls, conversation, toolCalls, listening>>

\* Bug: a call that fails is not reported to the model.
Unreported(result) == IF result = "ok" THEN <<result>> ELSE << >>
\* An error is a result like any other.
EncodeToolError(result) == <<result>>
Answer(result) ==
    [k \in DOMAIN EncodeToolError(result) |->
        [role |-> "tool", id |-> Head(calls).id]]

\* The call is run; a tool that reads no arguments runs on broken ones too.
\* Chat adds the result to the conversation at once.
Execute ==
    /\ at = "run"
    /\ \E result \in {"ok", "error"} :
          /\ toolCalls' = Append(toolCalls, Head(calls))
          /\ IF request.stream
             THEN at' = result /\ UNCHANGED <<conversation, calls>>
             ELSE /\ conversation' = conversation \o Answer(result)
                  /\ calls' = Tail(calls)
                  /\ at' = IF Tail(calls) = << >> THEN "ask" ELSE "start"
    /\ UNCHANGED <<request, turn, response, events, listening>>

\* Stream shows the result first.
ShowResult ==
    /\ at \in {"ok", "error"}
    /\ \/ /\ Write([event |-> "tool_result", id |-> Head(calls).id])
          /\ conversation' = conversation \o Answer(at)
          /\ calls' = Tail(calls)
          /\ at' = IF Tail(calls) = << >> THEN "ask" ELSE "start"
       \/ WriteFails /\ at' = "over" /\ UNCHANGED <<conversation, calls>>
    /\ UNCHANGED <<request, turn, response, toolCalls, listening>>

\* The client of a stream goes away.
Leave ==
    /\ listening /\ request.stream /\ at # "over"
    /\ listening' = FALSE
    /\ UNCHANGED <<request, at, turn, response, calls, conversation, toolCalls, events>>

Serve == Open \/ ExceedTurns \/ Ask \/ BreakOff \/ StartTool \/ Execute \/ ShowResult
Receive ==
    \/ Complete \/ ReadDelta \/ EndOpenRouter \/ SendEarly \/ EndOllama
    \/ \E i \in DOMAIN meant : ReadPiece(i)
Done == at = "over" /\ UNCHANGED vars
Next == Serve \/ Receive \/ Leave \/ Done

\* The service goes on; a provider may stall until the time-out.
Spec == Init /\ [][Next]_vars /\ WF_vars(Serve)

-----------------------------------------------------------------------------
(* Properties                                                              *)

Asked == {p \in DOMAIN conversation : conversation[p].role = "assistant"}
\* The results that follow message p are those of its calls, one each, in order.
AnsweredAt(p) ==
    LET made == conversation[p].calls
    IN /\ Len(conversation) >= p + Len(made)
       /\ \A k \in DOMAIN made : /\ conversation[p + k].role = "tool"
                                 /\ conversation[p + k].id = made[k].id

\* No request to the model leaves a call of an earlier turn without its
\* result, has a result nobody asked for, or comes after the permitted turns.
RequestsAreSound ==
    at = "ask" =>
        /\ \A p \in Asked : AnsweredAt(p)
        /\ \A p \in DOMAIN conversation \ Asked : \E q \in Asked : q < p /\ p <= q + Len(conversation[q].calls)
        /\ Cardinality(Asked) <= MaxTurns /\ turn <= MaxTurns

Results == {e \in DOMAIN events : events[e].event = "tool_result"}
LastDeltas == {e \in DOMAIN events : events[e].event = "delta" /\ \A r \in Results : r < e}
Rank(r) == Cardinality({s \in Results : s <= r})
\* A streamed reply shows every call before its result and one call at a time,
\* ends with its only done or error, and done repeats what was shown: the calls in
\* the order of their results, and with OpenRouter the deltas since the last one.
StoryTold ==
    request.stream =>
        \A e \in DOMAIN events :
           /\ events[e].event \in {"done", "error"} => e = Len(events) /\ at = "over"
           /\ events[e].event = "tool_start" /\ e < Len(events) =>
                 events[e + 1] = [event |-> "tool_result", id |-> events[e].id]
           /\ events[e].event = "tool_result" =>
                 e > 1 /\ events[e - 1] = [event |-> "tool_start", id |-> events[e].id]
           /\ events[e].event = "done" =>
                 /\ Len(events[e].calls) = Cardinality(Results)
                 /\ \A r \in Results : events[e].calls[Rank(r)].id = events[r].id
                 /\ request.provider = "openrouter" => events[e].content = Cardinality(LastDeltas)

\* When everything was sent, the calls that are run are those the model meant,
\* however their pieces were mixed (OpenRouter).
CallsAsMeant ==
    at = "start" /\ request.stream /\ request.provider = "openrouter" /\
    (\A i \in DOMAIN meant : sent[i] = Pieces) =>
        LET made == conversation[Max(Asked)].calls
        IN /\ Len(made) = Len(meant)
           /\ \A i \in DOMAIN meant : \E k \in DOMAIN made :
                 made[k] = [id |-> <<turn, i>>, arguments |-> meant[i]]

\* A model of the catalog that the composer shows is not refused when it is asked
\* for, and the default that the catalog names is among the models shown unless
\* it would be refused: the composer falls back to another one only then.
OfferedIsServed ==
    [][ at = "open" /\ at' # at /\ request.roles =>
          LET asked == [provider |-> request.provider, model |-> request.model]
              catalog == ModelCatalog(request.config)
          IN /\ asked \in catalog.options => at' = "ask"
             /\ asked = catalog.default /\ at' = "ask" => asked \in catalog.options ]_vars

\* Every request ends, whatever the provider, the tools and the client do.
Ends == <>(at = "over")

\* While the client listens, no request ends before the calls the model asked
\* for have a result.
NoCallDropped ==
    at = "over" /\ listening => \A p \in Asked : AnsweredAt(p)
=============================================================================

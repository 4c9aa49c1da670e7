----------------------------- MODULE ChatProofs -----------------------------
(***************************************************************************)
(* Proofs about Chat for any number of turns, calls and pieces: an offered *)
(* model is served; a request to the model has every result (Told); the    *)
(* pieces of a stream make the calls the model meant (Apart, Understood);  *)
(* and the events tell one story (Story).                                  *)
(***************************************************************************)
EXTENDS Chat, SequenceTheorems, FiniteSetTheorems, TLAPS

-----------------------------------------------------------------------------
(* The offer                                                               *)

\* What the client asked for, before it is resolved.
Requests == [stream : BOOLEAN, config : Config, provider : Provider, model : Model,
             roles : BOOLEAN]
Requested == at = "open" => request \in Requests

LEMMA RequestedInit == Init => Requested
BY DEF Init, Requested, Requests

LEMMA RequestedStep == Requested /\ [Next]_vars => Requested'
<1> SUFFICES ASSUME Requested, [Next]_vars PROVE Requested'
    OBVIOUS
<1>1. CASE Next
  <2>1. CASE Serve
    BY <2>1 DEF Requested, Serve, Open, ExceedTurns, Ask, BreakOff, Timeout, StartTool, Execute,
                ShowResult, Fail
  <2>2. CASE Receive
    BY <2>2 DEF Requested, Receive, Complete, ReadDelta, EndOpenRouter, SendEarly, EndOllama,
                ReadPiece, Respond
  <2>3. CASE Leave \/ Done
    BY <2>3 DEF Requested, Leave, Done, vars
  <2> QED BY <1>1, <2>1, <2>2, <2>3 DEF Next
<1>2. CASE UNCHANGED vars
  BY <1>2 DEF Requested, vars
<1> QED BY <1>1, <1>2

\* A model of the catalog is one that Resolve grants, and its provider is one that
\* ParseProviderID knows.
LEMMA OfferedIsResolved ==
    ASSUME NEW config \in Config, NEW provider, NEW model,
           [provider |-> provider, model |-> model] \in Options(config)
    PROVE  ParseProviderID(provider) /\ Resolve(config, provider, model) # Refused
<1> DEFINE offer == [provider |-> provider, model |-> model]
<1>1. \/ provider = "ollama" /\ model = config.ollamaModel /\ "ollama" \in config.providers
      \/ /\ provider = "openrouter" /\ "openrouter" \in config.providers /\ config.key
         /\ model \in OpenRouterModels(config)
  <2>1. offer.provider = provider /\ offer.model = model
    OBVIOUS
  <2>2. CASE offer \in {[provider |-> "ollama", model |-> config.ollamaModel] :
                          p \in config.providers \cap {"ollama"}}
    BY <2>1, <2>2
  <2>3. CASE offer \in {[provider |-> "openrouter", model |-> m] :
                          m \in IF "openrouter" \in config.providers /\ config.key
                                THEN OpenRouterModels(config) ELSE {}}
    BY <2>1, <2>3
  <2> QED BY <2>2, <2>3 DEF Options
<1>2. CASE provider = "ollama" /\ model = config.ollamaModel /\ "ollama" \in config.providers
  BY <1>2 DEF ParseProviderID, Resolve, Either, Refused
<1>3. CASE /\ provider = "openrouter" /\ "openrouter" \in config.providers /\ config.key
           /\ model \in OpenRouterModels(config)
  <2>1. model # "" /\ ValidateOpenRouterModel(config, model)
    BY <1>3, ChatAssumption DEF OpenRouterModels, ValidateOpenRouterModel
  <2> QED BY <1>3, <2>1 DEF ParseProviderID, Resolve, Either, Refused
<1> QED BY <1>1, <1>2, <1>3

\* The default that the catalog names is shown if Resolve grants it.
LEMMA DefaultIsShown ==
    ASSUME NEW config \in Config, NEW provider, NEW model,
           [provider |-> provider, model |-> model] = defaultSelection(config),
           Resolve(config, provider, model) # Refused
    PROVE  [provider |-> provider, model |-> model] \in Options(config)
<1> DEFINE asked == [provider |-> provider, model |-> model]
<1>1. asked.provider = provider /\ asked.model = model
  OBVIOUS
<1>2. CASE config.default = "openrouter"
  <2>1. provider = "openrouter" /\ provider # ""
        /\ model = Either(config.openRouterModel,
                          IF config.allowlist = << >> THEN "" ELSE Head(config.allowlist))
    BY <1>1, <1>2 DEF defaultSelection
  <2>2. /\ "openrouter" \in config.providers /\ config.key
        /\ Either(model, config.openRouterModel) # ""
        /\ ValidateOpenRouterModel(config, Either(model, config.openRouterModel))
    <3>1. Either(provider, config.default) = "openrouter"
      BY <2>1 DEF Either
    <3> QED BY <3>1 DEF Resolve
  <2>3. CASE model = ""
    BY <2>1, <2>2, <2>3 DEF Either
  <2>4. CASE model # ""
    <3>1. model \in OpenRouterModels(config)
      BY <2>1, <2>2, <2>4 DEF Either, ValidateOpenRouterModel, OpenRouterModels
    <3> QED BY <2>1, <2>2, <3>1 DEF Options
  <2> QED BY <2>3, <2>4
<1>3. CASE config.default # "openrouter"
  <2>1. provider = "ollama" /\ model = config.ollamaModel
    BY <1>1, <1>3 DEF defaultSelection
  <2>2. "ollama" \in config.providers
    <3>1. Either(provider, config.default) = "ollama"
      BY <2>1 DEF Either
    <3> QED BY <3>1 DEF Resolve
  <2> QED BY <2>1, <2>2 DEF Options
<1> QED BY <1>2, <1>3

\* A model that the composer shows is not refused, and the default is shown unless
\* it would be: the catalog of internal/llm/catalog.go lists only what Resolve of
\* registry.go grants, whatever the configuration of the server.
THEOREM OfferIsServed == Spec => OfferedIsServed
<1> DEFINE asked == [provider |-> request.provider, model |-> request.model]
           catalog == ModelCatalog(request.config)
           Served == at = "open" /\ at' # at /\ request.roles =>
                       /\ asked \in catalog.options => at' = "ask"
                       /\ asked = catalog.default /\ at' = "ask" => asked \in catalog.options
<1>1. ASSUME Requested, [Next]_vars, at = "open", at' # at, request.roles
      PROVE  /\ asked \in catalog.options => at' = "ask"
             /\ asked = catalog.default /\ at' = "ask" => asked \in catalog.options
  <2>1. Open
    BY <1>1 DEF Next, Serve, Open, ExceedTurns, Ask, BreakOff, Timeout, StartTool, Execute,
                ShowResult, Receive, Complete, ReadDelta, EndOpenRouter, SendEarly, EndOllama,
                ReadPiece, Leave, Done, vars
  <2>2. request.config \in Config
    BY <1>1 DEF Requested, Requests
  <2>3. catalog.options = Options(request.config) /\ catalog.default = defaultSelection(request.config)
    BY DEF ModelCatalog
  <2>4. at' = "ask" <=> /\ ParseProviderID(request.provider)
                        /\ Resolve(request.config, request.provider, request.model) # Refused
    BY <1>1, <2>1 DEF Open, Fail
  <2>5. asked \in catalog.options => at' = "ask"
    BY <2>2, <2>3, <2>4, OfferedIsResolved
  <2>6. asked = catalog.default /\ at' = "ask" => asked \in catalog.options
    BY <2>2, <2>3, <2>4, DefaultIsShown
  <2> QED BY <2>5, <2>6
<1>2. Requested /\ [Next]_vars => [Served]_vars
  BY <1>1
<1> QED BY <1>2, RequestedInit, RequestedStep, PTL DEF Spec, OfferedIsServed

-----------------------------------------------------------------------------
(* Types                                                                   *)

Kinds == {"object", "null", "value", "broken"}
Made == [id : Seq(Nat), arguments : Kinds]
Message == [role : {"assistant"}, calls : Seq(Made)] \cup [role : {"tool"}, id : Seq(Nat)]
Answering == {"start", "run", "ok", "error"}
Chunk == [index : Nat, id : Seq(Nat), text : Seq(Nat)]
Types ==
    /\ turn \in Nat /\ deltas \in Nat /\ content \in Nat
    /\ meant \in Seq(Kinds) /\ sent \in [DOMAIN meant -> 0..Pieces]
    /\ merged \in Seq(Chunk) /\ \A e \in DOMAIN merged : merged[e].index \in DOMAIN meant
    /\ at \notin {"read", "over"} => merged = << >>
    /\ calls \in Seq(Made) /\ toolCalls \in Seq(Made)
    /\ at \in Answering => calls # << >>
    /\ conversation \in Seq(Message)

LEMMA Bounds == /\ MaxTurns \in Nat /\ MaxCalls \in Nat
                /\ Pieces \in Nat /\ Pieces > 1
<1>1. MaxTurns \in Nat /\ MaxCalls \in Nat /\ Pieces \in Nat \ {0, 1}
  BY ChatAssumption
<1> QED BY <1>1

LEMMA Ids == << >> \in Seq(Nat) /\ \A a, b \in Nat : <<a, b>> \in Seq(Nat)
BY EmptySeq

\* A function on 1..n is a sequence.
LEMMA Listed ==
    ASSUME NEW S, NEW n \in Nat, NEW f \in [1..n -> S]
    PROVE  f \in Seq(S) /\ Len(f) = n /\ DOMAIN f = 1..n
BY SeqDef

LEMMA Filled ==
    ASSUME NEW made \in Seq(Made)
    PROVE  /\ EnsureToolCallIDs(made) \in Seq(Made)
           /\ Len(EnsureToolCallIDs(made)) = Len(made)
           /\ DOMAIN EnsureToolCallIDs(made) = DOMAIN made
<1>1. Len(made) \in Nat /\ DOMAIN made = 1..Len(made) /\ \A i \in DOMAIN made : made[i] \in Made
  BY LenProperties, ElementOfSeq
<1>2. ASSUME NEW i \in DOMAIN made PROVE EnsureToolCallIDs(made)[i] \in Made
  <2>1. made[i] \in Made /\ i - 1 \in Nat
    BY <1>1
  <2>2. <<0, i - 1>> \in Seq(Nat)
    BY <2>1, Ids
  <2>3. [made[i] EXCEPT !.id = <<0, i - 1>>] \in Made
    BY <2>1, <2>2 DEF Made
  <2> QED BY <2>1, <2>3 DEF EnsureToolCallIDs
<1>3. EnsureToolCallIDs(made) \in [1..Len(made) -> Made]
  BY <1>1, <1>2 DEF EnsureToolCallIDs
<1> QED BY <1>1, <1>3, Listed

LEMMA Whole ==
    ASSUME Types
    PROVE  FromOllamaMessage \in Seq(Made) /\ FromOpenRouterMessage \in Seq(Made)
<1>1. Len(meant) \in Nat /\ DOMAIN meant = 1..Len(meant) /\ \A i \in DOMAIN meant : meant[i] \in Kinds
  BY LenProperties, ElementOfSeq DEF Types
<1>2. FromOllamaMessage \in [1..Len(meant) -> Made]
  BY <1>1, Ids DEF FromOllamaMessage, Made
<1>3. \A i \in DOMAIN meant : <<turn, i>> \in Seq(Nat)
  BY <1>1, Ids DEF Types
<1>4. FromOpenRouterMessage \in [1..Len(meant) -> Made]
  BY <1>1, <1>3 DEF FromOpenRouterMessage, Made
<1> QED BY <1>1, <1>2, <1>4, Listed

LEMMA Built ==
    ASSUME Types
    PROVE  Build \in Seq(Made) /\ Len(Build) = Len(merged) /\ DOMAIN Build = DOMAIN merged
<1>1. Len(merged) \in Nat /\ DOMAIN merged = 1..Len(merged)
      /\ \A e \in DOMAIN merged : merged[e] \in Chunk
  BY LenProperties, ElementOfSeq DEF Types
<1>2. \A i \in DOMAIN meant : meant[i] \in Kinds
  BY LenProperties, ElementOfSeq DEF Types
<1>3. \A e \in DOMAIN merged : ParseToolArguments(merged[e]) \in Kinds
  BY <1>2 DEF Types, ParseToolArguments, Kinds
<1>4. Build \in [1..Len(merged) -> Made]
  BY <1>1, <1>3 DEF Build, Made, Chunk
<1> QED BY <1>1, <1>4, Listed

\* A response brings some sequence of calls.
LEMMA Response ==
    ASSUME Types, Complete \/ EndOpenRouter \/ EndOllama
    PROVE  /\ at = "read" /\ UNCHANGED <<request, turn, meant, sent, toolCalls, listening>>
           /\ \E made \in Seq(Made), n \in Nat : Respond(made, n)
<1>1. CASE Complete
  BY <1>1, Whole DEF Complete
<1>2. CASE EndOpenRouter
  BY <1>2, Built, Filled DEF EndOpenRouter, Types
<1>3. CASE EndOllama
  <2>1. PICK made \in {<< >>, IF \A i \in DOMAIN meant : sent[i] = 0 THEN FromOllamaMessage ELSE << >>},
             n \in 0..deltas : Respond(EnsureToolCallIDs(made), n)
    BY <1>3 DEF EndOllama
  <2>2. made \in Seq(Made)
    BY Whole, EmptySeq
  <2>3. n \in Nat
    BY DEF Types
  <2> QED BY <1>3, <2>1, <2>2, <2>3, Filled DEF EndOllama
<1> QED BY <1>1, <1>2, <1>3

\* A set of numbers has a least one.
LEMMA Least ==
    ASSUME NEW S \in SUBSET Nat, S # {}
    PROVE  Min(S) \in S /\ \A y \in S : Min(S) <= y
<1>1. PICK m \in S : \A y \in S : ~(<<y, m>> \in OpToRel(<, Nat))
  BY NatLessThanWellFounded, WFMin
<1>2. ASSUME NEW y \in S PROVE m <= y
  <2>1. ~(y < m)
    BY <1>1 DEF OpToRel
  <2> QED BY <2>1
<1> QED BY <1>1, <1>2 DEF Min

\* Entry finds the entry of a call, if there is one.
LEMMA EntryFound ==
    ASSUME Types, NEW i
    PROVE  \/ Entry(i) = 0 /\ \A e \in DOMAIN merged : merged[e].index # i
           \/ Entry(i) \in DOMAIN merged /\ Entry(i) # 0 /\ merged[Entry(i)].index = i
<1> DEFINE I == {e \in 1..Len(merged) : merged[e].index = i}
<1>1. DOMAIN merged = 1..Len(merged) /\ Len(merged) \in Nat
  BY LenProperties DEF Types
<1>2. Entry(i) = IF I # {} THEN Min(I) ELSE 0
  BY DEF Entry, SelectInSeq
<1>3. I \in SUBSET Nat
  OBVIOUS
<1>4. CASE I = {}
  BY <1>1, <1>2, <1>4
<1>5. CASE I # {}
  <2>1. Entry(i) \in I
    BY <1>2, <1>3, <1>5, Least
  <2> QED BY <1>1, <2>1
<1> QED BY <1>4, <1>5

\* What Add does with piece k of call i: a new entry at the end, or the entry of the
\* call changed.
Opened(i) == [index |-> i, id |-> << >>, text |-> << >>]
Added(e, i, k) == IF k = 1 THEN [e EXCEPT !.id = <<turn, i>>] ELSE [e EXCEPT !.text = Append(@, k)]

LEMMA ChunkAdded ==
    ASSUME Types, NEW c \in Chunk, NEW i \in Nat, NEW k \in Nat
    PROVE  /\ Added(c, i, k) \in Chunk
           /\ Added(c, i, k).index = c.index
           /\ k = 1 => Added(c, i, k).id = <<turn, i>> /\ Added(c, i, k).text = c.text
           /\ k # 1 => Added(c, i, k).id = c.id /\ Added(c, i, k).text = Append(c.text, k)
<1>1. <<turn, i>> \in Seq(Nat)
  BY Ids DEF Types
<1>2. Append(c.text, k) \in Seq(Nat)
  BY AppendProperties DEF Chunk
<1> QED BY <1>1, <1>2 DEF Added, Chunk

LEMMA AddedNew ==
    ASSUME Types, NEW i \in DOMAIN meant, NEW k \in Nat, Entry(i) = 0
    PROVE  LET m == Add(i, k)
           IN /\ m \in Seq(Chunk) /\ Len(m) = Len(merged) + 1 /\ DOMAIN m = 1..Len(merged) + 1
              /\ m[Len(merged) + 1] = Added(Opened(i), i, k)
              /\ \A e \in DOMAIN merged : m[e] = merged[e]
<1> DEFINE n == Len(merged) + 1
           o == Append(merged, Opened(i))
           m == Add(i, k)
<1>1. i \in Nat
  BY LenProperties DEF Types
<1>2. Opened(i) \in Chunk
  BY <1>1, Ids DEF Opened, Chunk
<1>3. Len(merged) \in Nat /\ DOMAIN merged = 1..Len(merged)
  BY LenProperties DEF Types
<1>4. /\ o \in Seq(Chunk) /\ Len(o) = n /\ o[n] = Opened(i)
      /\ \A e \in DOMAIN merged : o[e] = merged[e]
  BY <1>2, <1>3, AppendProperties DEF Types
<1>5. m = [o EXCEPT ![n] = Added(Opened(i), i, k)]
  <2>1. m = IF k = 1 THEN [o EXCEPT ![n].id = <<turn, i>>]
                     ELSE [o EXCEPT ![n].text = Append(@, k)]
    BY <1>4 DEF Add, Opened, Extend
  <2> QED BY <1>4, <2>1 DEF Added
<1>6. Added(Opened(i), i, k) \in Chunk
  BY <1>1, <1>2, ChunkAdded
<1>7. n \in 1..Len(o) /\ \A e \in DOMAIN merged : e # n /\ e \in 1..Len(o)
  BY <1>3, <1>4
<1> HIDE DEF m, o
<1>8. /\ m \in Seq(Chunk) /\ Len(m) = Len(o)
      /\ \A j \in 1..Len(o) : m[j] = IF j = n THEN Added(Opened(i), i, k) ELSE o[j]
  BY <1>4, <1>5, <1>6, <1>7, ExceptSeq
<1>9. DOMAIN m = 1..n
  BY <1>4, <1>8, LenProperties
<1>10. m[n] = Added(Opened(i), i, k) /\ \A e \in DOMAIN merged : m[e] = merged[e]
  BY <1>4, <1>7, <1>8
<1> QED BY <1>4, <1>8, <1>9, <1>10 DEF m

LEMMA AddedMore ==
    ASSUME Types, NEW i \in DOMAIN meant, NEW k \in Nat, Entry(i) # 0
    PROVE  LET m == Add(i, k)
           IN /\ m \in Seq(Chunk) /\ Len(m) = Len(merged) /\ DOMAIN m = DOMAIN merged
              /\ m[Entry(i)] = Added(merged[Entry(i)], i, k)
              /\ \A e \in DOMAIN merged : e # Entry(i) => m[e] = merged[e]
<1> DEFINE n == Entry(i)
           m == Add(i, k)
<1>1. i \in Nat
  BY LenProperties DEF Types
<1>2. Len(merged) \in Nat /\ DOMAIN merged = 1..Len(merged)
  BY LenProperties DEF Types
<1>3. n \in 1..Len(merged)
  BY <1>2, EntryFound
<1>4. merged[n] \in Chunk
  BY <1>3, ElementOfSeq DEF Types
<1>5. m = [merged EXCEPT ![n] = Added(merged[n], i, k)]
  BY DEF Add, Added, Extend
<1>6. Added(merged[n], i, k) \in Chunk
  BY <1>1, <1>4, ChunkAdded
<1> HIDE DEF m, n
<1>7. /\ m \in Seq(Chunk) /\ Len(m) = Len(merged)
      /\ \A j \in 1..Len(merged) : m[j] = IF j = n THEN Added(merged[n], i, k) ELSE merged[j]
  BY <1>3, <1>5, <1>6, ExceptSeq, SMTT(20) DEF Types
<1>8. DOMAIN m = DOMAIN merged
  BY <1>2, <1>7, LenProperties
<1> QED BY <1>2, <1>3, <1>7, <1>8 DEF m, n

\* A call that is answered: its result follows the conversation.
Result == [role |-> "tool", id |-> Head(calls).id]
Answered ==
    /\ at \in {"run", "ok", "error"}
    /\ conversation' = Append(conversation, Result)
    /\ calls' = Tail(calls)
    /\ at' = IF Tail(calls) = << >> THEN "ask" ELSE "start"

LEMMA CallAnswered ==
    ASSUME Types, at \in Answering
    PROVE  /\ Head(calls) \in Made /\ Result \in Message
           /\ \A r : conversation \o Answer(r) = Append(conversation, Result)
<1>1. Head(calls) \in Made
  BY HeadTailProperties DEF Types
<1>2. Result \in Message
  BY <1>1 DEF Result, Message, Made
<1>3. ASSUME NEW r PROVE Answer(r) = <<Result>>
  BY DEF Answer, EncodeToolError, Result
<1>4. Append(conversation, Result) = conversation \o <<Result>>
  BY <1>2, AppendIsConcat DEF Types
<1> QED BY <1>1, <1>2, <1>3, <1>4

\* What a step does to the conversation: nothing, another turn is asked for, a
\* response comes or a call is answered.
Quiet ==
    /\ UNCHANGED <<turn, meant, calls, conversation>>
    /\ \/ at' \in {at, "over"}
       \/ at = "open" /\ at' = "ask"
       \/ at = "start" /\ at' = "run"
       \/ at = "run" /\ at' \in {"ok", "error"}
Responded == at = "read" /\ UNCHANGED turn /\ \E made \in Seq(Made), n \in Nat : Respond(made, n)

LEMMA Steps ==
    ASSUME Types, [Next]_vars
    PROVE  Quiet \/ Ask \/ Responded \/ (Answered /\ UNCHANGED turn)
<1>1. CASE Serve
  <2>1. CASE Open \/ ExceedTurns \/ BreakOff \/ StartTool
    BY <2>1 DEF Open, ExceedTurns, BreakOff, Timeout, StartTool, Fail, Quiet, response
  <2>2. CASE Execute
    <3>1. conversation \o Answer("ok") = Append(conversation, Result)
          /\ conversation \o Answer("error") = Append(conversation, Result)
      BY <2>2, CallAnswered DEF Execute, Answering
    <3> QED BY <2>2, <3>1 DEF Execute, Quiet, Answered, response
  <2>3. CASE ShowResult
    <3>1. conversation \o Answer(at) = Append(conversation, Result)
      BY <2>3, CallAnswered DEF ShowResult, Answering
    <3> QED BY <2>3, <3>1 DEF ShowResult, Quiet, Answered, response
  <2> QED BY <1>1, <2>1, <2>2, <2>3 DEF Serve
<1>2. CASE Receive
  <2>1. CASE Complete \/ EndOpenRouter \/ EndOllama
    BY <2>1, Response DEF Responded
  <2>2. CASE ReadDelta \/ SendEarly \/ \E i \in DOMAIN meant : ReadPiece(i)
    BY <2>2 DEF ReadDelta, SendEarly, ReadPiece, Quiet
  <2> QED BY <1>2, <2>1, <2>2 DEF Receive
<1>3. CASE Leave \/ Done \/ UNCHANGED vars
  BY <1>3 DEF Leave, Done, vars, response, Quiet
<1> QED BY <1>1, <1>2, <1>3 DEF Next

LEMMA TypesInit == Init => Types
<1> SUFFICES ASSUME Init PROVE Types
    OBVIOUS
<1>1. meant = << >> /\ sent = << >> /\ merged = << >>
  BY DEF Init
<1>2. meant \in Seq(Kinds) /\ DOMAIN meant = {} /\ merged \in Seq(Chunk) /\ DOMAIN merged = {}
  BY <1>1
<1>3. sent \in [DOMAIN meant -> 0..Pieces]
  BY <1>1, <1>2
<1> QED BY <1>1, <1>2, <1>3 DEF Init, Types, Answering

LEMMA TypesStep == Types /\ [Next]_vars => Types'
<1> SUFFICES ASSUME Types, [Next]_vars PROVE Types'
    OBVIOUS
<1> USE DEF Answering
<1>1. CASE Open \/ ExceedTurns \/ BreakOff \/ StartTool
  BY <1>1 DEF Open, ExceedTurns, BreakOff, Timeout, StartTool, Fail, response, Types
<1>2. CASE Ask
  <2>1. PICK n \in 0..MaxCalls : meant' \in [1..n -> Arguments] /\ sent' = [i \in 1..n |-> 0]
    BY <1>2 DEF Ask
  <2>2. n \in Nat /\ Arguments \subseteq Kinds
    <3>1. n \in Nat
      BY Bounds
    <3> QED BY <3>1 DEF Arguments, Kinds
  <2>3. meant' \in [1..n -> Kinds]
    BY <2>1, <2>2
  <2>4. meant' \in Seq(Kinds) /\ DOMAIN meant' = 1..n
    BY <2>2, <2>3, Listed
  <2>5. sent' \in [DOMAIN meant' -> 0..Pieces]
    BY <2>1, <2>4, Bounds
  <2>6. merged' = << >> /\ merged' \in Seq(Chunk) /\ DOMAIN merged' = {}
    BY <1>2 DEF Ask, Types
  <2>7. turn' \in Nat
    BY <1>2 DEF Ask, Types
  <2> QED BY <1>2, <2>4, <2>5, <2>6, <2>7 DEF Ask, Types
<1>3. CASE Execute \/ ShowResult
  <2>1. /\ Head(calls) \in Made /\ Result \in Message
        /\ \A r : conversation \o Answer(r) = Append(conversation, Result)
    BY <1>3, CallAnswered DEF Execute, ShowResult
  <2>2. Tail(calls) \in Seq(Made)
    BY <1>3, HeadTailProperties DEF Execute, ShowResult, Types
  <2>3. Append(conversation, Result) \in Seq(Message) /\ Append(toolCalls, Head(calls)) \in Seq(Made)
    BY <2>1, AppendProperties DEF Types
  <2>4. UNCHANGED <<turn, deltas, content, meant, sent, merged>>
    BY <1>3 DEF Execute, ShowResult, response
  <2>5. calls' \in Seq(Made) /\ toolCalls' \in Seq(Made) /\ conversation' \in Seq(Message)
    BY <1>3, <2>1, <2>2, <2>3 DEF Execute, ShowResult, Types
  <2>6. (at' \in Answering => calls' # << >>) /\ at \notin {"read", "over"}
    BY <1>3 DEF Execute, ShowResult, Types
  <2> QED BY <2>4, <2>5, <2>6 DEF Types
<1>4. CASE Complete \/ EndOpenRouter \/ EndOllama
  <2>1. /\ at = "read" /\ UNCHANGED <<request, turn, meant, sent, toolCalls, listening>>
        /\ \E made \in Seq(Made), n \in Nat : Respond(made, n)
    BY <1>4, Response
  <2>2. PICK made \in Seq(Made), n \in Nat : Respond(made, n)
    BY <2>1
  <2>3. Append(conversation, [role |-> "assistant", calls |-> made]) \in Seq(Message)
    <3>1. [role |-> "assistant", calls |-> made] \in Message
      BY DEF Message
    <3> QED BY <3>1, AppendProperties DEF Types
  <2>4. merged' = << >> /\ merged' \in Seq(Chunk) /\ DOMAIN merged' = {}
    BY <2>2 DEF Respond
  <2>5. calls' \in Seq(Made) /\ conversation' \in Seq(Message) /\ (at' \in Answering => calls' # << >>)
    BY <2>2, <2>3 DEF Respond, Types
  <2>6. deltas' = 0 /\ content' = 0
    BY <2>2 DEF Respond
  <2> QED BY <2>1, <2>4, <2>5, <2>6 DEF Types
<1>5. CASE ReadDelta
  <2>1. /\ deltas' = deltas + 1 /\ content' \in {content, content + 1} /\ at' \in {"read", "over"}
        /\ UNCHANGED <<turn, meant, sent, merged, calls, conversation, toolCalls>>
    BY <1>5 DEF ReadDelta
  <2>2. deltas' \in Nat /\ content' \in Nat
    BY <2>1 DEF Types
  <2> QED BY <2>1, <2>2 DEF Types
<1>6. CASE SendEarly
  <2>1. sent' \in [DOMAIN meant -> 0..Pieces]
    BY <1>6, Bounds DEF SendEarly
  <2> QED BY <1>6, <2>1 DEF SendEarly, Types
<1>7. ASSUME NEW i \in DOMAIN meant, ReadPiece(i) PROVE Types'
  <2>1. i \in Nat
    BY LenProperties DEF Types
  <2>2. sent[i] \in 0..Pieces /\ sent[i] < Pieces
    BY <1>7 DEF Types, ReadPiece
  <2>3. sent[i] + 1 \in Nat /\ sent[i] + 1 \in 0..Pieces
    BY <2>2, Bounds
  <2>4. sent' \in [DOMAIN meant -> 0..Pieces]
    BY <1>7, <2>3 DEF ReadPiece, Types
  <2>5. merged' \in Seq(Chunk) /\ \A e \in DOMAIN merged' : merged'[e].index \in DOMAIN meant
    <3> DEFINE k == sent[i] + 1
    <3>1. merged' = Add(i, k) /\ k \in Nat
      BY <1>7, <2>3 DEF ReadPiece
    <3>2. CASE Entry(i) = 0
      <4>1. Opened(i) \in Chunk /\ Opened(i).index = i
        BY <2>1, Ids DEF Opened, Chunk
      <4>2. Added(Opened(i), i, k).index = i
        BY <2>1, <3>1, <4>1, ChunkAdded
      <4>3. DOMAIN merged = 1..Len(merged) /\ Len(merged) \in Nat
        BY LenProperties DEF Types
      <4> HIDE DEF k
      <4>4. /\ merged' \in Seq(Chunk) /\ DOMAIN merged' = 1..Len(merged) + 1
            /\ merged'[Len(merged) + 1] = Added(Opened(i), i, k)
            /\ \A e \in DOMAIN merged : merged'[e] = merged[e]
        BY <3>1, <3>2, AddedNew
      <4>5. ASSUME NEW e \in DOMAIN merged' PROVE merged'[e].index \in DOMAIN meant
        <5>1. CASE e = Len(merged) + 1
          BY <4>2, <4>4, <5>1
        <5>2. CASE e # Len(merged) + 1
          <6>1. e \in DOMAIN merged
            BY <4>3, <4>4, <5>2
          <6> QED BY <4>4, <6>1 DEF Types
        <5> QED BY <5>1, <5>2
      <4> QED BY <4>4, <4>5
    <3>3. CASE Entry(i) # 0
      <4>1. Entry(i) \in DOMAIN merged /\ merged[Entry(i)].index = i
        BY <3>3, EntryFound
      <4>2. merged[Entry(i)] \in Chunk
        BY <4>1, LenProperties, ElementOfSeq DEF Types
      <4>3. Added(merged[Entry(i)], i, k).index = i
        BY <2>1, <3>1, <4>1, <4>2, ChunkAdded
      <4> HIDE DEF k
      <4>4. /\ merged' \in Seq(Chunk) /\ DOMAIN merged' = DOMAIN merged
            /\ merged'[Entry(i)] = Added(merged[Entry(i)], i, k)
            /\ \A e \in DOMAIN merged : e # Entry(i) => merged'[e] = merged[e]
        BY <3>1, <3>3, AddedMore
      <4> QED BY <4>3, <4>4 DEF Types
    <3> QED BY <3>2, <3>3
  <2> QED BY <1>7, <2>4, <2>5 DEF ReadPiece, Types
<1>8. CASE Leave \/ Done \/ UNCHANGED vars
  BY <1>8 DEF Leave, Done, vars, response, Types
<1> QED BY <1>1, <1>2, <1>3, <1>4, <1>5, <1>6, <1>7, <1>8 DEF Next, Serve, Receive

-----------------------------------------------------------------------------
(* The requests to the model                                               *)

\* Message q is the response whose calls are being run: the results so far are those of
\* its first calls, its other calls are left, and whatever was asked before is answered.
Pending(q) ==
    LET made == conversation[q].calls
        n == Len(made) - Len(calls)
    IN /\ n \in Nat /\ Len(conversation) = q + n
       /\ \A k \in DOMAIN calls : calls[k] = made[n + k]
       /\ \A k \in 1..n : conversation[q + k].role = "tool" /\ conversation[q + k].id = made[k].id
       /\ \A p \in Asked : p <= q
       /\ \A p \in Asked \ {q} : AnsweredAt(p)
Owed == at \in Answering => \E q \in Asked : Pending(q)
Settled == at \in {"open", "ask", "read"} => \A p \in Asked : AnsweredAt(p)
Wanted ==
    \A p \in DOMAIN conversation \ Asked : \E q \in Asked : q < p /\ p <= q + Len(conversation[q].calls)
Counted ==
    /\ IsFiniteSet(Asked) /\ Cardinality(Asked) <= turn /\ turn <= MaxTurns
    /\ at = "read" => Cardinality(Asked) < turn
    /\ at \in Answering \cup {"open", "ask", "read", "over"}
Told == Owed /\ Settled /\ Wanted /\ Counted

LEMMA Said ==
    ASSUME Types
    PROVE  /\ Len(conversation) \in Nat /\ DOMAIN conversation = 1..Len(conversation)
           /\ Len(calls) \in Nat /\ DOMAIN calls = 1..Len(calls)
           /\ \A p \in Asked : /\ p \in 1..Len(conversation) /\ conversation[p].calls \in Seq(Made)
                               /\ Len(conversation[p].calls) \in Nat
                               /\ DOMAIN conversation[p].calls = 1..Len(conversation[p].calls)
<1>1. Len(conversation) \in Nat /\ DOMAIN conversation = 1..Len(conversation)
  BY LenProperties DEF Types
<1>2. Len(calls) \in Nat /\ DOMAIN calls = 1..Len(calls)
  BY LenProperties DEF Types
<1>3. ASSUME NEW p \in Asked
      PROVE  p \in 1..Len(conversation) /\ conversation[p].calls \in Seq(Made)
  <2>1. p \in 1..Len(conversation) /\ conversation[p].role = "assistant"
    BY <1>1 DEF Asked
  <2>2. conversation[p] \in Message
    BY <2>1, ElementOfSeq DEF Types
  <2> QED BY <2>1, <2>2 DEF Message
<1> QED BY <1>1, <1>2, <1>3, LenProperties

\* The conversation grows by one message: what was said stays.
LEMMA Grown ==
    ASSUME Types, NEW m \in Message, conversation' = Append(conversation, m)
    PROVE  /\ Len(conversation') = Len(conversation) + 1
           /\ DOMAIN conversation' = 1..Len(conversation) + 1
           /\ conversation'[Len(conversation) + 1] = m
           /\ \A p \in DOMAIN conversation : conversation'[p] = conversation[p]
           /\ Asked' = IF m.role = "assistant" THEN Asked \cup {Len(conversation) + 1} ELSE Asked
           /\ \A p \in Asked : AnsweredAt(p) => AnsweredAt(p)'
<1>1. /\ Len(conversation) \in Nat /\ DOMAIN conversation = 1..Len(conversation)
      /\ \A p \in Asked : /\ p \in 1..Len(conversation) /\ Len(conversation[p].calls) \in Nat
                          /\ DOMAIN conversation[p].calls = 1..Len(conversation[p].calls)
  BY Said
<1>2. /\ conversation' \in Seq(Message) /\ Len(conversation') = Len(conversation) + 1
      /\ \A p \in 1..Len(conversation) : conversation'[p] = conversation[p]
      /\ conversation'[Len(conversation) + 1] = m
  BY AppendProperties DEF Types
<1>3. DOMAIN conversation' = 1..Len(conversation) + 1
  BY <1>2, LenProperties
<1>4. Asked' = IF m.role = "assistant" THEN Asked \cup {Len(conversation) + 1} ELSE Asked
  BY <1>1, <1>2, <1>3 DEF Asked
<1>5. ASSUME NEW p \in Asked, AnsweredAt(p) PROVE AnsweredAt(p)'
  <2> DEFINE made == conversation[p].calls
  <2>1. conversation'[p] = conversation[p] /\ Len(made) \in Nat /\ DOMAIN made = 1..Len(made) /\ p \in Nat
    BY <1>1, <1>2
  <2>2. Len(conversation') >= p + Len(made)
    BY <1>1, <1>2, <1>5, <2>1 DEF AnsweredAt
  <2>3. ASSUME NEW k \in DOMAIN made
        PROVE  conversation'[p + k].role = "tool" /\ conversation'[p + k].id = made[k].id
    <3>1. p + k \in 1..Len(conversation)
      BY <1>1, <1>5, <2>1 DEF AnsweredAt
    <3> QED BY <1>2, <1>5, <3>1 DEF AnsweredAt
  <2> QED BY <2>1, <2>2, <2>3 DEF AnsweredAt
<1> QED BY <1>1, <1>2, <1>3, <1>4, <1>5

LEMMA WantedGrows ==
    ASSUME Types, NEW m \in Message, conversation' = Append(conversation, m), Wanted,
           m.role # "assistant" =>
              \E q \in Asked : Len(conversation) + 1 <= q + Len(conversation[q].calls)
    PROVE  Wanted'
<1> DEFINE n == Len(conversation) + 1
<1>1. /\ DOMAIN conversation' = 1..n
      /\ \A p \in DOMAIN conversation : conversation'[p] = conversation[p]
      /\ Asked' = IF m.role = "assistant" THEN Asked \cup {n} ELSE Asked
  BY Grown
<1>2. /\ Len(conversation) \in Nat /\ DOMAIN conversation = 1..Len(conversation)
      /\ \A p \in Asked : p \in 1..Len(conversation)
  BY Said
<1>3. SUFFICES ASSUME NEW p \in DOMAIN conversation' \ Asked'
               PROVE  \E q \in Asked : q < p /\ p <= q + Len(conversation[q].calls)
  <2>1. Asked \subseteq Asked' /\ \A q \in Asked : conversation'[q] = conversation[q]
    BY <1>1, <1>2
  <2> QED BY <1>3, <2>1 DEF Wanted
<1>4. CASE p = n
  BY <1>1, <1>2, <1>4
<1>5. CASE p # n
  <2>1. p \in DOMAIN conversation \ Asked
    BY <1>1, <1>2, <1>5
  <2> QED BY <2>1 DEF Wanted
<1> QED BY <1>4, <1>5

LEMMA ToldInit == Init => Told
<1> SUFFICES ASSUME Init PROVE Told
    OBVIOUS
<1>1. DOMAIN conversation = {} /\ Asked = {} /\ turn = 0 /\ at = "open"
  BY DEF Init, Asked
<1>2. IsFiniteSet(Asked) /\ Cardinality(Asked) = 0
  BY <1>1, FS_EmptySet
<1> QED BY <1>1, <1>2, Bounds DEF Told, Owed, Settled, Wanted, Counted, Answering

LEMMA ToldQuiet == ASSUME Told, Quiet PROVE Told'
<1>1. Asked' = Asked /\ \A p : AnsweredAt(p)' = AnsweredAt(p)
  BY DEF Quiet, Asked, AnsweredAt
<1>2. \A q : Pending(q)' = Pending(q)
  BY <1>1 DEF Quiet, Pending
<1>3. Owed' /\ Settled'
  BY <1>1, <1>2 DEF Told, Owed, Settled, Quiet, Counted, Answering
<1>4. Wanted'
  BY <1>1 DEF Told, Wanted, Quiet
<1>5. Counted'
  BY <1>1 DEF Told, Counted, Quiet, Answering
<1> QED BY <1>3, <1>4, <1>5 DEF Told

LEMMA ToldAsk == ASSUME Types, Told, Ask PROVE Told'
<1>1. Asked' = Asked /\ \A p : AnsweredAt(p)' = AnsweredAt(p)
  BY DEF Ask, Asked, AnsweredAt
<1>2. Cardinality(Asked) \in Nat /\ turn \in Nat
  BY FS_CardinalityType DEF Told, Counted, Types
<1>3. at = "ask" /\ at' = "read" /\ turn < MaxTurns /\ turn' = turn + 1
  BY DEF Ask, TurnsLeft
<1>4. Owed' /\ Settled'
  BY <1>1, <1>3 DEF Told, Owed, Settled, Answering
<1>5. Wanted'
  BY <1>1 DEF Told, Wanted, Ask
<1>6. Counted'
  <2>1. turn + 1 <= MaxTurns /\ Cardinality(Asked) < turn + 1
    BY <1>2, <1>3, Bounds DEF Told, Counted
  <2> QED BY <1>1, <1>2, <1>3, <2>1 DEF Told, Counted, Answering
<1> QED BY <1>4, <1>5, <1>6 DEF Told

LEMMA ToldResponded == ASSUME Types, Told, Responded PROVE Told'
<1>1. PICK made \in Seq(Made), n \in Nat : Respond(made, n)
  BY DEF Responded
<1>2. at = "read" /\ turn' = turn
  BY DEF Responded
<1>3. CASE made = << >>
  <2>1. at' = "over" /\ conversation' = conversation
    BY <1>1, <1>3 DEF Respond
  <2>2. Asked' = Asked /\ \A p : AnsweredAt(p)' = AnsweredAt(p)
    BY <2>1 DEF Asked, AnsweredAt
  <2> QED BY <1>2, <2>1, <2>2 DEF Told, Owed, Settled, Wanted, Counted, Answering
<1>4. CASE made # << >>
  <2> DEFINE m == [role |-> "assistant", calls |-> made]
  <2>0. PICK q : q = Len(conversation) + 1
    OBVIOUS
  <2>1. at' = "start" /\ calls' = made /\ conversation' = Append(conversation, m)
    BY <1>1, <1>4 DEF Respond
  <2>2. m \in Message /\ m.role = "assistant" /\ m.calls = made
    BY DEF Message
  <2> HIDE DEF m
  <2>3. /\ Len(conversation') = q /\ conversation'[q] = m /\ Asked' = Asked \cup {q}
        /\ \A p \in Asked : AnsweredAt(p) => AnsweredAt(p)'
    BY <2>0, <2>1, <2>2, Grown
  <2>4. Wanted'
    BY <2>1, <2>2, WantedGrows DEF Told
  <2>5. /\ Len(conversation) \in Nat /\ \A p \in Asked : p \in 1..Len(conversation)
        /\ Len(made) \in Nat /\ DOMAIN made = 1..Len(made)
    BY Said, LenProperties
  <2>6. Pending(q)'
    <3>1. \A p \in Asked : AnsweredAt(p)'
      BY <1>2, <2>3 DEF Told, Settled
    <3>2. Len(made) - Len(made) = 0 /\ \A k \in DOMAIN made : 0 + k = k
      BY <2>5
    <3>3. Len(conversation') = q + 0 /\ \A p \in Asked' : p <= q
      BY <2>0, <2>3, <2>5
    <3> QED BY <2>1, <2>2, <2>3, <2>5, <3>1, <3>2, <3>3 DEF Pending
  <2>7. Counted'
    <3>1. /\ IsFiniteSet(Asked \cup {q})
          /\ Cardinality(Asked \cup {q}) \in {Cardinality(Asked), Cardinality(Asked) + 1}
      BY FS_AddElement DEF Told, Counted
    <3>2. Cardinality(Asked) \in Nat /\ Cardinality(Asked) < turn /\ turn \in Nat
      BY <1>2, FS_CardinalityType DEF Told, Counted, Types
    <3>3. Cardinality(Asked') <= turn
      BY <2>3, <3>1, <3>2
    <3> QED BY <1>2, <2>1, <2>3, <3>1, <3>3 DEF Told, Counted, Answering
  <2> QED BY <2>1, <2>3, <2>4, <2>6, <2>7 DEF Told, Owed, Settled
<1> QED BY <1>3, <1>4

LEMMA ToldAnswered == ASSUME Types, Told, Answered, UNCHANGED turn PROVE Told'
<1>1. PICK q \in Asked : Pending(q)
  BY DEF Told, Owed, Answered, Answering
<1>2. PICK made, n, l : made = conversation[q].calls /\ n = Len(made) - Len(calls) /\ l = Len(conversation)
  OBVIOUS
<1>3. /\ l \in Nat /\ DOMAIN conversation = 1..l /\ q \in 1..l
      /\ Len(calls) \in Nat \ {0} /\ DOMAIN calls = 1..Len(calls)
      /\ Len(made) \in Nat /\ DOMAIN made = 1..Len(made)
  <2>1. Len(calls) \in Nat \ {0}
    BY EmptySeq DEF Types, Answered, Answering
  <2> QED BY <1>2, <2>1, Said
<1>4. /\ n \in Nat /\ l = q + n /\ n + 1 <= Len(made) /\ Len(made) = n + Len(calls)
      /\ \A k \in DOMAIN calls : calls[k] = made[n + k]
      /\ \A k \in 1..n : conversation[q + k].role = "tool" /\ conversation[q + k].id = made[k].id
      /\ \A p \in Asked : p <= q
      /\ \A p \in Asked \ {q} : AnsweredAt(p)
  BY <1>1, <1>2, <1>3 DEF Pending
<1>5. Result \in Message /\ Result.role = "tool" /\ Result.id = made[n + 1].id
  <2>1. Result \in Message
    BY CallAnswered DEF Answered, Answering
  <2>2. Head(calls) = calls[1] /\ 1 \in DOMAIN calls
    BY <1>3 DEF Types
  <2> QED BY <1>4, <2>1, <2>2 DEF Result
<1>6. conversation' = Append(conversation, Result)
  BY DEF Answered
<1>7. /\ Len(conversation') = l + 1
      /\ conversation'[l + 1] = Result
      /\ \A p \in DOMAIN conversation : conversation'[p] = conversation[p]
      /\ Asked' = Asked
      /\ \A p \in Asked : AnsweredAt(p) => AnsweredAt(p)'
  BY <1>2, <1>5, <1>6, Grown
<1>8. Wanted'
  <2>1. l + 1 <= q + Len(made)
    BY <1>3, <1>4
  <2> QED BY <1>2, <1>5, <1>6, <2>1, WantedGrows DEF Told
<1>9. conversation'[q].calls = made
  BY <1>2, <1>3, <1>7
<1>10. \A k \in 1..n + 1 : conversation'[q + k].role = "tool" /\ conversation'[q + k].id = made[k].id
  <2>1. ASSUME NEW k \in 1..n + 1
        PROVE  conversation'[q + k].role = "tool" /\ conversation'[q + k].id = made[k].id
    <3>1. CASE k = n + 1
      <4>1. q + k = l + 1
        BY <1>3, <1>4, <3>1
      <4> QED BY <1>5, <1>7, <3>1, <4>1
    <3>2. CASE k # n + 1
      <4>1. k \in 1..n /\ q + k \in DOMAIN conversation
        BY <1>3, <1>4, <3>2
      <4> QED BY <1>4, <1>7, <4>1
    <3> QED BY <3>1, <3>2
  <2> QED BY <2>1
<1>11. /\ Len(Tail(calls)) = Len(calls) - 1 /\ DOMAIN Tail(calls) = 1..Len(calls) - 1
       /\ \A k \in 1..Len(calls) - 1 : Tail(calls)[k] = calls[k + 1]
  <2>1. /\ Tail(calls) \in Seq(Made) /\ Len(Tail(calls)) = Len(calls) - 1
        /\ \A k \in 1..Len(Tail(calls)) : Tail(calls)[k] = calls[k + 1]
    BY <1>3, HeadTailProperties DEF Types
  <2> QED BY <2>1, LenProperties
<1>12. Counted'
  BY <1>7 DEF Told, Counted, Answered, Answering
<1>13. \A p \in Asked \ {q} : AnsweredAt(p)'
  BY <1>4, <1>7
<1>14. CASE Tail(calls) = << >>
  <2>1. at' = "ask" /\ Len(calls) = 1 /\ Len(made) = n + 1
    <3>1. at' = "ask"
      BY <1>14 DEF Answered
    <3>2. Len(Tail(calls)) = 0
      BY <1>14, EmptySeq
    <3>3. Len(calls) - 1 = 0 /\ Len(calls) \in Nat
      BY <1>3, <1>11, <3>2
    <3>4. Len(calls) = 1
      BY <3>3
    <3> QED BY <1>4, <3>1, <3>4
  <2>2. AnsweredAt(q)'
    BY <1>3, <1>4, <1>7, <1>9, <1>10, <2>1 DEF AnsweredAt
  <2> QED BY <1>7, <1>8, <1>12, <1>13, <2>1, <2>2 DEF Told, Owed, Settled, Answering
<1>15. CASE Tail(calls) # << >>
  <2>1. at' = "start" /\ calls' = Tail(calls)
    BY <1>15 DEF Answered
  <2>2. Len(made) - Len(calls') = n + 1 /\ n + 1 \in Nat /\ Len(conversation') = q + (n + 1)
    BY <1>3, <1>4, <1>7, <1>11, <2>1
  <2>3. \A k \in DOMAIN calls' : calls'[k] = made[n + 1 + k]
    <3>1. ASSUME NEW k \in 1..Len(calls) - 1 PROVE Tail(calls)[k] = made[n + 1 + k]
      <4>1. k + 1 \in DOMAIN calls /\ n + (k + 1) = n + 1 + k
        BY <1>3, <1>4
      <4> QED BY <1>4, <1>11, <4>1
    <3> QED BY <1>11, <2>1, <3>1
  <2>4. Pending(q)'
    BY <1>4, <1>7, <1>9, <1>10, <1>13, <2>2, <2>3 DEF Pending
  <2> QED BY <1>7, <1>8, <1>12, <2>1, <2>4 DEF Told, Owed, Settled
<1> QED BY <1>14, <1>15

LEMMA ToldStep == Types /\ Told /\ [Next]_vars => Told'
BY Steps, ToldQuiet, ToldAsk, ToldResponded, ToldAnswered

\* Whatever the provider sends, the tools return and the client does, a request
\* that goes to the model has every call of an earlier turn answered, once and in
\* order, carries no result nobody asked for, and is one of the permitted turns
\* (internal/chat/service.go and stream.go).
THEOREM RequestsSound == Spec => []RequestsAreSound
<1>1. Types /\ Told => RequestsAreSound
  <2> SUFFICES ASSUME Types, Told, at = "ask" PROVE RequestsAreSound
      BY DEF RequestsAreSound
  <2>1. Cardinality(Asked) \in Nat /\ turn \in Nat /\ MaxTurns \in Nat
    BY FS_CardinalityType, Bounds DEF Told, Counted, Types
  <2>2. Cardinality(Asked) <= MaxTurns /\ turn <= MaxTurns
    BY <2>1 DEF Told, Counted
  <2> QED BY <2>2 DEF RequestsAreSound, Told, Settled, Wanted
<1> QED BY <1>1, TypesInit, TypesStep, ToldInit, ToldStep, PTL DEF Spec

-----------------------------------------------------------------------------
(* The calls of a stream                                                   *)

\* What has arrived of a call after s pieces.
Parts(s) == [k \in 1..s - 1 |-> k + 1]
Mixed == request.stream /\ request.provider = "openrouter"
\* There is one entry for every call of which something was sent, and it holds
\* just that, in order.
Apart ==
    at = "read" /\ Mixed =>
        /\ \A e \in DOMAIN merged : LET i == merged[e].index
                                    IN sent[i] >= 1 /\ merged[e].id = <<turn, i>> /\ merged[e].text = Parts(sent[i])
        /\ \A e, f \in DOMAIN merged : merged[e].index = merged[f].index => e = f
        /\ \A i \in DOMAIN meant : sent[i] >= 1 => \E e \in DOMAIN merged : merged[e].index = i
\* The calls of message q are those the model means.
MeantAt(q) ==
    LET made == conversation[q].calls
    IN /\ Len(made) = Len(meant)
       /\ \A i \in DOMAIN meant : \E k \in DOMAIN made : made[k] = [id |-> <<turn, i>>, arguments |-> meant[i]]
Understood ==
    at \in Answering /\ Mixed /\ (\A i \in DOMAIN meant : sent[i] = Pieces) =>
        \E q \in Asked : MeantAt(q) /\ \A p \in Asked : p <= q

LEMMA NextPart ==
    ASSUME NEW s \in Nat
    PROVE  /\ Parts(s) \in Seq(Nat)
           /\ s = 1 => Parts(s) = << >>
           /\ s > 1 => Parts(s) # << >>
           /\ s >= 1 => Append(Parts(s), s + 1) = Parts(s + 1)
<1> DEFINE n == IF s = 0 THEN 0 ELSE s - 1
<1>1. n \in Nat /\ 1..s - 1 = 1..n
  OBVIOUS
<1>2. Parts(s) \in [1..n -> Nat]
  BY <1>1 DEF Parts
<1>3. Parts(s) \in Seq(Nat) /\ Len(Parts(s)) = n
  BY <1>1, <1>2, Listed
<1>4. s = 1 => Parts(s) = << >>
  BY <1>3, EmptySeq
<1>5. s > 1 => Parts(s) # << >>
  BY <1>3, EmptySeq
<1>6. ASSUME s >= 1 PROVE Append(Parts(s), s + 1) = Parts(s + 1)
  <2>1. /\ Append(Parts(s), s + 1) \in Seq(Nat) /\ Len(Append(Parts(s), s + 1)) = s
        /\ \A k \in 1..s - 1 : Append(Parts(s), s + 1)[k] = Parts(s)[k]
        /\ Append(Parts(s), s + 1)[s] = s + 1
    BY <1>3, <1>6, AppendProperties
  <2>2. Parts(s + 1) \in [1..s -> Nat] /\ \A k \in 1..s : Parts(s + 1)[k] = k + 1
    BY DEF Parts
  <2>3. Parts(s + 1) \in Seq(Nat) /\ Len(Parts(s + 1)) = s
    BY <2>2, Listed
  <2>4. \A k \in 1..s : Append(Parts(s), s + 1)[k] = Parts(s + 1)[k]
    BY <1>6, <2>1, <2>2 DEF Parts
  <2> QED BY <2>1, <2>3, <2>4, SeqEqual
<1> QED BY <1>3, <1>4, <1>5, <1>6

\* A piece more of call i.
LEMMA PieceAdded ==
    ASSUME Types, Apart, Mixed, NEW i \in DOMAIN meant, ReadPiece(i)
    PROVE  Apart'
<1>1. /\ at = "read" /\ sent[i] \in 0..Pieces
      /\ sent' = [sent EXCEPT ![i] = sent[i] + 1] /\ merged' = Add(i, sent[i] + 1)
      /\ UNCHANGED <<request, at, turn, meant>>
  BY DEF ReadPiece, Types
<1>2. PICK k : k = sent[i] + 1
  OBVIOUS
<1>3. /\ sent[i] \in Nat /\ k \in Nat /\ k >= 1 /\ sent[i] = k - 1
      /\ sent' \in [DOMAIN meant -> Nat] /\ sent'[i] = k
      /\ \A j \in DOMAIN meant : j # i => sent'[j] = sent[j]
  <2>1. sent \in [DOMAIN meant -> Nat]
    BY Bounds DEF Types
  <2>2. sent[i] \in Nat
    BY <2>1
  <2>3. k \in Nat /\ k >= 1 /\ sent[i] = k - 1
    BY <1>2, <2>2
  <2> QED BY <1>1, <1>2, <2>1, <2>2, <2>3
<1>4. /\ \A e \in DOMAIN merged : LET j == merged[e].index
                                  IN sent[j] >= 1 /\ merged[e].id = <<turn, j>> /\ merged[e].text = Parts(sent[j])
      /\ \A e, f \in DOMAIN merged : merged[e].index = merged[f].index => e = f
      /\ \A j \in DOMAIN meant : sent[j] >= 1 => \E e \in DOMAIN merged : merged[e].index = j
  BY <1>1 DEF Apart
<1>5. /\ i \in Nat /\ \A e \in DOMAIN merged : merged[e] \in Chunk /\ merged[e].index \in DOMAIN meant
      /\ DOMAIN merged = 1..Len(merged) /\ Len(merged) \in Nat
  BY LenProperties, ElementOfSeq DEF Types
<1> DEFINE Right(e) == LET j == merged'[e].index
                       IN sent'[j] >= 1 /\ merged'[e].id = <<turn, j>> /\ merged'[e].text = Parts(sent'[j])
<1>6. SUFFICES /\ \A e \in DOMAIN merged' : Right(e)
               /\ \A e, f \in DOMAIN merged' : merged'[e].index = merged'[f].index => e = f
               /\ \A j \in DOMAIN meant : sent'[j] >= 1 => \E e \in DOMAIN merged' : merged'[e].index = j
  BY <1>1 DEF Apart
<1>7. CASE Entry(i) = 0
  <2>1. PICK n : n = Len(merged) + 1
    OBVIOUS
  <2>2. \A e \in DOMAIN merged : merged[e].index # i
    BY <1>7, EntryFound, <1>5
  <2>3. k = 1
    BY <1>3, <1>4, <2>2
  <2>4. Opened(i) \in Chunk /\ Opened(i).index = i /\ Opened(i).text = << >>
    BY <1>5, Ids DEF Opened, Chunk
  <2>5. /\ Added(Opened(i), i, k).index = i
        /\ Added(Opened(i), i, k).id = <<turn, i>> /\ Added(Opened(i), i, k).text = << >>
    BY <1>3, <1>5, <2>3, <2>4, ChunkAdded
  <2>6. /\ DOMAIN merged' = 1..n /\ merged'[n] = Added(Opened(i), i, k)
        /\ \A e \in DOMAIN merged : merged'[e] = merged[e]
    BY <1>1, <1>2, <1>3, <1>7, <2>1, AddedNew
  <2>7. \A e \in DOMAIN merged' : e = n \/ e \in DOMAIN merged
    BY <1>5, <2>1, <2>6
  <2>8. n \in DOMAIN merged' /\ n \notin DOMAIN merged /\ DOMAIN merged \subseteq DOMAIN merged'
    BY <1>5, <2>1, <2>6
  <2>9. Right(n)
    BY <1>3, <2>3, <2>5, <2>6, NextPart
  <2>10. \A e \in DOMAIN merged : Right(e)
    BY <1>3, <1>4, <1>5, <2>2, <2>6
  <2> HIDE DEF Right
  <2>11. \A e \in DOMAIN merged' : Right(e)
    BY <2>7, <2>9, <2>10
  <2>12. \A e, f \in DOMAIN merged' : merged'[e].index = merged'[f].index => e = f
    BY <1>4, <2>2, <2>5, <2>6, <2>7
  <2>13. ASSUME NEW j \in DOMAIN meant, sent'[j] >= 1 PROVE \E e \in DOMAIN merged' : merged'[e].index = j
    <3>1. CASE j = i
      BY <2>5, <2>6, <2>8, <3>1
    <3>2. CASE j # i
      BY <1>3, <1>4, <2>6, <2>8, <2>13, <3>2
    <3> QED BY <3>1, <3>2
  <2> QED BY <2>11, <2>12, <2>13
<1>8. CASE Entry(i) # 0
  <2>1. PICK n : n = Entry(i)
    OBVIOUS
  <2>2. n \in DOMAIN merged /\ merged[n].index = i
    BY <1>8, <2>1, EntryFound
  <2>3. k # 1 /\ k - 1 \in Nat /\ k - 1 >= 1 /\ merged[n].text = Parts(k - 1) /\ merged[n].id = <<turn, i>>
    BY <1>3, <1>4, <2>2
  <2>4. /\ Added(merged[n], i, k).index = i
        /\ Added(merged[n], i, k).id = <<turn, i>> /\ Added(merged[n], i, k).text = Append(Parts(k - 1), k)
    <3>1. merged[n] \in Chunk /\ i \in Nat /\ k \in Nat /\ k # 1
      BY <1>3, <1>5, <2>2, <2>3
    <3>2. /\ Added(merged[n], i, k).index = merged[n].index
          /\ Added(merged[n], i, k).id = merged[n].id
          /\ Added(merged[n], i, k).text = Append(merged[n].text, k)
      BY <3>1, ChunkAdded
    <3> QED BY <2>2, <2>3, <3>2
  <2>5. Append(Parts(k - 1), k) = Parts(k)
    <3>1. (k - 1) + 1 = k
      BY <1>3
    <3> QED BY <2>3, <3>1, NextPart
  <2>6. /\ DOMAIN merged' = DOMAIN merged /\ merged'[n] = Added(merged[n], i, k)
        /\ \A e \in DOMAIN merged : e # n => merged'[e] = merged[e]
    BY <1>1, <1>2, <1>3, <1>8, <2>1, AddedMore
  <2>7. \A e \in DOMAIN merged : merged'[e].index = merged[e].index
    BY <2>2, <2>4, <2>6
  <2>8. Right(n)
    BY <1>3, <2>4, <2>5, <2>6
  <2>9. \A e \in DOMAIN merged : e # n => Right(e)
    <3>1. ASSUME NEW e \in DOMAIN merged, e # n PROVE Right(e)
      <4>1. merged[e].index # i /\ merged[e].index \in DOMAIN meant /\ merged'[e] = merged[e]
        BY <1>4, <1>5, <2>2, <2>6, <3>1
      <4> QED BY <1>3, <1>4, <4>1
    <3> QED BY <3>1
  <2> HIDE DEF Right
  <2>10. \A e \in DOMAIN merged' : Right(e)
    BY <2>6, <2>8, <2>9
  <2>11. \A e, f \in DOMAIN merged' : merged'[e].index = merged'[f].index => e = f
    BY <1>4, <2>6, <2>7
  <2>12. ASSUME NEW j \in DOMAIN meant, sent'[j] >= 1 PROVE \E e \in DOMAIN merged' : merged'[e].index = j
    <3>1. CASE j = i
      BY <2>2, <2>6, <2>7, <3>1
    <3>2. CASE j # i
      BY <1>3, <1>4, <2>6, <2>7, <2>12, <3>2
    <3> QED BY <3>1, <3>2
  <2> QED BY <2>10, <2>11, <2>12
<1> QED BY <1>7, <1>8

\* A one-to-one match of two sequences: they are equally long.
LEMMA SameLength ==
    ASSUME NEW m \in Nat, NEW n \in Nat, NEW f \in [1..m -> 1..n],
           \A a, b \in 1..m : f[a] = f[b] => a = b,
           \A i \in 1..n : \E a \in 1..m : f[a] = i
    PROVE  m = n
<1>1. f \in Bijection(1..m, 1..n)
  BY DEF Bijection, Injection, Surjection, IsInjective
<1>2. ExistsBijection(1..m, 1..n)
  BY <1>1 DEF ExistsBijection
<1>3. IsFiniteSet(1..m) /\ Cardinality(1..m) = m /\ Cardinality(1..n) = n
  BY FS_Interval
<1>4. Cardinality(1..n) = Cardinality(1..m)
  BY <1>2, <1>3, FS_Bijection
<1> QED BY <1>3, <1>4

\* With every piece sent, what the entries hold is what the model means.
LEMMA BuiltAsMeant ==
    ASSUME Types, Apart, Mixed, at = "read", \A i \in DOMAIN meant : sent[i] = Pieces
    PROVE  LET made == EnsureToolCallIDs(Build)
           IN /\ Len(made) = Len(meant)
              /\ \A i \in DOMAIN meant : \E k \in DOMAIN made :
                    made[k] = [id |-> <<turn, i>>, arguments |-> meant[i]]
<1>1. /\ \A e \in DOMAIN merged : LET i == merged[e].index
                                  IN merged[e].id = <<turn, i>> /\ merged[e].text = Parts(sent[i])
      /\ \A e, f \in DOMAIN merged : merged[e].index = merged[f].index => e = f
      /\ \A i \in DOMAIN meant : \E e \in DOMAIN merged : merged[e].index = i
  BY Bounds DEF Apart
<1>2. /\ DOMAIN merged = 1..Len(merged) /\ Len(merged) \in Nat
      /\ DOMAIN meant = 1..Len(meant) /\ Len(meant) \in Nat
      /\ \A e \in DOMAIN merged : merged[e].index \in DOMAIN meant
  BY LenProperties DEF Types
<1>3. Len(merged) = Len(meant)
  <2> DEFINE f == [e \in 1..Len(merged) |-> merged[e].index]
  <2>1. f \in [1..Len(merged) -> 1..Len(meant)] /\ \A e \in 1..Len(merged) : f[e] = merged[e].index
    BY <1>2
  <2> HIDE DEF f
  <2>2. /\ \A a, b \in 1..Len(merged) : f[a] = f[b] => a = b
        /\ \A i \in 1..Len(meant) : \E a \in 1..Len(merged) : f[a] = i
    <3>1. ASSUME NEW a \in 1..Len(merged), NEW b \in 1..Len(merged), f[a] = f[b] PROVE a = b
      <4>1. merged[a].index = merged[b].index
        BY <2>1, <3>1
      <4> QED BY <1>1, <1>2, <4>1
    <3>2. ASSUME NEW i \in 1..Len(meant) PROVE \E a \in 1..Len(merged) : f[a] = i
      <4>1. PICK a \in 1..Len(merged) : merged[a].index = i
        BY <1>1, <1>2
      <4> QED BY <2>1, <4>1
    <3> QED BY <3>1, <3>2
  <2> QED BY <1>2, <2>1, <2>2, SameLength
<1>4. /\ Build \in Seq(Made) /\ Len(Build) = Len(merged) /\ DOMAIN Build = DOMAIN merged
      /\ Len(EnsureToolCallIDs(Build)) = Len(Build) /\ DOMAIN EnsureToolCallIDs(Build) = DOMAIN Build
  BY Built, Filled
<1>5. ASSUME NEW i \in DOMAIN meant
      PROVE  \E k \in DOMAIN EnsureToolCallIDs(Build) :
                EnsureToolCallIDs(Build)[k] = [id |-> <<turn, i>>, arguments |-> meant[i]]
  <2>1. PICK e \in DOMAIN merged : merged[e].index = i
    BY <1>1
  <2>2. merged[e].id = <<turn, i>> /\ merged[e].text = Parts(Pieces)
    BY <1>1, <2>1
  <2>3. Parts(Pieces) # << >> /\ Parts(Pieces) = [k \in 1..Pieces - 1 |-> k + 1]
    BY NextPart, Bounds DEF Parts
  <2>4. ParseToolArguments(merged[e]) = meant[i]
    BY <2>1, <2>2, <2>3 DEF ParseToolArguments
  <2>5. Build[e] = [id |-> <<turn, i>>, arguments |-> meant[i]]
    BY <2>2, <2>4 DEF Build
  <2>6. <<turn, i>> # << >>
    OBVIOUS
  <2>7. EnsureToolCallIDs(Build)[e] = Build[e]
    BY <1>4, <2>5, <2>6 DEF EnsureToolCallIDs
  <2> QED BY <1>4, <2>5, <2>7
<1> QED BY <1>3, <1>4, <1>5

LEMMA ApartInit == Init => Apart /\ Understood
BY DEF Init, Apart, Understood, Answering

LEMMA ApartStep == Types /\ Apart /\ [Next]_vars => Apart'
<1> SUFFICES ASSUME Types, Apart, [Next]_vars, at' = "read", Mixed' PROVE Apart'
    BY DEF Apart
<1>1. CASE Ask
  <2>1. merged' = << >> /\ DOMAIN merged' = {}
    BY <1>1 DEF Ask, Types
  <2>2. PICK n \in 0..MaxCalls : meant' \in [1..n -> Arguments] /\ sent' = [i \in 1..n |-> 0]
    BY <1>1 DEF Ask
  <2>3. \A i \in DOMAIN meant' : ~(sent'[i] >= 1)
    BY <2>2
  <2> QED BY <2>1, <2>3 DEF Apart
<1>2. ASSUME NEW i \in DOMAIN meant, ReadPiece(i) PROVE Apart'
  <2>1. Mixed
    BY <1>2 DEF ReadPiece, Mixed
  <2> QED BY <1>2, <2>1, PieceAdded
<1>3. CASE ReadDelta \/ Leave \/ Done \/ UNCHANGED vars
  <2>1. at = "read" /\ UNCHANGED <<request, turn, meant, sent, merged>>
    BY <1>3 DEF ReadDelta, Leave, Done, vars, response
  <2> QED BY <2>1 DEF Apart, Mixed
<1>4. CASE SendEarly
  BY <1>4 DEF SendEarly, Mixed
<1>5. CASE Complete \/ EndOpenRouter \/ EndOllama
  BY <1>5, Response DEF Respond
<1>6. CASE Open \/ ExceedTurns \/ BreakOff \/ StartTool \/ Execute \/ ShowResult
  BY <1>6 DEF Open, ExceedTurns, BreakOff, Timeout, StartTool, Execute, ShowResult, Fail
<1> QED BY <1>1, <1>2, <1>3, <1>4, <1>5, <1>6 DEF Next, Serve, Receive

LEMMA UnderstoodStep == Types /\ Apart /\ Understood /\ [Next]_vars => Understood'
<1> SUFFICES ASSUME Types, Apart, Understood, [Next]_vars, at' \in Answering, Mixed',
                    \A i \in DOMAIN meant' : sent'[i] = Pieces
             PROVE  \E q \in Asked' : MeantAt(q)' /\ \A p \in Asked' : p <= q
    BY DEF Understood
<1>1. CASE at \in Answering
  <2>1. UNCHANGED <<request, meant, sent, turn>>
    BY <1>1 DEF Next, Serve, Open, ExceedTurns, Ask, BreakOff, Timeout, StartTool, Execute,
                ShowResult, Receive, Complete, ReadDelta, EndOpenRouter, SendEarly, EndOllama,
                ReadPiece, Leave, Done, vars, response, Answering
  <2>2. PICK q \in Asked : MeantAt(q) /\ \A p \in Asked : p <= q
    BY <1>1, <2>1 DEF Understood, Mixed
  <2>3. CASE conversation' = conversation
    BY <2>1, <2>2, <2>3 DEF Asked, MeantAt
  <2>4. CASE Answered
    <3>1. Result \in Message /\ Result.role = "tool"
      BY <1>1, CallAnswered DEF Result
    <3>2. Asked' = Asked /\ conversation'[q] = conversation[q]
      BY <2>4, <3>1, Grown, Said DEF Answered
    <3> QED BY <2>1, <2>2, <3>2 DEF MeantAt
  <2> QED BY <1>1, <2>3, <2>4, Steps DEF Quiet, Ask, Responded, Answering
<1>2. CASE at \notin Answering
  <2>1. EndOpenRouter
    BY <1>2 DEF Next, Serve, Open, ExceedTurns, Ask, BreakOff, Timeout, StartTool, Execute,
                ShowResult, Receive, Complete, ReadDelta, EndOpenRouter, SendEarly, EndOllama,
                ReadPiece, Leave, Done, vars, response, Answering, Fail, Mixed
  <2>2. PICK made : made = EnsureToolCallIDs(Build)
    OBVIOUS
  <2>3. Respond(made, content) /\ UNCHANGED <<request, meant, sent, turn>> /\ at = "read"
    BY <2>1, <2>2 DEF EndOpenRouter
  <2>4. Mixed /\ \A i \in DOMAIN meant : sent[i] = Pieces
    BY <2>3 DEF Mixed
  <2>5. /\ Len(made) = Len(meant)
        /\ \A i \in DOMAIN meant : \E k \in DOMAIN made :
              made[k] = [id |-> <<turn, i>>, arguments |-> meant[i]]
    BY <2>2, <2>3, <2>4, BuiltAsMeant
  <2>6. PICK m : m = [role |-> "assistant", calls |-> made]
    OBVIOUS
  <2>7. made \in Seq(Made) /\ m \in Message /\ m.role = "assistant" /\ m.calls = made
    BY <2>2, <2>6, Built, Filled DEF Message
  <2>8. conversation' = Append(conversation, m)
    BY <2>3, <2>6 DEF Respond, Answering
  <2>9. PICK q : q = Len(conversation) + 1
    OBVIOUS
  <2>10. conversation'[q] = m /\ Asked' = Asked \cup {q}
    BY <2>7, <2>8, <2>9, Grown
  <2>11. \A p \in Asked' : p <= q
    BY <2>9, <2>10, Said
  <2>12. MeantAt(q)'
    BY <2>3, <2>5, <2>7, <2>10 DEF MeantAt
  <2> QED BY <2>10, <2>11, <2>12
<1> QED BY <1>1, <1>2

\* When OpenRouter has sent every piece, the calls that are run are those the model
\* meant, each with its id and arguments, in whatever order the pieces of several
\* calls came (add and build of internal/llm/openrouter_stream.go).
THEOREM PiecesMakeTheCalls == Spec => []CallsAsMeant
<1>1. Types /\ Understood => CallsAsMeant
  <2> SUFFICES ASSUME Types, Understood, at = "start", Mixed, \A i \in DOMAIN meant : sent[i] = Pieces
               PROVE  LET made == conversation[Max(Asked)].calls
                      IN /\ Len(made) = Len(meant)
                         /\ \A i \in DOMAIN meant : \E k \in DOMAIN made :
                               made[k] = [id |-> <<turn, i>>, arguments |-> meant[i]]
      BY DEF CallsAsMeant, Mixed
  <2>1. PICK q \in Asked : MeantAt(q) /\ \A p \in Asked : p <= q
    BY DEF Understood, Answering
  <2>2. \A p \in Asked : p \in Nat
    BY Said
  <2>3. Max(Asked) = q
    BY <2>1, <2>2 DEF Max
  <2> QED BY <2>1, <2>3 DEF MeantAt
<1> QED BY <1>1, TypesInit, TypesStep, ApartInit, ApartStep, UnderstoodStep, PTL DEF Spec

-----------------------------------------------------------------------------
(* The events of a stream                                                  *)

Event == [event : {"delta", "error"}] \cup [event : {"tool_start", "tool_result"}, id : Seq(Nat)]
           \cup [event : {"done"}, calls : Seq(Made), content : Nat]
\* Events come in pairs of start and result, and nothing after the last.
Order ==
    \A e \in DOMAIN events :
       /\ events[e].event \in {"done", "error"} => e = Len(events) /\ at = "over"
       /\ events[e].event = "tool_start" /\ e < Len(events) =>
             events[e + 1] = [event |-> "tool_result", id |-> events[e].id]
       /\ events[e].event = "tool_result" =>
             e > 1 /\ events[e - 1] = [event |-> "tool_start", id |-> events[e].id]
Repeated ==
    \A e \in DOMAIN events : events[e].event = "done" =>
       /\ Len(events[e].calls) = Cardinality(Results)
       /\ \A r \in Results : events[e].calls[Rank(r)].id = events[r].id
       /\ request.provider = "openrouter" => events[e].content = Cardinality(LastDeltas)
\* The call that is run was announced last.
Announced ==
    IF at \in {"run", "ok", "error"}
    THEN events # << >> /\ Last(events) = [event |-> "tool_start", id |-> Head(calls).id]
    ELSE events # << >> => Last(events).event # "tool_start"
\* The calls that were run are those whose results were shown, and the one whose
\* result is about to be.
Ran ==
    /\ Len(toolCalls) = Cardinality(Results) + IF at \in {"ok", "error"} THEN 1 ELSE 0
    /\ \A r \in Results : toolCalls[Rank(r)].id = events[r].id
    /\ at \in {"ok", "error"} => Last(toolCalls).id = Head(calls).id
Collected ==
    /\ at = "open" => events = << >>
    /\ at \in {"ask", "read"} /\ request.provider = "openrouter" => content = Cardinality(LastDeltas)
Story ==
    /\ events \in Seq(Event)
    /\ at \notin {"read", "over"} => content = 0
    /\ request.stream => /\ Order /\ Repeated
                         /\ listening /\ at # "over" => Announced /\ Ran /\ Collected

LEMMA OverIsFinal == at = "over" /\ [Next]_vars => UNCHANGED vars
BY DEF Next, Serve, Open, ExceedTurns, Ask, BreakOff, Timeout, StartTool, Execute, ShowResult,
       Receive, Complete, ReadDelta, EndOpenRouter, SendEarly, EndOllama, ReadPiece, Leave, Done

LEMMA Shown ==
    ASSUME Story
    PROVE  /\ Len(events) \in Nat /\ DOMAIN events = 1..Len(events)
           /\ IsFiniteSet(Results) /\ Cardinality(Results) \in Nat
           /\ IsFiniteSet(LastDeltas) /\ Cardinality(LastDeltas) \in Nat
           /\ Results \subseteq 1..Len(events) /\ LastDeltas \subseteq 1..Len(events)
           /\ \A r \in Results : Rank(r) \in 1..Cardinality(Results)
<1>1. Len(events) \in Nat /\ DOMAIN events = 1..Len(events)
  BY LenProperties DEF Story
<1>2. Results \subseteq 1..Len(events) /\ LastDeltas \subseteq 1..Len(events)
  BY <1>1 DEF Results, LastDeltas
<1>3. IsFiniteSet(1..Len(events))
  BY <1>1, FS_Interval
<1>4. IsFiniteSet(Results) /\ IsFiniteSet(LastDeltas)
  BY <1>2, <1>3, FS_Subset
<1>5. Cardinality(Results) \in Nat /\ Cardinality(LastDeltas) \in Nat
  BY <1>4, FS_CardinalityType
<1>6. ASSUME NEW r \in Results PROVE Rank(r) \in 1..Cardinality(Results)
  <2> DEFINE T == {s \in Results : s <= r}
  <2>1. T \in SUBSET Results /\ r \in T
    BY <1>1, <1>2
  <2> HIDE DEF T
  <2>2. IsFiniteSet(T) /\ Cardinality(T) <= Cardinality(Results)
    BY <1>4, <2>1, FS_Subset
  <2>3. Cardinality(T) \in Nat /\ Cardinality(T) # 0
    BY <2>1, <2>2, FS_CardinalityType, FS_EmptySet
  <2>4. Cardinality(T) \in 1..Cardinality(Results)
    BY <1>5, <2>2, <2>3
  <2> QED BY <2>4 DEF Rank, T
<1> QED BY <1>1, <1>2, <1>4, <1>5, <1>6

\* What one more event changes.
LEMMA Heard ==
    ASSUME Story, NEW x \in Event, events' = Append(events, x), NEW n, n = Len(events) + 1
    PROVE  /\ events' \in Seq(Event) /\ Len(events') = n
           /\ DOMAIN events' = 1..n /\ events'[n] = x
           /\ \A e \in DOMAIN events : events'[e] = events[e]
           /\ Results' = IF x.event = "tool_result" THEN Results \cup {n} ELSE Results
           /\ \A r \in Results : Rank(r)' = Rank(r)
           /\ x.event = "tool_result" => /\ Cardinality(Results') = Cardinality(Results) + 1
                                         /\ Rank(n)' = Cardinality(Results) + 1
                                         /\ Cardinality(LastDeltas') = 0
           /\ x.event = "delta" => Cardinality(LastDeltas') = Cardinality(LastDeltas) + 1
           /\ x.event \notin {"delta", "tool_result"} => LastDeltas' = LastDeltas
<1>2. /\ Len(events) \in Nat /\ DOMAIN events = 1..Len(events)
      /\ IsFiniteSet(Results) /\ Cardinality(Results) \in Nat
      /\ IsFiniteSet(LastDeltas) /\ Cardinality(LastDeltas) \in Nat
      /\ Results \subseteq 1..Len(events) /\ LastDeltas \subseteq 1..Len(events)
  BY Shown
<1>3. /\ events' \in Seq(Event) /\ Len(events') = n
      /\ \A e \in DOMAIN events : events'[e] = events[e]
      /\ events'[n] = x
  BY <1>2, AppendProperties DEF Story
<1>4. DOMAIN events' = 1..n
  BY <1>3, LenProperties
<1>5. /\ DOMAIN events' = DOMAIN events \cup {n} /\ n \notin DOMAIN events /\ n \in Nat
      /\ \A e \in DOMAIN events : e < n /\ e \in Nat
  BY <1>2, <1>4
<1>6. Results' = IF x.event = "tool_result" THEN Results \cup {n} ELSE Results
  BY <1>3, <1>5 DEF Results
<1>7. ASSUME NEW r \in Results PROVE Rank(r)' = Rank(r)
  <2>1. r \in DOMAIN events
    BY DEF Results
  <2>2. {s \in Results' : s <= r} = {s \in Results : s <= r}
    BY <1>5, <1>6, <2>1 DEF Results
  <2> QED BY <2>2 DEF Rank
<1>8. ASSUME x.event = "tool_result"
      PROVE  /\ Cardinality(Results') = Cardinality(Results) + 1
             /\ Rank(n)' = Cardinality(Results) + 1
             /\ Cardinality(LastDeltas') = 0
  <2>1. Results' = Results \cup {n} /\ n \notin Results
    BY <1>5, <1>6, <1>8 DEF Results
  <2>2. Cardinality(Results') = Cardinality(Results) + 1
    BY <1>2, <2>1, FS_AddElement
  <2>3. {s \in Results' : s <= n} = Results'
    BY <1>5, <2>1 DEF Results
  <2>4. Rank(n)' = Cardinality(Results')
    BY <2>3 DEF Rank
  <2>5. LastDeltas' = {}
    BY <1>3, <1>5, <1>8, <2>1 DEF LastDeltas
  <2> QED BY <2>2, <2>4, <2>5, FS_EmptySet
<1>9. ASSUME x.event = "delta" PROVE Cardinality(LastDeltas') = Cardinality(LastDeltas) + 1
  <2>1. Results' = Results
    BY <1>6, <1>9
  <2>2. \A r \in Results : r < n
    BY <1>5 DEF Results
  <2>3. LastDeltas' = LastDeltas \cup {n} /\ n \notin LastDeltas
    BY <1>3, <1>5, <1>9, <2>1, <2>2 DEF LastDeltas
  <2> QED BY <1>2, <2>3, FS_AddElement
<1>10. ASSUME x.event \notin {"delta", "tool_result"} PROVE LastDeltas' = LastDeltas
  BY <1>3, <1>5, <1>6, <1>10 DEF LastDeltas
<1> QED BY <1>3, <1>4, <1>6, <1>7, <1>8, <1>9, <1>10

\* A step tells the client nothing, or one event while it listens.
LEMMA Tells ==
    ASSUME Types, [Next]_vars
    PROVE  events' = events \/ (listening /\ \E x \in Event : events' = Append(events, x))
<1>1. [event |-> "error"] \in Event /\ [event |-> "delta"] \in Event
  BY DEF Event
<1>2. CASE Open \/ ExceedTurns \/ BreakOff \/ ReadDelta
  BY <1>1, <1>2 DEF Open, ExceedTurns, BreakOff, ReadDelta, Fail, Write, WriteFails
<1>3. CASE StartTool \/ ShowResult
  <2>1. Head(calls) \in Made
    BY <1>3, CallAnswered DEF StartTool, ShowResult, Answering
  <2>2. [event |-> "tool_start", id |-> Head(calls).id] \in Event
        /\ [event |-> "tool_result", id |-> Head(calls).id] \in Event
    BY <2>1 DEF Event, Made
  <2> QED BY <1>3, <2>2 DEF StartTool, ShowResult, Write, WriteFails
<1>4. CASE Complete \/ EndOpenRouter \/ EndOllama
  <2>1. PICK made \in Seq(Made), n \in Nat : Respond(made, n)
    BY <1>4, Response
  <2>2. [event |-> "done", calls |-> toolCalls, content |-> n] \in Event
    BY DEF Event, Types
  <2> QED BY <1>1, <2>1, <2>2 DEF Respond, StreamDone, PostChat, Write, WriteFails
<1>5. CASE Ask \/ Execute \/ SendEarly \/ Leave \/ Done \/ UNCHANGED vars \/ \E i \in DOMAIN meant : ReadPiece(i)
  BY <1>5 DEF Ask, Execute, SendEarly, Leave, Done, ReadPiece, vars
<1> QED BY <1>2, <1>3, <1>4, <1>5 DEF Next, Serve, Receive

LEMMA StoryTypes ==
    ASSUME Types, Story, [Next]_vars
    PROVE  /\ events' \in Seq(Event) /\ request'.stream = request.stream
           /\ at' \notin {"read", "over"} => content' = 0
<1>1. events' \in Seq(Event)
  BY Tells, Heard DEF Story
<1>2. request'.stream = request.stream
  BY DEF Next, Serve, Open, ExceedTurns, Ask, BreakOff, Timeout, StartTool, Execute, ShowResult,
         Receive, Complete, ReadDelta, EndOpenRouter, SendEarly, EndOllama, ReadPiece, Leave, Done,
         vars
<1>3. at' \notin {"read", "over"} => content' = 0
  <2>1. CASE Complete \/ EndOpenRouter \/ EndOllama
    BY <2>1, Response DEF Respond
  <2>2. CASE Serve \/ ReadDelta \/ SendEarly \/ Leave \/ Done \/ UNCHANGED vars
             \/ \E i \in DOMAIN meant : ReadPiece(i)
    BY <2>2 DEF Story, Serve, Open, ExceedTurns, Ask, BreakOff, Timeout, StartTool, Execute,
                ShowResult, ReadDelta, SendEarly, ReadPiece, Leave, Done, vars, response, Fail
  <2> QED BY <2>1, <2>2 DEF Next, Receive
<1> QED BY <1>1, <1>2, <1>3

\* A step that tells nothing.
LEMMA Silent ==
    ASSUME Story, request.stream, [Next]_vars, events' = events
    PROVE  /\ Order' /\ Repeated'
           /\ Results' = Results /\ LastDeltas' = LastDeltas /\ \A r : Rank(r)' = Rank(r)
<1>1. Results' = Results
  BY DEF Results
<1>2. LastDeltas' = LastDeltas /\ \A r : Rank(r)' = Rank(r)
  BY <1>1 DEF LastDeltas, Rank
<1>3. CASE at = "over"
  <2>1. UNCHANGED vars
    BY <1>3, OverIsFinal
  <2> QED BY <1>1, <1>2, <2>1 DEF vars, Story, Order, Repeated
<1>4. CASE at # "over"
  <2>1. \A e \in DOMAIN events : events[e].event \notin {"done", "error"}
    BY <1>4 DEF Story, Order
  <2> QED BY <1>1, <1>2, <2>1 DEF Story, Order, Repeated
<1> QED BY <1>1, <1>2, <1>3, <1>4

\* An event that fits the last one.
LEMMA InOrder ==
    ASSUME Story, request.stream, at # "over", NEW x \in Event, events' = Append(events, x),
           x.event \in {"done", "error"} => at' = "over",
           events # << >> /\ Last(events).event = "tool_start" =>
              x = [event |-> "tool_result", id |-> Last(events).id],
           x.event = "tool_result" =>
              events # << >> /\ Last(events) = [event |-> "tool_start", id |-> x.id]
    PROVE  Order' /\ (x.event # "done" => Repeated')
<1>1. PICK n : n = Len(events) + 1
  OBVIOUS
<1>2. Len(events) \in Nat /\ DOMAIN events = 1..Len(events)
  BY Shown
<1>3. /\ Len(events') = n /\ DOMAIN events' = 1..n /\ events'[n] = x
      /\ \A e \in DOMAIN events : events'[e] = events[e]
  BY <1>1, Heard
<1>4. /\ n \in Nat \ {0} /\ n - 1 = Len(events) /\ (n = 1 <=> events = << >>)
      /\ \A e \in DOMAIN events' : e # n => e \in DOMAIN events /\ e < n
      /\ \A e \in DOMAIN events : e \in Nat /\ e < n /\ (e = Len(events) \/ e + 1 \in DOMAIN events)
  <2>1. events = << >> <=> Len(events) = 0
    BY EmptySeq DEF Story
  <2> QED BY <1>1, <1>2, <1>3, <2>1
<1>5. \A e \in DOMAIN events :
         /\ events[e].event \notin {"done", "error"}
         /\ events[e].event = "tool_start" /\ e < Len(events) =>
               events[e + 1] = [event |-> "tool_result", id |-> events[e].id]
         /\ events[e].event = "tool_result" =>
               e > 1 /\ events[e - 1] = [event |-> "tool_start", id |-> events[e].id]
  BY DEF Story, Order
<1>6. events # << >> => Len(events) \in DOMAIN events /\ Last(events) = events[n - 1]
  BY <1>1, <1>2, <1>4 DEF Last
<1>7. ASSUME NEW e \in DOMAIN events'
      PROVE  /\ events'[e].event \in {"done", "error"} => e = Len(events') /\ at' = "over"
             /\ events'[e].event = "tool_start" /\ e < Len(events') =>
                   events'[e + 1] = [event |-> "tool_result", id |-> events'[e].id]
             /\ events'[e].event = "tool_result" =>
                   e > 1 /\ events'[e - 1] = [event |-> "tool_start", id |-> events'[e].id]
  <2>1. CASE e = n
    <3>1. x.event = "tool_result" => n > 1 /\ n - 1 \in DOMAIN events
                                     /\ events[n - 1] = [event |-> "tool_start", id |-> x.id]
      BY <1>2, <1>4, <1>6
    <3> QED BY <1>3, <1>4, <2>1, <3>1
  <2>2. CASE e # n
    <3>1. e \in DOMAIN events /\ e < n /\ e \in Nat /\ events'[e] = events[e]
      BY <1>3, <1>4, <2>2
    <3>2. CASE e = Len(events)
      <4>1. e + 1 = n /\ events # << >> /\ Last(events) = events[e]
        BY <1>1, <1>2, <1>4, <1>6, <3>1, <3>2
      <4>2. events[e].event = "tool_start" => x = [event |-> "tool_result", id |-> events[e].id]
        BY <4>1
      <4>3. events[e].event = "tool_result" => e - 1 \in DOMAIN events
        <5>1. events[e].event = "tool_result" => e > 1
          BY <1>5, <3>1
        <5> QED BY <1>2, <3>1, <5>1
      <4> QED BY <1>3, <1>5, <3>1, <4>1, <4>2, <4>3
    <3>3. CASE e # Len(events)
      <4>1. e + 1 \in DOMAIN events /\ e < Len(events)
        BY <1>2, <1>4, <3>1, <3>3
      <4>2. events[e].event = "tool_result" => e - 1 \in DOMAIN events
        <5>1. events[e].event = "tool_result" => e > 1
          BY <1>5, <3>1
        <5> QED BY <1>2, <3>1, <5>1
      <4> QED BY <1>3, <1>5, <3>1, <4>1, <4>2
    <3> QED BY <3>2, <3>3
  <2> QED BY <2>1, <2>2
<1>8. ASSUME x.event # "done" PROVE \A e \in DOMAIN events' : events'[e].event # "done"
  <2>1. ASSUME NEW e \in DOMAIN events' PROVE events'[e].event # "done"
    <3>1. CASE e = n
      BY <1>3, <1>8, <3>1
    <3>2. CASE e # n
      <4>1. e \in DOMAIN events /\ events'[e] = events[e]
        BY <1>3, <1>4, <3>2
      <4>2. events[e].event \notin {"done", "error"}
        BY <1>5, <4>1
      <4> QED BY <4>1, <4>2
    <3> QED BY <3>1, <3>2
  <2> QED BY <2>1
<1> QED BY <1>7, <1>8 DEF Order, Repeated

\* While the client listens.
Live == Announced /\ Ran /\ Collected
Heeded == Story /\ request.stream /\ listening /\ at # "over"

\* The request fails.
LEMMA StoryFails ==
    ASSUME Heeded, Fail, at \in {"open", "ask", "read"}
    PROVE  Order' /\ Repeated' /\ at' = "over"
<1>1. PICK x : x = [event |-> "error"]
  OBVIOUS
<1>2. events' = Append(events, x) /\ x \in Event /\ x.event = "error" /\ at' = "over"
  BY <1>1 DEF Fail, Write, Heeded, Event
<1>3. events # << >> => Last(events).event # "tool_start"
  BY DEF Heeded, Story, Announced
<1> QED BY <1>2, <1>3, InOrder DEF Heeded

\* A step that tells nothing and leaves the calls alone.
LEMMA LiveMute ==
    ASSUME Heeded, [Next]_vars, UNCHANGED <<events, calls, toolCalls>>,
           at \notin {"run", "ok", "error"}, at' \notin {"open", "run", "ok", "error"},
           at' \in {"ask", "read"} => \/ at = "open"
                                      \/ at \in {"ask", "read"} /\ UNCHANGED <<request, content>>,
           at = "open" => content' = content
    PROVE  Live'
<1>1. Results' = Results /\ LastDeltas' = LastDeltas /\ \A r : Rank(r)' = Rank(r)
  BY Silent DEF Heeded
<1>2. Announced' /\ Ran'
  BY <1>1 DEF Heeded, Story, Announced, Ran, Last
<1>3. Collected'
  <2>1. CASE at = "open"
    <3>1. events = << >> /\ content' = 0
      BY <2>1 DEF Heeded, Story, Collected
    <3>2. LastDeltas = {}
      BY <3>1 DEF LastDeltas
    <3> QED BY <1>1, <3>1, <3>2, FS_EmptySet DEF Collected
  <2>2. CASE at # "open"
    BY <1>1, <2>2 DEF Heeded, Story, Collected
  <2> QED BY <2>1, <2>2
<1> QED BY <1>2, <1>3 DEF Live

LEMMA StoryStart ==
    ASSUME Types, Heeded, StartTool
    PROVE  Order' /\ Repeated' /\ (at' # "over" => Live')
<1>1. [Next]_vars
  BY DEF Next, Serve
<1>2. CASE events' = events /\ at' = "over"
  BY <1>1, <1>2, Silent DEF Heeded
<1>3. CASE ~(events' = events /\ at' = "over")
  <2>1. PICK x : x = [event |-> "tool_start", id |-> Head(calls).id]
    OBVIOUS
  <2>2. /\ events' = Append(events, x) /\ at = "start" /\ at' = "run"
        /\ UNCHANGED <<request, calls, toolCalls>>
    BY <1>3, <2>1 DEF StartTool, Heeded, Write, WriteFails
  <2>3. Head(calls) \in Made
    BY <2>2, CallAnswered DEF Answering
  <2>4. x \in Event /\ x.event = "tool_start"
    BY <2>1, <2>3 DEF Event, Made
  <2>5. events # << >> => Last(events).event # "tool_start"
    BY <2>2 DEF Heeded, Story, Announced
  <2>6. Order' /\ Repeated'
    BY <2>2, <2>4, <2>5, InOrder DEF Heeded
  <2>7. PICK n : n = Len(events) + 1
    OBVIOUS
  <2>8. /\ Len(events') = n /\ events'[n] = x /\ events' \in Seq(Event) /\ Results' = Results
        /\ \A r \in Results : Rank(r)' = Rank(r) /\ events'[r] = events[r]
    BY <2>2, <2>4, <2>7, Heard DEF Heeded, Results
  <2>9. events' # << >> /\ Last(events') = x
    BY <2>7, <2>8, Shown, EmptySeq DEF Last, Heeded
  <2>10. Announced'
    BY <2>1, <2>2, <2>9 DEF Announced
  <2>11. Ran'
    BY <2>2, <2>8 DEF Ran, Heeded, Story
  <2> QED BY <2>2, <2>6, <2>10, <2>11 DEF Live, Collected
<1> QED BY <1>2, <1>3

LEMMA StoryRuns ==
    ASSUME Types, Heeded, Execute
    PROVE  Order' /\ Repeated' /\ Live'
<1>1. [Next]_vars
  BY DEF Next, Serve
<1>2. /\ at = "run" /\ at' \in {"ok", "error"} /\ toolCalls' = Append(toolCalls, Head(calls))
      /\ UNCHANGED <<request, calls, events>>
  BY DEF Execute, Heeded
<1>3. Order' /\ Repeated' /\ Results' = Results /\ \A r : Rank(r)' = Rank(r)
  BY <1>1, <1>2, Silent DEF Heeded
<1>4. Announced'
  BY <1>2 DEF Heeded, Story, Announced
<1>5. Ran'
  <2>1. Head(calls) \in Made
    BY <1>2, CallAnswered DEF Answering
  <2>2. /\ Len(toolCalls) = Cardinality(Results) /\ Cardinality(Results) \in Nat
        /\ \A r \in Results : toolCalls[Rank(r)].id = events[r].id /\ Rank(r) \in 1..Len(toolCalls)
    BY <1>2, Shown DEF Heeded, Story, Ran
  <2>3. /\ toolCalls' \in Seq(Made) /\ Len(toolCalls') = Len(toolCalls) + 1
        /\ \A k \in 1..Len(toolCalls) : toolCalls'[k] = toolCalls[k]
        /\ toolCalls'[Len(toolCalls) + 1] = Head(calls)
    BY <1>2, <2>1, AppendProperties DEF Types
  <2>4. Last(toolCalls') = Head(calls)
    BY <2>3 DEF Last
  <2>5. \A r \in Results : toolCalls'[Rank(r)].id = events[r].id
    BY <2>2, <2>3
  <2> QED BY <1>2, <1>3, <2>2, <2>3, <2>4, <2>5 DEF Ran
<1> QED BY <1>2, <1>3, <1>4, <1>5 DEF Live, Collected

LEMMA StoryShows ==
    ASSUME Types, Heeded, ShowResult
    PROVE  Order' /\ Repeated' /\ Live'
<1>1. PICK x : x = [event |-> "tool_result", id |-> Head(calls).id]
  OBVIOUS
<1>2. /\ events' = Append(events, x) /\ at \in {"ok", "error"} /\ at' \in {"ask", "start"}
      /\ UNCHANGED <<request, toolCalls, content>>
  BY <1>1 DEF ShowResult, Heeded, Write, WriteFails, response
<1>3. Head(calls) \in Made
  BY <1>2, CallAnswered DEF Answering
<1>4. x \in Event /\ x.event = "tool_result" /\ x.id = Head(calls).id
  BY <1>1, <1>3 DEF Event, Made
<1>5. events # << >> /\ Last(events) = [event |-> "tool_start", id |-> Head(calls).id]
  BY <1>2 DEF Heeded, Story, Announced
<1>6. Order' /\ Repeated'
  BY <1>1, <1>2, <1>4, <1>5, InOrder DEF Heeded
<1>7. PICK n : n = Len(events) + 1
  OBVIOUS
<1>8. /\ Len(events') = n /\ events'[n] = x /\ events' \in Seq(Event) /\ Results' = Results \cup {n}
      /\ \A r \in Results : Rank(r)' = Rank(r) /\ events'[r] = events[r]
      /\ Cardinality(Results') = Cardinality(Results) + 1 /\ Rank(n)' = Cardinality(Results) + 1
      /\ Cardinality(LastDeltas') = 0
  BY <1>2, <1>4, <1>7, Heard DEF Heeded, Results
<1>9. events' # << >> /\ Last(events') = x
  BY <1>7, <1>8, Shown, EmptySeq DEF Last, Heeded
<1>10. Announced'
  BY <1>2, <1>4, <1>9 DEF Announced
<1>11. Ran'
  <2>1. /\ Len(toolCalls) = Cardinality(Results) + 1
        /\ \A r \in Results : toolCalls[Rank(r)].id = events[r].id
        /\ Last(toolCalls).id = Head(calls).id
    BY <1>2 DEF Heeded, Story, Ran
  <2>2. toolCalls[Cardinality(Results) + 1].id = x.id
    BY <1>4, <2>1 DEF Last
  <2>3. Len(toolCalls') = Cardinality(Results') + 0
    BY <1>2, <1>8, <2>1, Shown DEF Heeded
  <2>4. \A r \in Results' : toolCalls'[Rank(r)'].id = events'[r].id
    BY <1>2, <1>8, <2>1, <2>2
  <2> QED BY <1>2, <2>3, <2>4 DEF Ran
<1>12. Collected'
  BY <1>2, <1>8 DEF Collected, Heeded, Story
<1> QED BY <1>6, <1>10, <1>11, <1>12 DEF Live

LEMMA StoryDelta ==
    ASSUME Types, Heeded, ReadDelta
    PROVE  Order' /\ Repeated' /\ Live'
<1>1. PICK x : x = [event |-> "delta"]
  OBVIOUS
<1>2. /\ events' = Append(events, x) /\ at = "read" /\ at' = "read"
      /\ UNCHANGED <<request, toolCalls, calls>>
      /\ request.provider = "openrouter" => content' = content + 1
  BY <1>1 DEF ReadDelta, Heeded, Write, WriteFails
<1>3. x \in Event /\ x.event = "delta"
  BY <1>1 DEF Event
<1>4. events # << >> => Last(events).event # "tool_start"
  BY <1>2 DEF Heeded, Story, Announced
<1>5. Order' /\ Repeated'
  BY <1>2, <1>3, <1>4, InOrder DEF Heeded
<1>6. PICK n : n = Len(events) + 1
  OBVIOUS
<1>7. /\ Len(events') = n /\ events'[n] = x /\ events' \in Seq(Event) /\ Results' = Results
      /\ \A r \in Results : Rank(r)' = Rank(r) /\ events'[r] = events[r]
      /\ Cardinality(LastDeltas') = Cardinality(LastDeltas) + 1
  BY <1>2, <1>3, <1>6, Heard DEF Heeded, Results
<1>8. events' # << >> /\ Last(events') = x
  BY <1>6, <1>7, Shown, EmptySeq DEF Last, Heeded
<1>9. Announced'
  BY <1>2, <1>3, <1>8 DEF Announced
<1>10. Ran'
  BY <1>2, <1>7 DEF Ran, Heeded, Story
<1>11. Collected'
  BY <1>2, <1>7 DEF Collected, Heeded, Story
<1> QED BY <1>5, <1>9, <1>10, <1>11 DEF Live

LEMMA StoryResponse ==
    ASSUME Types, Heeded, Complete \/ EndOpenRouter \/ EndOllama
    PROVE  Order' /\ Repeated' /\ (at' # "over" => Live')
<1>1. [Next]_vars
  BY DEF Next, Receive
<1>2. /\ at = "read" /\ UNCHANGED <<request, toolCalls>>
      /\ \E made \in Seq(Made), n \in Nat :
            Respond(made, n) /\ (request.provider = "openrouter" => n = content)
  <2>1. CASE EndOpenRouter
    BY <2>1, Built, Filled DEF EndOpenRouter, Types
  <2>2. CASE EndOllama
    BY <2>2, Response DEF EndOllama
  <2>3. CASE Complete
    BY <2>3 DEF Complete, Heeded
  <2> QED BY <2>1, <2>2, <2>3, Response
<1>3. PICK made \in Seq(Made), m \in Nat :
            Respond(made, m) /\ (request.provider = "openrouter" => m = content)
  BY <1>2
<1>4. CASE made # << >>
  <2>1. events' = events /\ at' = "start" /\ Order' /\ Repeated'
    <3>1. events' = events /\ at' = "start"
      BY <1>3, <1>4 DEF Respond
    <3> QED BY <1>1, <3>1, Silent DEF Heeded
  <2>2. Results' = Results /\ \A r : Rank(r)' = Rank(r)
    BY <1>1, <2>1, Silent DEF Heeded
  <2>3. Live'
    BY <1>2, <2>1, <2>2 DEF Heeded, Story, Live, Announced, Ran, Collected
  <2> QED BY <2>1, <2>3
<1>5. CASE made = << >>
  <2>1. PICK x : x = [event |-> "done", calls |-> toolCalls, content |-> m]
    OBVIOUS
  <2>2. events' = Append(events, x) /\ at' = "over"
    <3>1. StreamDone(m) /\ at' = "over"
      BY <1>3, <1>5 DEF Respond, Heeded
    <3> QED BY <2>1, <3>1 DEF StreamDone, Write, WriteFails, Heeded
  <2>3. x \in Event /\ x.event = "done" /\ x.calls = toolCalls /\ x.content = m
    BY <2>1 DEF Event, Types
  <2>4. events # << >> => Last(events).event # "tool_start"
    BY <1>2 DEF Heeded, Story, Announced
  <2>5. Order'
    BY <2>2, <2>3, <2>4, InOrder DEF Heeded
  <2>6. PICK n : n = Len(events) + 1
    OBVIOUS
  <2>7. /\ DOMAIN events' = 1..n /\ events'[n] = x
        /\ Results' = Results /\ LastDeltas' = LastDeltas
        /\ \A r \in Results : Rank(r)' = Rank(r) /\ events'[r] = events[r]
        /\ \A e \in DOMAIN events : events'[e] = events[e]
    BY <2>2, <2>3, <2>6, Heard DEF Heeded, Results
  <2>8. ASSUME NEW e \in DOMAIN events', events'[e].event = "done" PROVE e = n
    <3>1. CASE e \in DOMAIN events
      BY <2>7, <2>8, <3>1 DEF Heeded, Story, Order
    <3>2. CASE e \notin DOMAIN events
      BY <2>6, <2>7, <3>2, Shown DEF Heeded
    <3> QED BY <3>1, <3>2
  <2>9. /\ Len(toolCalls) = Cardinality(Results)
        /\ \A r \in Results : toolCalls[Rank(r)].id = events[r].id
        /\ request.provider = "openrouter" => m = Cardinality(LastDeltas)
    <3>1. Len(toolCalls) = Cardinality(Results) + 0
      BY <1>2 DEF Heeded, Story, Ran
    <3>2. Len(toolCalls) = Cardinality(Results)
      BY <3>1, Shown DEF Heeded
    <3>3. \A r \in Results : toolCalls[Rank(r)].id = events[r].id
      BY DEF Heeded, Story, Ran
    <3>4. request.provider = "openrouter" => content = Cardinality(LastDeltas)
      BY <1>2 DEF Heeded, Story, Collected
    <3> QED BY <1>3, <3>2, <3>3, <3>4
  <2>10. /\ Len(x.calls) = Cardinality(Results')
         /\ \A r \in Results' : x.calls[Rank(r)'].id = events'[r].id
         /\ request'.provider = "openrouter" => x.content = Cardinality(LastDeltas')
    BY <1>2, <2>3, <2>7, <2>9
  <2>11. Repeated'
    BY <2>7, <2>8, <2>10 DEF Repeated
  <2> QED BY <2>2, <2>5, <2>11
<1> QED BY <1>4, <1>5

LEMMA StoryInit == Init => Story
<1> SUFFICES ASSUME Init PROVE Story
    OBVIOUS
<1>1. events = << >> /\ DOMAIN events = {} /\ toolCalls = << >> /\ at = "open" /\ content = 0
  BY DEF Init
<1>2. Results = {} /\ Cardinality(Results) = 0 /\ Len(toolCalls) = 0 /\ events \in Seq(Event)
  BY <1>1, FS_EmptySet DEF Results
<1>3. Announced /\ Ran /\ Collected
  BY <1>1, <1>2 DEF Announced, Ran, Collected
<1> QED BY <1>1, <1>2, <1>3 DEF Story, Order, Repeated

LEMMA StoryStep == Types /\ Story /\ [Next]_vars => Story'
<1> SUFFICES ASSUME Types, Story, [Next]_vars PROVE Story'
    OBVIOUS
<1>1. /\ events' \in Seq(Event) /\ request'.stream = request.stream
      /\ at' \notin {"read", "over"} => content' = 0
  BY StoryTypes
<1>2. CASE ~request.stream
  BY <1>1, <1>2 DEF Story
<1>3. CASE at = "over"
  <2>1. UNCHANGED vars
    BY <1>3, OverIsFinal
  <2>2. UNCHANGED <<request, at, events>>
    BY <2>1 DEF vars
  <2>3. request.stream => Order' /\ Repeated'
    BY <2>2, Silent
  <2> QED BY <1>1, <1>3, <2>2, <2>3 DEF Story
<1>4. CASE request.stream /\ ~listening
  <2>1. events' = events
    BY <1>4, Tells
  <2>2. listening' = listening
    BY <1>4 DEF Next, Serve, Open, ExceedTurns, Ask, BreakOff, Timeout, StartTool, Execute,
                ShowResult, Receive, Complete, ReadDelta, EndOpenRouter, SendEarly, EndOllama,
                ReadPiece, Leave, Done, vars
  <2> QED BY <1>1, <1>4, <2>1, <2>2, Silent DEF Story
<1>5. CASE Heeded
  <2> SUFFICES Order' /\ Repeated' /\ (listening' /\ at' # "over" => Live')
      BY <1>1, <1>5 DEF Story, Live
  <2>1. CASE Open
    <3>1. CASE Fail
      BY <1>5, <2>1, <3>1, StoryFails DEF Open
    <3>2. CASE ~Fail
      <4>1. at = "open" /\ at' = "ask" /\ UNCHANGED <<events, calls, toolCalls, content>>
        BY <2>1, <3>2 DEF Open, response
      <4> QED BY <1>5, <4>1, LiveMute, Silent DEF Heeded
    <3> QED BY <3>1, <3>2
  <2>2. CASE ExceedTurns \/ BreakOff
    BY <1>5, <2>2, StoryFails DEF ExceedTurns, BreakOff, Timeout
  <2>3. CASE Ask \/ SendEarly \/ \E i \in DOMAIN meant : ReadPiece(i)
    <3>1. /\ at \in {"ask", "read"} /\ at' = "read"
          /\ UNCHANGED <<events, calls, toolCalls, request, content>>
      BY <2>3 DEF Ask, SendEarly, ReadPiece
    <3> QED BY <1>5, <3>1, LiveMute, Silent DEF Heeded
  <2>4. CASE StartTool
    BY <1>5, <2>4, StoryStart
  <2>5. CASE Execute
    BY <1>5, <2>5, StoryRuns
  <2>6. CASE ShowResult
    BY <1>5, <2>6, StoryShows
  <2>7. CASE ReadDelta
    BY <1>5, <2>7, StoryDelta
  <2>8. CASE Complete \/ EndOpenRouter \/ EndOllama
    BY <1>5, <2>8, StoryResponse
  <2>9. CASE Leave
    BY <1>5, <2>9, Silent DEF Leave, Heeded
  <2>10. CASE Done \/ UNCHANGED vars
    <3>1. UNCHANGED <<request, at, content, calls, toolCalls, events>>
      BY <2>10 DEF Done, vars, response
    <3>2. /\ Order' /\ Repeated'
          /\ Results' = Results /\ LastDeltas' = LastDeltas /\ \A r : Rank(r)' = Rank(r)
      BY <1>5, <3>1, Silent DEF Heeded
    <3>3. Announced' /\ Ran'
      BY <1>5, <3>1, <3>2 DEF Heeded, Story, Announced, Ran, Last
    <3>4. Collected'
      BY <1>5, <3>1, <3>2 DEF Heeded, Story, Collected
    <3> QED BY <3>2, <3>3, <3>4 DEF Live
  <2> QED BY <2>1, <2>2, <2>3, <2>4, <2>5, <2>6, <2>7, <2>8, <2>9, <2>10 DEF Next, Serve, Receive
<1> QED BY <1>2, <1>3, <1>4, <1>5 DEF Heeded

\* A streamed reply tells one consistent story, wherever the provider or the client
\* breaks it off: every call is shown before its result and one at a time, nothing
\* follows done or error, and done repeats just the calls whose results were shown
\* (internal/chat/stream.go).
THEOREM StoryIsTold == Spec => []StoryTold
<1>1. Story => StoryTold
  BY DEF Story, StoryTold, Order, Repeated
<1> QED BY <1>1, TypesInit, TypesStep, StoryInit, StoryStep, PTL DEF Spec
=============================================================================

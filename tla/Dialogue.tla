------------------------------ MODULE Dialogue ------------------------------
(***************************************************************************)
(* A conversation through the gateway: chat completions with web search    *)
(* and tool prompts (handler/chat.go, websearch/service.go,                *)
(* provider/tool_injection.go), the agent loop (handler/agents.go), the    *)
(* Responses API (handler/responses.go) and legacy completions             *)
(* (handler/completions.go), over the provider registry                    *)
(* (provider/provider.go, main.go) and the providers' translations         *)
(* (Translate).  A client may ask another provider in every turn; the      *)
(* replies of one become the history that is sent to the next.             *)
(*                                                                         *)
(* A handler runs in one goroutine and shares nothing with others here but *)
(* the search cache, so one conversation is modelled.  Retries, budgets,   *)
(* the response cache and guardrails are in Router and Chat.               *)
(***************************************************************************)
EXTENDS Translate, FiniteSets

CONSTANTS
    Valid,       \* the providers whose credentials are set
    Default,     \* DEFAULT_PROVIDER
    Aliases,     \* registered aliases, a function from models to models
    Models,      \* the model names clients ask for: [prefix, name]
    NoTools,     \* the model names without CapTools
    Options,     \* requests: [front, systems, tools, choice, search, turns]; turns is
                 \* the bound on the replies of upstreams in one conversation
    Tools,       \* the names of the functions a model calls
    agentWebSearchTool   \* the one that the agent loop runs itself

ASSUME DialogueAssumption ==
    /\ DOMAIN Aliases \subseteq Models
    /\ \A o \in Options : o.turns \in Nat /\ o.systems \in Nat /\ o.tools \subseteq Tools

VARIABLES
    opt,       \* what the client sends with every request
    conv,      \* the messages of the conversation
    stage,     \* where the handler is
    req,       \* the request in work
    sent,      \* the latest request an upstream received, in its format
    resp,      \* the latest response
    seen,      \* the tool calls the front end took from it
    cites,     \* searchAnnotations: the queries cited
    cache,     \* the search cache: queries with results
    said,      \* history: what upstreams said, in their own words
    provider   \* the provider in work

vars == <<opt, conv, stage, req, sent, resp, seen, cites, cache, said, provider>>

Nothing == [none |-> TRUE]
Round   == Len(said) + 1

-----------------------------------------------------------------------------
(* The registry. *)

AllProviders ==
    <<"openai", "anthropic", "ollama", "gemini", "cohere", "azure", "bedrock", "vertex",
      "huggingface">>
Registered == ToSet(SelectSeq(AllProviders, LAMBDA p : p \in Valid \/ p = "ollama"))

ResolveProvider(model) ==
    LET m == IF model \in DOMAIN Aliases THEN Aliases[model] ELSE model
        p == IF m.prefix = "" THEN Default ELSE m.prefix
    IN  IF p \in Registered THEN [provider |-> p, name |-> m.name] ELSE Nothing

HasTools(name) == name \notin NoTools

-----------------------------------------------------------------------------
(* Web search and the prompt that stands for tools. *)

IntoFirstSystem(msgs, piece, f(_)) ==
    LET i == SelectInSeq(msgs, LAMBDA m : m.role = "system") IN
    IF i = 0 THEN <<Message("system", <<piece>>, <<>>, <<>>)>> \o msgs
             ELSE [msgs EXCEPT ![i].content = f(@)]

ToolPrompt   == <<"prompt", "tools">>
Found(query) == <<"results", query>>

InjectToolsAsPromptApart(r) ==
    IF r.tools = {} THEN r
    ELSE [r EXCEPT !.messages = <<Message("system", <<ToolPrompt>>, <<>>, <<>>)>> \o @,
                   !.tools = {}, !.choice = "nil"]

InjectToolsAsPrompt(r) ==
    IF r.tools = {} THEN r
    ELSE [r EXCEPT !.messages = IntoFirstSystem(@, ToolPrompt, LAMBDA c : c \o <<ToolPrompt>>),
                   !.tools = {}, !.choice = "nil"]

injectContext(r, query) ==
    [r EXCEPT !.messages = IntoFirstSystem(@, Found(query), LAMBDA c : <<Found(query)>> \o c),
              !.search = FALSE]

LastUser(msgs) ==
    LET i == SelectLastInSeq(msgs, LAMBDA m : m.role = "user") IN
    IF i = 0 THEN <<>> ELSE msgs[i].content

(* llm is what the query model answered, "" if it could not be asked. *)
formulateQuery(msgs, llm) ==
    IF LastUser(msgs) = <<>> THEN "" ELSE IF llm # "" THEN llm ELSE "last message"

(* backend is what the search back end does if the cache has nothing. *)
search(query, backend) ==
    IF query \in cache \/ backend = "found" THEN query ELSE ""

CacheAfter(query, backend) == IF backend = "found" THEN cache \cup {query} ELSE cache

-----------------------------------------------------------------------------
(* One exchange with an upstream. *)

Reply(blocks, stop, answers) == [blocks |-> blocks, stop |-> stop, answers |-> answers]

ToUpstream(p, r) ==
    CASE p = "anthropic" -> translateToAnthropic(r)
      [] p \in {"gemini", "vertex"} -> translateToGemini(r)
      [] p = "ollama"  -> translateToOllama(r)
      [] p = "cohere"  -> translateToCohere(r)
      [] p = "bedrock" -> translateToBedrock(r)
      [] OTHER         -> Unchanged(r)

AnthropicChat(reply)   == translateFromAnthropic(reply)
GeminiChat(reply)      == translateFromGemini(reply, Round)
VertexChat(reply)      == [translateFromGemini(reply, Round) EXCEPT !.provider = "vertex"]
OllamaChat(reply)      == translateFromOllama(reply, Round)
CohereChat(reply)      == translateFromCohere(reply)
BedrockChat(reply)     == translateFromBedrock(reply)
AzureChat(reply)       == Decoded("azure", reply)
HuggingFaceChat(reply) == Decoded("huggingface", reply)
OpenAIChat(reply)      == Decoded("openai", reply)

FromUpstream(p, reply) ==
    CASE p = "anthropic" -> AnthropicChat(reply)
      [] p = "gemini"    -> GeminiChat(reply)
      [] p = "vertex"    -> VertexChat(reply)
      [] p = "ollama"    -> OllamaChat(reply)
      [] p = "cohere"    -> CohereChat(reply)
      [] p = "bedrock"   -> BedrockChat(reply)
      [] p = "azure"     -> AzureChat(reply)
      [] p = "huggingface" -> HuggingFaceChat(reply)
      [] OTHER           -> OpenAIChat(reply)

-----------------------------------------------------------------------------
(* What upstreams answer: external.  Every format has words for its reasons *)
(* to stop; only the OpenAI format leaves arguments unparsed.               *)

Compat == {"openai", "azure", "huggingface"}
Ends(p) ==
    CASE p \in {"anthropic", "bedrock"} -> {"end_turn", "max_tokens"}
      [] p \in {"gemini", "vertex"}     -> {"STOP", "SAFETY"}
      [] p = "cohere"                   -> {"COMPLETE", "ERROR_TOXIC"}
      [] OTHER                          -> {"stop", "length"}
Calls(p) ==
    CASE p \in {"anthropic", "bedrock"} -> {"tool_use", "max_tokens"}
      [] p \in {"gemini", "vertex"}     -> {"STOP"}
      [] p = "cohere"                   -> {"TOOL_CALL"}
      [] p = "ollama"                   -> {"stop"}
      [] OTHER                          -> {"tool_calls"}
NativeID(p, i) == IF p \in {"gemini", "vertex", "ollama"} THEN <<>> ELSE <<p, Round, i>>
Say(i)         == Text(<< <<"said", Round, i>> >>)
Args(p)        == IF p \in Compat \cup {"cohere"} THEN {"obj", "bad"} ELSE {"obj", "null"}

Replies(p) ==
    LET f == CHOOSE n \in Tools : TRUE
        call(i, n, a) == Use(NativeID(p, i), n, a)
    IN   {Reply(<<Say(1), Say(2)>>, s, TRUE) : s \in Ends(p)}
    \cup {Reply(<<call(1, f, a)>>, s, TRUE) : s \in Calls(p) \ {"max_tokens"}, a \in Args(p)}
    \cup {Reply(<<Say(1), call(1, f, "obj"), call(2, n, "obj")>>, s, TRUE) :
              n \in Tools, s \in Calls(p)}
    \cup (IF p \in Compat \cup {"gemini", "vertex"} THEN {Reply(<<>>, "", FALSE)} ELSE {})

-----------------------------------------------------------------------------
System(i) == Message("system", << <<"system", i>> >>, <<>>, <<>>)
User(i)   == Message("user", << <<"user", i>> >>, <<>>, <<>>)

(* The Responses API puts instructions first, completions have only a prompt. *)
Opening(o) ==
    [i \in 1..o.systems |-> System(i)] \o <<User(0)>>

Init ==
    /\ opt \in Options
    /\ conv = Opening(opt)
    /\ stage = "client"
    /\ req = Nothing /\ sent = Nothing /\ resp = Nothing
    /\ seen = <<>> /\ cites = {} /\ cache = {} /\ said = <<>>
    /\ provider = "none"

(* A request arrives, or the agent loop starts an iteration with the same model. *)
Ask ==
    /\ stage = "client"
    /\ \E model \in Models :
          /\ opt.front = "agent" /\ req # Nothing => model = req.model
          /\ req' = [model |-> model, name |-> "", messages |-> conv, tools |-> opt.tools,
                     choice |-> IF opt.front = "chat" THEN opt.choice ELSE "nil",
                     search |-> opt.search]
    /\ stage' = IF opt.front \in {"chat", "responses"} THEN "search" ELSE "resolve"
    /\ cites' = {} /\ sent' = Nothing /\ resp' = Nothing /\ seen' = <<>>
    /\ UNCHANGED <<opt, conv, cache, said, provider>>

(* Augment: nothing it does may fail the chat. *)
Augment ==
    /\ stage = "search" /\ opt.front = "chat"
    /\ \E llm \in {"", "NONE", "query"}, backend \in {"found", "nothing"} :
          LET query == IF req.search THEN formulateQuery(req.messages, llm) ELSE ""
              hit   == IF query \in {"", "NONE"} THEN "" ELSE search(query, backend)
          IN  /\ req'   = IF hit = "" THEN req ELSE injectContext(req, hit)
              /\ cites' = IF hit = "" THEN {} ELSE {hit}
              /\ cache' = IF query \in {"", "NONE"} THEN cache ELSE CacheAfter(query, backend)
    /\ stage' = "resolve"
    /\ UNCHANGED <<opt, conv, sent, resp, seen, said, provider>>

(* The Responses API searches with the last message itself and puts what it *)
(* finds into a system message of its own.                                  *)
SearchDirect ==
    /\ stage = "search" /\ opt.front = "responses"
    /\ \E backend \in {"found", "nothing"} :
          LET query == IF req.search THEN formulateQuery(req.messages, "") ELSE ""
              hit   == IF query = "" THEN "" ELSE search(query, backend)
          IN  /\ req'   = IF hit = "" THEN req
                          ELSE [req EXCEPT !.messages =
                                   <<Message("system", <<Found(hit)>>, <<>>, <<>>)>> \o @]
              /\ cites' = IF hit = "" THEN {} ELSE {hit}
              /\ cache' = IF query = "" THEN cache ELSE CacheAfter(query, backend)
    /\ stage' = "resolve"
    /\ UNCHANGED <<opt, conv, sent, resp, seen, said, provider>>

(* An unknown provider ends the request; chat looks at what the model can do. *)
Resolve ==
    /\ stage = "resolve"
    /\ LET to == ResolveProvider(req.model) IN
       IF to = Nothing
       THEN stage' = "refused" /\ UNCHANGED <<req, provider>>
       ELSE LET r == [req EXCEPT !.name = to.name] IN
            /\ req' = IF opt.front = "chat" /\ ~HasTools(to.name)
                      THEN InjectToolsAsPrompt(r) ELSE r
            /\ provider' = to.provider
            /\ stage' = "call"
    /\ UNCHANGED <<opt, conv, sent, resp, seen, cites, cache, said>>

(* The translated request is posted. *)
Send ==
    /\ stage = "call"
    /\ sent' = ToUpstream(provider, req)
    /\ stage' = "wait"
    /\ UNCHANGED <<opt, conv, req, resp, seen, cites, cache, said, provider>>

(* No service, a transport error, an unreadable body, a status that is not  *)
(* 2xx and a body that does not decode end the request the same way.        *)
Fails ==
    /\ stage \in {"call", "wait"}
    /\ stage' = "refused"
    /\ UNCHANGED <<opt, conv, req, sent, resp, seen, cites, cache, said, provider>>

Receive ==
    /\ stage = "wait" /\ Len(said) < opt.turns
    /\ \E reply \in Replies(provider) :
          /\ resp' = FromUpstream(provider, reply)
          /\ said' = Append(said, [by |-> provider, reply |-> reply])
    /\ stage' = "deliver"
    /\ UNCHANGED <<opt, conv, req, sent, seen, cites, cache, provider>>

(* What a tool returns, an error message included. *)
ResultOf(id) == << <<"result", id>> >>

(* Calls of the built-in tool search with their own query, if they have one. *)
WebSearched(calls, backend) ==
    IF \E i \in DOMAIN calls : calls[i].name = agentWebSearchTool /\ calls[i].args = "obj"
    THEN CacheAfter("query of a call", backend) ELSE cache

Answers(calls) ==
    Map(LAMBDA c : Message("tool", ResultOf(c.id), <<>>, c.id), calls)

(* A client of the chat API reads the calls wherever they are, runs the      *)
(* tools, in any order, and asks again.                                      *)
ClientReads ==
    /\ stage = "deliver" /\ opt.front = "chat"
    /\ IF resp.choices = 0
       THEN conv' = conv /\ seen' = <<>>
       ELSE LET calls == resp.calls \o resp.msgCalls IN
            /\ seen' = calls
            /\ \E order \in {calls, Reverse(calls)} :
                  conv' = conv \o <<Message("assistant", resp.content, calls, <<>>)>>
                               \o (IF calls = <<>> THEN <<User(Len(said))>> ELSE Answers(order))
    /\ stage' = "client"
    /\ UNCHANGED <<opt, req, sent, resp, cites, cache, said, provider>>

(* The agent loop reads the calls of the message and runs the tools. *)
AgentReads ==
    /\ stage = "deliver" /\ opt.front = "agent"
    /\ LET calls == IF resp.choices = 0 THEN <<>> ELSE resp.msgCalls
           goes  == resp.choices = 1 /\ resp.finish = "tool_calls" /\ calls # <<>>
       IN  /\ seen' = IF goes THEN calls ELSE <<>>
           /\ conv' = CASE resp.choices = 0 -> conv
                        [] goes  -> conv \o <<Message("assistant", resp.content, calls, <<>>)>>
                                         \o Answers(calls)
                        [] OTHER -> Append(conv, Message("assistant", resp.content, calls, <<>>))
           /\ \E backend \in {"found", "nothing"} : cache' = WebSearched(seen', backend)
           /\ stage' = IF goes THEN "client" ELSE "done"
    /\ UNCHANGED <<opt, req, sent, resp, cites, said, provider>>

(* The Responses API makes output items of the calls of the choice. *)
ResponseReads ==
    /\ stage = "deliver" /\ opt.front = "responses"
    /\ seen' = IF resp.choices = 0 THEN <<>> ELSE resp.calls
    /\ stage' = "done"
    /\ UNCHANGED <<opt, conv, req, sent, resp, cites, cache, said, provider>>

(* toCompletionResponse keeps the text. *)
CompletionReads ==
    /\ stage = "deliver" /\ opt.front = "completions"
    /\ seen' = <<>>
    /\ stage' = "done"
    /\ UNCHANGED <<opt, conv, req, sent, resp, cites, cache, said, provider>>

Next ==
    \/ Ask \/ Augment \/ SearchDirect \/ Resolve \/ Send \/ Fails \/ Receive
    \/ ClientReads \/ AgentReads \/ ResponseReads \/ CompletionReads

Spec == Init /\ [][Next]_vars

-----------------------------------------------------------------------------
TypeOK ==
    /\ opt \in Options
    /\ stage \in {"client", "search", "resolve", "call", "wait", "deliver", "done", "refused"}
    /\ \A i \in DOMAIN conv : conv[i].role \in {"system", "user", "assistant", "tool"}
    /\ provider \in Registered \cup {"none"}
    /\ cites \subseteq cache
    /\ Len(said) <= opt.turns
    /\ stage = "wait" => DOMAIN sent = {"system", "msgs", "tools", "choice"}

Blocks(type)  == OfType(Concat(Map(LAMBDA t : t.blocks, sent.msgs)), type)
SaidBlocks(type) == OfType(Concat(Map(LAMBDA s : s.reply.blocks, said)), type)

(* What upstreams said is in the request that is sent next, to whichever      *)
(* provider: every tool call once and in order, with the name of its function *)
(* and, if they were a JSON object, its arguments; and every text, however    *)
(* many blocks it had and also beside calls, unless it is Anthropic's, of     *)
(* which only the last block is kept.  What translateFrom... of one provider  *)
(* makes of a reply, translateTo... of any other undoes.                      *)
HistorySurvives ==
    /\ TypeOK
    /\ stage = "wait" =>
        LET out == Blocks("use")
            was == SaidBlocks("use")
            kept(p) == p[1] = "said" /\ said[p[2]].by # "anthropic"
            texts(blocks) == SelectSeq(Concat(Map(LAMBDA b : b.text, blocks)), kept)
        IN  /\ Len(out) = Len(was)
            /\ \A i \in DOMAIN was : /\ out[i].name = was[i].name
                                     /\ was[i].input = "obj" => out[i].input = "obj"
            /\ texts(Blocks("text")) = texts(SaidBlocks("text"))

(* What a result can be told by in the format of p: the id of its call; the    *)
(* name of the function for Gemini and Vertex, which know no ids               *)
(* (findToolCallName); nothing for Ollama, whose messages have no field for    *)
(* ToolCallID (ollama.go:445-466).                                             *)
Ref(p, call) ==
    CASE p \in {"gemini", "vertex"} -> call.name
      [] p = "ollama" -> <<>>
      [] OTHER -> call.id

(* Every result the client gave is sent, once and in the client's order, under *)
(* the reference of the call it belongs to, and no call is left without one.   *)
(* So where references are ids a result is tied to its call whatever the order *)
(* of the answers.  Calls that share a reference - of one function with Gemini *)
(* and Vertex, any two with Ollama - can be matched by position only: between  *)
(* them they get their results, and each its own if the client answered in the *)
(* order of the calls, as the agent loop does; otherwise nothing ties them.    *)
ResultsAnswerCalls ==
    stage = "wait" =>
        LET asked   == Concat(Map(LAMBDA m : m.calls, conv))
            answers == SelectSeq(conv, LAMBDA m : m.role = "tool")
            results == Blocks("result")
            inOrder == Map(LAMBDA m : m.callID, answers) = Map(LAMBDA c : c.id, asked)
            due(ref)  == Map(LAMBDA c : ResultOf(c.id),
                             SelectSeq(asked, LAMBDA c : Ref(provider, c) = ref))
            came(ref) == Map(LAMBDA b : b.text, SelectSeq(results, LAMBDA b : b.ref = ref))
        IN  /\ Map(LAMBDA b : b.text, results) = Map(LAMBDA m : m.content, answers)
            /\ Len(results) = Len(asked)
            /\ opt.front = "agent" => inOrder
            /\ \A c \in ToSet(asked) : LET ref == Ref(provider, c) IN
                  /\ ToSet(came(ref)) = ToSet(due(ref)) /\ Len(came(ref)) = Len(due(ref))
                  /\ inOrder => came(ref) = due(ref)

(* A tool prompt and search results reach the upstream whichever format it     *)
(* has, beside the client's system message: two parts of the gateway write     *)
(* into one message because Anthropic and Gemini get only the last one.  What  *)
(* the response cites was in the request.                                      *)
PromptsReachUpstream ==
    stage = "wait" /\ opt.front = "chat" /\ opt.systems <= 1 =>
        /\ ToSet(Concat(SystemTexts(req.messages))) = ToSet(Concat(sent.system))
        /\ \A query \in cites : Found(query) \in ToSet(Concat(sent.system))
        /\ opt.tools # {} /\ sent.tools = {} /\ ~HasTools(req.name)
              => ToolPrompt \in ToSet(Concat(sent.system))

(* The finish reason says "tool_calls" exactly if there are calls to make,      *)
(* unless the reply was cut at the token limit: agents decide by it.            *)
FinishSignalsCalls ==
    stage = "deliver" /\ resp.choices = 1 =>
        /\ resp.calls \o resp.msgCalls # <<>> => resp.finish \in {"tool_calls", "length"}
        /\ resp.finish = "tool_calls" => resp.calls \o resp.msgCalls # <<>>

(* The front ends of the gateway find the calls a model returned: the agent     *)
(* loop executes them and the Responses API makes function_call items of them.  *)
ToolCallsReachFrontEnd ==
    /\ stage \in {"client", "done"} /\ resp # Nothing /\ opt.front \in {"agent", "responses"}
    /\ resp.choices = 1 /\ resp.finish = "tool_calls"
    => seen = resp.calls \o resp.msgCalls
=============================================================================

----------------------------- MODULE Translate -----------------------------
(***************************************************************************)
(* What the providers of provider/*.go make of a chat request and of an    *)
(* upstream's reply.                                                       *)
(*                                                                         *)
(* A text is the sequence of the pieces it was put together from; <<>> is  *)
(* the empty string.  The text of a tool call's arguments is told apart by *)
(* what json.Unmarshal does with it: "obj" is a JSON object, "val" another *)
(* JSON value, "null" JSON null and "bad" no JSON.  Upstream messages are  *)
(* sequences of blocks, whatever the fields of the upstream's format are:  *)
(* text, the call of a tool or the result of one.  Sampling parameters are *)
(* copied by every provider and left out, and so is the place of a system  *)
(* message between the others where the format keeps it.                   *)
(***************************************************************************)
EXTENDS Naturals, Sequences, SequencesExt

Message(role, content, calls, callID) ==
    [role |-> role, content |-> content, calls |-> calls, callID |-> callID]
ToolCall(id, name, args) == [id |-> id, name |-> name, args |-> args]

Text(t)              == [type |-> "text", text |-> t]
Use(id, name, input) == [type |-> "use", id |-> id, name |-> name, input |-> input]
Result(ref, t)       == [type |-> "result", ref |-> ref, text |-> t]

Map(f(_), s) == [i \in DOMAIN s |-> f(s[i])]
Concat(ss)   == FoldLeft(\o, <<>>, ss)
OfType(blocks, t) == SelectSeq(blocks, LAMBDA b : b.type = t)

(* json.Unmarshal into an any and into a map, the error dropped. *)
ToAny(args) == IF args = "bad" THEN "null" ELSE args
ToMap(args) == IF args = "obj" THEN "obj" ELSE "null"

(* A message with one block; the text of a turn with calls is sent if there is any. *)
Turn(role, block)  == [role |-> role, blocks |-> <<block>>]
Spoken(m)          == IF m.content = <<>> THEN <<>> ELSE <<Text(m.content)>>
WithCalls(role, m, f(_)) == [role |-> role, blocks |-> Spoken(m) \o Map(f, m.calls)]
CallsTools(m)      == m.role = "assistant" /\ m.calls # <<>>
NotSystem(msgs)    == SelectSeq(msgs, LAMBDA m : m.role # "system")
SystemTexts(msgs)  == Map(LAMBDA m : m.content, SelectSeq(msgs, LAMBDA m : m.role = "system"))
LastSystem(msgs)   == LET s == SystemTexts(msgs) IN IF s = <<>> THEN <<>> ELSE <<Last(s)>>

(* A reply in the gateway's format.  Tool calls are in the choice or in its message. *)
Response(provider, content, calls, msgCalls, finish) ==
    [choices |-> 1, provider |-> provider, content |-> content, calls |-> calls,
     msgCalls |-> msgCalls, finish |-> finish]
NoChoices(provider) == [choices |-> 0, provider |-> provider]

NewID(round, i) == <<"call", round, i>>        \* "call_" + uuid
TextOf(reply)   == Concat(Map(LAMBDA b : b.text, OfType(reply.blocks, "text")))
CallsOf(reply)  == Map(LAMBDA b : ToolCall(b.id, b.name, b.input), OfType(reply.blocks, "use"))
Renamed(calls, round) ==
    [i \in DOMAIN calls |-> [calls[i] EXCEPT !.id = NewID(round, i)]]
IfCalls(calls, finish) == IF calls # <<>> THEN "tool_calls" ELSE finish

-----------------------------------------------------------------------------
(* Anthropic *)

AnthropicTurnDropsCalls(m) ==
    CASE m.role = "tool" -> Turn("user", Result(m.callID, m.content))
      [] CallsTools(m)   -> [role |-> "assistant", blocks |-> Spoken(m)]
      [] OTHER           -> Turn(m.role, Text(m.content))

AnthropicTurn(m) ==
    CASE m.role = "tool" -> Turn("user", Result(m.callID, m.content))
      [] CallsTools(m)   -> WithCalls("assistant", m, LAMBDA c : Use(c.id, c.name, ToAny(c.args)))
      [] OTHER           -> Turn(m.role, Text(m.content))

AnthropicChoice(c) ==
    CASE c = "auto" -> "auto" [] c = "required" -> "any" [] c = "function" -> "tool"
      [] OTHER -> "nil"

translateToAnthropic(req) ==
    LET none == req.choice = "none" /\ req.tools # {} IN
    [system |-> LastSystem(req.messages),
     msgs   |-> Map(AnthropicTurn, NotSystem(req.messages)),
     tools  |-> IF none THEN {} ELSE req.tools,
     choice |-> IF none \/ req.tools = {} THEN "nil" ELSE AnthropicChoice(req.choice)]

(* Of several text blocks the last one is kept. *)
translateFromAnthropic(reply) ==
    LET texts == OfType(reply.blocks, "text") IN
    Response("anthropic", IF texts = <<>> THEN <<>> ELSE Last(texts).text,
             CallsOf(reply), <<>>,
             CASE reply.stop = "max_tokens" -> "length"
               [] reply.stop = "tool_use"   -> "tool_calls"
               [] OTHER                     -> "stop")

-----------------------------------------------------------------------------
(* Gemini and Vertex AI *)

findToolCallNameFirst(msgs, id) ==
    LET calls == Concat(Map(LAMBDA m : m.calls, msgs)) IN
    IF calls = <<>> THEN "" ELSE calls[1].name

findToolCallName(msgs, id) ==
    LET found == SelectSeq(Concat(Map(LAMBDA m : m.calls, msgs)), LAMBDA c : c.id = id) IN
    IF found = <<>> THEN "" ELSE found[1].name

GeminiTurn(m, msgs) ==
    LET role == IF m.role = "assistant" THEN "model" ELSE m.role IN
    CASE m.role = "tool" -> Turn("user", Result(findToolCallName(msgs, m.callID), m.content))
      [] CallsTools(m)   -> WithCalls(role, m, LAMBDA c : Use(<<>>, c.name, ToMap(c.args)))
      [] OTHER           -> Turn(role, Text(m.content))

GeminiChoice(c) ==
    CASE c = "auto" -> "AUTO" [] c = "none" -> "NONE" [] c \in {"required", "function"} -> "ANY"
      [] OTHER -> "nil"

translateToGemini(req) ==
    [system |-> LastSystem(req.messages),
     msgs   |-> Map(LAMBDA m : GeminiTurn(m, req.messages), NotSystem(req.messages)),
     tools  |-> req.tools,
     choice |-> IF req.tools = {} THEN "nil" ELSE GeminiChoice(req.choice)]

translateGeminiFinishReason(reason) ==
    CASE reason = "MAX_TOKENS" -> "length" [] reason = "SAFETY" -> "content_filter"
      [] OTHER -> "stop"

translateFromGemini(reply, round) ==
    LET calls == Renamed(CallsOf(reply), round) IN
    Response("gemini", TextOf(reply), calls, <<>>,
             IF reply.answers THEN IfCalls(calls, translateGeminiFinishReason(reply.stop)) ELSE "")

-----------------------------------------------------------------------------
(* Ollama: roles stay, a tool's result loses the id of its call. *)

OllamaTurn(m) ==
    IF CallsTools(m)
    THEN [role |-> m.role, blocks |-> <<Text(m.content)>> \o
                                      Map(LAMBDA c : Use(<<>>, c.name, ToMap(c.args)), m.calls)]
    ELSE Turn(m.role, IF m.role = "tool" THEN Result(<<>>, m.content) ELSE Text(m.content))

translateToOllama(req) ==
    [system |-> SystemTexts(req.messages), msgs |-> Map(OllamaTurn, NotSystem(req.messages)),
     tools  |-> req.tools, choice |-> "nil"]

ollamaToolCallsToOpenAI(calls, round) == Renamed(calls, round)

translateFromOllamaPlain(reply, round) ==
    Response("ollama", TextOf(reply), ollamaToolCallsToOpenAI(CallsOf(reply), round), <<>>,
             IF reply.stop = "length" THEN "length" ELSE "stop")

translateFromOllama(reply, round) ==
    LET calls == ollamaToolCallsToOpenAI(CallsOf(reply), round) IN
    Response("ollama", TextOf(reply), calls, <<>>,
             IfCalls(calls, IF reply.stop = "length" THEN "length" ELSE "stop"))

-----------------------------------------------------------------------------
(* Cohere: arguments stay the text they are. *)

CohereTurn(m) ==
    CASE m.role = "tool" -> Turn("tool", Result(m.callID, m.content))
      [] CallsTools(m)   -> [role |-> "assistant", blocks |-> <<Text(m.content)>> \o
                                Map(LAMBDA c : Use(c.id, c.name, c.args), m.calls)]
      [] OTHER           -> Turn(m.role, Text(m.content))

translateToCohere(req) ==
    [system |-> SystemTexts(req.messages), msgs |-> Map(CohereTurn, NotSystem(req.messages)),
     tools  |-> req.tools, choice |-> "nil"]

translateCohereFinishReason(reason) ==
    CASE reason = "MAX_TOKENS" -> "length" [] reason = "TOOL_CALL" -> "tool_calls"
      [] reason \in {"ERROR", "ERROR_TOXIC"} -> "content_filter" [] OTHER -> "stop"

translateFromCohere(reply) ==
    Response("cohere", TextOf(reply), CallsOf(reply), <<>>,
             IfCalls(CallsOf(reply), translateCohereFinishReason(reply.stop)))

-----------------------------------------------------------------------------
(* AWS Bedrock: arguments that are no JSON are sent as a string. *)

BedrockTurn(m) ==
    CASE m.role = "tool" -> Turn("user", Result(m.callID, m.content))
      [] CallsTools(m)   -> WithCalls("assistant", m, LAMBDA c : Use(c.id, c.name, c.args))
      [] OTHER           -> Turn(m.role, Text(m.content))

translateToBedrock(req) ==
    [system |-> SystemTexts(req.messages), msgs |-> Map(BedrockTurn, NotSystem(req.messages)),
     tools  |-> req.tools, choice |-> "nil"]

translateBedrockStopReason(reason) ==
    CASE reason = "max_tokens" -> "length" [] reason = "tool_use" -> "tool_calls"
      [] reason \in {"guardrail_intervened", "content_filtered"} -> "content_filter"
      [] OTHER -> "stop"

translateFromBedrock(reply) ==
    Response("bedrock", TextOf(reply), CallsOf(reply), <<>>,
             IfCalls(CallsOf(reply), translateBedrockStopReason(reply.stop)))

-----------------------------------------------------------------------------
(* OpenAI, Azure, Hugging Face and the other providers of the same format: *)
(* the request is sent as it came, the reply is decoded as it is.          *)

CompatTurn(m) ==
    IF m.role = "tool" THEN Turn("tool", Result(m.callID, m.content))
    ELSE [role |-> m.role, blocks |-> <<Text(m.content)>> \o
                              Map(LAMBDA c : Use(c.id, c.name, c.args), m.calls)]

Unchanged(req) ==
    [system |-> SystemTexts(req.messages), msgs |-> Map(CompatTurn, NotSystem(req.messages)),
     tools  |-> req.tools, choice |-> req.choice]

Decoded(provider, reply) ==
    IF reply.answers THEN Response(provider, TextOf(reply), <<>>, CallsOf(reply), reply.stop)
    ELSE NoChoices(provider)
=============================================================================

------------------------------ MODULE Streams -------------------------------
(***************************************************************************)
(* A streamed chat completion: the WebSocket handler (handler/stream.go),  *)
(* Router.ChatCompletionStream and ExecuteStream (routing), the fallback   *)
(* chain (provider/fallback.go), each provider's ChatCompletionStream and  *)
(* the parser of its event format, and the classification of errors        *)
(* (routing/errors.go) that decides whether a stream is started again.     *)
(*                                                                         *)
(* One request is modelled: streams share only the cooldown and in-flight  *)
(* trackers, which are Router's.  Here a provider may or may not be in     *)
(* cooldown whenever it is asked.  Guardrails are Chat's and web search is *)
(* Dialogue's; the request the provider posts is Translate's.              *)
(***************************************************************************)
EXTENDS Translate, FiniteSets

CONSTANTS
    Targets,     \* what a client may ask for: providers and "fallback"
    Chain,       \* the members of the fallback chain, in order
    MaxRetries,  \* RETRY_MAX
    Request,     \* the client's request: [messages, tools, choice]
    MaxOpen,     \* bound on the streams upstreams begin to send
    Contents,    \* what models answer: sequences of text and use blocks
    PostErrors,  \* what a request may fail with
    ReadErrors   \* what reading the body may fail with

ASSUME StreamsAssumption ==
    /\ MaxRetries \in Nat /\ MaxOpen \in Nat
    /\ Chain \in Seq(STRING) /\ "fallback" \notin ToSet(Chain)

VARIABLES
    pc, target,
    attempt,   \* the loop variable of ExecuteStream
    pos,       \* the loop variable of the fallback chain
    err,       \* the latest error; Nil if the latest stream ended without one
    posted,    \* the latest request an upstream received, in its format
    reads,     \* the parser of its answer
    rest,      \* the lines the upstream has yet to send
    parser,    \* the local variables of the parser
    out,       \* what was written to the socket
    streams    \* history: the calls of upstreams, with what they sent

vars == <<pc, target, attempt, pos, err, posted, reads, rest, parser, out, streams>>

Providers == {"anthropic", "gemini", "vertex", "cohere", "ollama", "openai", "azure",
              "huggingface", "bedrock"}
Streamers == Providers \ {"bedrock"}      \* those with a ChatCompletionStream
NoIndexes == {"gemini", "vertex", "ollama"}   \* whose calls have no index and no id
Nothing   == [none |-> TRUE]
Current   == IF target = "fallback" THEN Chain[pos] ELSE target

-----------------------------------------------------------------------------
(* Errors: the phrases in the text before "status <code>:", the code (0: no *)
(* such text) and the phrases after it.                                     *)

Error(before, status, body) == [before |-> before, status |-> status, body |-> body]
Nil == Error({}, 0, {"nil"})

ASSUME ErrorsAssumption ==
    \A e \in PostErrors \cup ReadErrors : e # Nil /\ e.status \in Nat

Wrapped(e) == IF e = Nil THEN Error({}, 0, {}) ELSE e      \* fmt.Errorf("...: %w", e)

parseProviderErrorString(e) ==
    IF e.status = 0 THEN [code |-> 0, body |-> e.before \cup e.body]
                    ELSE [code |-> e.status, body |-> e.body]

(* Each phrase stands for the strings the code looks for in its case. *)
ClassifyBody(body) ==
    IF "context length" \in body THEN "token_limit"
    ELSE IF "safety" \in body THEN "content_policy"
    ELSE IF "rate limit" \in body THEN "rate_limit"
    ELSE IF "unauthorized" \in body THEN "auth"
    ELSE "unknown"

(* Fault: the body is believed before the status. *)
ClassifyErrorBodyFirst(e, code, body) ==
    IF ClassifyBody(body) # "unknown" THEN ClassifyBody(body)
    ELSE IF code = 429 THEN "rate_limit" ELSE IF code >= 500 THEN "server_error" ELSE "auth"

ClassifyError(e, code, body) ==
    IF "deadline exceeded" \in e.before \cup e.body THEN "timeout"
    ELSE CASE code = 429          -> "rate_limit"
           [] code \in {401, 403} -> "auth"
           [] code >= 500         -> IF "overloaded" \in body THEN "rate_limit" ELSE "server_error"
           [] OTHER               -> ClassifyBody(body)

ClassifyFromError(e) ==
    LET p == parseProviderErrorString(e) IN ClassifyError(e, p.code, p.body)

IsRetryable(kind) == kind \in {"rate_limit", "server_error", "timeout"}

-----------------------------------------------------------------------------
(* Chunks.  Every attempt has an id of its own: the parser's uuid, or the   *)
(* one an upstream of the OpenAI format gave.                               *)

Role            == [k |-> "role"]
Content(t)      == [k |-> "text", text |-> t]
ToolCalls(cs)   == [k |-> "calls", calls |-> cs]
StreamToolCall(i, id, name, args) == [index |-> i, id |-> id, name |-> name, args |-> args]
Finish(reason)  == [k |-> "finish", reason |-> reason]

IfAny(seq, chunk) == IF seq = <<>> THEN <<>> ELSE <<chunk>>

(* What a parser does with a line: its new variables, the chunks it hands   *)
(* to onChunk, and whether it returns nil.                                  *)
Went(p, chunks)     == [parser |-> p, chunks |-> chunks, returns |-> FALSE]
Returned(p, chunks) == [parser |-> p, chunks |-> chunks, returns |-> TRUE]

(* Lines that are no data, or whose data does not decode, are skipped. *)
Noise == [type |-> "noise"]

NewParser == [toolCallIndex |-> 0, firstChunk |-> TRUE, lastEventType |-> "", uuids |-> 0]

(* At the end of every block, of a text block too; fault: at none. *)
StaysAtIndex(p) == p
NextIndex(p)    == [p EXCEPT !.toolCallIndex = @ + 1]

parseAnthropicSSE(p, e) ==
    CASE e.type = "content_block_start" ->
            Went(p, IF e.block # "tool_use" THEN <<>>
                    ELSE <<ToolCalls(<<StreamToolCall(p.toolCallIndex, e.id, e.name, <<>>)>>)>>)
      [] e.type = "text_delta"       -> Went(p, IfAny(e.text, Content(e.text)))
      [] e.type = "input_json_delta" ->
            Went(p, IfAny(e.text, ToolCalls(<<StreamToolCall(p.toolCallIndex, <<>>, "", e.text)>>)))
      [] e.type = "content_block_stop" -> Went(NextIndex(p), <<>>)
      [] e.type = "message_delta"    ->
            Went(p, <<Finish(CASE e.stop = "max_tokens" -> "length"
                               [] e.stop = "tool_use"   -> "tool_calls"
                               [] OTHER                 -> "stop")>>)
      [] e.type = "message_stop"     -> Returned(p, <<>>)
      [] OTHER                       -> Went(p, <<>>)

(* Calls are numbered within their event and get the gateway's own ids. *)
Numbered(p, uses) ==
    [i \in DOMAIN uses |-> StreamToolCall(i - 1, <<"uuid", Len(streams), p.uuids + i>>, uses[i].name, uses[i].input)]

GeminiChunks(p, e) ==
    LET text == Concat(Map(LAMBDA b : b.text, OfType(e.parts, "text")))
        uses == OfType(e.parts, "use")
    IN     IfAny(text, Content(text))
        \o IfAny(uses, ToolCalls(Numbered(p, uses)))
        \o (IF e.finish = "" THEN <<>>
            ELSE <<Finish(IfCalls(uses, translateGeminiFinishReason(e.finish)))>>)

(* The role comes once. *)
NotFirst(p) == [p EXCEPT !.firstChunk = FALSE]

parseGeminiSSE(p, e) ==
    IF e.type = "noise" \/ ~e.candidates THEN Went(p, <<>>)
    ELSE Went([NotFirst(p) EXCEPT !.uuids = @ + Len(OfType(e.parts, "use"))],
              (IF p.firstChunk THEN <<Role>> ELSE <<>>) \o GeminiChunks(p, e))

(* The finish chunk is the last. *)
MessageEnd(p, e) == Returned(p, <<Finish(translateCohereFinishReason(e.finish))>>)

(* The type is the one of the event line before if the data has none. *)
parseCohereSSE(p, e) ==
    LET type == IF e.type = "" THEN p.lastEventType ELSE e.type IN
    CASE type = "event" -> Went([p EXCEPT !.lastEventType = e.name], <<>>)
      [] type = "content-delta" /\ e.kind = "text" -> Went(p, IfAny(e.text, Content(e.text)))
      [] type = "content-delta" /\ e.kind = "tool-call" ->
            Went(p, <<ToolCalls(<<StreamToolCall(e.index, e.id, e.name, e.text)>>)>>)
      [] type = "message-end" -> MessageEnd(p, e)
      [] OTHER                -> Went(p, <<>>)

(* The loop of Ollama's ChatCompletionStream: a message is done, or has     *)
(* calls, or has text.                                                      *)
readOllama(p, e) ==
    IF e.done THEN Returned(p, <<Finish(IF e.finish = "length" THEN "length" ELSE "stop")>>)
    ELSE IF e.calls # <<>> THEN Went([p EXCEPT !.uuids = @ + Len(e.calls)],
                                     <<ToolCalls(Numbered(p, e.calls))>>)
    ELSE Went(p, IfAny(e.text, Content(e.text)))

(* A chunk of the upstream is handed on. *)
parseOpenAISSE(p, e) ==
    CASE e.type = "[DONE]" -> Returned(p, <<>>)
      [] e.type = "chunk"  -> Went(p, <<e.chunk>>)
      [] OTHER             -> Went(p, <<>>)

parse(p, line) ==
    CASE reads = "anthropic" -> parseAnthropicSSE(p, line)
      [] reads = "gemini"    -> parseGeminiSSE(p, line)
      [] reads = "cohere"    -> parseCohereSSE(p, line)
      [] reads = "ollama"    -> readOllama(p, line)
      [] OTHER               -> parseOpenAISSE(p, line)

-----------------------------------------------------------------------------
(* The lines upstreams send for a content: external.  Gemini and Ollama send *)
(* the blocks together or one by one.                                        *)

PerBlock(f(_, _), content) == Concat([i \in DOMAIN content |-> f(i, content[i])])
Fragments(t) == [i \in DOMAIN t |-> <<t[i]>>]
Uses(content) == OfType(content, "use")

AnthropicBlock(i, b) ==
    <<[type |-> "content_block_start", block |-> IF b.type = "use" THEN "tool_use" ELSE "text",
       id |-> IF b.type = "use" THEN b.id ELSE <<>>, name |-> IF b.type = "use" THEN b.name ELSE ""]>>
    \o (IF b.type = "use"
        THEN Map(LAMBDA t : [type |-> "input_json_delta", text |-> t], <<<<>>>> \o Fragments(b.input))
        ELSE Map(LAMBDA t : [type |-> "text_delta", text |-> t], Fragments(b.text)))
    \o <<[type |-> "content_block_stop"]>>

AnthropicLines(content) ==
    <<Noise>> \o PerBlock(AnthropicBlock, content) \o
    <<[type |-> "message_delta", stop |-> IF Uses(content) = <<>> THEN "end_turn" ELSE "tool_use"],
      [type |-> "message_stop"]>>

GeminiLine(parts, finish) ==
    [type |-> "data", candidates |-> TRUE, parts |-> parts, finish |-> finish]
GeminiLines(content, split) ==
    <<Noise, [type |-> "data", candidates |-> FALSE]>> \o
    (IF split THEN Map(LAMBDA b : GeminiLine(<<b>>, ""), content) \o <<GeminiLine(<<>>, "STOP")>>
              ELSE <<GeminiLine(content, "STOP")>>)

CohereEvent(type, kind, text, i, id, name, finish) ==
    <<[type |-> "event", name |-> type],
      [type |-> "", kind |-> kind, text |-> text, index |-> i, id |-> id, name |-> name,
       finish |-> finish]>>
CohereBlock(i, b) ==
    IF b.type = "use" THEN CohereEvent("content-delta", "tool-call", b.input, i - 1, b.id, b.name, "")
    ELSE Concat(Map(LAMBDA t : CohereEvent("content-delta", "text", t, i - 1, <<>>, "", ""),
                    Fragments(b.text)))
CohereLines(content) ==
    PerBlock(CohereBlock, content) \o
    CohereEvent("message-end", "", <<>>, 0, <<>>, "",
                IF Uses(content) = <<>> THEN "COMPLETE" ELSE "TOOL_CALL")

OllamaLine(text, calls, done) ==
    [done |-> done, finish |-> IF done THEN "stop" ELSE "", text |-> text, calls |-> calls]
OllamaLines(content, split) ==
    Concat(Map(LAMBDA b : Map(LAMBDA t : OllamaLine(t, <<>>, FALSE), Fragments(b.text)),
               OfType(content, "text"))) \o
    (IF split THEN Map(LAMBDA b : OllamaLine(<<>>, <<b>>, FALSE), Uses(content))
              ELSE <<OllamaLine(<<>>, Uses(content), FALSE)>>) \o
    <<OllamaLine(<<>>, <<>>, TRUE)>>

Chunk(c) == [type |-> "chunk", chunk |-> c]
OpenAILines(content) ==
    LET Call(i, b) ==
            <<Chunk(ToolCalls(<<StreamToolCall(i - 1, b.id, b.name, <<>>)>>))>> \o
            Map(LAMBDA t : Chunk(ToolCalls(<<StreamToolCall(i - 1, <<>>, "", t)>>)),
                Fragments(b.input))
    IN  <<Chunk(Role), Noise>> \o
        Map(LAMBDA t : Chunk(Content(t)),
            Fragments(Concat(Map(LAMBDA b : b.text, OfType(content, "text"))))) \o
        PerBlock(Call, Uses(content)) \o
        <<Chunk(Finish(IfCalls(Uses(content), "stop"))), [type |-> "[DONE]"]>>

Lines(p, content, split) ==
    CASE p = "anthropic"            -> AnthropicLines(content)
      [] p \in {"gemini", "vertex"} -> GeminiLines(content, split)
      [] p = "cohere"               -> CohereLines(content)
      [] p = "ollama"               -> OllamaLines(content, split)
      [] OTHER                      -> OpenAILines(content)

-----------------------------------------------------------------------------
Init ==
    /\ pc = "idle" /\ target = "none" /\ attempt = 0 /\ pos = 1 /\ err = Nil
    /\ posted = Nothing /\ reads = "none" /\ rest = <<>> /\ parser = NewParser /\ out = <<>> /\ streams = <<>>

(* The handler refuses a request without model or messages, one that the    *)
(* guardrails stop, and a provider that does not stream.                    *)
Open ==
    /\ pc = "idle"
    /\ \E t \in Targets, accepted \in BOOLEAN :
          /\ target' = t
          /\ pc' = IF accepted /\ t \in Streamers \cup {"fallback"} THEN "check" ELSE "failed"
    /\ UNCHANGED <<attempt, pos, err, rest, posted, reads, parser, out, streams>>

(* Router.ChatCompletionStream looks at the cooldown once, before all attempts. *)
CheckCooldown ==
    /\ pc = "check"
    /\ \E available \in BOOLEAN : pc' = IF available THEN "attempt" ELSE "failed"
    /\ UNCHANGED <<target, attempt, pos, err, rest, posted, reads, parser, out, streams>>

(* fn of ExecuteStream: the provider itself, or the chain from its start. *)
Attempt ==
    /\ pc = "attempt"
    /\ pos' = 1 /\ err' = Nil
    /\ pc' = IF target = "fallback" THEN "chain" ELSE "post"
    /\ UNCHANGED <<target, attempt, rest, posted, reads, parser, out, streams>>

(* Fault: a member is asked again instead of skipped. *)
SkipNone == pos' = pos
SkipOne  == pos' = pos + 1

(* Members in cooldown and those that do not stream are skipped. *)
NextInChain ==
    /\ pc = "chain"
    /\ IF pos > Len(Chain)
       THEN pc' = "judge" /\ err' = Wrapped(err) /\ UNCHANGED pos
       ELSE /\ \E available \in BOOLEAN :
                  IF available /\ Chain[pos] \in Streamers
                  THEN pc' = "post" /\ UNCHANGED pos
                  ELSE SkipOne /\ UNCHANGED pc
            /\ UNCHANGED err
    /\ UNCHANGED <<target, attempt, rest, posted, reads, parser, out, streams>>

Written(id, chunks) == Map(LAMBDA c : [id |-> id, chunk |-> c], chunks)

(* The stream of Current ends, with an error or Nil. *)
Ends(e) ==
    /\ err' = e
    /\ rest' = <<>>
    /\ pc' = IF target = "fallback" /\ e # Nil THEN "chain" ELSE "judge"
    /\ pos' = IF target = "fallback" /\ e # Nil THEN pos + 1 ELSE pos

(* No service, no answer, or one with a status that is not 2xx. *)
PostFails ==
    /\ \E e \in PostErrors :
          /\ Ends(e)
          /\ streams' = Append(streams, [provider |-> Current, content |-> <<>>, split |-> FALSE,
                                         err |-> e, broken |-> FALSE])
    /\ UNCHANGED <<parser, out>>

(* Before the first line, all but the Gemini and the OpenAI parser send the role. *)
PostSucceeds ==
    /\ Len(SelectSeq(streams, LAMBDA s : s.content # <<>>)) < MaxOpen
    /\ \E content \in Contents, split \in IF Current \in NoIndexes THEN BOOLEAN ELSE {FALSE} :
          /\ rest' = Lines(Current, content, split)
          /\ streams' = Append(streams, [provider |-> Current, content |-> content, split |-> split,
                                         err |-> Nil, broken |-> FALSE])
    /\ out' = IF Current \in {"anthropic", "cohere", "ollama"}
              THEN out \o Written(Len(streams) + 1, <<Role>>) ELSE out
    /\ parser' = NewParser
    /\ pc' = "read"
    /\ UNCHANGED <<pos, err>>

Post(p, body, format) ==
    /\ pc = "post" /\ Current = p
    /\ posted' = body
    /\ reads' = format
    /\ PostFails \/ PostSucceeds
    /\ UNCHANGED <<target, attempt>>

(* ChatCompletionStream of each provider. *)
AnthropicStream   == Post("anthropic", translateToAnthropic(Request), "anthropic")
GeminiStream      == Post("gemini", translateToGemini(Request), "gemini")
CohereStream      == Post("cohere", translateToCohere(Request), "cohere")
OllamaStream      == Post("ollama", translateToOllama(Request), "ollama")
OpenAIStream      == Post("openai", Unchanged(Request), "openai")
AzureStream       == Post("azure", Unchanged(Request), "openai")
HuggingFaceStream == Post("huggingface", Unchanged(Request), "openai")

(* Fault: the request goes to Vertex as it came. *)
VertexStreamUntranslated == Post("vertex", Unchanged(Request), "gemini")
VertexStream             == Post("vertex", translateToGemini(Request), "gemini")

ReadLine ==
    /\ pc = "read" /\ rest # <<>>
    /\ LET step == parse(parser, Head(rest)) IN
          /\ parser' = step.parser
          /\ out' = out \o Written(Len(streams), step.chunks)
          /\ IF step.returns THEN Ends(Nil)
             ELSE rest' = Tail(rest) /\ UNCHANGED <<pc, pos, err>>
    /\ UNCHANGED <<target, attempt, posted, reads, streams>>

(* The body ends, after its last line or before: the parsers return nil. *)
EndOfBody ==
    /\ pc = "read"
    /\ Ends(Nil)
    /\ UNCHANGED <<target, attempt, posted, reads, parser, out, streams>>

(* What a parser returns if reading fails: scanner.Err(), or the error of    *)
(* Decode; but Ollama's dec.More() takes an error between two messages for   *)
(* the end.  Fault: the error of the scanner is dropped.                     *)
ReadErrorDropped(e) == {Nil}
ReadError(e)        == IF Current = "ollama" THEN {e, Nil} ELSE {e}

ReadFails ==
    /\ pc = "read"
    /\ \E e \in ReadErrors : \E returned \in ReadError(e) :
          /\ Ends(returned)
          /\ streams' = [streams EXCEPT ![Len(streams)].err = returned,
                                        ![Len(streams)].broken = TRUE]
    /\ UNCHANGED <<target, attempt, posted, reads, parser, out>>

(* ExecuteStream after fn returned. *)
NoAttemptLeft == attempt = MaxRetries

Judge ==
    /\ pc = "judge"
    /\ pc' = IF err = Nil THEN "ok"
             ELSE IF ~IsRetryable(ClassifyFromError(err)) \/ NoAttemptLeft THEN "failed"
             ELSE "backoff"
    /\ UNCHANGED <<target, attempt, pos, err, rest, posted, reads, parser, out, streams>>

Backoff ==
    /\ pc = "backoff"
    /\ \/ pc' = "failed" /\ UNCHANGED attempt          \* ctx.Done()
       \/ pc' = "attempt" /\ attempt' = attempt + 1
    /\ UNCHANGED <<target, pos, err, rest, posted, reads, parser, out, streams>>

Done ==
    /\ pc = "ok"
    /\ out' = out \o Written(0, <<[k |-> "[DONE]"]>>)
    /\ pc' = "done"
    /\ UNCHANGED <<target, attempt, pos, err, rest, posted, reads, parser, streams>>

Next ==
    \/ Open \/ CheckCooldown \/ Attempt \/ NextInChain
    \/ AnthropicStream \/ GeminiStream \/ VertexStream \/ CohereStream \/ OllamaStream
    \/ OpenAIStream \/ AzureStream \/ HuggingFaceStream
    \/ ReadLine \/ EndOfBody \/ ReadFails \/ Judge \/ Backoff \/ Done

(* The handler's goroutine runs; an upstream sends its lines or its body ends *)
(* or fails.                                                                  *)
Spec == Init /\ [][Next]_vars /\ WF_vars(Next)

-----------------------------------------------------------------------------
TypeOK ==
    /\ pc \in {"idle", "check", "attempt", "chain", "post", "read", "judge", "backoff", "ok",
               "done", "failed"}
    /\ target \in Targets \cup {"none"}
    /\ attempt \in 0..MaxRetries /\ pos \in 1..(Len(Chain) + 1)
    /\ err.status \in Nat
    /\ \A i \in DOMAIN out : out[i].id \in 0..Len(streams)
    /\ \A i \in DOMAIN streams : streams[i].provider \in Streamers
    /\ pc # "read" => rest = <<>>

(* The roles a format knows. *)
Roles(format) ==
    CASE format = "gemini"    -> {"user", "model"}
      [] format = "anthropic" -> {"user", "assistant"}
      [] OTHER                -> {"user", "assistant", "tool"}

(* Whichever provider of the chain it comes to, after whatever attempts: the  *)
(* conversation is posted whole, in order and in the roles of the format that *)
(* the answer is read in.                                                     *)
PostedFits ==
    /\ TypeOK
    /\ pc = "read" =>
        /\ \A i \in DOMAIN posted.msgs : posted.msgs[i].role \in Roles(reads)
        /\ LET texts(seq) == SelectSeq(seq, LAMBDA t : t # <<>>) IN
           texts(Map(LAMBDA b : b.text,
                     SelectSeq(Concat(Map(LAMBDA t : t.blocks, posted.msgs)),
                               LAMBDA b : b.type # "use")))
               = texts(Map(LAMBDA m : m.content, NotSystem(Request.messages)))

(* What a client that follows the OpenAI protocol makes of the chunks of one *)
(* id: the texts in a row, and the calls put together by their index.        *)
ChunksOf(id, k) ==
    Map(LAMBDA o : o.chunk, SelectSeq(out, LAMBDA o : o.id = id /\ o.chunk.k = k))
TextGot(id)  == Concat(Map(LAMBDA c : c.text, ChunksOf(id, "text")))
CallsGot(id) ==
    LET all   == Concat(Map(LAMBDA c : c.calls, ChunksOf(id, "calls")))
        args(i) == Concat(Map(LAMBDA f : f.args, SelectSeq(all, LAMBDA f : f.index = i)))
    IN  Map(LAMBDA f : [name |-> f.name, args |-> args(f.index)],
            SelectSeq(all, LAMBDA f : f.name # ""))

TextSent(id)  == Concat(Map(LAMBDA b : b.text, OfType(streams[id].content, "text")))
CallsSent(id) == Map(LAMBDA b : [name |-> b.name, args |-> b.input], Uses(streams[id].content))

(* Gemini and Ollama know no index, and the gateway counts within one event. *)
IndexKnown(id) ==
    streams[id].provider \in NoIndexes /\ streams[id].split
        => Len(CallsSent(id)) <= 1

(* However often a stream is started again, by the retries or by the next    *)
(* provider of the chain, the chunks with one id are the beginning of one     *)
(* upstream's answer: the role, once; then its text in order, its calls each  *)
(* with its own arguments, also where text and calls, or several calls,       *)
(* alternate; and all of it when there is a finish chunk.  A client can tell  *)
(* where a stream was started again, and has everything when it sees a        *)
(* finish, whatever happens to the stream after it.                           *)
OneAnswerPerID ==
    \A id \in DOMAIN streams :
        LET chunks == SelectSeq(out, LAMBDA o : o.id = id)
            whole  == ChunksOf(id, "finish") # <<>>
            got    == CallsGot(id)
            sent   == CallsSent(id)
        IN  /\ chunks # <<>> => chunks[1].chunk = Role /\ Len(ChunksOf(id, "role")) = 1
            /\ IsPrefix(TextGot(id), TextSent(id))
            /\ whole => TextGot(id) = TextSent(id)
            /\ IndexKnown(id) =>
                  /\ Len(got) <= Len(sent)
                  /\ \A i \in DOMAIN got : /\ got[i].name = sent[i].name
                                           /\ IsPrefix(got[i].args, sent[i].args)
                  /\ whole => got = sent

(* [DONE] is not written over an error: if the latest stream broke, the       *)
(* request fails, unless it is Ollama's and broke between two messages.        *)
DoneHidesNoError ==
    pc = "done" => LET last == streams[Len(streams)] IN
                   last.err = Nil /\ (last.broken => last.provider = "ollama")

(* An upstream says that the key is no good, and its answer does not mention  *)
(* a deadline: ClassifyError looks for one before it looks at the status.     *)
Denied(e) == e.status \in {401, 403} /\ "deadline exceeded" \notin e.before \cup e.body

(* A stream is started again only for a reason: after an error, never by a    *)
(* provider asked for by name that answered 401 or 403, whatever the body of   *)
(* the answer says unless it is of a deadline, and never after the finish      *)
(* chunk of Cohere or Ollama, whose parsers return there: nothing but [DONE]   *)
(* follows it.  (The others read on after the finish and can fail and be       *)
(* retried.)                                                                   *)
NoNeedlessRestart ==
    /\ \A i \in 1..(Len(streams) - 1) :
          /\ streams[i].err # Nil
          /\ target # "fallback" => ~Denied(streams[i].err)
    /\ \A i \in DOMAIN out :
          out[i].chunk.k = "finish" /\ streams[out[i].id].provider \in {"cohere", "ollama"}
          => \A j \in (i + 1)..Len(out) : out[j].chunk.k = "[DONE]"

(* Every request that is let in gets its [DONE] or an error, however often    *)
(* its stream breaks and whichever members of the chain are in cooldown.      *)
StreamEnds == pc = "check" ~> pc \in {"done", "failed"}
=============================================================================

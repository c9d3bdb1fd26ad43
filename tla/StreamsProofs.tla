--------------------------- MODULE StreamsProofs ----------------------------
(***************************************************************************)
(* Proofs about Streams, for any chain, any number of retries, any lines   *)
(* an upstream sends and any errors.  StreamInv is inductive next to       *)
(* StreamType; DoneHidesNoError and NoNeedlessRestart follow.              *)
(***************************************************************************)
EXTENDS Streams, TLAPS

Errors == PostErrors \cup ReadErrors \cup {Nil}
Calls  == [provider : Streamers, content : Contents \cup {<<>>}, split : BOOLEAN,
           err : Errors, broken : BOOLEAN]

IsSeq(s) == \E S : s \in Seq(S)

PCs == {"idle", "check", "attempt", "chain", "post", "read", "judge", "backoff", "ok", "done", "failed"}

(* What TypeOK says, and the histories are sequences; a member of the chain  *)
(* is asked, and an attempt is left after the pause.                         *)
StreamType ==
    /\ pc \in PCs /\ target \in Targets \cup {"none"}
    /\ attempt \in 0..MaxRetries /\ (pc = "backoff" => attempt # MaxRetries)
    /\ pos \in 1..(Len(Chain) + 1)
    /\ pc \in {"post", "read"} /\ target = "fallback" => pos <= Len(Chain)
    /\ err.status \in Nat
    /\ streams \in Seq(Calls) /\ IsSeq(out)
    /\ \A i \in DOMAIN out : out[i].id \in 0..Len(streams)
    /\ pc # "read" => rest = <<>>

Latest == streams[Len(streams)]

(* A stream of target t that may be followed by another one. *)
Excused(t, s) == s.err # Nil /\ (t # "fallback" => ~Denied(s.err))

(* The latest stream may be. *)
MayBegin == streams = <<>> \/ Excused(target, Latest)

(* It has ended without an error, as far as its parser can tell. *)
Ended == streams # <<>> /\ Latest.err = Nil /\ (Latest.broken => Latest.provider = "ollama")

(* It is being read, by the parser of its provider. *)
Reading ==
    /\ streams # <<>> /\ Latest.err = Nil /\ ~Latest.broken /\ Latest.provider = Current
    /\ Current \in {"cohere", "ollama"} => reads = Current

(* Its error is the one that is judged. *)
Judged ==
    IF target = "fallback" THEN streams = <<>> \/ Latest.err # Nil
    ELSE streams # <<>> /\ Latest.err = err

(* A chunk after which the parser has returned. *)
Final(i) == out[i].chunk.k = "finish" /\ streams[out[i].id].provider \in {"cohere", "ollama"}

FlowInv ==
    /\ \A i \in 1..(Len(streams) - 1) : Excused(target, streams[i])
    /\ pc \in {"idle", "check"} => streams = <<>>
    /\ pc = "chain" => target = "fallback"
    /\ pc \in {"attempt", "chain", "post", "backoff"} => MayBegin
    /\ pc = "read" => Reading
    /\ pc = "judge" /\ err # Nil => Judged
    /\ pc \in {"judge", "ok", "done"} /\ err = Nil => Ended
    /\ pc \in {"ok", "done"} => err = Nil

FinalInv ==
    \A i \in DOMAIN out :
        /\ out[i].chunk.k = "finish" => out[i].id \in DOMAIN streams
        /\ Final(i) => /\ pc \in {"judge", "ok", "done"} /\ err = Nil
                       /\ \A j \in (i + 1)..Len(out) : out[j].chunk.k = "[DONE]"

StreamInv == StreamType /\ FlowInv /\ FinalInv

-----------------------------------------------------------------------------
(* Sequences of chunks *)

(* No chunk, and one. *)
LEMMA ShortSeq == ASSUME NEW x PROVE IsSeq(<<>>) /\ IsSeq(<<x>>)
  <1>1. <<>> \in Seq({x}) /\ <<x>> \in Seq({x})
    OBVIOUS
  <1> QED BY <1>1 DEF IsSeq

(* One after the other. *)
LEMMA Joined ==
    ASSUME NEW s, NEW t, IsSeq(s), IsSeq(t)
    PROVE  /\ IsSeq(s \o t) /\ Len(s) \in Nat /\ Len(t) \in Nat
           /\ DOMAIN s = 1..Len(s) /\ DOMAIN (s \o t) = 1..(Len(s) + Len(t))
           /\ Len(s \o t) = Len(s) + Len(t)
           /\ \A i \in 1..Len(s) : (s \o t)[i] = s[i]
           /\ \A i \in (Len(s) + 1)..(Len(s) + Len(t)) : (s \o t)[i] = t[i - Len(s)]
  <1>1. PICK S : s \in Seq(S)
    BY DEF IsSeq
  <1>2. PICK T : t \in Seq(T)
    BY DEF IsSeq
  <1> DEFINE U == S \cup T
  <1>3. s \in Seq(U) /\ t \in Seq(U)
    BY <1>1, <1>2
  <1> HIDE DEF U
  <1>4. s \o t \in Seq(U)
    BY <1>3
  <1> QED BY <1>3, <1>4 DEF IsSeq

(* What IfAny makes of anything. *)
LEMMA IfAnySeq == ASSUME NEW s, NEW c PROVE IsSeq(IfAny(s, c))
  BY ShortSeq DEF IfAny

(* Chunks are written with the number of their stream. *)
LEMMA WrittenSeq ==
    ASSUME NEW id, NEW s, IsSeq(s)
    PROVE  /\ IsSeq(Written(id, s)) /\ Len(Written(id, s)) = Len(s)
           /\ \A i \in 1..Len(s) : Written(id, s)[i] = [id |-> id, chunk |-> s[i]]
  <1>1. PICK S : s \in Seq(S)
    BY DEF IsSeq
  <1> DEFINE w == [i \in 1..Len(s) |-> [id |-> id, chunk |-> s[i]]]
             W == {[id |-> id, chunk |-> c] : c \in S}
  <1>2. Written(id, s) = w
    BY <1>1 DEF Written, Map
  <1>3. w \in Seq(W) /\ Len(w) = Len(s)
    BY <1>1
  <1>4. \A i \in 1..Len(s) : w[i] = [id |-> id, chunk |-> s[i]]
    OBVIOUS
  <1> HIDE DEF w, W
  <1>5. IsSeq(w)
    BY <1>3 DEF IsSeq
  <1> QED BY <1>2, <1>3, <1>4, <1>5

(* What Anthropic's parser hands to onChunk. *)
LEMMA AnthropicSeq == ASSUME NEW p, NEW e PROVE IsSeq(parseAnthropicSSE(p, e).chunks)
  BY ShortSeq, IfAnySeq DEF parseAnthropicSSE, Went, Returned

(* Gemini's: a role, texts, calls and the end. *)
LEMMA GeminiSeq == ASSUME NEW p, NEW e PROVE IsSeq(parseGeminiSSE(p, e).chunks)
  <1>1. IsSeq(GeminiChunks(p, e))
    <2>1. \A s, t : IsSeq(s) /\ IsSeq(t) => IsSeq(s \o t)
      BY Joined
    <2> QED BY <2>1, ShortSeq, IfAnySeq DEF GeminiChunks
  <1>2. IsSeq((IF p.firstChunk THEN <<Role>> ELSE <<>>) \o GeminiChunks(p, e))
    BY <1>1, ShortSeq, Joined
  <1> QED BY <1>2, ShortSeq DEF parseGeminiSSE, Went

(* That of the OpenAI format. *)
LEMMA OpenAISeq == ASSUME NEW p, NEW e PROVE IsSeq(parseOpenAISSE(p, e).chunks)
  BY ShortSeq DEF parseOpenAISSE, Went, Returned

(* The parsers of Cohere and Ollama return with the finish chunk, the last   *)
(* one they hand on.                                                         *)
OnlyAtEnd(step) ==
    \/ step.chunks = <<>>
    \/ \E c : step.chunks = <<c>> /\ (c.k = "finish" => step.returns)

(* Cohere's does. *)
LEMMA CohereFinish == ASSUME NEW p, NEW e PROVE OnlyAtEnd(parseCohereSSE(p, e))
  <1> DEFINE type == IF e.type = "" THEN p.lastEventType ELSE e.type
             q == [p EXCEPT !.lastEventType = e.name]
  <1>1. OnlyAtEnd(Went(q, <<>>)) /\ OnlyAtEnd(Went(p, <<>>))
    BY DEF OnlyAtEnd, Went
  <1>2. OnlyAtEnd(Went(p, IfAny(e.text, Content(e.text))))
    BY DEF OnlyAtEnd, Went, IfAny, Content
  <1>3. OnlyAtEnd(Went(p, <<ToolCalls(<<StreamToolCall(e.index, e.id, e.name, e.text)>>)>>))
    BY DEF OnlyAtEnd, Went, ToolCalls
  <1>4. OnlyAtEnd(MessageEnd(p, e))
    BY DEF OnlyAtEnd, MessageEnd, Returned
  <1> HIDE DEF q
  <1>5. parseCohereSSE(p, e) \in {Went(q, <<>>), Went(p, <<>>), Went(p, IfAny(e.text, Content(e.text))),
                                  Went(p, <<ToolCalls(<<StreamToolCall(e.index, e.id, e.name, e.text)>>)>>),
                                  MessageEnd(p, e)}
    BY DEF parseCohereSSE, q
  <1> QED BY <1>1, <1>2, <1>3, <1>4, <1>5

(* Ollama's does. *)
LEMMA OllamaFinish == ASSUME NEW p, NEW e PROVE OnlyAtEnd(readOllama(p, e))
  BY DEF OnlyAtEnd, readOllama, Went, Returned, IfAny, Content, ToolCalls

(* Whatever is read, a sequence of chunks comes out. *)
LEMMA ParsedSeq == ASSUME NEW p, NEW e PROVE IsSeq(parse(p, e).chunks)
  <1>1. \A step : OnlyAtEnd(step) => IsSeq(step.chunks)
    BY ShortSeq DEF OnlyAtEnd
  <1>2. IsSeq(parseCohereSSE(p, e).chunks) /\ IsSeq(readOllama(p, e).chunks)
    BY <1>1, CohereFinish, OllamaFinish
  <1> QED BY <1>2, AnthropicSeq, GeminiSeq, OpenAISeq DEF parse

-----------------------------------------------------------------------------
(* Errors *)

(* Nil is no error, and what is wrapped is one. *)
LEMMA ErrorStatus ==
    /\ Nil.status = 0
    /\ \A e \in PostErrors \cup ReadErrors : e # Nil /\ e.status \in Nat
    /\ \A e : e.status \in Nat => Wrapped(e) # Nil /\ Wrapped(e).status \in Nat
  BY ErrorsAssumption DEF Nil, Error, Wrapped

(* What is denied is not asked for again. *)
LEMMA DeniedIsFinal ==
    ASSUME NEW e, Denied(e) PROVE ~IsRetryable(ClassifyFromError(e))
  <1>1. e.status \in {401, 403}
    BY DEF Denied
  <1>2. "deadline exceeded" \notin e.before \cup e.body
    BY DEF Denied
  <1>3. e.status # 0
    BY <1>1
  <1>4. parseProviderErrorString(e) = [code |-> e.status, body |-> e.body]
    BY <1>3 DEF parseProviderErrorString
  <1>5. ASSUME NEW c \in {401, 403}, NEW b PROVE ClassifyError(e, c, b) = "auth"
    <2>1. c # 429 /\ ~(c >= 500)
      BY <1>5
    <2>2. c \in {401, 403}
      BY <1>5
    <2> QED BY <1>2, <2>1, <2>2, Zenon DEF ClassifyError
  <1>6. ClassifyFromError(e) = "auth"
    BY <1>1, <1>4, <1>5 DEF ClassifyFromError
  <1> QED BY <1>6 DEF IsRetryable

-----------------------------------------------------------------------------
(* The chunks *)

Resting == {"judge", "ok", "done"}

(* A step that writes nothing. *)
LEMMA FinalSame ==
    ASSUME FinalInv, out' = out, DOMAIN streams \subseteq DOMAIN streams',
           \A i \in DOMAIN streams : streams'[i].provider = streams[i].provider,
           pc \in Resting /\ err = Nil => pc' \in Resting /\ err' = Nil
    PROVE  FinalInv'
  <1> SUFFICES ASSUME NEW i \in DOMAIN out
               PROVE  /\ out'[i].chunk.k = "finish" => out'[i].id \in DOMAIN streams'
                      /\ Final(i)' => /\ pc' \in Resting /\ err' = Nil
                                      /\ \A j \in (i + 1)..Len(out') : out'[j].chunk.k = "[DONE]"
    BY DEF FinalInv, Resting
  <1>1. out[i].chunk.k = "finish" => out[i].id \in DOMAIN streams
    BY DEF FinalInv
  <1>2. ASSUME Final(i)' PROVE Final(i)
    BY <1>1, <1>2 DEF Final
  <1>3. Final(i) => /\ pc \in Resting /\ err = Nil
                    /\ \A j \in (i + 1)..Len(out) : out[j].chunk.k = "[DONE]"
    BY DEF FinalInv, Resting
  <1> QED BY <1>1, <1>2, <1>3

(* A step that writes while no parser has returned: only the last chunk may  *)
(* be final, and its parser returns.                                         *)
LEMMA FinalMore ==
    ASSUME FinalInv, IsSeq(out), pc \notin Resting, NEW w, IsSeq(w), out' = out \o w,
           DOMAIN streams \subseteq DOMAIN streams',
           \A i \in DOMAIN streams : streams'[i].provider = streams[i].provider,
           \A j \in 1..Len(w) : w[j].chunk.k = "finish" =>
               /\ w[j].id \in DOMAIN streams'
               /\ streams'[w[j].id].provider \in {"cohere", "ollama"} =>
                     j = Len(w) /\ pc' \in Resting /\ err' = Nil
    PROVE  FinalInv'
  <1>1. /\ IsSeq(out') /\ Len(out) \in Nat /\ Len(w) \in Nat
        /\ DOMAIN out = 1..Len(out) /\ DOMAIN out' = 1..(Len(out) + Len(w))
        /\ Len(out') = Len(out) + Len(w)
        /\ \A i \in 1..Len(out) : out'[i] = out[i]
        /\ \A i \in (Len(out) + 1)..(Len(out) + Len(w)) : out'[i] = w[i - Len(out)]
    BY Joined
  <1> SUFFICES ASSUME NEW i \in DOMAIN out'
               PROVE  /\ out'[i].chunk.k = "finish" => out'[i].id \in DOMAIN streams'
                      /\ Final(i)' => /\ pc' \in Resting /\ err' = Nil
                                      /\ \A j \in (i + 1)..Len(out') : out'[j].chunk.k = "[DONE]"
    BY DEF FinalInv, Resting
  <1>2. CASE i \in 1..Len(out)
    <2>1. out'[i] = out[i] /\ i \in DOMAIN out
      BY <1>1, <1>2
    <2>2. out[i].chunk.k = "finish" => out[i].id \in DOMAIN streams
      BY <2>1 DEF FinalInv
    <2>3. ~Final(i)
      BY <2>1 DEF FinalInv, Resting
    <2>4. ~Final(i)'
      BY <2>1, <2>2, <2>3 DEF Final
    <2> QED BY <2>1, <2>2, <2>4
  <1>3. CASE i \in (Len(out) + 1)..(Len(out) + Len(w))
    <2>1. out'[i] = w[i - Len(out)] /\ i - Len(out) \in 1..Len(w)
      BY <1>1, <1>3
    <2>2. ASSUME Final(i)' PROVE i = Len(out') /\ pc' \in Resting /\ err' = Nil
      <3>1. i - Len(out) = Len(w) /\ pc' \in Resting /\ err' = Nil
        BY <2>1, <2>2 DEF Final
      <3> QED BY <1>1, <1>3, <3>1
    <2>3. i = Len(out') => (i + 1)..Len(out') = {}
      BY <1>1, <1>3
    <2> QED BY <2>1, <2>2, <2>3
  <1> QED BY <1>1, <1>2, <1>3

(* A stream is added to the history. *)
LEMMA OneMore ==
    ASSUME streams \in Seq(Calls), NEW c \in Calls, streams' = Append(streams, c)
    PROVE  /\ streams' \in Seq(Calls) /\ Len(streams') = Len(streams) + 1 /\ Len(streams) \in Nat
           /\ \A i \in 1..Len(streams) : streams'[i] = streams[i]
           /\ Latest' = c /\ streams' # <<>>
           /\ DOMAIN streams = 1..Len(streams) /\ DOMAIN streams' = 1..(Len(streams) + 1)
  BY DEF Latest

(* After it, all the ones before are excused. *)
LEMMA ExcusedBefore ==
    ASSUME streams \in Seq(Calls), NEW c \in Calls, streams' = Append(streams, c), target' = target,
           FlowInv, MayBegin
    PROVE  \A i \in 1..(Len(streams') - 1) : Excused(target', streams'[i])
  <1>1. /\ Len(streams') = Len(streams) + 1 /\ Len(streams) \in Nat
        /\ \A i \in 1..Len(streams) : streams'[i] = streams[i]
    BY OneMore
  <1>2. \A i \in 1..(Len(streams) - 1) : Excused(target, streams[i])
    BY DEF FlowInv
  <1>3. Len(streams) # 0 => Excused(target, streams[Len(streams)])
    BY DEF MayBegin, Latest
  <1> SUFFICES ASSUME NEW i \in 1..Len(streams) PROVE Excused(target, streams[i])
    BY <1>1
  <1>4. CASE i = Len(streams)
    BY <1>1, <1>3, <1>4
  <1>5. CASE i # Len(streams)
    BY <1>1, <1>2, <1>5
  <1> QED BY <1>4, <1>5

-----------------------------------------------------------------------------
(* The steps *)

(* What a request that was posted leaves alone, and who it was posted to. *)
Asked(p, format) ==
    /\ pc = "post" /\ Current = p /\ p \in Streamers /\ reads' = format
    /\ p \in {"cohere", "ollama"} => format = p
    /\ UNCHANGED <<target, attempt>>

(* No upstream answers: the next one is asked, or the error is judged. *)
LEMMA PostFailsStep ==
    ASSUME StreamInv, NEW p, NEW format, Asked(p, format), PostFails PROVE StreamInv'
  <1> USE DEF StreamInv
  <1>1. PICK e \in PostErrors :
            /\ Ends(e)
            /\ streams' = Append(streams, [provider |-> Current, content |-> <<>>, split |-> FALSE,
                                           err |-> e, broken |-> FALSE])
    BY DEF PostFails
  <1> DEFINE c == [provider |-> Current, content |-> <<>>, split |-> FALSE, err |-> e, broken |-> FALSE]
  <1>2. c \in Calls /\ c.err = e
    BY DEF Calls, Errors, Asked
  <1>3. streams \in Seq(Calls)
    BY DEF StreamType
  <1>4. streams' = Append(streams, c)
    BY <1>1
  <1> HIDE DEF c
  <1>5. /\ streams' \in Seq(Calls) /\ Len(streams') = Len(streams) + 1 /\ Len(streams) \in Nat
        /\ \A i \in 1..Len(streams) : streams'[i] = streams[i]
        /\ Latest' = c /\ streams' # <<>>
        /\ DOMAIN streams = 1..Len(streams) /\ DOMAIN streams' = 1..(Len(streams) + 1)
    BY <1>2, <1>3, <1>4, OneMore
  <1>6. /\ e # Nil /\ e.status \in Nat /\ err' = e /\ rest' = <<>> /\ out' = out
        /\ target' = target /\ attempt' = attempt /\ pc = "post"
        /\ target = "fallback" => pc' = "chain" /\ pos' = pos + 1
        /\ target # "fallback" => pc' = "judge" /\ pos' = pos
    BY <1>1, ErrorStatus DEF Ends, PostFails, Asked
  <1>7. MayBegin
    BY <1>6 DEF FlowInv
  <1>8. StreamType'
    <2>1. pos' \in 1..(Len(Chain) + 1)
      <3>1. Len(Chain) \in Nat
        BY StreamsAssumption
      <3> QED BY <1>6, <3>1 DEF StreamType
    <2>2. \A i \in DOMAIN out' : out'[i].id \in 0..Len(streams')
      BY <1>5, <1>6 DEF StreamType
    <2> QED BY <1>5, <1>6, <2>1, <2>2 DEF StreamType, PCs
  <1>9. FlowInv'
    <2>1. \A i \in 1..(Len(streams') - 1) : Excused(target', streams'[i])
      BY <1>2, <1>3, <1>4, <1>6, <1>7, ExcusedBefore
    <2>2. target = "fallback" => MayBegin'
      BY <1>2, <1>5, <1>6 DEF MayBegin, Excused
    <2>3. target # "fallback" => Judged'
      BY <1>2, <1>5, <1>6 DEF Judged
    <2> QED BY <1>6, <2>1, <2>2, <2>3 DEF FlowInv
  <1>10. FinalInv'
    BY <1>5, <1>6, FinalSame DEF Resting
  <1> QED BY <1>8, <1>9, <1>10

(* One begins to answer. *)
LEMMA PostSucceedsStep ==
    ASSUME StreamInv, NEW p, NEW format, Asked(p, format), PostSucceeds PROVE StreamInv'
  <1> USE DEF StreamInv
  <1>1. PICK content \in Contents, split \in BOOLEAN :
            streams' = Append(streams, [provider |-> Current, content |-> content, split |-> split,
                                        err |-> Nil, broken |-> FALSE])
    BY DEF PostSucceeds
  <1> DEFINE c == [provider |-> Current, content |-> content, split |-> split, err |-> Nil, broken |-> FALSE]
             w == Written(Len(streams) + 1, <<Role>>)
  <1>2. c \in Calls /\ c.err = Nil /\ c.provider = Current /\ ~c.broken
    BY DEF Calls, Errors, Asked
  <1>3. streams \in Seq(Calls)
    BY DEF StreamType
  <1>4. streams' = Append(streams, c)
    BY <1>1
  <1> HIDE DEF c
  <1>5. /\ streams' \in Seq(Calls) /\ Len(streams') = Len(streams) + 1 /\ Len(streams) \in Nat
        /\ \A i \in 1..Len(streams) : streams'[i] = streams[i]
        /\ Latest' = c /\ streams' # <<>>
        /\ DOMAIN streams = 1..Len(streams) /\ DOMAIN streams' = 1..(Len(streams) + 1)
    BY <1>2, <1>3, <1>4, OneMore
  <1>6. /\ pc = "post" /\ pc' = "read" /\ target' = target /\ attempt' = attempt /\ pos' = pos /\ err' = err
        /\ out' = out \/ out' = out \o w
        /\ reads' = format /\ (Current \in {"cohere", "ollama"} => format = Current)
    BY DEF PostSucceeds, Asked
  <1>7. MayBegin
    BY <1>6 DEF FlowInv
  <1>8. /\ IsSeq(w) /\ Len(w) = 1 /\ w[1].id = Len(streams) + 1 /\ w[1].chunk.k = "role"
    <2>1. IsSeq(<<Role>>) /\ Len(<<Role>>) = 1 /\ <<Role>>[1] = Role
      BY ShortSeq
    <2> DEFINE one == <<Role>>
               n == Len(streams) + 1
    <2> HIDE DEF one, n
    <2>2. IsSeq(one) /\ Len(one) = 1 /\ one[1] = Role
      BY <2>1 DEF one
    <2>3. /\ IsSeq(Written(n, one)) /\ Len(Written(n, one)) = Len(one)
          /\ \A i \in 1..Len(one) : Written(n, one)[i] = [id |-> n, chunk |-> one[i]]
      BY <2>2, WrittenSeq
    <2>4. Written(n, one)[1] = [id |-> n, chunk |-> Role]
      BY <2>2, <2>3
    <2>5. w = Written(n, one)
      BY DEF n, one
    <2> QED BY <2>2, <2>3, <2>4, <2>5 DEF n, Role
  <1> HIDE DEF w
  <1>9. IsSeq(out)
    BY DEF StreamType
  <1>10. StreamType'
    <2>1. IsSeq(out') /\ \A i \in DOMAIN out' : out'[i].id \in 0..Len(streams')
      <3>1. CASE out' = out
        BY <1>5, <3>1 DEF StreamType
      <3>2. CASE out' = out \o w
        <4>1. /\ IsSeq(out') /\ Len(out) \in Nat /\ DOMAIN out = 1..Len(out)
              /\ DOMAIN out' = 1..(Len(out) + 1)
              /\ \A i \in 1..Len(out) : out'[i] = out[i]
              /\ \A i \in (Len(out) + 1)..(Len(out) + 1) : out'[i] = w[i - Len(out)]
          <5>1. /\ IsSeq(out \o w) /\ Len(out) \in Nat /\ DOMAIN out = 1..Len(out)
                /\ DOMAIN (out \o w) = 1..(Len(out) + Len(w))
                /\ \A i \in 1..Len(out) : (out \o w)[i] = out[i]
                /\ \A i \in (Len(out) + 1)..(Len(out) + Len(w)) : (out \o w)[i] = w[i - Len(out)]
            BY <1>8, <1>9, Joined
          <5> QED BY <1>8, <3>2, <5>1
        <4>2. out'[Len(out) + 1] = w[1]
          BY <4>1
        <4>3. \A i \in 1..Len(out) : out'[i].id \in 0..Len(streams')
          BY <1>5, <4>1 DEF StreamType
        <4> QED BY <1>5, <1>8, <4>1, <4>2, <4>3
      <3> QED BY <1>6, <3>1, <3>2
    <2> QED BY <1>5, <1>6, <2>1 DEF StreamType, PCs
  <1>11. FlowInv'
    <2>1. \A i \in 1..(Len(streams') - 1) : Excused(target', streams'[i])
      BY <1>2, <1>3, <1>4, <1>6, <1>7, ExcusedBefore
    <2>2. Current' = Current
      BY <1>6 DEF Current
    <2>3. Reading'
      BY <1>2, <1>5, <1>6, <2>2 DEF Reading
    <2> QED BY <1>6, <2>1, <2>3 DEF FlowInv
  <1>12. FinalInv'
    <2>1. pc \notin Resting
      BY <1>6 DEF Resting
    <2>2. \A i \in DOMAIN streams : streams'[i].provider = streams[i].provider
      BY <1>5
    <2>3. DOMAIN streams \subseteq DOMAIN streams'
      BY <1>5
    <2>4. CASE out' = out
      BY <2>1, <2>2, <2>3, <2>4, FinalSame
    <2>5. CASE out' = out \o w
      <3>1. \A j \in 1..Len(w) : w[j].chunk.k # "finish"
        BY <1>8
      <3> QED BY <1>8, <1>9, <2>1, <2>2, <2>3, <2>5, <3>1, FinalMore
    <2> QED BY <1>6, <2>4, <2>5
  <1> QED BY <1>10, <1>11, <1>12

(* ChatCompletionStream of every provider. *)
LEMMA PostStep ==
    ASSUME StreamInv, NEW p \in Streamers, NEW body, NEW format, Post(p, body, format),
           p \in {"cohere", "ollama"} => format = p
    PROVE  StreamInv'
  <1>1. Asked(p, format) /\ (PostFails \/ PostSucceeds)
    BY DEF Post, Asked
  <1> QED BY <1>1, PostFailsStep, PostSucceedsStep

(* A line is read: the role, texts, calls, or the end. *)
LEMMA ReadLineStep == ASSUME StreamInv, ReadLine PROVE StreamInv'
  <1> USE DEF StreamInv
  <1> DEFINE step == parse(parser, Head(rest))
             w == Written(Len(streams), step.chunks)
  <1>1. /\ pc = "read" /\ out' = out \o w
        /\ UNCHANGED <<target, attempt, reads, streams>>
        /\ IF step.returns THEN Ends(Nil) ELSE UNCHANGED <<pc, pos, err>>
    BY DEF ReadLine
  <1>2. IsSeq(step.chunks) /\ IsSeq(out)
    BY ParsedSeq DEF StreamType
  <1>3. /\ IsSeq(w) /\ Len(w) = Len(step.chunks)
        /\ \A i \in 1..Len(w) : w[i].id = Len(streams) /\ w[i].chunk = step.chunks[i]
    <2>1. /\ IsSeq(w) /\ Len(w) = Len(step.chunks)
          /\ \A i \in 1..Len(step.chunks) : w[i] = [id |-> Len(streams), chunk |-> step.chunks[i]]
      <3> HIDE DEF step
      <3> QED BY <1>2, WrittenSeq
    <2> HIDE DEF step, w
    <2>2. ASSUME NEW i \in 1..Len(step.chunks)
          PROVE  w[i].id = Len(streams) /\ w[i].chunk = step.chunks[i]
      <3>1. w[i] = [id |-> Len(streams), chunk |-> step.chunks[i]]
        BY <2>1
      <3> QED BY <3>1
    <2> QED BY <2>1, <2>2
  <1>4. Current \in {"cohere", "ollama"} => OnlyAtEnd(step)
    <2>1. Current \in {"cohere", "ollama"} => reads = Current
      BY <1>1 DEF FlowInv, Reading
    <2>2. reads = "cohere" => step = parseCohereSSE(parser, Head(rest))
      BY DEF parse
    <2>3. reads = "ollama" => step = readOllama(parser, Head(rest))
      BY DEF parse
    <2> HIDE DEF step
    <2> QED BY <2>1, <2>2, <2>3, CohereFinish, OllamaFinish
  <1> HIDE DEF step, w
  <1>5. /\ streams \in Seq(Calls) /\ Len(streams) \in Nat /\ Len(streams) # 0
        /\ DOMAIN streams = 1..Len(streams)
    BY <1>1 DEF StreamType, FlowInv, Reading
  <1>6. Reading
    BY <1>1 DEF FlowInv
  <1>7. /\ step.returns => pc' = "judge" /\ err' = Nil /\ rest' = <<>> /\ pos' = pos
        /\ ~step.returns => pc' = "read" /\ err' = err /\ pos' = pos
    BY <1>1 DEF Ends
  <1>8. StreamType'
    <2>1. /\ IsSeq(out') /\ Len(out) \in Nat /\ Len(w) \in Nat /\ DOMAIN out = 1..Len(out)
          /\ DOMAIN out' = 1..(Len(out) + Len(w))
          /\ \A i \in 1..Len(out) : out'[i] = out[i]
          /\ \A i \in (Len(out) + 1)..(Len(out) + Len(w)) : out'[i] = w[i - Len(out)]
      BY <1>1, <1>2, <1>3, Joined
    <2>2. \A i \in DOMAIN out' : out'[i].id \in 0..Len(streams')
      <3> SUFFICES ASSUME NEW i \in DOMAIN out' PROVE out'[i].id \in 0..Len(streams)
        BY <1>1
      <3>1. CASE i \in 1..Len(out)
        BY <2>1, <3>1 DEF StreamType
      <3>2. CASE i \in (Len(out) + 1)..(Len(out) + Len(w))
        <4>1. i - Len(out) \in 1..Len(w)
          BY <2>1, <3>2
        <4> QED BY <1>3, <1>5, <2>1, <3>2, <4>1
      <3> QED BY <2>1, <3>1, <3>2
    <2>3. Nil.status \in Nat
      BY ErrorStatus
    <2> QED BY <1>1, <1>7, <2>1, <2>2, <2>3 DEF StreamType, PCs
  <1>9. FlowInv'
    <2>1. Latest' = Latest /\ Current' = Current
      BY <1>1, <1>7 DEF Latest, Current
    <2>2. Ended'
      BY <1>1, <1>6, <2>1 DEF Reading, Ended
    <2>3. Reading'
      BY <1>1, <1>6, <2>1 DEF Reading
    <2>4. \A i \in 1..(Len(streams') - 1) : Excused(target', streams'[i])
      BY <1>1 DEF FlowInv
    <2> QED BY <1>7, <2>2, <2>3, <2>4 DEF FlowInv
  <1>10. FinalInv'
    <2>1. pc \notin Resting
      BY <1>1 DEF Resting
    <2>2. ASSUME NEW j \in 1..Len(w), w[j].chunk.k = "finish"
          PROVE  /\ w[j].id \in DOMAIN streams'
                 /\ streams'[w[j].id].provider \in {"cohere", "ollama"} =>
                       j = Len(w) /\ pc' \in Resting /\ err' = Nil
      <3>1. w[j].id = Len(streams) /\ w[j].id \in DOMAIN streams'
        BY <1>1, <1>3, <1>5
      <3>2. streams'[w[j].id].provider = Current
        BY <1>1, <1>6, <3>1 DEF Reading, Latest
      <3>3. ASSUME Current \in {"cohere", "ollama"} PROVE j = Len(w) /\ step.returns
        <4>1. step.chunks # <<>>
          BY <1>3
        <4>2. PICK c : step.chunks = <<c>> /\ (c.k = "finish" => step.returns)
          BY <1>4, <3>3, <4>1 DEF OnlyAtEnd
        <4>3. Len(w) = 1 /\ j = 1 /\ w[j].chunk = c
          BY <1>3, <4>2
        <4> QED BY <2>2, <4>2, <4>3
      <3> QED BY <1>7, <3>1, <3>2, <3>3 DEF Resting
    <2>3. DOMAIN streams \subseteq DOMAIN streams' /\ \A i \in DOMAIN streams : streams'[i].provider = streams[i].provider
      BY <1>1
    <2> QED BY <1>1, <1>2, <1>3, <2>1, <2>2, <2>3, FinalMore
  <1> QED BY <1>8, <1>9, <1>10

(* The body ends. *)
LEMMA EndOfBodyStep == ASSUME StreamInv, EndOfBody PROVE StreamInv'
  <1> USE DEF StreamInv
  <1>1. /\ pc = "read" /\ pc' = "judge" /\ err' = Nil /\ rest' = <<>> /\ pos' = pos
        /\ UNCHANGED <<target, attempt, out, streams>>
    BY DEF EndOfBody, Ends
  <1>2. Reading /\ Nil.status \in Nat
    BY <1>1, ErrorStatus DEF FlowInv
  <1>3. StreamType'
    BY <1>1, <1>2 DEF StreamType, PCs
  <1>4. FlowInv'
    <2>1. Ended'
      BY <1>1, <1>2 DEF Reading, Ended, Latest
    <2> QED BY <1>1, <2>1 DEF FlowInv
  <1>5. FinalInv'
    BY <1>1, FinalSame DEF Resting
  <1> QED BY <1>3, <1>4, <1>5

(* Reading the body fails. *)
LEMMA ReadFailsStep == ASSUME StreamInv, ReadFails PROVE StreamInv'
  <1> USE DEF StreamInv
  <1>1. PICK e \in ReadErrors : \E x \in ReadError(e) :
            /\ Ends(x)
            /\ streams' = [streams EXCEPT ![Len(streams)].err = x, ![Len(streams)].broken = TRUE]
    BY DEF ReadFails
  <1>2. PICK x \in ReadError(e) :
            /\ Ends(x)
            /\ streams' = [streams EXCEPT ![Len(streams)].err = x, ![Len(streams)].broken = TRUE]
    BY <1>1
  <1>3. pc = "read" /\ UNCHANGED <<target, attempt, reads, out>> /\ Reading
    BY DEF ReadFails, FlowInv
  <1>4. e # Nil /\ e.status \in Nat /\ Nil.status \in Nat
    BY ErrorStatus
  <1>5. x = e \/ (x = Nil /\ Current = "ollama")
    BY <1>2 DEF ReadError
  <1>6. streams \in Seq(Calls) /\ Len(streams) \in Nat /\ Len(streams) # 0 /\ x \in Errors
    BY <1>3, <1>5 DEF StreamType, Reading, Errors
  <1>7. /\ streams' \in Seq(Calls) /\ Len(streams') = Len(streams) /\ streams' # <<>>
        /\ DOMAIN streams = 1..Len(streams) /\ DOMAIN streams' = 1..Len(streams)
        /\ \A i \in 1..(Len(streams) - 1) : streams'[i] = streams[i]
        /\ Latest' = [Latest EXCEPT !.err = x, !.broken = TRUE]
    <2> DEFINE n == Len(streams)
               c == [Latest EXCEPT !.err = x, !.broken = TRUE]
    <2>1. n \in 1..Len(streams) /\ Latest \in Calls /\ c \in Calls
      <3>1. n \in 1..Len(streams) /\ streams[n] \in Calls
        BY <1>6
      <3>2. Latest \in Calls
        BY <3>1 DEF Latest
      <3>3. \A l \in Calls : [l EXCEPT !.err = x, !.broken = TRUE] \in Calls
        BY <1>6 DEF Calls
      <3> QED BY <3>1, <3>2, <3>3
    <2>2. streams' = [streams EXCEPT ![n] = c]
      BY <1>2, <1>6 DEF Latest
    <2> HIDE DEF c
    <2>3. streams' \in Seq(Calls) /\ Len(streams') = n
      BY <1>6, <2>1, <2>2
    <2>4. \A i \in 1..n : streams'[i] = IF i = n THEN c ELSE streams[i]
      BY <1>6, <2>2
    <2> QED BY <1>6, <2>1, <2>3, <2>4 DEF Latest, c
  <1>8. Latest \in Calls
    BY <1>6 DEF Latest
  <1>9. Latest'.err = x /\ Latest'.provider = Latest.provider /\ Latest.provider = Current
    BY <1>3, <1>7, <1>8 DEF Calls, Reading
  <1>10. /\ err' = x /\ rest' = <<>>
         /\ target = "fallback" /\ x # Nil => pc' = "chain" /\ pos' = pos + 1
         /\ target # "fallback" \/ x = Nil => pc' = "judge" /\ pos' = pos
    BY <1>2 DEF Ends
  <1>11. StreamType'
    <2>1. pos' \in 1..(Len(Chain) + 1)
      <3>1. Len(Chain) \in Nat
        BY StreamsAssumption
      <3>2. pos \in 1..(Len(Chain) + 1) /\ (target = "fallback" => pos <= Len(Chain))
        BY <1>3 DEF StreamType
      <3> QED BY <1>10, <3>1, <3>2
    <2>2. \A i \in DOMAIN out' : out'[i].id \in 0..Len(streams')
      BY <1>3, <1>7 DEF StreamType
    <2>3. err'.status \in Nat
      BY <1>4, <1>5, <1>10
    <2>4. pc' \in {"chain", "judge"}
      BY <1>10
    <2> QED BY <1>3, <1>7, <1>10, <2>1, <2>2, <2>3, <2>4 DEF StreamType, PCs
  <1>12. FlowInv'
    <2>1. \A i \in 1..(Len(streams') - 1) : Excused(target', streams'[i])
      BY <1>3, <1>7 DEF FlowInv
    <2>2. CASE x = Nil
      <3>1. Ended'
        BY <1>4, <1>5, <1>7, <1>9, <2>2 DEF Ended
      <3> QED BY <1>10, <2>1, <2>2, <3>1 DEF FlowInv
    <2>3. CASE x # Nil
      <3>1. target = "fallback" => MayBegin'
        BY <1>3, <1>9, <2>3 DEF MayBegin, Excused
      <3>2. target # "fallback" => Judged'
        BY <1>3, <1>7, <1>9, <1>10 DEF Judged
      <3> QED BY <1>3, <1>10, <2>1, <2>3, <3>1, <3>2 DEF FlowInv
    <2> QED BY <2>2, <2>3
  <1>13. FinalInv'
    <2>1. \A i \in DOMAIN streams : streams'[i].provider = streams[i].provider
      <3> SUFFICES ASSUME NEW i \in 1..Len(streams) PROVE streams'[i].provider = streams[i].provider
        BY <1>7
      <3>1. CASE i = Len(streams)
        BY <1>7, <1>9, <3>1 DEF Latest
      <3>2. CASE i # Len(streams)
        BY <1>6, <1>7, <3>2
      <3> QED BY <3>1, <3>2
    <2> QED BY <1>3, <1>7, <2>1, FinalSame DEF Resting
  <1> QED BY <1>11, <1>12, <1>13

(* A request arrives. *)
LEMMA OpenStep == ASSUME StreamInv, Open PROVE StreamInv'
  <1> USE DEF StreamInv
  <1>1. /\ pc = "idle" /\ pc' \in {"check", "failed"} /\ target' \in Targets
        /\ UNCHANGED <<attempt, pos, err, rest, out, streams>>
    BY DEF Open
  <1>2. streams = <<>>
    BY <1>1 DEF FlowInv
  <1>3. StreamType'
    BY <1>1 DEF StreamType, PCs
  <1>4. FlowInv'
    BY <1>1, <1>2 DEF FlowInv
  <1>5. FinalInv'
    BY <1>1, FinalSame DEF Resting
  <1> QED BY <1>3, <1>4, <1>5

(* The cooldown, a new attempt, and the pause before it. *)
LEMMA RetryStep == ASSUME StreamInv, CheckCooldown \/ Attempt \/ Backoff PROVE StreamInv'
  <1> USE DEF StreamInv
  <1>1. /\ pc \in {"check", "attempt", "backoff"} /\ pc' \in {"attempt", "chain", "post", "failed"}
        /\ UNCHANGED <<target, rest, out, streams>>
        /\ pos' \in {1, pos} /\ err' \in {Nil, err}
        /\ attempt' = attempt \/ (pc = "backoff" /\ attempt' = attempt + 1)
        /\ pc' = "chain" => target = "fallback"
        /\ pc' = "post" => target # "fallback"
    BY DEF CheckCooldown, Attempt, Backoff
  <1>2. Len(Chain) \in Nat /\ MaxRetries \in Nat
    BY StreamsAssumption
  <1>3. StreamType'
    <2>1. attempt' \in 0..MaxRetries /\ pos' \in 1..(Len(Chain) + 1)
      BY <1>1, <1>2 DEF StreamType
    <2>2. err'.status \in Nat
      BY <1>1, ErrorStatus DEF StreamType
    <2> QED BY <1>1, <2>1, <2>2 DEF StreamType, PCs
  <1>4. FlowInv'
    <2>1. MayBegin
      BY <1>1 DEF FlowInv, MayBegin
    <2>2. MayBegin'
      BY <1>1, <2>1 DEF MayBegin, Latest
    <2> QED BY <1>1, <2>2 DEF FlowInv
  <1>5. FinalInv'
    BY <1>1, FinalSame DEF Resting
  <1> QED BY <1>3, <1>4, <1>5

(* The next member of the chain, or none is left. *)
LEMMA NextInChainStep == ASSUME StreamInv, NextInChain PROVE StreamInv'
  <1> USE DEF StreamInv
  <1>1. pc = "chain" /\ UNCHANGED <<target, attempt, rest, out, streams>> /\ target = "fallback" /\ MayBegin
    BY DEF NextInChain, FlowInv
  <1>2. \/ pc' = "judge" /\ err' = Wrapped(err) /\ pos' = pos
        \/ ~(pos > Len(Chain)) /\ pc' = "post" /\ pos' = pos /\ err' = err
        \/ ~(pos > Len(Chain)) /\ pc' = "chain" /\ pos' = pos + 1 /\ err' = err
    BY <1>1 DEF NextInChain, SkipOne
  <1>3. Len(Chain) \in Nat
    BY StreamsAssumption
  <1>4. Wrapped(err) # Nil /\ Wrapped(err).status \in Nat
    BY ErrorStatus DEF StreamType
  <1>5. StreamType'
    <2>1. pos' \in 1..(Len(Chain) + 1) /\ (pc' = "post" => pos' <= Len(Chain))
      BY <1>2, <1>3 DEF StreamType
    <2>2. err'.status \in Nat
      BY <1>2, <1>4 DEF StreamType
    <2> QED BY <1>1, <1>2, <2>1, <2>2 DEF StreamType, PCs
  <1>6. FlowInv'
    <2>1. MayBegin'
      BY <1>1 DEF MayBegin, Latest
    <2>2. Judged'
      BY <1>1 DEF Judged, MayBegin, Latest, Excused
    <2> QED BY <1>1, <1>2, <1>4, <2>1, <2>2 DEF FlowInv
  <1>7. FinalInv'
    BY <1>1, FinalSame DEF Resting
  <1> QED BY <1>5, <1>6, <1>7

(* ExecuteStream decides: what was denied is not tried again. *)
LEMMA JudgeStep == ASSUME StreamInv, Judge PROVE StreamInv'
  <1> USE DEF StreamInv
  <1>1. /\ pc = "judge" /\ UNCHANGED <<target, attempt, pos, err, rest, out, streams>>
        /\ err = Nil => pc' = "ok"
        /\ err # Nil => \/ pc' = "failed"
                        \/ pc' = "backoff" /\ IsRetryable(ClassifyFromError(err)) /\ attempt # MaxRetries
    BY DEF Judge, NoAttemptLeft
  <1>2. StreamType'
    BY <1>1 DEF StreamType, PCs
  <1>3. FlowInv'
    <2>1. CASE err = Nil
      <3>1. Ended'
        BY <1>1, <2>1 DEF FlowInv, Ended, Latest
      <3> QED BY <1>1, <2>1, <3>1 DEF FlowInv
    <2>2. CASE err # Nil
      <3>1. Judged
        BY <1>1, <2>2 DEF FlowInv
      <3>2. pc' = "backoff" => MayBegin
        BY <1>1, <2>2, <3>1, DeniedIsFinal DEF Judged, MayBegin, Excused
      <3>3. pc' = "backoff" => MayBegin'
        BY <1>1, <3>2 DEF MayBegin, Latest
      <3> QED BY <1>1, <2>2, <3>3 DEF FlowInv
    <2> QED BY <2>1, <2>2
  <1>4. FinalInv'
    BY <1>1, FinalSame DEF Resting
  <1> QED BY <1>2, <1>3, <1>4

(* [DONE] is written. *)
LEMMA DoneStep == ASSUME StreamInv, Done PROVE StreamInv'
  <1> USE DEF StreamInv
  <1> DEFINE d == [k |-> "[DONE]"]
             w == Written(0, <<d>>)
  <1>1. /\ pc = "ok" /\ pc' = "done" /\ out' = out \o w
        /\ UNCHANGED <<target, attempt, pos, err, rest, streams>>
    BY DEF Done
  <1>2. IsSeq(w) /\ Len(w) = 1 /\ w[1] = [id |-> 0, chunk |-> d]
    <2> DEFINE one == <<d>>
    <2>1. IsSeq(one) /\ Len(one) = 1 /\ one[1] = d
      BY ShortSeq
    <2> HIDE DEF one
    <2>2. /\ IsSeq(Written(0, one)) /\ Len(Written(0, one)) = Len(one)
          /\ \A i \in 1..Len(one) : Written(0, one)[i] = [id |-> 0, chunk |-> one[i]]
      BY <2>1, WrittenSeq
    <2>3. w = Written(0, one)
      BY DEF one
    <2> QED BY <2>1, <2>2, <2>3
  <1>3. w[1].id = 0 /\ w[1].chunk.k = "[DONE]"
    BY <1>2
  <1> HIDE DEF d, w
  <1>4. /\ IsSeq(out') /\ Len(out) \in Nat /\ DOMAIN out = 1..Len(out)
        /\ DOMAIN out' = 1..(Len(out) + 1) /\ Len(out') = Len(out) + 1
        /\ \A i \in 1..Len(out) : out'[i] = out[i]
        /\ out'[Len(out) + 1] = w[1]
    <2>1. IsSeq(out)
      BY DEF StreamType
    <2>2. /\ IsSeq(out \o w) /\ Len(out) \in Nat /\ DOMAIN out = 1..Len(out)
          /\ DOMAIN (out \o w) = 1..(Len(out) + Len(w)) /\ Len(out \o w) = Len(out) + Len(w)
          /\ \A i \in 1..Len(out) : (out \o w)[i] = out[i]
          /\ \A i \in (Len(out) + 1)..(Len(out) + Len(w)) : (out \o w)[i] = w[i - Len(out)]
      BY <1>2, <2>1, Joined
    <2> QED BY <1>1, <1>2, <2>2
  <1>5. StreamType'
    <2>1. streams \in Seq(Calls) /\ Len(streams) \in Nat
      BY DEF StreamType
    <2>2. \A i \in DOMAIN out' : out'[i].id \in 0..Len(streams')
      <3>1. \A i \in 1..Len(out) : out'[i].id \in 0..Len(streams')
        BY <1>1, <1>4 DEF StreamType
      <3> QED BY <1>1, <1>3, <1>4, <2>1, <3>1
    <2> QED BY <1>1, <1>4, <2>2 DEF StreamType, PCs
  <1>6. FlowInv'
    <2>1. Ended'
      BY <1>1 DEF FlowInv, Ended, Latest
    <2> QED BY <1>1, <2>1 DEF FlowInv
  <1>7. FinalInv'
    <2> SUFFICES ASSUME NEW i \in DOMAIN out'
                 PROVE  /\ out'[i].chunk.k = "finish" => out'[i].id \in DOMAIN streams'
                        /\ Final(i)' => \A j \in (i + 1)..Len(out') : out'[j].chunk.k = "[DONE]"
      BY <1>1 DEF FinalInv, FlowInv
    <2>1. CASE i = Len(out) + 1
      BY <1>3, <1>4, <2>1 DEF Final
    <2>2. CASE i \in 1..Len(out)
      <3>1. out'[i] = out[i]
        BY <1>4, <2>2
      <3>2. out[i].chunk.k = "finish" => out[i].id \in DOMAIN streams
        BY <1>4, <2>2 DEF FinalInv
      <3>3. ASSUME Final(i)', NEW j \in (i + 1)..Len(out') PROVE out'[j].chunk.k = "[DONE]"
        <4>1. Final(i)
          BY <1>1, <3>1, <3>3 DEF Final
        <4>2. CASE j = Len(out) + 1
          BY <1>3, <1>4, <4>2
        <4>3. CASE j # Len(out) + 1
          <5>1. j \in (i + 1)..Len(out) /\ j \in 1..Len(out)
            BY <1>4, <2>2, <4>3
          <5> QED BY <1>4, <2>2, <4>1, <5>1 DEF FinalInv
        <4> QED BY <4>2, <4>3
      <3> QED BY <1>1, <3>1, <3>2, <3>3
    <2> QED BY <1>4, <2>1, <2>2
  <1> QED BY <1>5, <1>6, <1>7

(* At the start nothing was asked and nothing written. *)
LEMMA StreamInit == Init => StreamInv
  <1> SUFFICES ASSUME Init PROVE StreamInv
    OBVIOUS
  <1>1. /\ pc = "idle" /\ target = "none" /\ attempt = 0 /\ pos = 1 /\ err = Nil
        /\ rest = <<>> /\ out = <<>> /\ streams = <<>>
    BY DEF Init
  <1>2. Len(Chain) \in Nat /\ MaxRetries \in Nat
    BY StreamsAssumption
  <1>3. StreamType
    <2>1. IsSeq(<<>>) /\ IsSeq(<<0>>)
      BY ShortSeq
    <2>2. Nil.status \in Nat
      BY ErrorStatus
    <2> QED BY <1>1, <1>2, <2>1, <2>2 DEF StreamType, PCs
  <1>4. FlowInv /\ FinalInv
    BY <1>1 DEF FlowInv, FinalInv
  <1> QED BY <1>3, <1>4 DEF StreamInv

(* Every step keeps StreamInv. *)
LEMMA StreamStep == StreamInv /\ [Next]_vars => StreamInv'
  <1> SUFFICES ASSUME StreamInv, [Next]_vars PROVE StreamInv'
    OBVIOUS
  <1>1. CASE UNCHANGED vars
    BY <1>1 DEF vars, StreamInv, StreamType, FlowInv, FinalInv, MayBegin, Reading, Judged, Ended, Final,
                Latest, Current
  <1>2. ASSUME AnthropicStream \/ GeminiStream \/ VertexStream \/ CohereStream \/ OllamaStream
                  \/ OpenAIStream \/ AzureStream \/ HuggingFaceStream
        PROVE  StreamInv'
    <2>1. PICK p, body, format :
              p \in Streamers /\ Post(p, body, format) /\ (p \in {"cohere", "ollama"} => format = p)
      BY <1>2 DEF AnthropicStream, GeminiStream, VertexStream, CohereStream, OllamaStream, OpenAIStream,
                  AzureStream, HuggingFaceStream, Streamers, Providers
    <2> QED BY <2>1, PostStep
  <1> QED BY <1>1, <1>2, OpenStep, RetryStep, NextInChainStep, ReadLineStep, EndOfBodyStep, ReadFailsStep,
             JudgeStep, DoneStep DEF Next

(* The state of a stream stays well-formed, whatever upstreams send. *)
THEOREM StreamsAreWellFormed == Spec => []TypeOK
  <1>1. StreamInv => TypeOK
    <2> SUFFICES ASSUME StreamInv PROVE TypeOK
      OBVIOUS
    <2>1. streams \in Seq(Calls)
      BY DEF StreamInv, StreamType
    <2>2. \A i \in DOMAIN streams : streams[i] \in Calls
      BY <2>1
    <2>3. \A c \in Calls : c.provider \in Streamers
      BY DEF Calls
    <2>4. \A i \in DOMAIN streams : streams[i].provider \in Streamers
      BY <2>2, <2>3
    <2> QED BY <2>4 DEF StreamInv, StreamType, TypeOK, PCs
  <1> QED BY <1>1, StreamInit, StreamStep, PTL DEF Spec

(* For any chain, any retries, any lines and any errors: [DONE] is written   *)
(* only after a stream whose parser returned no error.                       *)
THEOREM DoneIsHonest == Spec => []DoneHidesNoError
  <1>1. StreamInv => DoneHidesNoError
    BY DEF StreamInv, FlowInv, Ended, Latest, DoneHidesNoError
  <1> QED BY <1>1, StreamInit, StreamStep, PTL DEF Spec

(* For any chain, any retries, any lines and any errors: ExecuteStream and   *)
(* the chain start a stream again only after an error, not after a key was   *)
(* denied, and never behind the finish chunk of Cohere or Ollama.            *)
THEOREM RestartsAreNeeded == Spec => []NoNeedlessRestart
  <1>1. StreamInv => NoNeedlessRestart
    BY DEF StreamInv, FlowInv, Excused, FinalInv, Final, NoNeedlessRestart
  <1> QED BY <1>1, StreamInit, StreamStep, PTL DEF Spec
=============================================================================

----------------------------- MODULE MCStreams ------------------------------
(* Model-checking instance of Streams: every format asked for by name, and a *)
(* chain with a member that does not stream.  The answers are a text, and a  *)
(* text of two pieces with two calls.                                        *)
EXTENDS Streams

MCRequest ==
    [messages |-> <<Message("system", <<"s">>, <<>>, <<>>), Message("user", <<"u">>, <<>>, <<>>),
                    Message("assistant", <<>>, <<ToolCall(<<"id">>, "f", "obj")>>, <<>>),
                    Message("tool", <<"r">>, <<>>, <<"id">>)>>,
     tools |-> {"f", "g"}, choice |-> "auto"]

MCChain == <<"bedrock", "anthropic", "gemini">>

Call(n) == Use(<<"id", n>>, n, <<n, "end">>)
MCContents ==
    {<<Text(<<"t1", "t2">>), Call("f"), Call("g")>>, <<Text(<<"t1">>)>>}

Deadline == Error({"deadline exceeded"}, 0, {})
MCPostErrors ==
    {Deadline, Error({}, 401, {"rate limit"}), Error({}, 403, {"deadline exceeded"}),
     Error({}, 529, {"overloaded"}), Error({}, 400, {"context length", "rate limit"})}
MCReadErrors == {Deadline, Error({"unexpected EOF"}, 0, {})}
=============================================================================

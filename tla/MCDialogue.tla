----------------------------- MODULE MCDialogue -----------------------------
(* Model-checking instance of Dialogue: nine providers of six formats, one *)
(* alias, one model without tools, and the requests worth telling apart.   *)
EXTENDS Dialogue

Model(p, n) == [prefix |-> p, name |-> n]
MCModels ==
    {Model(p, "m") : p \in Valid} \cup
    {Model("ollama", "small"), Model("anthropic", "small"), Model("", "fast"), Model("", "m"),
     Model("groq", "m")}
MCAliases == (Model("", "fast") :> Model("gemini", "small"))

Opt(f, s, t, c, w, n) ==
    [front |-> f, systems |-> s, tools |-> t, choice |-> c, search |-> w, turns |-> n]
MCOptions ==
    {Opt("chat", 1, Tools, "none", TRUE, 1), Opt("chat", 0, Tools, "required", FALSE, 2),
     Opt("chat", 2, {}, "nil", TRUE, 1), Opt("agent", 1, Tools, "nil", FALSE, 3),
     Opt("responses", 1, Tools, "nil", TRUE, 1), Opt("completions", 0, {}, "nil", FALSE, 1)}
=============================================================================

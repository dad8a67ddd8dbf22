---------------------- MODULE MCPipelineOrchestrator ----------------------
(***************************************************************************)
(* Scenarios, each aimed at a part of the orchestrator: what a worker says, *)
(* threads and fan-outs, providers and profiles, stylesheets, the          *)
(* environment.                                                            *)
(***************************************************************************)
EXTENDS PipelineOrchestrator

Node ==
    [kind |-> "llm", provider |-> "", model |-> "id", worker |-> "", fidelity |-> "",
     thread |-> "", goal_gate |-> FALSE, classes |-> {}, shape |-> "box", alias |-> FALSE,
     env_ok |-> TRUE]

Text(form, status, inner, tail) ==
    [form |-> form, status |-> status, inner |-> inner, tail |-> tail]
Result(text, completion, file) ==
    [broken |-> FALSE, text |-> text, completion |-> completion, file |-> file]

Prose == Text("prose", "absent", "none", FALSE)
Fine == Result(Prose, "success", "none")
Silent == Result(NoText, "success", "none")
Lost == Result(NoText, "error", "none")

AllResults ==
    {Result(t, "success", f) : f \in {"none", "success", "malformed"},
        t \in {x \in Texts : x.status \in {"success", "fail", "absent", "unknown"}
                             /\ x.inner \in {"none", "absent", "success", "fail"}}}
    \cup {Broken, Lost}

Graph(at, budget, results) ==
    [given |-> at, at |-> at, default_thread |-> "", default_fidelity |-> "", rules |-> <<>>,
     parallel |-> FALSE, human |-> FALSE, results |-> results, budget |-> budget]

Setup ==
    [mounted |-> {}, profiles |-> [p \in {"anthropic", "openai"} |-> p],
     agents |-> [a \in {"anthropic", "openai"} |-> "own"], spawn |-> TRUE,
     credentials |-> {"anthropic", "openai"}, default_worker |-> "", environment |-> "none",
     resumed |-> FALSE, stubborn |-> FALSE]

Direct == [Setup EXCEPT !.spawn = FALSE, !.mounted = {"anthropic"}]

\* What is read out of every kind of answer, by a gate and by an ordinary node.
Answers ==
    {<<Graph([a |-> [Node EXCEPT !.goal_gate = g, !.provider = "anthropic"]], 1, AllResults), s>> :
        g \in BOOLEAN, s \in {Setup, Direct}}

\* Conversations: two nodes on a thread, with a human, branches and late returns.
Talk(a, b, s, human, parallel, resumed) ==
    <<[Graph([a |-> [Node EXCEPT !.fidelity = "full", !.thread = a],
              b |-> [Node EXCEPT !.fidelity = "full", !.thread = b]], 4, {Fine, Silent, Broken})
          EXCEPT !.human = human, !.parallel = parallel],
      [s EXCEPT !.resumed = resumed]>>

Talks ==
    {Talk("t", "t", s, TRUE, FALSE, FALSE) :
        s \in {Setup, Direct, [Setup EXCEPT !.stubborn = TRUE]}} \cup
    {Talk("t", "t", Setup, TRUE, TRUE, FALSE), Talk("", "", Setup, FALSE, FALSE, TRUE),
     Talk("t", "", Setup, FALSE, TRUE, FALSE)}

\* Who serves a node, and who is refused.
Serving ==
    {<<Graph([a |-> [Node EXCEPT !.provider = p, !.worker = w, !.model = m],
              b |-> [Node EXCEPT !.provider = "openai"]], 2, {Fine}), s>> :
        p \in {"", "anthropic", "copilot"}, w \in {"", "spawn", "llm-direct", "direct"},
        m \in {"", "family"},
        s \in {Setup, Direct,
               [Setup EXCEPT !.mounted = {"copilot", "openai"}],
               [Setup EXCEPT !.profiles = <<>>],
               [Setup EXCEPT !.profiles = <<>>, !.agents = <<>>],
               [Setup EXCEPT !.profiles = [x \in {"openai"} |-> "openai"],
                             !.mounted = {"anthropic", "openai"}],
               [Setup EXCEPT !.agents = [x \in {"anthropic"} |-> "own"]],
               [Setup EXCEPT !.agents = [x \in {"anthropic", "openai"} |-> "pipeline"]],
               [Setup EXCEPT !.profiles = [x \in {"openai"} |-> "openai"]],
               [Setup EXCEPT !.credentials = {"openai"}],
               [Setup EXCEPT !.default_worker = "llm-direct", !.mounted = {"openai"}],
               [Setup EXCEPT !.default_worker = "direct"],
               [Direct EXCEPT !.mounted = {}],
               [Direct EXCEPT !.mounted = {}, !.profiles = <<>>]}}

\* Stylesheets of two rules.
Rule(kind, name, provider) ==
    [kind |-> kind, name |-> name, sets |-> [provider |-> provider, model |-> ""]]

Rules == {Rule(k[1], k[2], p) : p \in {"anthropic", "openai"},
            k \in {<<"*", "">>, <<"shape", "box">>, <<"class", "c">>, <<"id", "a">>}}

Styles ==
    {<<[Graph([a |-> [Node EXCEPT !.classes = {"c"}], b |-> [Node EXCEPT !.provider = "anthropic"]],
              0, {}) EXCEPT !.rules = <<r, q>>], Setup>> : r \in Rules, q \in Rules}

\* What is taken and released; attributes that are refused.
Environments ==
    {<<[Graph([a |-> [Node EXCEPT !.alias = x], t |-> [Node EXCEPT !.kind = "tool", !.env_ok = e]],
              1, {Fine, Lost}) EXCEPT !.default_fidelity = "full", !.default_thread = "t"],
       [Setup EXCEPT !.environment = v]>> :
        x \in BOOLEAN, e \in BOOLEAN, v \in {"none", "create", "full"}}

MCLines == {"main", "left", "right"}
MCThreads == {"a", "b", "t"}
MCScenarios == Answers \cup Talks \cup Serving \cup Styles \cup Environments
=============================================================================

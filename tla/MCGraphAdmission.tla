-------------------------- MODULE MCGraphAdmission --------------------------
(***************************************************************************)
(* Graphs of a start node, a tool, a node of varying kind and an exit, with *)
(* every choice among a few edges; and graphs whose attributes vary.       *)
(***************************************************************************)
EXTENDS GraphAdmission

MCLex == [start |-> 1, tool |-> 2, work |-> 3, done |-> 4]
MCNorm == [fail |-> "fail", Fail |-> "fail", go |-> "go", success |-> "success",
           partial_success |-> "partial_success", retry |-> "retry", skipped |-> "skipped"]

Node(shape) ==
    [shape |-> shape, type |-> "", node_type |-> "", prompt |-> TRUE, labelled |-> FALSE,
     goal_gate |-> FALSE, retry_target |-> "", fallback_retry_target |-> "",
     command |-> <<>>, env_ok |-> TRUE, retries_ok |-> TRUE, inert |-> FALSE,
     removed |-> {}, runs_on |-> "success", dot_file |-> "absent"]

Edge(from, to) ==
    [from |-> from, to |-> to, conditional |-> FALSE, cond |-> {}, label |-> "",
     weight |-> 0, restart |-> FALSE]

When(e, clause) == [e EXCEPT !.conditional = TRUE, !.cond = {clause}]
Labelled(e, label) == [e EXCEPT !.label = label]
Heavy(e) == [e EXCEPT !.weight = 1]
Restarting(e) == [e EXCEPT !.restart = TRUE]

Failed == Clause("outcome", "=", "fail")
Passed == Clause("outcome", "=", "success")
SaidYes == Clause(LastLineKey, "=", "yes")
SaidNo == Clause(LastLineKey, "=", "no")

Stmt(stages, echo, or_else) ==
    [pipefail |-> FALSE, stages |-> stages, echo |-> echo, or_else |-> or_else]

Pipefail == [Stmt(<<>>, FALSE, FALSE) EXCEPT !.pipefail = TRUE]

Verdict == <<Stmt(<<"check">>, TRUE, FALSE)>>

Commands ==
    {<<>>, Verdict, <<Stmt(<<"check">>, TRUE, TRUE)>>} \cup
    {prefix \o <<Stmt(stages, echo, or_else)>> :
        prefix \in {<<>>, <<Pipefail>>}, echo \in BOOLEAN, or_else \in BOOLEAN,
        stages \in {<<"check", "filter">>, <<"filter", "check">>,
                   <<"check", "emit">>, <<"emit">>}}

Graph(at, edges) ==
    [nodes |-> <<"start", "tool", "work", "done">>,
     at |-> at, edges |-> <<Edge("start", "tool")>> \o edges, retry_target |-> "",
     fallback_retry_target |-> "", default_retry_ok |-> TRUE, style |-> "ok",
     stored |-> TRUE]

At(tool, work) ==
    [start |-> Node("Mdiamond"), tool |-> tool, work |-> work, done |-> Node("Msquare")]

Tool(command) == [Node("parallelogram") EXCEPT !.command = command]
Gate(n) == [n EXCEPT !.goal_gate = TRUE, !.retry_target = "tool"]

Chosen(candidates, S) == SelectSeq(candidates, LAMBDA e : e \in S)

\* What can stand between the tool and the exit.
Routes ==
    LET t == "tool"  w == "work"  d == "done"
        candidates == <<Edge(t, w), When(Edge(t, w), Failed), Heavy(When(Edge(t, d), SaidYes)),
                        When(Edge(t, d), Passed), Edge(w, d), When(Edge(w, d), Passed),
                        Edge(w, t), Restarting(When(Edge(w, t), Failed)),
                        Labelled(Edge(w, t), "Fail")>>
        works == {Node("box"), Node("diamond"), Node("hexagon"), Gate(Node("box"))}
    IN  {Graph(At(Tool(Verdict), n), Chosen(candidates, S)) :
            n \in works, S \in SUBSET ToSet(candidates)}

\* What a tool's command can hide.
Shells ==
    {Graph(At(Tool(c), Node("box")),
           <<Edge("tool", "work"), When(Edge("tool", "done"), SaidNo), Edge("work", "done")>>) :
        c \in Commands}

\* Where the budget of a gate goes.
Budgets ==
    LET candidates == <<Edge("work", "done"), When(Edge("work", "done"), Passed),
                        When(Edge("work", "done"), Failed), Restarting(Edge("work", "tool")),
                        Restarting(When(Edge("work", "tool"), Passed)),
                        When(Edge("tool", "done"), Failed)>>
    IN  {Graph(At(Gate(Tool(Verdict)), Node("box")),
               <<Edge("tool", "work")>> \o Chosen(candidates, S)) :
            S \in SUBSET ToSet(candidates)}

\* Where a node's kind comes from.
Kinds ==
    {Graph(At(Tool(Verdict), [Node(shape) EXCEPT !.type = type, !.node_type = node_type]),
           <<Edge("tool", "work"), Edge("work", "done")>> \o more) :
        shape \in {"box", "diamond", "hexagon", "point"},
        type \in {"", "conditional", "codergen", "agent"},
        node_type \in {"", "tool", "custom"},
        more \in {<<>>, <<When(Edge("work", "tool"), Failed)>>}}
    \cup
    {[Graph(At(Tool(Verdict), Node("box")), <<Edge("tool", "work"), Edge("work", "done")>>)
        EXCEPT !.at["start"].shape = "point"]}

\* A tool by its type or by its node_type alone, which may read what the tool
\* before it left, or mask its check, or be marked as meant for failures.
Declared ==
    LET t == "tool"  w == "work"  d == "done"
        Filtered == <<Stmt(<<"check", "filter">>, FALSE, FALSE)>>
    IN  {Graph(At(Tool(Verdict), [Node("box") EXCEPT !.type = type, !.node_type = "tool",
                                                     !.command = c, !.runs_on = r]),
               <<Edge(t, w), When(Edge(t, w), Failed), Heavy(When(Edge(w, d), SaidYes)),
                 Edge(w, d)>> \o more) :
            type \in {"", "tool"}, c \in {<<>>, Filtered}, r \in {"success", "always"},
            more \in {<<>>, <<When(Edge(w, t), Failed)>>}}

\* Two gates with targets of their own.
TwoGates ==
    LET t == "tool"  w == "work"  d == "done"
        candidates == <<Edge(t, w), Restarting(Edge(t, w)), When(Edge(t, d), Passed),
                        Edge(w, d), Restarting(Edge(w, t)), When(Edge(w, t), Failed)>>
    IN  {Graph(At([Gate(Tool(Verdict)) EXCEPT !.retry_target = target], Gate(Node("box"))),
               Chosen(candidates, S)) :
            target \in {t, w}, S \in SUBSET ToSet(candidates)}

MCGraphs == Routes \cup Shells \cup Budgets \cup Kinds \cup Declared \cup TwoGates
============================================================================

---------------------------- MODULE MCChildGraphs ----------------------------
(***************************************************************************)
(* A family of small graphs that run one another, three levels deep, and   *)
(* the files a user may start.                                             *)
(***************************************************************************)
EXTENDS ChildGraphs, TLC

Strings == STRING

Keys == {"outcome", "preferred_label", "x", "y", "manager.last_child_status"}

Ok(label)  == [Plain("success") EXCEPT !.label = label, !.explicit = TRUE]
Bad        == [Plain("fail") EXCEPT !.explicit = TRUE]
R(o)       == [outcome |-> o, updates |-> NoUpdates]
W(o, k, v) == [outcome |-> o, updates |-> [NoUpdates EXCEPT ![k] = v]]

Box == [kind |-> "plain", results |-> {R(Ok(""))}, goal_gate |-> FALSE, retry_target |-> "",
        max_retries |-> 0, allow_partial |-> FALSE, timeout |-> FALSE, file |-> "",
        may_miss |-> FALSE, outputs |-> {}, inject |-> <<>>, cycles |-> 0, stop |-> {}]

StartNode == [Box EXCEPT !.kind = "start", !.results = {R(Plain("success"))}]
ExitNode  == [Box EXCEPT !.kind = "exit"]
Leaf(S)   == [Box EXCEPT !.results = S]
Folder(file, outputs) == [Box EXCEPT !.kind = "folder", !.file = file, !.outputs = outputs]
Manager(file, cycles) == [Box EXCEPT !.kind = "manager", !.file = file, !.cycles = cycles]

E(from, to) == [from |-> from, to |-> to, conditional |-> FALSE, cond |-> {},
                label |-> "", weight |-> 0, restart |-> FALSE]
When(key, value, edge) ==
    [edge EXCEPT !.conditional = TRUE, !.cond = {[key |-> key, op |-> "=", value |-> value]}]

Graph(nodes, edges) ==
    [nodes |-> ("start" :> StartNode) @@ ("exit" :> ExitNode) @@ nodes, edges |-> edges,
     start |-> "start", retry_target |-> ""]

\* A leaf that writes y, and asserts its verdict or not.
Deep == Graph("z" :> Leaf({W(Ok(""), "y", "z"), R(Plain("success")), R(Bad)}),
              <<E("start", "z"), E("z", "exit")>>)

\* Writes x, asks for another round by its label, and then runs Deep.
Inner == Graph(
    ("a" :> Leaf({W(Ok(""), "x", "a"), W(Ok("again"), "x", "b"), R(Bad)})) @@
    ("d" :> Folder("deep", {"y"})),
    <<E("start", "a"), When("outcome", "again", E("a", "exit")),
      When("outcome", "success", E("a", "d")), E("d", "exit")>>)

\* A gated folder that may start over, and a leaf behind it.
Outer == Graph(
    ("f" :> [Folder("inner", {"x"}) EXCEPT !.goal_gate = TRUE, !.retry_target = "f"]) @@
    ("p" :> Leaf({R(Plain("success")), R(Ok("once more"))})),
    <<E("start", "f"), [When("outcome", "again", E("f", "f")) EXCEPT !.restart = TRUE],
      When("y", "z", E("f", "p")), When("outcome", "success", E("f", "p")),
      When("outcome", "once more", E("p", "f")), E("p", "exit")>>)

\* Rounds of one leaf.
Rounds == Graph("p" :> [Leaf({R(Plain("success")), R(Plain("retry")), R(Ok("go"))})
                            EXCEPT !.max_retries = 1],
                <<E("start", "p"), [When("outcome", "go", E("p", "p")) EXCEPT !.restart = TRUE],
                  E("p", "exit")>>)

\* A manager with a stop condition, its own timeout and a gate, after a labelled leaf.
Managed == Graph(
    ("l" :> Leaf({R(Ok("go"))})) @@
    ("m" :> [Manager("inner", 2) EXCEPT !.goal_gate = TRUE, !.timeout = TRUE,
                !.allow_partial = TRUE, !.may_miss = TRUE, !.inject = ("x" :> "seed"),
                !.stop = {[key |-> "outcome", op |-> "=", value |-> "success"]}]),
    <<E("start", "l"), E("l", "m"), E("m", "exit")>>)

\* A manager over a part of its own graph: a folder, and a leaf that may retry.
InGraph == Graph(
    ("m" :> [Manager("", 2) EXCEPT !.max_retries = 1]) @@
    ("w" :> Leaf({W(Ok("again"), "y", "w"), R(Plain("success")), R(Plain("retry"))})) @@
    ("f" :> [Folder("deep", {"y"}) EXCEPT !.inject = ("preferred_label" :> "again"),
                !.may_miss = TRUE]),
    <<E("start", "m"), E("m", "w"), When("preferred_label", "again", E("w", "f")),
      E("w", "exit"), E("f", "exit")>>)

\* A part that ends at a node without edges, at a fan-in, or nowhere; a folder
\* without a graph, a manager without a child or without cycles.
Stubs == Graph(
    ("m" :> [Manager("", 1) EXCEPT !.retry_target = "q"]) @@
    ("w" :> Leaf({R(Ok("")), R(Bad)})) @@ ("j" :> [Box EXCEPT !.kind = "fan_in"]) @@
    ("q" :> Folder("", {})) @@ ("e" :> Manager("", 1)) @@ ("o" :> Manager("deep", 0)),
    <<E("start", "m"), When("outcome", "success", E("m", "w")),
      When("outcome", "success", E("w", "j")), E("j", "o"), When("outcome", "fail", E("o", "q")),
      E("q", "e")>>)

Files == ("deep" :> Deep) @@ ("inner" :> Inner) @@ ("outer" :> Outer) @@
         ("managed" :> Managed) @@ ("ingraph" :> InGraph) @@ ("stubs" :> Stubs) @@
         ("rounds" :> Rounds)

UserFiles == {"outer", "managed", "ingraph", "stubs", "rounds"}

Order == <<"a", "d", "e", "exit", "f", "j", "l", "m", "o", "p", "q", "start", "w", "z">>
MCLex == [n \in {Order[i] : i \in DOMAIN Order} |-> CHOOSE i \in DOMAIN Order : Order[i] = n]
MCNorm == ("" :> "") @@ ("again" :> "again") @@ ("go" :> "go") @@ ("once more" :> "once more")
=============================================================================

-------------------------- MODULE GraphValidation --------------------------
(***************************************************************************)
(* What is checked of a graph before it runs: the rules of validation.py,  *)
(* the startup preflight (preflight.py) and the stylesheet transform that  *)
(* comes before both.  A rule is an operator from a graph to the set of    *)
(* diagnostics it adds.                                                    *)
(*                                                                         *)
(* A graph is [nodes, at, edges, retry_target, fallback_retry_target,      *)
(* default_retry_ok, style, stored]: nodes is the sequence of the ids in   *)
(* the order of the DOT file, at gives each its attributes, edges are      *)
(* those of EdgeSelection.  The rules about the text of the DOT source     *)
(* (RENDER-001, RENDER-002) and about fidelity names are left out.         *)
(***************************************************************************)
EXTENDS EdgeSelection, SequencesExt

----------------------------------------------------------------------------
(* graph.py and the registry *)

Ids(g) == ToSet(g.nodes)

IsStart(g, n) == g.at[n].shape = "Mdiamond" \/ g.at[n].type = "start" \/ n = "start"

IsExit(g, n) == g.at[n].shape = "Msquare" \/ g.at[n].type = "exit" \/ n \in {"exit", "end"}

Starts(g) == {n \in Ids(g) : IsStart(g, n)}

Exits(g) == {n \in Ids(g) : IsExit(g, n)}

HandlerOf == [Mdiamond |-> "start", Msquare |-> "exit", box |-> "codergen",
              diamond |-> "conditional", hexagon |-> "wait.human",
              component |-> "parallel", tripleoctagon |-> "parallel.fan_in",
              parallelogram |-> "tool", house |-> "stack.manager_loop",
              folder |-> "pipeline"]

Shapes == DOMAIN HandlerOf

KnownTypes == {HandlerOf[s] : s \in Shapes}

\* HandlerRegistry.get; "none" is the ValueError.
Dispatched(a) ==
    CASE a.type \in KnownTypes -> a.type
      [] a.type \notin KnownTypes /\ a.node_type \in KnownTypes -> a.node_type
      [] OTHER -> IF a.shape \in Shapes THEN HandlerOf[a.shape] ELSE "none"

IsDiamond(a) == a.shape = "diamond" \/ a.type = "conditional"

IsTool(a) == a.shape = "parallelogram" \/ a.type = "tool"

IsHumanGate(a) == a.shape = "hexagon" \/ a.type = "wait.human"

Succ(g) == [n \in Ids(g) |-> {g.edges[i].to : i \in Outgoing(g.edges, n)} \cap Ids(g)]

\* What can be reached from S along succ in so many hops.
Hops(succ, S, most) ==
    LET hop[i \in 0..most] ==
            IF i = 0 THEN S
            ELSE LET T == hop[i - 1] IN T \cup UNION {succ[x] : x \in T}
    IN  hop

\* Everything reachable from S along succ, S included.
Reach(succ, S) == Hops(succ, S, Cardinality(DOMAIN succ))[Cardinality(DOMAIN succ)]

----------------------------------------------------------------------------
(* validate(): the rules a run is refused for, and their warnings *)

Diag(rule, severity, n, e) == [rule |-> rule, severity |-> severity, node |-> n, edge |-> e]

Error(rule, n) == Diag(rule, "ERROR", n, NoEdge)

Warning(rule, n) == Diag(rule, "WARNING", n, NoEdge)

StartNode(g) == IF \E n \in Ids(g) : Starts(g) = {n} THEN {} ELSE {Error("start_node", "")}

TerminalNode(g) == IF \E n \in Ids(g) : Exits(g) = {n} THEN {} ELSE {Error("terminal_node", "")}

EdgeTargets(g) ==
    {Diag("edge_target_exists", "ERROR", "", i) :
        i \in {j \in DOMAIN g.edges : ~({g.edges[j].from, g.edges[j].to} \subseteq Ids(g))}}

StartNoIncoming(g) ==
    {Error("start_no_incoming", n) :
        n \in {m \in Starts(g) : \E i \in DOMAIN g.edges : g.edges[i].to = m}}

ExitNoOutgoing(g) ==
    {Error("exit_no_outgoing", n) : n \in {m \in Exits(g) : Outgoing(g.edges, m) # {}}}

FirstStart(g) == g.nodes[CHOOSE i \in DOMAIN g.nodes :
                            /\ g.nodes[i] \in Starts(g)
                            /\ \A j \in 1..(i - 1) : g.nodes[j] \notin Starts(g)]

RetryTargets(g) ==
    {g.retry_target, g.fallback_retry_target} \cup
    UNION {{g.at[n].retry_target, g.at[n].fallback_retry_target} : n \in Ids(g)}

\* A retry target is taken to be reached, what lies behind it is not.
Reachability(g) ==
    IF Starts(g) = {} THEN {}
    ELSE LET visited == Reach(Succ(g), {FirstStart(g)}) \cup RetryTargets(g)
         IN  {Error("reachability", n) : n \in Ids(g) \ visited}

GoalGateHasRetry(g) ==
    {Warning("goal_gate_has_retry", n) : n \in {m \in Ids(g) :
        /\ g.at[m].goal_gate
        /\ {g.at[m].retry_target, g.at[m].fallback_retry_target, g.retry_target} = {""}
        /\ \A i \in Outgoing(g.edges, m) : ~g.edges[i].restart}}

\* Here an unknown shape counts as an LLM node.
PromptOnLlmNodes(g) ==
    {Warning("prompt_on_llm_nodes", n) : n \in {m \in Ids(g) :
        LET a == g.at[m]
        IN  /\ ~IsStart(g, m) /\ ~IsExit(g, m)
            /\ a.type = "codergen" \/ (a.type = "" /\ (a.shape \notin Shapes \/ a.shape = "box"))
            /\ ~a.prompt /\ ~a.labelled}}

\* An edge condition is malformed when one of its clauses has an empty key.
ConditionSyntax(g) ==
    {Diag("condition_syntax", "ERROR", "", i) :
        i \in {j \in DOMAIN g.edges : \E c \in g.edges[j].cond : c.key = ""}}

StylesheetSyntax(g) == IF g.style = "malformed" THEN {Error("stylesheet_syntax", "")} ELSE {}

TypeKnown(g) ==
    {Warning("type_known", n) : n \in {m \in Ids(g) : g.at[m].type \notin KnownTypes \cup {""}}}

ShapeResolvable(g) ==
    {Error("shape_resolvable", n) : n \in {m \in Ids(g) :
        /\ g.at[m].type = "" /\ g.at[m].shape \notin Shapes
        /\ ~IsStart(g, m) /\ ~IsExit(g, m)}}

RetryTargetExists(g) ==
    {Warning("retry_target_exists", t) : t \in RetryTargets(g) \ (Ids(g) \cup {""})}

\* _effective_handler_type: unknown when an explicit type is a custom one.
EffectiveType(a) ==
    CASE a.type \in KnownTypes -> a.type
      [] a.type \notin KnownTypes /\ a.node_type \in KnownTypes -> a.node_type
      [] a.type = "" /\ a.node_type = "" /\ a.shape \in Shapes -> HandlerOf[a.shape]
      [] OTHER -> "unknown"

ToolCommandHandler(g) ==
    {Error("tool_command_requires_tool_handler", n) : n \in {m \in Ids(g) :
        g.at[m].command # <<>> /\ EffectiveType(g.at[m]) \notin {"tool", "unknown"}}}

ToolEnvIdentifiers(g) ==
    {Error("tool_env_posix_identifier", n) : n \in {m \in Ids(g) : ~g.at[m].env_ok}}

RetryBudgets(g) ==
    {Error("retry_budget_non_negative", n) : n \in {m \in Ids(g) : ~g.at[m].retries_ok}} \cup
    (IF g.default_retry_ok THEN {} ELSE {Error("retry_budget_non_negative", "")})

Validate(g) ==
    UNION {StartNode(g), TerminalNode(g), EdgeTargets(g), StartNoIncoming(g),
           ExitNoOutgoing(g), Reachability(g), GoalGateHasRetry(g),
           PromptOnLlmNodes(g), ConditionSyntax(g), StylesheetSyntax(g),
           TypeKnown(g), ShapeResolvable(g), RetryTargetExists(g),
           ToolCommandHandler(g), ToolEnvIdentifiers(g), RetryBudgets(g)}

\* What validate_or_raise raises for.
Errors(diags) == {d \in diags : d.severity = "ERROR"}

----------------------------------------------------------------------------
(* Cycles *)

\* The edges whose ends are nodes.
Inside(g) == {i \in DOMAIN g.edges : {g.edges[i].from, g.edges[i].to} \subseteq Ids(g)}

\* One step of a depth-first search, whose stack is path: a new root, the next
\* edge out of the node on top, or that node is left.  (The two passes of
\* validation.py keep back edges or the order of leaving, here one keeps both.)
Unvisited(g, s) == {k \in DOMAIN g.nodes : g.nodes[k] \notin s.visited}

Push(s, n) == [s EXCEPT !.path = Append(@, n), !.visited = @ \cup {n}]

LookAt(g, s, i) ==
    LET n == g.edges[i].from
        m == g.edges[i].to
        seen == [s EXCEPT !.left = @ \ {i}]
    IN  IF m \in ToSet(s.path) THEN [seen EXCEPT !.back = @ \cup {<<n, m>>}]
        ELSE IF m \notin s.visited THEN Push(seen, m) ELSE seen

Descend(g, s) ==
    LET out == {i \in s.left : g.edges[i].from = Last(s.path)}
    IN  IF s.path # <<>>
        THEN IF out # {} THEN LookAt(g, s, FirstInList(out))
             ELSE [s EXCEPT !.path = Front(@), !.order = Append(@, Last(s.path))]
        ELSE IF Unvisited(g, s) # {} THEN Push(s, g.nodes[FirstInList(Unvisited(g, s))])
             ELSE s

\* Each node is pushed and left once, each edge is looked at once.
Longest(g) == Len(g.edges) + 2 * Len(g.nodes)

Descents(g) ==
    LET run[k \in 0..Longest(g)] ==
            IF k = 0 THEN [path |-> <<>>, visited |-> {}, left |-> Inside(g), back |-> {},
                           order |-> <<>>]
            ELSE Descend(g, run[k - 1])
    IN  run

DepthFirst(g) == Descents(g)[Longest(g)]

BackEdges(g) == DepthFirst(g).back

\* _compute_sccs, the second pass: what reaches n and is not in a component yet,
\* n in the reverse of the order the first pass left the nodes.
Preds(g) == [n \in Ids(g) |-> {m \in Ids(g) : n \in Succ(g)[m]}]

Gathered(g, order) ==
    LET found[k \in 0..Len(order)] ==
            IF k = 0 THEN {}
            ELSE LET before == found[k - 1]
                     n == order[Len(order) + 1 - k]
                     open == [m \in Ids(g) |-> Preds(g)[m] \ UNION before]
                 IN  IF n \in UNION before THEN before ELSE before \cup {Reach(open, {n})}
    IN  found[Len(order)]

\* Wrong: in the order the first pass left them.
ComponentsForward(g) ==
    {c \in Gathered(g, Reverse(DepthFirst(g).order)) :
        Cardinality(c) > 1 \/ \E n \in c : c = {n} /\ n \in Succ(g)[n]}

Components(g) ==
    {c \in Gathered(g, DepthFirst(g).order) :
        Cardinality(c) > 1 \/ \E n \in c : c = {n} /\ n \in Succ(g)[n]}
============================================================================

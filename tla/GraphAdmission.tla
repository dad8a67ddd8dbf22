--------------------------- MODULE GraphAdmission ---------------------------
(***************************************************************************)
(* A graph is validated and linted, and the graph that is not refused is   *)
(* walked.  The walk is the engine's, cut down to what the rules speak of: *)
(* which edge follows which outcome, the last line a tool left behind, the *)
(* goal gates and their budget.  (PipelineEngine has the whole of it; the  *)
(* failure routing of a node without a matching edge ends the walk here.)  *)
(*                                                                         *)
(* The properties say what the rules promise: a run of a graph no rule     *)
(* spoke about does not do what the rule is about.                         *)
(***************************************************************************)
EXTENDS GraphLint

CONSTANTS
    Graphs,             \* the graphs the run tries
    MaxSteps,           \* bound: nodes one walk executes
    MaxGateRetries      \* PipelineEngine._MAX_GOAL_GATE_RETRIES

\* What parse_condition gives, what sorted() can compare, and statements that end
\* in a pipeline.
ASSUME GraphsAssumption ==
    \A g \in Graphs :
        /\ g.nodes \in Seq(Ids(g)) /\ g.edges \in Seq(ToSet(g.edges))
        /\ \A e \in ToSet(g.edges) :
              /\ {e.conditional, e.restart} \subseteq BOOLEAN /\ e.weight \in Int
              /\ ~e.conditional => e.cond = {}
              /\ e.to \in Ids(g) => Lex[e.to] \in Int
              /\ \A c \in e.cond : c.op \in {"=", "!="} \/ c.value = ""
        /\ \A n \in Ids(g) :
              /\ g.at[n].goal_gate \in BOOLEAN
              /\ LET command == g.at[n].command
                 IN  /\ command \in Seq(ToSet(command))
                     /\ command # <<>> =>
                          Final(command).stages \in Seq({"check", "filter", "emit"}) \ {<<>>}

\* A status word is in lower case and has no accelerator.
ASSUME NormAssumption == \A s \in Statuses : s \in DOMAIN Norm /\ Norm[s] = s

VARIABLES
    graph, diags,
    phase,              \* "loaded", "refused", "top", "route", "raised", "end"
    node,
    outcome,            \* of the node executed last
    last_line,          \* context.tool.last_line
    masked,             \* a check of the last tool failed (what sh knew)
    node_outcomes,      \* of the gates: "none", "pass" or "fail"
    gate_retries,
    via,                \* the edge followed last
    retried,            \* where the last gate retry began, "" before the first
    unseen,             \* a failure was routed and nothing has looked at it since
    routed,             \* a failure was routed since the last gate retry
    visits              \* executions of each node since the last gate retry

vars == <<graph, diags, phase, node, outcome, last_line, masked, node_outcomes,
          gate_retries, via, retried, unseen, routed, visits>>

Plain(status, explicit) ==
    [status |-> status, label |-> "", suggested |-> <<>>, explicit |-> explicit]

Gates(g) == {n \in Ids(g) : g.at[n].goal_gate}

NoVisits(g) == [n \in Ids(g) |-> 0]

Init ==
    /\ graph \in Graphs /\ diags = {}
    /\ phase = "loaded" /\ node = "" /\ outcome = Plain("success", FALSE)
    /\ last_line = "" /\ masked = FALSE
    /\ node_outcomes = [n \in Gates(graph) |-> "none"]
    /\ gate_retries = 0 /\ via = NoEdge /\ retried = "" /\ unseen = FALSE /\ routed = FALSE
    /\ visits = NoVisits(graph)

----------------------------------------------------------------------------
(* Validation *)

\* validate_or_raise, with what lint() would say beside it.
Admit ==
    /\ phase = "loaded"
    /\ diags' = Lint(graph)
    /\ IF Errors(Validate(graph)) # {}
       THEN phase' = "refused" /\ UNCHANGED node
       ELSE phase' = "top" /\ node' = FirstStart(graph)
    /\ UNCHANGED <<graph, outcome, last_line, masked, node_outcomes, gate_retries,
                   via, retried, unseen, routed, visits>>

----------------------------------------------------------------------------
(* The handlers *)

\* What sh makes of a command whose checks pass or not: the exit code, and the
\* line it prints ("text" when the command echoes no token of its own).
Shell(command, passes) ==
    LET last == Final(command)
        failed == {k \in DOMAIN last.stages : last.stages[k] = "check" /\ ~passes}
        ok == IF HasPipefail(command) THEN failed = {} ELSE Len(last.stages) \notin failed
    IN  [ok |-> ok \/ last.or_else,
         failed |-> failed # {},
         line |-> CASE ok /\ last.echo -> "yes"
                    [] ~ok /\ last.or_else -> "no"
                    [] OTHER -> "text"]

\* ToolHandler.execute: a command that fails leaves the line of the one before.
RunTool(passes) ==
    LET r == Shell(graph.at[node].command, passes)
    IN  /\ outcome' = Plain(IF r.ok THEN "success" ELSE "fail", TRUE)
        /\ last_line' = IF r.ok THEN r.line ELSE last_line
        /\ masked' = r.failed

\* No command, or none that ends in time.
NoVerdict ==
    /\ outcome' = Plain("fail", FALSE)
    /\ UNCHANGED <<last_line, masked>>

\* The choices of a human gate are the labels of its edges, or their targets;
\* the answer suggests the targets of the choice.
Choice(e) == IF e.label # "" THEN e.label ELSE e.to

Answered(c) ==
    LET chosen == {i \in Outgoing(graph.edges, node) : Choice(graph.edges[i]) = c}
        nth(k) == CHOOSE i \in chosen : Cardinality({j \in chosen : j <= i}) = k
    IN  [status |-> "success", label |-> "", explicit |-> TRUE,
         suggested |-> [k \in 1..Cardinality(chosen) |->
                          [kind |-> "str", id |-> graph.edges[nth(k)].to]]]

\* An LLM node says what it likes, and may prefer a label.
LlmOutcomes ==
    [status: {"success", "fail"}, label: {"", "fail"}, suggested: {<<>>}, explicit: BOOLEAN]

Handle(type) ==
    \/ type = "tool" /\ NoVerdict
    \/ /\ type = "tool" /\ graph.at[node].command # <<>>
       /\ \E passes \in BOOLEAN : RunTool(passes)
    \/ /\ type = "codergen" /\ outcome' \in LlmOutcomes
       /\ UNCHANGED <<last_line, masked>>
    \/ /\ type = "wait.human" /\ \E e \in EdgesOut(graph, node) : outcome' = Answered(Choice(e))
       /\ UNCHANGED <<last_line, masked>>
    \/ /\ type \in {"start", "conditional"} /\ outcome' = Plain("success", TRUE)
       /\ UNCHANGED <<last_line, masked>>

Total(v) == FoldFunction(LAMBDA a, b : a + b, 0, v)

Execute ==
    /\ phase = "top" /\ node \notin Exits(graph) /\ Total(visits) < MaxSteps
    /\ Dispatched(graph.at[node]) # "none"
    /\ Handle(Dispatched(graph.at[node]))
    /\ phase' = "route"
    /\ visits' = [visits EXCEPT ![node] = @ + 1]
    /\ node_outcomes' = IF node \in Gates(graph)
                        THEN [node_outcomes EXCEPT ![node] =
                                IF outcome'.status = "success" /\ outcome'.explicit
                                THEN "pass" ELSE "fail"]
                        ELSE node_outcomes
    /\ unseen' = (unseen /\ Dispatched(graph.at[node]) # "wait.human")
    /\ UNCHANGED <<graph, diags, node, gate_retries, via, retried, routed>>

\* The registry has no handler for the node, and the engine raises.
Undispatched ==
    /\ phase = "top" /\ node \notin Exits(graph)
    /\ Dispatched(graph.at[node]) = "none"
    /\ phase' = "raised"
    /\ UNCHANGED <<graph, diags, node, outcome, last_line, masked, node_outcomes,
                   gate_retries, via, retried, unseen, routed, visits>>

----------------------------------------------------------------------------
(* The walk *)

Context == [k \in {LastLineKey, "tool.last_line"} |-> last_line]

Selected == SelectEdge(graph.edges, node, outcome, Context)

Follow ==
    /\ phase = "route" /\ Selected # NoEdge
    /\ LET e == graph.edges[Selected]
       IN  /\ via' = Selected /\ node' = e.to
           /\ gate_retries' = IF e.restart THEN 0 ELSE gate_retries
           /\ unseen' = (MatchesFail(e) \/ (unseen /\ ~e.conditional))
           /\ routed' = (routed \/ MatchesFail(e))
    /\ phase' = "top"
    /\ UNCHANGED <<graph, diags, outcome, last_line, masked, node_outcomes, retried,
                   visits>>

NoMatch ==
    /\ phase = "route" /\ Selected = NoEdge
    /\ phase' = "end"
    /\ UNCHANGED <<graph, diags, node, outcome, last_line, masked, node_outcomes,
                   gate_retries, via, retried, unseen, routed, visits>>

FailedGates == {n \in Gates(graph) : node_outcomes[n] = "fail"}

\* _check_goal_gates: the first unsatisfied gate with a target names the retry.
RetryFrom ==
    LET open == SelectSeq(graph.nodes,
                          LAMBDA n : n \in FailedGates /\ EffectiveRetryTarget(graph, n) # "")
    IN  IF open = <<>> THEN "" ELSE EffectiveRetryTarget(graph, Head(open))

RetryGate ==
    /\ phase = "top" /\ node \in Exits(graph)
    /\ RetryFrom # "" /\ gate_retries < MaxGateRetries
    /\ gate_retries' = gate_retries + 1
    /\ node' = RetryFrom /\ retried' = RetryFrom
    /\ node_outcomes' = [n \in Gates(graph) |-> "none"]
    /\ visits' = NoVisits(graph)
    /\ unseen' = FALSE /\ routed' = FALSE /\ via' = NoEdge
    /\ UNCHANGED <<graph, diags, phase, outcome, last_line, masked>>

Finish ==
    /\ phase = "top" /\ node \in Exits(graph)
    /\ RetryFrom = "" \/ gate_retries >= MaxGateRetries
    /\ phase' = "end"
    /\ UNCHANGED <<graph, diags, node, outcome, last_line, masked, node_outcomes,
                   gate_retries, via, retried, unseen, routed, visits>>

Next ==
    \/ Admit \/ Execute \/ Undispatched \/ Follow \/ NoMatch \/ RetryGate \/ Finish

Spec == Init /\ [][Next]_vars
----------------------------------------------------------------------------
(* Properties *)

Flagged(rule, n) == \E d \in diags : d.rule = rule /\ d.node = n

FlaggedEdge(rule, i) == \E d \in diags : d.rule = rule /\ d.edge = i

\* TOPO-003 says there is no cycle (a depth-first search) exactly when TOPO-004
\* and TOPO-005 find no component to look at (two passes): the two cycle
\* detectors of validation.py agree, and agree with what can reach itself.  And a
\* run of a graph said to be acyclic executes no node twice, short of a goal gate
\* retry.
CyclesAgree ==
    LET loops == {n \in Ids(graph) : n \in Reach(Succ(graph), Succ(graph)[n])}
        mutual(n) == {m \in loops : /\ m \in Reach(Succ(graph), {n})
                                    /\ n \in Reach(Succ(graph), {m})}
    IN  /\ phase = "loaded" => /\ (BackEdges(graph) = {}) <=> (loops = {})
                               /\ Components(graph) = {mutual(n) : n \in loops}
        /\ Flagged("acyclic_graph", "") => \A n \in Ids(graph) : visits[n] <= 1

\* TOPO-001: no run follows an edge the rule calls dead, out of a node that is
\* served by the conditional handler.
DeadEdgesStayDead ==
    via # NoEdge =>
        ~ /\ FlaggedEdge("dead_conditional_edge", via)
          /\ Dispatched(graph.at[graph.edges[via].from]) = "conditional"

\* TOPO-002: a run that leaves a failed tool by what an earlier tool printed,
\* though another edge names the failure, was warned.  (A tool is what the rules
\* take for one: a node whose node_type alone makes it a tool they pass over.)
StaleRoutesWereFlagged ==
    phase = "top" /\ via # NoEdge =>
        LET e == graph.edges[via]
        IN  /\ Dispatched(graph.at[e.from]) = "tool" /\ outcome.status = "fail"
            /\ IsTool(graph.at[e.from]) /\ ~IsStart(graph, e.from)
            /\ ReadsLastLine(e)
            /\ \E f \in EdgesOut(graph, e.from) :
                   f.cond \cap {Clause("outcome", "=", "fail"),
                                Clause("outcome", "!=", "success")} # {}
            => FlaggedEdge("stale_label_collision", via)

\* TOPO-009: a label that is a status word and stands for the outcome takes a
\* run past the plain edge that carries it only where the rule spoke.
ShadowedLabelsWereFlagged ==
    phase = "top" /\ via # NoEdge =>
        LET e == graph.edges[via]
        IN  /\ outcome.label \in Statuses \ {outcome.status}
            /\ \E c \in e.cond : c.key = "outcome" /\ c.value \in Statuses
            /\ \E f \in EdgesOut(graph, e.from) :
                   ~f.conditional /\ f.label # "" /\ Norm[f.label] = Norm[outcome.label]
            => Flagged("outcome_label_shadowing", e.from)

\* An edge a run takes against its author's intent was spoken of beforehand: a
\* dead one is never taken, and one that reads a stale line or steps over a
\* shadowed label was flagged.
RoutesWereFlagged ==
    DeadEdgesStayDead /\ StaleRoutesWereFlagged /\ ShadowedLabelsWereFlagged

\* SHAPE-001 (shape_resolvable) and type_known: the registry refuses a node
\* only when a rule spoke about that node, or when it is the start node (for
\* the name "start" excuses an unknown shape).
RefusedNodesWereFlagged ==
    phase = "raised" => Flagged("type_known", node) \/ IsStart(graph, node)

\* TOPO-006: a failure that was routed reaches the exit past a condition or a
\* human gate, or the edge that routed it was flagged, or a node is said to carry
\* a runs_on that makes the rule look away though no engine reads it any more.
\* (A hexagon whose type is another one passes for a human gate, and is left out.)
SilentFailuresWereFlagged ==
    /\ phase = "top" /\ node \in Exits(graph) /\ unseen
    /\ \A n \in Ids(graph) : graph.at[n].shape = "hexagon"
                               => Dispatched(graph.at[n]) = "wait.human"
    => \E d \in diags : d.rule \in {"fail_routed_to_exit", "ATTR-LINT-001"}

\* CMD-001: a tool whose check failed and which reports success with nothing
\* that says "no" was warned of, unless its pipe ends in a program that is no
\* filter to the rule.  (What CMD-002 adds to it is never such a tool.)
MaskedChecksWereFlagged ==
    /\ phase = "route" /\ Dispatched(graph.at[node]) = "tool" /\ IsTool(graph.at[node])
    /\ outcome.status = "success" /\ masked /\ last_line # "no"
    => \/ Flagged("CMD-001", node)
       \/ Last(Final(graph.at[node].command).stages) = "emit"

\* A run that is refused a node, ends green past a failure, or takes a failed
\* check for a success, was spoken of beforehand.
FailuresWereFlagged ==
    RefusedNodesWereFlagged /\ SilentFailuresWereFlagged /\ MaskedChecksWereFlagged

\* TOPO-007: a run that went back to the target of a gate whose retry budget is
\* said to be dead does not use more of that budget, unless a failure is routed on
\* the way.
DeadBudgetsStayDead ==
    [][ gate_retries' > gate_retries /\ gate_retries > 0
        => \/ routed
           \/ \A n \in Gates(graph) : EffectiveRetryTarget(graph, n) = retried
                 => ~Flagged("gate_retry_budget_dead", n) ]_vars
============================================================================

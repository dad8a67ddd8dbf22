--------------------------- MODULE PipelineGraph ---------------------------
(***************************************************************************)
(* The graph a pipeline run walks, after parsing and transforms, and what  *)
(* the engine reads off it.  The graph is a parameter: NodeAttrs gives     *)
(* each node the attributes the engine looks at, Edges the list of edges.  *)
(*                                                                         *)
(* Two attributes stand for code the engine calls.  "outcomes" is the set  *)
(* of outcomes execute_with_retry may hand back for the node, each with    *)
(* the context updates that come with it; "refs" and "outputs" are what    *)
(* _extract_node_refs and build_output_table compute for it.               *)
(***************************************************************************)
EXTENDS EdgeSelection, FiniteSets

CONSTANTS
    Text,               \* the strings: ids, labels, context values
    Nodes,              \* node ids
    Start,              \* what _find_start_node returns
    NodeAttrs,          \* [Nodes -> Node]
    Edges,              \* the edges, in the order of the DOT file
    GraphRetryTarget,   \* graph retry_target, else fallback_retry_target, else ""
    Keys,               \* context keys nodes produce and refer to
    CtxKeys,            \* the keys of the context that edge conditions read
    HasFuse,            \* does the graph set max_pipeline_duration?
    MaxRetries          \* _MAX_GOAL_GATE_RETRIES (50 in the code)

Kinds == {"plain", "start", "component", "folder", "fan_in", "exit"}

Outcome == [status: Statuses, label: Text,
            suggested: Seq([kind: {"str", "int", "bad"}, id: Text]),
            explicit: BOOLEAN]

\* An outcome and the context_updates that come with it; a key the updates do
\* not name maps to Kept.
Result == [outcome: Outcome, updates: [CtxKeys -> Text]]

Kept == "(kept)"

NoUpdates == [k \in CtxKeys |-> Kept]

Node == [kind: Kinds,
         goal_gate: BOOLEAN,
         auto_status: BOOLEAN,
         allow_partial: BOOLEAN,
         must_write: BOOLEAN,
         timeout: BOOLEAN,
         retry_target: Text,
         refs: SUBSET Keys,
         outputs: SUBSET Keys,
         outcomes: SUBSET Result]

Edge == [from: Nodes, to: Nodes, conditional: BOOLEAN,
         cond: SUBSET [key: Text, op: {"=", "!=", "truthy"}, value: Text],
         label: Text, weight: Int, restart: BOOLEAN]

\* A target the graph does not set is "".
ASSUME TextAssumption == Statuses \cup {Missing, Kept} \subseteq Text

ASSUME NodesAssumption == /\ IsFiniteSet(Nodes)
                          /\ Nodes \subseteq Text
                          /\ "" \notin Nodes
                          /\ Start \in Nodes

ASSUME AttrsAssumption == NodeAttrs \in [Nodes -> Node]

ASSUME EdgesAssumption == Edges \in Seq(Edge) /\ Lex \in [Nodes -> Int]

ASSUME RetriesAssumption == MaxRetries \in Nat /\ GraphRetryTarget \in Text

\* A restart also sets "iteration" and "loop_count", which no condition of the
\* graphs considered here reads.
ASSUME CtxAssumption == /\ {"outcome", "preferred_label"} \subseteq CtxKeys
                        /\ CtxKeys \cap {"iteration", "loop_count"} = {}

ASSUME FuseAssumption == HasFuse \in BOOLEAN

----------------------------------------------------------------------------
IsExit(n) == NodeAttrs[n].kind = "exit"

\* The safety bound of _run_loop on the steps of one run.
MaxSteps == Cardinality(Nodes) * MaxRetries

Targets(n) == {Edges[i].to : i \in Outgoing(Edges, n)}

IsFanOut(n) ==
    NodeAttrs[n].kind = "component" /\ Cardinality(Outgoing(Edges, n)) > 1

\* Within[r][k]: the nodes at most k edges away from r, the queue of the
\* breadth-first search from r, level by level.
Within ==
    [r \in Nodes |->
        LET W[k \in 0..Cardinality(Nodes)] ==
                IF k = 0 THEN {r}
                ELSE LET nearer == W[k-1]
                     IN  nearer \cup UNION {Targets(m) : m \in nearer}
        IN  W]

\* The depth at which the search from r first meets n, or Unreached.
Unreached == Cardinality(Nodes) + 1

Depth ==
    [r \in Nodes |-> [n \in Nodes |->
        LET hits == {k \in 0..Cardinality(Nodes) : n \in Within[r][k]}
        IN  IF hits = {} THEN Unreached
            ELSE CHOOSE k \in hits : \A h \in hits : k <= h]]

\* The depth the slowest of the branches meets n at.
ConvergenceDepth(roots, n) ==
    CHOOSE d \in {Depth[r][n] : r \in roots} : \A r \in roots : Depth[r][n] <= d

\* _find_fan_in_node: the common descendants of least depth.  The code takes
\* min() over a Python set, so a tie goes to either.
FanInNodes ==
    [n \in {m \in Nodes : IsFanOut(m)} |->
        LET roots  == Targets(n)
            common == {m \in Nodes \ roots : ConvergenceDepth(roots, m) < Unreached}
        IN  {m \in common : \A x \in common :
                ConvergenceDepth(roots, m) <= ConvergenceDepth(roots, x)}]

\* _resolve_failure_retry_target: the node's own chain, never the graph's.
\* Wrong: a target that names no node is returned too.
FailureRetryAnywhere(n) == NodeAttrs[n].retry_target

FailureRetryTarget(n) ==
    IF NodeAttrs[n].retry_target \in Nodes THEN NodeAttrs[n].retry_target ELSE ""

\* The chain of _check_goal_gates: the first one that is SET decides, and one
\* that names no node leaves the gate without a target.
GateRetryTarget(n) ==
    IF NodeAttrs[n].retry_target # "" THEN FailureRetryTarget(n)
    ELSE IF GraphRetryTarget \in Nodes THEN GraphRetryTarget ELSE ""

\* The node _coerce_suggested_id and the membership test make of a raw id.
SuggestedNode(raw) ==
    IF raw.kind \in {"str", "int"} /\ raw.id \in Nodes THEN raw.id ELSE ""
----------------------------------------------------------------------------
(* Outcomes and contexts *)

PlainOutcome(status) ==
    [status |-> status, label |-> "", suggested |-> <<>>, explicit |-> FALSE]

\* The value of node_outcomes at a node that has none.
NoOutcome == PlainOutcome("none")

IsSuccess(o) == o.status \in {"success", "partial_success"}

GateSatisfied(o) == IsSuccess(o) /\ o.explicit

NoOutcomes == [n \in Nodes |-> NoOutcome]

ZeroCounts == [n \in Nodes |-> 0]

InitialContext == [k \in CtxKeys |-> Missing]

\* context after Step 4: updates, then "outcome", then a truthy label.
ContextAfter(ctx, r) ==
    [k \in CtxKeys |->
        IF k = "outcome" THEN r.outcome.status
        ELSE IF k = "preferred_label" /\ r.outcome.label # "" THEN r.outcome.label
        ELSE IF r.updates[k] # Kept THEN r.updates[k]
        ELSE ctx[k]]

\* What the handler's execution may amount to once the node's timeout, the
\* auto_status promotion and the must_write backstop have had their say.  The
\* retry ladder has already checked the artifact of its own successes.
Results(n) ==
    LET a         == NodeAttrs[n]
        bare(s)   == [outcome |-> PlainOutcome(s), updates |-> NoUpdates]
        promotable(r) == a.auto_status /\ r.outcome.status = "skipped"
        promoted  == {[r EXCEPT !.outcome.status = "success",
                                !.outcome.explicit = FALSE] :
                          r \in {x \in a.outcomes : promotable(x)}}
        timed_out == IF ~a.timeout THEN {}
                     ELSE {bare(IF a.allow_partial THEN "partial_success"
                                                   ELSE "fail")}
        unchecked == promoted \cup timed_out
        violated  == IF a.must_write /\ \E r \in unchecked : IsSuccess(r.outcome)
                     THEN {bare("fail")} ELSE {}
    IN  {r \in a.outcomes : ~promotable(r)} \cup unchecked \cup violated

\* The goal gates whose recorded outcome does not satisfy them.
\* Wrong: a success without an explicit verdict will do.
UnsatisfiedByStatus(outcomes) ==
    {n \in Nodes : /\ NodeAttrs[n].goal_gate
                   /\ outcomes[n].status # "none"
                   /\ ~IsSuccess(outcomes[n])}

Unsatisfied(outcomes) ==
    {n \in Nodes : /\ NodeAttrs[n].goal_gate
                   /\ outcomes[n].status # "none"
                   /\ ~GateSatisfied(outcomes[n])}

\* node_outcomes is iterated in insertion order: by first completion.
FirstUnsatisfied(completed, outcomes) ==
    LET position(n) == CHOOSE i \in DOMAIN completed :
                          /\ completed[i] = n
                          /\ \A j \in 1..(i-1) : completed[j] # n
    IN  CHOOSE n \in Unsatisfied(outcomes) :
            \A m \in Unsatisfied(outcomes) : position(n) <= position(m)

\* _check_goal_gates: with every gate satisfied, the last node's own outcome,
\* its suggested_next_ids with it.
GateResult(completed, outcomes) ==
    IF Unsatisfied(outcomes) # {}
    THEN LET target == GateRetryTarget(FirstUnsatisfied(completed, outcomes))
         IN  [PlainOutcome("fail") EXCEPT !.suggested =
                 IF target = "" THEN <<>>
                 ELSE <<[kind |-> "str", id |-> target]>>]
    ELSE IF completed = <<>> THEN PlainOutcome("success")
    ELSE outcomes[completed[Len(completed)]]

\* The node the exit branch jumps to when the gate result is FAIL, or "".
JumpTarget(completed, outcomes) ==
    LET result == GateResult(completed, outcomes)
    IN  IF result.status = "fail" /\ result.suggested # <<>>
        THEN SuggestedNode(result.suggested[1]) ELSE ""

\* A skipped node routes as if it had failed, and failing that along the best
\* unconditional edge.
SelectFromSkipped(n, ctx) ==
    LET e == SelectEdge(Edges, n, PlainOutcome("fail"), ctx)
    IN  IF e = NoEdge /\ Unconditional(Edges, n) # {}
        THEN BestByWeightThenLexical(Edges, Unconditional(Edges, n)) ELSE e
============================================================================

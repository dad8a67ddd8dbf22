---------------------------- MODULE PipelineWalk ----------------------------
(***************************************************************************)
(* What a pipeline run leaves on record, with nothing said of processes,   *)
(* crashes or budgets: a walk of the graph that visits one node after      *)
(* another, each the node the last record routes to.  PipelineEngine       *)
(* implements this specification through its checkpoint: a crash and a     *)
(* resume add no node, lose none and repeat none.                          *)
(***************************************************************************)
EXTENDS PipelineGraph

VARIABLES
    at,         \* the node recorded last, "" at first
    trail,      \* completed_nodes of the current attempt
    outcomes,   \* node_outcomes of the current attempt
    ctx         \* the context

walkVars == <<at, trail, outcomes, ctx>>

WalkInit ==
    /\ at = "" /\ trail = <<>>
    /\ outcomes = NoOutcomes /\ ctx = InitialContext

\* The next node, in the same attempt or in a new one.
Onward(n) == [node |-> n, trail |-> trail, outcomes |-> outcomes, ctx |-> ctx]

Afresh(n) == [node |-> n, trail |-> <<>>, outcomes |-> NoOutcomes, ctx |-> ctx]

AlongEdge(e) ==
    IF Edges[e].restart
    THEN [Afresh(Edges[e].to) EXCEPT !.ctx = [ctx EXCEPT !["preferred_label"] = Missing]]
    ELSE Onward(Edges[e].to)

\* Where a node recorded with outcome o may lead.
FromNode ==
    LET e == SelectEdge(Edges, at, outcomes[at], ctx)
        t == FailureRetryTarget(at)
    IN  IF IsFanOut(at) THEN {Onward(n) : n \in FanInNodes[at]}
        ELSE IF e # NoEdge THEN {AlongEdge(e)}
        ELSE IF t # "" THEN {Afresh(t)} ELSE {}

\* Where a node the engine skipped leads as long as its process lives.
FromSkipped ==
    LET e == SelectFromSkipped(at, ctx)
        t == FailureRetryTarget(at)
    IN  IF e # NoEdge THEN {Onward(Edges[e].to)}
        ELSE IF t # "" THEN {Onward(t)} ELSE {}

FromExit ==
    LET t == JumpTarget(trail, outcomes)
    IN  IF t # "" THEN {Afresh(t)} ELSE {}

Hops ==
    IF at = "" THEN {Onward(Start)}
    ELSE IF IsExit(at) THEN FromExit
    ELSE FromNode \cup (IF outcomes[at].status = "skipped" THEN FromSkipped ELSE {})

RecordExit(h) ==
    /\ IsExit(h.node)
    /\ trail' = h.trail /\ outcomes' = h.outcomes /\ ctx' = h.ctx

RecordExecution(h) ==
    /\ ~IsExit(h.node)
    /\ trail' = Append(h.trail, h.node)
    /\ \E r \in Results(h.node) :
         /\ outcomes' = [h.outcomes EXCEPT ![h.node] = r.outcome]
         /\ ctx' = ContextAfter(h.ctx, r)

\* Only a node that refers to another node's output is ever skipped.
RecordSkip(h) ==
    /\ ~IsExit(h.node) /\ NodeAttrs[h.node].refs # {}
    /\ trail' = Append(h.trail, h.node)
    /\ outcomes' = [h.outcomes EXCEPT ![h.node] = PlainOutcome("skipped")]
    /\ ctx' = h.ctx

WalkNext ==
    \E h \in Hops :
        /\ at' = h.node
        /\ RecordExit(h) \/ RecordExecution(h) \/ RecordSkip(h)

WalkSpec == WalkInit /\ [][WalkNext]_walkVars
=============================================================================

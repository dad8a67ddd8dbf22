----------------------------- MODULE ChildGraphs -----------------------------
(***************************************************************************)
(* A pipeline whose nodes run pipelines: folder nodes (PipelineHandler)    *)
(* run the graph of another file once, managers (ManagerLoopHandler) run   *)
(* one, or a part of their own graph, cycle after cycle until a condition  *)
(* holds.  Every such run has an engine and a context of its own and is    *)
(* awaited by the handler that started it, so the runs that are going on   *)
(* form a stack.  An engine walks its graph as PipelineEngine tells it,    *)
(* reduced here to what a child can disturb: no checkpoints, no skipped    *)
(* nodes, no fan-outs.                                                     *)
(*                                                                         *)
(* A run is named by its path: <<>> is the run the user started, and       *)
(* Append(r, i) the i-th run that a node of r started.  Two things are     *)
(* kept that the code does not have: by[k], the run whose node wrote the   *)
(* value a context has at k, and the field from of a result, the run of    *)
(* the leaf that made it.                                                  *)
(***************************************************************************)
EXTENDS EdgeSelection, FiniteSets, SequencesExt

CONSTANTS
    Text,           \* the strings: ids, labels, context values
    CtxKeys,        \* the keys of the context that matter
    Graphs,         \* file -> [nodes, edges, start, retry_target]
    Roots,          \* the files a user may run
    MaxRetries      \* _MAX_GOAL_GATE_RETRIES (50 in the code)

VARIABLES
    stack,          \* the runs that are going on, the innermost last
    returned,       \* what the innermost run handed to the handler that awaits it
    verdict,        \* the status the user's run ended with, "" while it runs
    cancelled,      \* cancel_event, which all runs share
    allowed,        \* <<run, key>>: the contract of the node lets key out of run
    said,           \* <<run, status>>: a leaf of run asserted status
    late            \* nodes without children begun after the cancel

vars == <<stack, returned, verdict, cancelled, allowed, said, late>>

history == <<allowed, said, late>>

\* What PipelineGraph reads off a graph, for the graph of file g.
Of(g) == INSTANCE PipelineGraph WITH
    Nodes <- DOMAIN Graphs[g].nodes, NodeAttrs <- Graphs[g].nodes,
    Edges <- Graphs[g].edges, Start <- Graphs[g].start,
    GraphRetryTarget <- Graphs[g].retry_target, Keys <- {}, HasFuse <- FALSE

----------------------------------------------------------------------------
(* Runs and their frames *)

Kept == "(kept)"
NoUpdates == [k \in CtxKeys |-> Kept]
Plain(status) == [status |-> status, label |-> "", suggested |-> <<>>, explicit |-> FALSE]
IsSuccess(o) == o.status \in {"success", "partial_success"}

\* A result the handler or the engine of run made up.
Bare(status, run) == [outcome |-> Plain(status), updates |-> NoUpdates, from |-> run]

NoOutcomes(file) == [n \in DOMAIN Graphs[file].nodes |-> Plain("none")]

\* kind is "engine" for PipelineEngine.run and "subgraph" for run_subgraph, which
\* walks a part of its engine's graph.  pc: "top" at the head of the loop, "run"
\* with a handler to call, "leaf" and "child" inside one, "cycle" between two
\* cycles of a manager, "made" when the handler has returned, "leaving" at an
\* exit that was reached in time.
Frame(kind, file, start, run, ctx, by) ==
    [kind |-> kind, file |-> file, run |-> run, at |-> start, pc |-> "top",
     ctx |-> ctx, by |-> by, completed |-> <<>>, outcomes |-> NoOutcomes(file),
     last |-> Bare("none", run), made |-> Bare("none", run), steps |-> 0, gate_retries |-> 0,
     routing_retries |-> 0, tries |-> 0, cycle |-> 0, children |-> 0,
     ran |-> [n \in DOMAIN Graphs[file].nodes |-> <<>>]]

Here == stack[Len(stack)]
Node == Graphs[Here.file].nodes[Here.at]
Injects(f, k) == k \in DOMAIN Graphs[f.file].nodes[f.at].inject
Edges == Graphs[Here.file].edges
Standing(pc) == stack # <<>> /\ Here.pc = pc
Becomes(f) == stack' = [stack EXCEPT ![Len(stack)] = f]

NoReturn == [result |-> Bare("none", <<>>), run |-> <<>>]

Init ==
    /\ \E g \in Roots :
          stack = <<Frame("engine", g, Graphs[g].start, <<>>,
                          [k \in CtxKeys |-> Missing], [k \in CtxKeys |-> <<>>])>>
    /\ returned = NoReturn /\ verdict = "" /\ cancelled = FALSE
    /\ allowed = {} /\ said = {} /\ late = 0

\* The run ends with r.
Return(r) ==
    /\ stack' = Front(stack)
    /\ IF Len(stack) = 1 THEN verdict' = r.outcome.status /\ UNCHANGED returned
       ELSE /\ returned' = [result |-> r, run |-> Here.run, ctx |-> Here.ctx, by |-> Here.by]
            /\ UNCHANGED verdict
    /\ UNCHANGED <<cancelled, history>>

\* The handler returns r to its engine.
Made(r) == [Here EXCEPT !.pc = "made", !.made = r]

Same == UNCHANGED <<verdict, cancelled>>

----------------------------------------------------------------------------
(* The head of the loop, in _run_loop and in run_subgraph *)

Begin == Standing("top") /\ Here.steps < Of(Here.file)!MaxSteps

ExceedStepBound ==
    /\ Standing("top") /\ Here.steps >= Of(Here.file)!MaxSteps
    /\ Return(Bare("fail", Here.run))

\* Wrong: the engine of a child graph has no cancel_event.
CancelSeenByRoot == cancelled /\ Here.run = <<>>

CancelSeen == cancelled

StopOnCancel == Begin /\ CancelSeen /\ Return(Bare("fail", Here.run))

ReachExit ==
    /\ Begin /\ ~CancelSeen /\ Here.kind = "engine" /\ Node.kind = "exit"
    /\ Becomes([Here EXCEPT !.pc = "leaving", !.steps = @ + 1])
    /\ UNCHANGED <<returned, history>> /\ Same

\* run_subgraph ends at a fan-in as well, with what its last node returned.
SubgraphArrives ==
    /\ Begin /\ ~CancelSeen /\ Here.kind = "subgraph" /\ Node.kind \in {"exit", "fan_in"}
    /\ Return(IF Here.last.outcome.status = "none" THEN Bare("success", Here.run)
              ELSE Here.last)

EnterNode ==
    /\ Begin /\ ~CancelSeen /\ Node.kind # "exit"
    /\ ~(Here.kind = "subgraph" /\ Node.kind = "fan_in")
    /\ Becomes([Here EXCEPT !.pc = "run", !.steps = @ + 1, !.tries = 0])
    /\ UNCHANGED <<returned, history>> /\ Same

----------------------------------------------------------------------------
(* Goal gates *)

Jump == Of(Here.file)!JumpTarget(Here.completed, Here.outcomes)

Cleared(f) == [f EXCEPT !.completed = <<>>, !.outcomes = NoOutcomes(f.file)]

GateRetry ==
    /\ Standing("leaving") /\ Jump # "" /\ Here.gate_retries < MaxRetries
    /\ Becomes([Cleared(Here) EXCEPT !.pc = "top", !.at = Jump, !.gate_retries = @ + 1])
    /\ UNCHANGED <<returned, history>> /\ Same

\* With its gates satisfied the run ends with the outcome of its last node as it
\* is, updates and label and all.
GateResult ==
    IF Of(Here.file)!Unsatisfied(Here.outcomes) = {} /\ Here.completed # <<>> THEN Here.last
    ELSE [Bare("none", Here.run) EXCEPT
             !.outcome = Of(Here.file)!GateResult(Here.completed, Here.outcomes)]

Leave ==
    /\ Standing("leaving") /\ (Jump = "" \/ Here.gate_retries >= MaxRetries)
    /\ Return(GateResult)

----------------------------------------------------------------------------
(* Nodes without children *)

BeginLeaf ==
    /\ Standing("run") /\ Node.kind \in {"start", "plain", "fan_in"}
    /\ Becomes([Here EXCEPT !.pc = "leaf"])
    /\ late' = IF cancelled /\ Here.tries = 0 THEN late + 1 ELSE late
    /\ UNCHANGED <<returned, allowed, said>> /\ Same

LeafReturns ==
    /\ Standing("leaf")
    /\ \E r \in Node.results :
          /\ Becomes(Made([outcome |-> r.outcome, updates |-> r.updates, from |-> Here.run]))
          /\ said' = IF r.outcome.explicit THEN said \cup {<<Here.run, r.outcome.status>>}
                     ELSE said
    /\ UNCHANGED <<returned, allowed, late>> /\ Same

----------------------------------------------------------------------------
(* Starting a child *)

\* The context of a child: a copy, without the label of the parent's last node,
\* with the node's context.* attributes.
\* Wrong: the label of the parent's last node comes along.
ChildContextWithLabel(f, run) ==
    LET inject == Graphs[f.file].nodes[f.at].inject
    IN  [ctx |-> [k \in CtxKeys |-> IF k \in DOMAIN inject THEN inject[k] ELSE f.ctx[k]],
         by  |-> [k \in CtxKeys |-> IF k \in DOMAIN inject THEN f.run ELSE f.by[k]]]

ChildContext(f, run) ==
    LET inject == Graphs[f.file].nodes[f.at].inject
    IN  [ctx |-> [k \in CtxKeys |-> CASE k \in DOMAIN inject -> inject[k]
                                      [] k = "preferred_label" /\ k \notin DOMAIN inject -> Missing
                                      [] OTHER -> f.ctx[k]],
         by  |-> [k \in CtxKeys |-> CASE k \in DOMAIN inject -> f.run
                                      [] k = "preferred_label" /\ k \notin DOMAIN inject -> run
                                      [] OTHER -> f.by[k]]]

\* The handler starts a run and awaits it.
StartChild(parent, kind, file, start) ==
    LET run == Append(parent.run, parent.children + 1)
        c   == ChildContext(parent, run)
        f   == [parent EXCEPT !.pc = "child", !.children = @ + 1, !.ran[parent.at] = run]
    IN  stack' = Append(Front(stack), f) \o <<Frame(kind, file, start, run, c.ctx, c.by)>>

FolderOf == Standing("run") /\ Node.kind = "folder"

\* No dot_file, or a file that does not parse.
FolderRefuses ==
    /\ FolderOf /\ Node.file = ""
    /\ Becomes(Made(Bare("fail", Here.run)))
    /\ UNCHANGED <<returned, history>> /\ Same

\* ChildDotResolutionError ends the walk, whatever the edges of the node say.
FolderMissing ==
    /\ FolderOf /\ Node.file # "" /\ Node.may_miss
    /\ Return(Bare("fail", Here.run))

EnterFolder ==
    /\ FolderOf /\ Node.file # ""
    /\ StartChild(Here, "engine", Node.file, Graphs[Node.file].start)
    /\ UNCHANGED <<returned, history>> /\ Same

----------------------------------------------------------------------------
(* A folder's child ends *)

\* What a folder node hands up: its declared outputs after a success, and the
\* updates and the label of the outcome it passes on.
Exports(r) ==
    (IF IsSuccess(r.outcome) THEN Node.outputs ELSE {})
    \cup {k \in CtxKeys : r.updates[k] # Kept}
    \cup (IF r.outcome.label # "" THEN {"preferred_label"} ELSE {})

\* The keys taken over from the child's context.
Merged(c) ==
    IF IsSuccess(c.result.outcome) THEN {k \in Node.outputs : c.ctx[k] # Missing} ELSE {}

FolderReturns ==
    /\ Standing("child") /\ Node.kind = "folder"
    /\ LET c == returned  K == Merged(c)
       IN  /\ Becomes([Made(c.result) EXCEPT
                 !.ctx = [k \in CtxKeys |-> IF k \in K THEN c.ctx[k] ELSE Here.ctx[k]],
                 !.by = [k \in CtxKeys |-> IF k \in K THEN c.by[k] ELSE Here.by[k]]])
           /\ allowed' = allowed \cup ({c.run} \X Exports(c.result))
    /\ returned' = NoReturn
    /\ UNCHANGED <<said, late>> /\ Same

----------------------------------------------------------------------------
(* The manager *)

BeginManager ==
    /\ Standing("run") /\ Node.kind = "manager"
    /\ IF Node.file = "" /\ Outgoing(Edges, Here.at) = {}
       THEN Becomes(Made(Bare("fail", Here.run)))
       ELSE Becomes([Here EXCEPT !.pc = "cycle", !.cycle = 0])
    /\ UNCHANGED <<returned, history>> /\ Same

CyclesLeft == Here.cycle < Node.cycles

\* range(1, max_cycles + 1) is at its end.
CyclesExhausted ==
    /\ Standing("cycle") /\ ~CyclesLeft
    /\ Becomes(Made(Bare("fail", Here.run)))
    /\ UNCHANGED <<returned, history>> /\ Same

\* Without a file, the part of the manager's own graph after its first edge.
StartCycle ==
    /\ Standing("cycle") /\ CyclesLeft
    /\ LET f == [Here EXCEPT !.cycle = @ + 1]
       IN  IF Node.file # "" THEN StartChild(f, "engine", Node.file, Graphs[Node.file].start)
           ELSE StartChild(f, "subgraph", f.file,
                           Edges[FirstInList(Outgoing(Edges, Here.at))].to)
    /\ UNCHANGED <<returned, history>> /\ Same

Telemetry(f, status) ==
    [f EXCEPT !.ctx["manager.last_child_status"] = status,
              !.by["manager.last_child_status"] = f.run]

\* A stop condition stands in for the guard on success.
Stops(f, o) ==
    IF Node.stop = {} THEN IsSuccess(o) ELSE EvaluateCondition(Node.stop, o, f.ctx)

\* The manager's verdict is the child's, and nothing else of its outcome.
\* Wrong: a manager that stops asserts its verdict.
VerdictAsserted(r) ==
    [Bare(r.outcome.status, r.from) EXCEPT !.outcome.explicit = TRUE]

VerdictOf(r) ==
    [Bare(r.outcome.status, r.from) EXCEPT !.outcome.explicit = r.outcome.explicit]

AfterCycle(f, r) ==
    LET g == Telemetry(f, r.outcome.status)
    IN  IF Stops(g, r.outcome) THEN [g EXCEPT !.pc = "made", !.made = VerdictOf(r)]
        ELSE [g EXCEPT !.pc = "cycle"]

\* The file is not there: a failed cycle like any other.
CycleWithoutChild ==
    /\ Standing("cycle") /\ CyclesLeft /\ Node.file # "" /\ Node.may_miss
    /\ Becomes(AfterCycle([Here EXCEPT !.cycle = @ + 1], Bare("fail", Here.run)))
    /\ UNCHANGED <<returned, history>> /\ Same

CycleEnds ==
    /\ Standing("child") /\ Node.kind = "manager"
    /\ Becomes(AfterCycle(Here, returned.result))
    /\ returned' = NoReturn
    /\ UNCHANGED history /\ Same

----------------------------------------------------------------------------
(* The handler has returned *)

Engine == Here.kind = "engine"

\* execute_with_retry, which run_subgraph does without.
Again ==
    /\ Standing("made") /\ Engine
    /\ Here.made.outcome.status = "retry" /\ Here.tries < Node.max_retries
    /\ Becomes([Here EXCEPT !.pc = "run", !.tries = @ + 1])
    /\ UNCHANGED <<returned, history>> /\ Same

Settled == Standing("made") /\ ~(Engine /\ Here.made.outcome.status = "retry"
                                        /\ Here.tries < Node.max_retries)

Settlement ==
    IF Engine /\ Here.made.outcome.status = "retry"
    THEN Bare(IF Node.allow_partial THEN "partial_success" ELSE "fail", Here.run)
    ELSE Here.made

StopAfterNode ==
    Settled /\ Engine /\ CancelSeen /\ Return(Bare("fail", Here.run))

Recorded(r) ==
    [Here EXCEPT !.pc = "top", !.last = r,
        !.completed = Append(@, Here.at), !.outcomes[Here.at] = r.outcome,
        !.ctx = Of(Here.file)!ContextAfter(@, r),
        !.by = [k \in CtxKeys |->
                    CASE k = "outcome" -> Here.run
                      [] k = "preferred_label" /\ r.outcome.label # "" -> r.from
                      [] k # "outcome" /\ ~(k = "preferred_label" /\ r.outcome.label # "")
                         /\ r.updates[k] # Kept -> r.from
                      [] OTHER -> @[k]]]

\* loop_restart, which run_subgraph does not look at.
\* Wrong: a restart begins with a full budget of steps.
FollowAfresh(f, e) ==
    IF Edges[e].restart /\ Engine THEN [Cleared(f) EXCEPT !.at = Edges[e].to, !.steps = 0]
    ELSE [f EXCEPT !.at = Edges[e].to]

Follow(f, e) ==
    IF Edges[e].restart /\ Engine
    THEN [Cleared(f) EXCEPT !.at = Edges[e].to, !.gate_retries = 0, !.routing_retries = 0,
                            !.ctx["preferred_label"] = Missing,
                            !.by["preferred_label"] = f.run]
    ELSE [f EXCEPT !.at = Edges[e].to]

RecordNode ==
    /\ Settled /\ ~(Engine /\ CancelSeen)
    /\ LET r == Settlement
           f == Recorded(r)
           e == SelectEdge(Edges, Here.at, r.outcome, f.ctx)
           t == Of(Here.file)!FailureRetryTarget(Here.at)
       IN  CASE e # NoEdge ->
                   Becomes(Follow(f, e)) /\ UNCHANGED <<returned, history>> /\ Same
             [] e = NoEdge /\ Engine /\ t # "" /\ Here.routing_retries < MaxRetries ->
                   /\ Becomes([Cleared(f) EXCEPT !.at = t, !.routing_retries = @ + 1])
                   /\ UNCHANGED <<returned, history>> /\ Same
             [] e = NoEdge /\ ~Engine /\ Outgoing(Edges, Here.at) = {} -> Return(r)
             [] OTHER -> Return(Bare("fail", Here.run))

----------------------------------------------------------------------------
(* From outside *)

Cancel ==
    /\ ~cancelled /\ verdict = "" /\ cancelled' = TRUE
    /\ UNCHANGED <<stack, returned, verdict, history>>

\* The timeout of a node of an engine, with whatever runs below it.
TimeOut ==
    \E i \in DOMAIN stack :
        LET f == stack[i]  n == Graphs[f.file].nodes[f.at]
        IN  /\ f.kind = "engine" /\ f.pc \in {"run", "leaf", "child", "cycle"} /\ n.timeout
            /\ stack' = [SubSeq(stack, 1, i) EXCEPT ![i].pc = "made",
                  ![i].made = Bare(IF n.allow_partial THEN "partial_success" ELSE "fail", f.run)]
            /\ returned' = NoReturn
            /\ UNCHANGED history /\ Same

Walk ==
    \/ ExceedStepBound \/ StopOnCancel \/ ReachExit \/ SubgraphArrives \/ EnterNode
    \/ GateRetry \/ Leave \/ BeginLeaf \/ LeafReturns
    \/ FolderRefuses \/ FolderMissing \/ EnterFolder \/ FolderReturns
    \/ BeginManager \/ CyclesExhausted \/ StartCycle \/ CycleWithoutChild \/ CycleEnds
    \/ Again \/ StopAfterNode \/ RecordNode

Next == Walk \/ Cancel \/ TimeOut

\* Handlers without children return, and the event loop runs every task.
Spec == Init /\ [][Next]_vars /\ WF_vars(Walk)

----------------------------------------------------------------------------
(* Properties *)

\* What a context holds was written in its own run or above it before it began
\* (the label by the node above, if that injects one), or else came out of a child,
\* at every step of its way up among what that node's contract lets out: nothing
\* that fails, no earlier cycle and no sibling leaves a trace in a run.
ContextsStayApart ==
    \A i \in DOMAIN stack : \A k \in CtxKeys :
        LET f == stack[i]  w == f.by[k]
        IN  /\ k = "preferred_label" /\ ~IsPrefix(f.run, w) =>
                   i > 1 /\ Injects(stack[i - 1], k)
            /\ \A n \in DOMAIN w :
                   IsPrefix(SubSeq(w, 1, n), f.run) \/ <<SubSeq(w, 1, n), k>> \in allowed

\* The engine of f has entered n and not yet recorded what its handler returned.
Visiting(f, n) == f.at = n /\ f.pc \notin {"top", "leaving"}

\* The explicit verdict recorded of a node that runs children, which is what
\* satisfies its goal gate, was asserted by a leaf of the last run the node started,
\* however many graphs lie between (EXTENSIONS.md section 25).  While the node is
\* visited again its record is of the visit before.
NoInventedVerdict ==
    \A i \in DOMAIN stack : \A n \in DOMAIN stack[i].outcomes :
        LET f == stack[i]  o == f.outcomes[n]
        IN  Graphs[f.file].nodes[n].kind \in {"folder", "manager"} /\ o.explicit
            /\ ~Visiting(f, n) =>
                \E s \in said : IsPrefix(f.ran[n], s[1]) /\ s[2] = o.status

\* A cancel reaches every run below: at most the one node already entered still
\* begins, and the user's run reports no success unless it stood at its exit.
CancelReachesDown ==
    [][/\ late' <= 1
       /\ cancelled /\ verdict' # verdict /\ IsSuccess([status |-> verdict'])
              => stack[1].pc = "leaving"]_vars

\* Every run of graphs that do not contain each other ends, through all its
\* budgets: steps, gate retries, attempts and cycles, at every depth.
ChildrenEnd == <>(verdict # "")
=============================================================================

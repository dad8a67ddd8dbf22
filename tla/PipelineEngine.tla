--------------------------- MODULE PipelineEngine ---------------------------
(***************************************************************************)
(* One pipeline run of loop-pipeline's PipelineEngine: the walk of         *)
(* _run_loop over the graph, the checkpoint it writes after every node,    *)
(* crashes of the process at any point, and resume() from the checkpoint.  *)
(*                                                                         *)
(* The walk is a single coroutine.  phase says where it stands:            *)
(*   "top"         the head of the loop, with `cur` the node to handle     *)
(*   "exec"        inside execute_with_retry for cur                       *)
(*   "route"       cur recorded and checkpointed, edge not yet selected    *)
(*   "skip_route"  the same, for a node the engine skipped                 *)
(*   "gate"        at an exit node, checkpoint written, gates not checked  *)
(*   "complete"    pipeline:complete emitted, run_state not yet flipped    *)
(*   "done"        run() or resume() has returned                          *)
(*   "crashed"     the process is gone, only ckpt is left                  *)
(***************************************************************************)
EXTENDS PipelineGraph

CONSTANT MaxInterruptions   \* bound on the crashes, and on the resumes of a run
                            \* that had returned, in one behaviour

VARIABLES
    phase, cur,
    hop,                        \* resume_outcome is set: the next iteration
                                \* goes straight to edge selection
    completed_nodes, node_outcomes, failed_outputs, context,
    goal_gate_retries, failure_routing_retries, steps,
    iteration_count, node_execution_counts,
    last_checkpoint,            \* has this process saved a checkpoint?
    cancelled,                  \* cancel_event
    verdict,                    \* how _run_loop ended, "" while it runs
    ckpt,                       \* checkpoint.json
    \* Not in the code: what the properties remember of the whole run, across
    \* its processes.
    interruptions,
    starts,                     \* handler starts of each node
    gate_ledger,                \* last recorded verdict of each goal gate
    reported                    \* every verdict pipeline:complete announced

attempt  == <<completed_nodes, node_outcomes, failed_outputs>>
retries  == <<goal_gate_retries, failure_routing_retries>>
counts   == <<iteration_count, node_execution_counts>>
ghosts   == <<interruptions, starts, gate_ledger, reported>>
vars     == <<phase, cur, hop, attempt, context, retries, steps, counts,
              last_checkpoint, cancelled, verdict, ckpt, ghosts>>

----------------------------------------------------------------------------
(* Outcomes, contexts and checkpoints *)

EmptyCheckpoint ==
    [run_state |-> "absent", current_node |-> Start, completed_nodes |-> <<>>,
     context |-> InitialContext, node_outcomes |-> NoOutcomes,
     iteration_count |-> 0, node_execution_counts |-> ZeroCounts,
     goal_gate_retries |-> 0, failure_routing_retries |-> 0, steps |-> 0]

\* The ladder of load_checkpoint_for_resume: absent is rung 1, torn rung 2,
\* completed rung 4.
Resumable == ckpt.run_state = "in_flight"

\* _serialize_node_outcomes: what routing and gating need of an outcome.
\* Wrong: the verdict comes back inexplicit.
OutcomeRecordInexplicit(o) ==
    [status |-> o.status, label |-> o.label, suggested |-> o.suggested,
     explicit |-> FALSE]

OutcomeRecord(o) ==
    [status |-> o.status, label |-> o.label, suggested |-> o.suggested,
     explicit |-> o.explicit]

\* _save_checkpoint(n, ...): the state at the end of the step.
SaveCheckpoint(n) ==
    /\ ckpt' = [run_state |-> "in_flight", current_node |-> n,
                completed_nodes |-> completed_nodes',
                context |-> context',
                node_outcomes |-> [m \in Nodes |-> OutcomeRecord(node_outcomes'[m])],
                iteration_count |-> iteration_count',
                node_execution_counts |-> node_execution_counts',
                goal_gate_retries |-> goal_gate_retries',
                failure_routing_retries |-> failure_routing_retries',
                steps |-> steps']
    /\ last_checkpoint' = TRUE

\* The three tables cleared before a retry or a restart.
ClearAttempt ==
    /\ completed_nodes' = <<>>
    /\ node_outcomes' = NoOutcomes
    /\ failed_outputs' = {}

\* _run_loop returns, having emitted pipeline:complete.
Return(why) ==
    /\ phase' = "complete" /\ verdict' = why
    /\ reported' = reported \cup {why}
    /\ UNCHANGED <<cur, hop, completed_nodes, failed_outputs, context, retries,
                   counts, last_checkpoint, cancelled, ckpt, interruptions,
                   starts, gate_ledger>>

----------------------------------------------------------------------------
Init ==
    /\ phase = "top" /\ cur = Start /\ hop = FALSE
    /\ completed_nodes = <<>> /\ node_outcomes = NoOutcomes
    /\ failed_outputs = {}
    /\ context = InitialContext
    /\ goal_gate_retries = 0 /\ failure_routing_retries = 0 /\ steps = 0
    /\ iteration_count = 0 /\ node_execution_counts = ZeroCounts
    /\ last_checkpoint = FALSE /\ cancelled = FALSE /\ verdict = ""
    /\ ckpt = EmptyCheckpoint
    /\ interruptions = 0 /\ starts = ZeroCounts
    /\ gate_ledger = [n \in Nodes |-> "none"]
    /\ reported = {}

----------------------------------------------------------------------------
(* The head of the loop *)

\* steps += 1 and the safety bound, which comes before every other check.
StepBoundExceeded ==
    /\ phase = "top" /\ steps >= MaxSteps
    /\ steps' = steps + 1
    /\ Return("step_bound")
    /\ UNCHANGED node_outcomes

\* max_pipeline_duration has run out between two nodes.
FuseExpiredBetweenNodes ==
    /\ phase = "top" /\ steps < MaxSteps /\ HasFuse
    /\ steps' = steps + 1
    /\ Return("fuse")
    /\ UNCHANGED node_outcomes

CancelledBetweenNodes ==
    /\ phase = "top" /\ steps < MaxSteps /\ cancelled
    /\ steps' = steps + 1
    /\ Return("cancelled")
    /\ UNCHANGED node_outcomes

\* One iteration that gets past the three checks above.
Enter == /\ phase = "top" /\ steps < MaxSteps /\ ~cancelled
         /\ steps' = steps + 1

\* Step 1: an exit node is checkpointed before its gates are checked.
ReachExit ==
    /\ Enter /\ IsExit(cur)
    /\ phase' = "gate"
    /\ UNCHANGED <<cur, hop, attempt, context, retries, counts, cancelled,
                   verdict, ghosts>>
    /\ SaveCheckpoint(cur)

\* The first iteration of a resumed walk: the node is restored, not redone.
ResumeHop ==
    /\ Enter /\ ~IsExit(cur) /\ hop
    /\ hop' = FALSE
    /\ phase' = "route"
    /\ UNCHANGED <<cur, attempt, context, retries, counts, last_checkpoint,
                   cancelled, verdict, ckpt, ghosts>>

\* _check_node_skip: a key the node refers to came from a failed producer.
MustSkip(n) == NodeAttrs[n].refs \cap failed_outputs # {}

Verdict(o) == IF GateSatisfied(o) THEN "pass" ELSE "fail"

RecordGate(n, o) ==
    gate_ledger' = IF NodeAttrs[n].goal_gate
                   THEN [gate_ledger EXCEPT ![n] = Verdict(o)] ELSE gate_ledger

SkipNode ==
    /\ Enter /\ ~IsExit(cur) /\ ~hop /\ MustSkip(cur)
    /\ completed_nodes' = Append(completed_nodes, cur)
    /\ node_outcomes' = [node_outcomes EXCEPT ![cur] = PlainOutcome("skipped")]
    /\ failed_outputs' = failed_outputs \cup NodeAttrs[cur].outputs
    /\ phase' = "skip_route"
    /\ RecordGate(cur, PlainOutcome("skipped"))
    /\ UNCHANGED <<cur, hop, context, retries, counts, cancelled, verdict,
                   interruptions, starts, reported>>
    /\ SaveCheckpoint(cur)

StartNode ==
    /\ Enter /\ ~IsExit(cur) /\ ~hop /\ ~MustSkip(cur)
    /\ node_execution_counts' = [node_execution_counts EXCEPT ![cur] = @ + 1]
    /\ starts' = [starts EXCEPT ![cur] = @ + 1]
    /\ phase' = "exec"
    /\ UNCHANGED <<cur, hop, attempt, context, retries, iteration_count,
                   last_checkpoint, cancelled, verdict, ckpt, interruptions,
                   gate_ledger, reported>>

----------------------------------------------------------------------------
(* Goal gates, at an exit node *)

Jump == JumpTarget(completed_nodes, node_outcomes)

GateRetry ==
    /\ phase = "gate"
    /\ Jump # "" /\ goal_gate_retries < MaxRetries
    /\ goal_gate_retries' = goal_gate_retries + 1
    /\ ClearAttempt
    /\ cur' = Jump
    /\ phase' = "top"
    /\ UNCHANGED <<hop, context, failure_routing_retries, steps, counts,
                   last_checkpoint, cancelled, verdict, ckpt, ghosts>>

FinishAtExit ==
    /\ phase = "gate"
    /\ Jump = "" \/ goal_gate_retries >= MaxRetries
    /\ Return(IF Unsatisfied(node_outcomes) # {} THEN "unsatisfied_gate"
              ELSE GateResult(completed_nodes, node_outcomes).status)
    /\ UNCHANGED <<node_outcomes, steps>>

----------------------------------------------------------------------------
(* The handler returns *)

FinishNode ==
    /\ phase = "exec" /\ ~cancelled
    /\ \E r \in Results(cur) :
         /\ completed_nodes' = Append(completed_nodes, cur)
         /\ node_outcomes' = [node_outcomes EXCEPT ![cur] = r.outcome]
         /\ failed_outputs' = IF r.outcome.status = "fail"
                              THEN failed_outputs \cup NodeAttrs[cur].outputs
                              ELSE failed_outputs
         /\ context' = ContextAfter(context, r)
         /\ RecordGate(cur, r.outcome)
    /\ phase' = "route"
    /\ UNCHANGED <<cur, hop, retries, steps, counts, cancelled, verdict,
                   interruptions, starts, reported>>
    /\ SaveCheckpoint(cur)

\* The node ran to its end, and is forgotten: neither recorded nor saved.
CancelledAfterNode ==
    /\ phase = "exec" /\ cancelled
    /\ Return("cancelled")
    /\ UNCHANGED <<node_outcomes, steps>>

\* _terminate_fuse_mid_node: the fuse was the tighter bound on the node.
FuseExpiredInNode ==
    /\ phase = "exec" /\ HasFuse
    /\ Return("fuse")
    /\ UNCHANGED <<node_outcomes, steps>>

\* _terminate_child_dot_resolution: a folder node without a child graph.
ChildGraphMissing ==
    /\ phase = "exec" /\ NodeAttrs[cur].kind = "folder"
    /\ node_outcomes' = [node_outcomes EXCEPT ![cur] = PlainOutcome("fail")]
    /\ Return("child_dot_resolution")
    /\ UNCHANGED steps

----------------------------------------------------------------------------
(* Edge selection *)

Selected == SelectEdge(Edges, cur, node_outcomes[cur], context)

\* Wrong: on along one of the branches, that the handler has already run.
RouteIntoBranch ==
    /\ phase = "route" /\ IsFanOut(cur)
    /\ FanInNodes[cur] # {} /\ Selected # NoEdge
    /\ cur' = Edges[Selected].to
    /\ phase' = "top"
    /\ UNCHANGED <<hop, attempt, context, retries, steps, counts,
                   last_checkpoint, cancelled, verdict, ckpt, ghosts>>

\* Step 5, a component node with several branches: on to where they meet.
RouteToFanIn ==
    /\ phase = "route" /\ IsFanOut(cur)
    /\ \E n \in FanInNodes[cur] : cur' = n
    /\ phase' = "top"
    /\ UNCHANGED <<hop, attempt, context, retries, steps, counts,
                   last_checkpoint, cancelled, verdict, ckpt, ghosts>>

NoConvergence ==
    /\ phase = "route" /\ IsFanOut(cur) /\ FanInNodes[cur] = {}
    /\ Return("no_fan_in")
    /\ UNCHANGED <<node_outcomes, steps>>

FollowEdge ==
    /\ phase = "route" /\ ~IsFanOut(cur)
    /\ Selected # NoEdge /\ ~Edges[Selected].restart
    /\ cur' = Edges[Selected].to
    /\ phase' = "top"
    /\ UNCHANGED <<hop, attempt, context, retries, steps, counts,
                   last_checkpoint, cancelled, verdict, ckpt, ghosts>>

\* Step 6: a loop_restart edge begins a new iteration.
RestartLoop ==
    /\ phase = "route" /\ ~IsFanOut(cur)
    /\ Selected # NoEdge /\ Edges[Selected].restart
    /\ iteration_count' = iteration_count + 1
    /\ ClearAttempt
    /\ goal_gate_retries' = 0 /\ failure_routing_retries' = 0
    /\ context' = [context EXCEPT !["preferred_label"] = Missing]
    /\ cur' = Edges[Selected].to
    /\ phase' = "top"
    /\ UNCHANGED <<hop, steps, node_execution_counts, last_checkpoint,
                   cancelled, verdict, ckpt, ghosts>>

CanRetryFailure ==
    FailureRetryTarget(cur) # "" /\ failure_routing_retries < MaxRetries

FailureRetry ==
    /\ phase = "route" /\ ~IsFanOut(cur) /\ Selected = NoEdge
    /\ CanRetryFailure
    /\ failure_routing_retries' = failure_routing_retries + 1
    /\ ClearAttempt
    /\ cur' = FailureRetryTarget(cur)
    /\ phase' = "top"
    /\ UNCHANGED <<hop, context, goal_gate_retries, steps, counts,
                   last_checkpoint, cancelled, verdict, ckpt, ghosts>>

NoMatchingEdge ==
    /\ phase = "route" /\ ~IsFanOut(cur) /\ Selected = NoEdge
    /\ ~CanRetryFailure
    /\ Return("no_matching_edge")
    /\ UNCHANGED <<node_outcomes, steps>>

\* loop_restart is not looked at on the way out of a skipped node.
SkipSelected == SelectFromSkipped(cur, context)

FollowEdgeFromSkipped ==
    /\ phase = "skip_route" /\ SkipSelected # NoEdge
    /\ cur' = Edges[SkipSelected].to
    /\ phase' = "top"
    /\ UNCHANGED <<hop, attempt, context, retries, steps, counts,
                   last_checkpoint, cancelled, verdict, ckpt, ghosts>>

\* The budget is charged, and the three tables keep what they hold.
FailureRetryFromSkipped ==
    /\ phase = "skip_route" /\ SkipSelected = NoEdge /\ CanRetryFailure
    /\ failure_routing_retries' = failure_routing_retries + 1
    /\ cur' = FailureRetryTarget(cur)
    /\ phase' = "top"
    /\ UNCHANGED <<hop, attempt, context, goal_gate_retries, steps, counts,
                   last_checkpoint, cancelled, verdict, ckpt, ghosts>>

NoMatchingEdgeFromSkipped ==
    /\ phase = "skip_route" /\ SkipSelected = NoEdge /\ ~CanRetryFailure
    /\ Return("no_matching_edge")
    /\ UNCHANGED <<node_outcomes, steps>>

----------------------------------------------------------------------------
(* The end of run() and resume(), cancellation, crashes and resume *)

\* _mark_run_completed: rewrites the payload this process last saved, and does
\* nothing when it has saved none.
MarkRunCompleted ==
    /\ phase = "complete"
    /\ phase' = "done"
    /\ ckpt' = IF last_checkpoint
               THEN [ckpt EXCEPT !.run_state = "completed"] ELSE ckpt
    /\ UNCHANGED <<cur, hop, attempt, context, retries, steps, counts,
                   last_checkpoint, cancelled, verdict, ghosts>>

LoseMemory ==
    /\ phase' = "crashed" /\ cur' = Start /\ hop' = FALSE
    /\ ClearAttempt
    /\ context' = InitialContext
    /\ goal_gate_retries' = 0 /\ failure_routing_retries' = 0 /\ steps' = 0
    /\ iteration_count' = 0 /\ node_execution_counts' = ZeroCounts
    /\ last_checkpoint' = FALSE /\ cancelled' = FALSE /\ verdict' = ""
    /\ interruptions' = interruptions + 1
    /\ UNCHANGED <<starts, gate_ledger, reported>>

Running == phase \notin {"done", "crashed"}

\* Another thread sets cancel_event, at any moment.
RequestCancel ==
    /\ Running /\ ~cancelled
    /\ cancelled' = TRUE
    /\ UNCHANGED <<phase, cur, hop, attempt, context, retries, steps, counts,
                   last_checkpoint, verdict, ckpt, ghosts>>

\* The process is gone, and what it held in memory with it.
Crash ==
    /\ Running /\ interruptions < MaxInterruptions
    /\ LoseMemory
    /\ UNCHANGED ckpt

\* save_checkpoint truncates the file and then writes it.
Saving ==
    \/ phase = "exec"
    \/ /\ phase = "top" /\ steps < MaxSteps
       /\ IsExit(cur) \/ (~hop /\ MustSkip(cur))
    \/ phase = "complete" /\ last_checkpoint

CrashWhileSaving ==
    /\ Saving /\ interruptions < MaxInterruptions
    /\ LoseMemory
    /\ ckpt' = [ckpt EXCEPT !.run_state = "torn"]

\* failed_outputs as resume() rebuilds it.
\* Wrong: only the nodes the engine skipped count.
DerivedFromSkipped(outcomes) ==
    UNION {NodeAttrs[n].outputs :
              n \in {m \in Nodes : outcomes[m].status = "skipped"}}

DerivedFailedOutputs(outcomes) ==
    UNION {NodeAttrs[n].outputs :
              n \in {m \in Nodes : outcomes[m].status \in {"fail", "skipped"}}}

\* Does the last recorded node have an outcome, so that the walk resumes past
\* it?  An exit node has none.
AlreadyRan(c) == c.node_outcomes[c.current_node].status # "none"

\* Spec 5.3 rule 4.  Wrong: the counts start over.
StartBudgetsOver ==
    /\ goal_gate_retries' = 0 /\ failure_routing_retries' = 0 /\ steps' = 0
    /\ iteration_count' = 0 /\ node_execution_counts' = ZeroCounts

RestoreBudgets ==
    /\ goal_gate_retries' = ckpt.goal_gate_retries
    /\ failure_routing_retries' = ckpt.failure_routing_retries
    /\ steps' = ckpt.steps
    /\ iteration_count' = ckpt.iteration_count
    /\ node_execution_counts' = ckpt.node_execution_counts

\* load_checkpoint_for_resume, then resume() up to its call of _run_loop, in a
\* new process: one that has saved no checkpoint and is not cancelled.
Restore ==
    /\ Resumable
    /\ phase' = "top"
    /\ cur' = ckpt.current_node
    /\ hop' = AlreadyRan(ckpt)
    /\ completed_nodes' = ckpt.completed_nodes
    /\ node_outcomes' = ckpt.node_outcomes
    /\ failed_outputs' = DerivedFailedOutputs(ckpt.node_outcomes)
    /\ context' = ckpt.context
    /\ RestoreBudgets
    /\ last_checkpoint' = FALSE /\ cancelled' = FALSE /\ verdict' = ""
    /\ UNCHANGED <<ckpt, starts, gate_ledger, reported>>

\* Wrong: an exit node has no recorded outcome to resume from.
ResumeNotAtExit ==
    /\ phase = "crashed" /\ AlreadyRan(ckpt)
    /\ Restore
    /\ UNCHANGED interruptions

Resume ==
    /\ phase = "crashed"
    /\ Restore
    /\ UNCHANGED interruptions

\* A run that has returned and whose checkpoint the ladder still lets through.
ResumeReturned ==
    /\ phase = "done" /\ interruptions < MaxInterruptions
    /\ Restore
    /\ interruptions' = interruptions + 1

\* Nothing more can happen to this run.
Stopped ==
    /\ phase = "done" \/ (phase = "crashed" /\ ~Resumable)
    /\ UNCHANGED vars

----------------------------------------------------------------------------
Walk ==
    \/ StepBoundExceeded \/ FuseExpiredBetweenNodes \/ CancelledBetweenNodes
    \/ ReachExit \/ ResumeHop \/ SkipNode \/ StartNode
    \/ GateRetry \/ FinishAtExit
    \/ FinishNode \/ CancelledAfterNode \/ FuseExpiredInNode \/ ChildGraphMissing
    \/ RouteToFanIn \/ NoConvergence \/ FollowEdge \/ RestartLoop
    \/ FailureRetry \/ NoMatchingEdge
    \/ FollowEdgeFromSkipped \/ FailureRetryFromSkipped \/ NoMatchingEdgeFromSkipped
    \/ MarkRunCompleted

Next == Walk \/ RequestCancel \/ Crash \/ CrashWhileSaving \/ Resume
        \/ ResumeReturned \/ Stopped

Spec == Init /\ [][Next]_vars

\* The event loop keeps running the coroutine, handlers return, and whoever
\* started the run resumes it after a crash.
FairSpec == Spec /\ WF_vars(Walk) /\ WF_vars(Resume)
----------------------------------------------------------------------------
(* What the engine promises *)

Phases == {"top", "exec", "route", "skip_route", "gate", "complete", "done",
           "crashed"}

Recorded == Outcome \cup {NoOutcome}

Context == [CtxKeys -> Text]

Marks == {"none", "pass", "fail"}

Verdicts == Statuses \cup
    {"", "none", "step_bound", "fuse", "cancelled", "unsatisfied_gate",
     "child_dot_resolution", "no_fan_in", "no_matching_edge"}

Checkpoint ==
    [run_state: {"absent", "in_flight", "completed", "torn"},
     current_node: Nodes, completed_nodes: Seq(Nodes), context: Context,
     node_outcomes: [Nodes -> Recorded],
     iteration_count: Nat, node_execution_counts: [Nodes -> Nat],
     goal_gate_retries: Nat, failure_routing_retries: Nat, steps: Nat]

\* Type invariant: memory and checkpoint.json hold well-formed values.
TypeOK ==
    /\ phase \in Phases /\ cur \in Nodes /\ hop \in BOOLEAN
    /\ completed_nodes \in Seq(Nodes)
    /\ node_outcomes \in [Nodes -> Recorded]
    /\ failed_outputs \subseteq Keys
    /\ context \in Context
    /\ goal_gate_retries \in Nat /\ failure_routing_retries \in Nat
    /\ steps \in Nat /\ iteration_count \in Nat
    /\ node_execution_counts \in [Nodes -> Nat]
    /\ last_checkpoint \in BOOLEAN /\ cancelled \in BOOLEAN
    /\ verdict \in Verdicts
    /\ ckpt \in Checkpoint
    /\ interruptions \in Nat /\ starts \in [Nodes -> Nat]
    /\ gate_ledger \in [Nodes -> Marks]
    /\ reported \subseteq Verdicts

\* The counts a resume would restore, or the live ones.
CountsNow == IF phase = "crashed" THEN ckpt.node_execution_counts
             ELSE node_execution_counts

\* "Completed nodes are never visited and trivially cannot re-execute"
\* (resume): across any crashes, a handler has been started at most once more
\* per interruption than the engine's own count of it says.
CrashCost ==
    \A n \in Nodes : starts[n] <= CountsNow[n] + interruptions

\* A handler never runs on an input whose producer is recorded as failed,
\* whether the failure was seen by this process or restored from a checkpoint.
NoFailedInput ==
    phase = "exec" =>
        \A n \in Nodes : node_outcomes[n].status = "fail" =>
            NodeAttrs[n].outputs \cap NodeAttrs[cur].refs = {}

\* A run reports success only if each goal gate of its last attempt was last
\* recorded satisfied, in whichever process that was (_check_goal_gates).
GatesHeldAtSuccess ==
    \A n \in Nodes :
        (/\ verdict \in {"success", "partial_success"}
         /\ \E i \in DOMAIN completed_nodes : completed_nodes[i] = n)
            => gate_ledger[n] # "fail"

\* A reported success is not taken back by the graph: a run resumed after it
\* reported success does not then fail on a gate or for want of an edge (resume:
\* an exit node re-runs its gates on the outcomes it saved).
Success == {"success", "partial_success"}

DeadEnd == {"unsatisfied_gate", "no_matching_edge", "no_fan_in"}

ReportedSuccessStands ==
    [][reported \cap Success # {} => (reported' \ reported) \cap DeadEnd = {}]_reported

\* "Restoring them is what keeps bounded-loop budgets from refreshing on every
\* kill+resume" (checkpoint.py): between two checkpoints the step count grows,
\* and a retry budget falls only with a new loop_restart iteration.
BudgetsKept ==
    [][ckpt'.run_state = "in_flight" =>
         /\ ckpt'.steps > ckpt.steps
         /\ \/ ckpt'.iteration_count > ckpt.iteration_count
            \/ /\ ckpt'.iteration_count = ckpt.iteration_count
               /\ ckpt'.goal_gate_retries >= ckpt.goal_gate_retries
               /\ ckpt'.failure_routing_retries >= ckpt.failure_routing_retries
      ]_ckpt

\* Every run comes to an end: it returns, or a crash leaves nothing to resume.
Ends == phase = "done" \/ (phase = "crashed" /\ ~Resumable)

Terminates == <>[]Ends

----------------------------------------------------------------------------
(* What the run leaves on record *)

\* checkpoint.json as a walk: its fields, once it has been written at all.
Record == INSTANCE PipelineWalk WITH
    at       <- IF ckpt.steps = 0 THEN "" ELSE ckpt.current_node,
    trail    <- ckpt.completed_nodes,
    outcomes <- ckpt.node_outcomes,
    ctx      <- ckpt.context

\* The checkpoint moves as an uninterrupted walk of the graph would: crashes
\* and resumes neither repeat, lose nor invent a recorded node (checkpoint.py).
CheckpointIsAWalk == Record!WalkSpec
=============================================================================

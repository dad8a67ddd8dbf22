--------------------------- MODULE ParallelFanOut ---------------------------
(***************************************************************************)
(* A component node: ParallelHandler runs one branch per outgoing edge,    *)
(* each a run_subgraph in an asyncio task of its own, bounded by a         *)
(* semaphore; the policies decide when it returns and with what; and the   *)
(* FanInHandler of the convergence node then chooses among the results.    *)
(*                                                                         *)
(* A branch is the index of its edge.  task says where it stands:          *)
(*   "created"    the task has not had its first step                      *)
(*   "queued"     waiting for the semaphore                                *)
(*   "granted"    handed the semaphore, not yet resumed                    *)
(*   "running"    at the head of run_subgraph's loop                       *)
(*   "executing"  inside the handler of a node                             *)
(*   "done"       returned, with ended its status ("none": it bailed out)  *)
(*   "cancelled"  ended by a CancelledError                                *)
(***************************************************************************)
EXTENDS PipelineGraph

CONSTANTS
    FanOut,         \* the component node
    Policies,       \* the attributes the two handlers look at
    Bounded         \* may the engine cut the handler short (timeout, fuse)?

\* max_parallel, join_policy and error_policy, and whether the fan-in node has
\* a prompt and a backend.  Any other join_policy counts as "wait_all", any
\* other error_policy as "continue".
Policy == [slots: Nat \ {0}, join: {"wait_all", "first_success"},
           error: {"continue", "ignore", "fail_fast"}, prompt: BOOLEAN]

ASSUME PolicyAssumption ==
    /\ FanOut \in Nodes /\ Outgoing(Edges, FanOut) # {}
    /\ Policies \subseteq Policy
    /\ Bounded \in BOOLEAN

Branches == Outgoing(Edges, FanOut)

Successful == {"success", "partial_success"}

VARIABLES
    policy,         \* read from the node when the handler starts
    handler,        \* "running", "draining", "unwinding", "returned", "cut"
    task, walk, ended,
    doomed,         \* branches whose cancellation is requested and not raised
    permits,        \* the semaphore's value
    failure_event,
    pending,        \* what the handler still waits for
    results,        \* the branches whose result the handler collected
    outcome,        \* the status of the handler's outcome
    stored,         \* whose results parallel.results in the context holds
    cancelled,      \* cancel_event
    fan_in, best,   \* the fan-in node's verdict and the branch it chose
    runs            \* not in the code: how often each node's handler was run

vars == <<policy, handler, task, walk, ended, doomed, permits, failure_event,
          pending, results, outcome, stored, cancelled, fan_in, best, runs>>

main   == <<policy, handler, pending, results, outcome, stored>>
branch == <<task, walk, ended, doomed, permits, failure_event, runs>>
joined == <<fan_in, best>>

FailFast  == policy.error = "fail_fast"
FirstOnly == ~FailFast /\ policy.join = "first_success"
Gathers   == ~FailFast /\ ~FirstOnly

----------------------------------------------------------------------------
(* run_subgraph *)

WalkFrom(n) == [at |-> n, steps |-> 0, last |-> NoOutcome, ctx |-> InitialContext]

AtTerminal(w) == NodeAttrs[w.at].kind \in {"exit", "fan_in"}

\* What a walk that arrived returns.
ArrivalStatus(w) == IF w.last = NoOutcome THEN "success" ELSE w.last.status

\* No retry, no timeout, no artifact check: the handler's own result.
SubgraphResults(n) ==
    IF NodeAttrs[n].kind = "start"
    THEN {[outcome |-> PlainOutcome("success"), updates |-> NoUpdates]}
    ELSE NodeAttrs[n].outcomes

NextEdge(w, r) == SelectEdge(Edges, w.at, r.outcome, ContextAfter(w.ctx, r))

\* A node without edges is a designed end, one whose edges all fail to match
\* a dead end.
EndStatus(w, r) ==
    IF Outgoing(Edges, w.at) = {} THEN r.outcome.status ELSE "fail"

----------------------------------------------------------------------------
Init ==
    /\ policy \in Policies
    /\ handler = "running"
    /\ task = [b \in Branches |-> "created"]
    /\ walk = [b \in Branches |-> WalkFrom(Edges[b].to)]
    /\ ended = [b \in Branches |-> "none"]
    /\ doomed = {} /\ permits = policy.slots /\ failure_event = FALSE
    /\ pending = Branches /\ results = {} /\ outcome = ""
    /\ stored \in {"nobody", "earlier"}
    /\ cancelled = FALSE
    /\ fan_in = "" /\ best = 0
    /\ runs = ZeroCounts

----------------------------------------------------------------------------
(* The task of a branch *)

\* Wrong: a release wakes nobody up.
ReleaseToNobody(tk) == task' = tk /\ permits' = permits + 1

\* The semaphore is handed to the branch that has waited longest; the tasks
\* had their first steps in the order of the edges.
Release(tk) ==
    LET queue == {b \in Branches : tk[b] = "queued"}
    IN  IF queue = {} THEN task' = tk /\ permits' = permits + 1
        ELSE /\ task' = [tk EXCEPT ![FirstInList(queue)] = "granted"]
             /\ UNCHANGED permits

FirstStep(b) ==
    /\ task[b] = "created" /\ b \notin doomed
    /\ \A c \in Branches : c < b => task[c] # "created"

\* guarded_branch: a failure is already known.
Bail(b) ==
    /\ FirstStep(b) /\ failure_event
    /\ task' = [task EXCEPT ![b] = "done"]
    /\ UNCHANGED <<main, walk, ended, doomed, permits, failure_event, cancelled,
                   joined, runs>>

Acquire(b) ==
    /\ FirstStep(b) /\ ~failure_event
    /\ permits > 0 /\ \A c \in Branches : task[c] \notin {"queued", "granted"}
    /\ task' = [task EXCEPT ![b] = "running"]
    /\ permits' = permits - 1
    /\ UNCHANGED <<main, walk, ended, doomed, failure_event, cancelled, joined, runs>>

Queue(b) ==
    /\ FirstStep(b) /\ ~failure_event
    /\ permits = 0 \/ \E c \in Branches : task[c] \in {"queued", "granted"}
    /\ task' = [task EXCEPT ![b] = "queued"]
    /\ UNCHANGED <<main, walk, ended, doomed, permits, failure_event, cancelled,
                   joined, runs>>

\* Nothing is asked again of a branch that leaves the queue.
Resume(b) ==
    /\ task[b] = "granted" /\ b \notin doomed
    /\ task' = [task EXCEPT ![b] = "running"]
    /\ UNCHANGED <<main, walk, ended, doomed, permits, failure_event, cancelled,
                   joined, runs>>

\* The branch returns, and the semaphore with it.
Finish(b, status) ==
    /\ ended' = [ended EXCEPT ![b] = status]
    /\ failure_event' = (failure_event \/ (FailFast /\ status = "fail"))
    /\ Release([task EXCEPT ![b] = "done"])
    /\ UNCHANGED <<main, doomed, cancelled, joined, runs>>

StepBoundReached(b) ==
    /\ task[b] = "running" /\ walk[b].steps >= MaxSteps
    /\ Finish(b, "fail")
    /\ UNCHANGED walk

StopOnCancel(b) ==
    /\ task[b] = "running" /\ walk[b].steps < MaxSteps /\ cancelled
    /\ Finish(b, "fail")
    /\ UNCHANGED walk

Arrive(b) ==
    /\ task[b] = "running" /\ walk[b].steps < MaxSteps /\ ~cancelled
    /\ AtTerminal(walk[b])
    /\ Finish(b, ArrivalStatus(walk[b]))
    /\ UNCHANGED walk

\* A component node's handler runs the nodes its edges lead to as well.
Run(n) ==
    LET ran == {n} \cup (IF NodeAttrs[n].kind = "component" THEN Targets(n) ELSE {})
    IN  runs' = [m \in Nodes |-> IF m \in ran THEN runs[m] + 1 ELSE runs[m]]

Execute(b) ==
    /\ task[b] = "running" /\ walk[b].steps < MaxSteps /\ ~cancelled
    /\ ~AtTerminal(walk[b])
    /\ task' = [task EXCEPT ![b] = "executing"]
    /\ Run(walk[b].at)
    /\ UNCHANGED <<main, walk, ended, doomed, permits, failure_event, cancelled,
                   joined>>

FollowEdge(b) ==
    /\ task[b] = "executing" /\ b \notin doomed
    /\ \E r \in SubgraphResults(walk[b].at) :
         LET e == NextEdge(walk[b], r)
         IN  /\ e # NoEdge
             /\ walk' = [walk EXCEPT ![b] =
                            [at |-> Edges[e].to, steps |-> @.steps + 1,
                             last |-> r.outcome, ctx |-> ContextAfter(@.ctx, r)]]
    /\ task' = [task EXCEPT ![b] = "running"]
    /\ UNCHANGED <<main, ended, doomed, permits, failure_event, cancelled, joined, runs>>

ComeToAnEnd(b) ==
    /\ task[b] = "executing" /\ b \notin doomed
    /\ \E r \in SubgraphResults(walk[b].at) :
         /\ NextEdge(walk[b], r) = NoEdge
         /\ Finish(b, EndStatus(walk[b], r))
    /\ UNCHANGED walk

\* The handler raises: the branch fails, whatever edges the node has.
Raise(b) ==
    /\ task[b] = "executing" /\ b \notin doomed
    /\ NodeAttrs[walk[b].at].kind # "start"
    /\ Finish(b, "fail")
    /\ UNCHANGED walk

\* Wrong: a branch that never held the semaphore releases it.
UnwindReleasing(b) ==
    /\ b \in doomed /\ task[b] \in {"created", "queued", "granted", "executing"}
    /\ doomed' = doomed \ {b}
    /\ Release([task EXCEPT ![b] = "cancelled"])
    /\ UNCHANGED <<main, walk, ended, failure_event, cancelled, joined, runs>>

\* CancelledError is raised where the branch waits.
Unwind(b) ==
    /\ b \in doomed /\ task[b] \in {"created", "queued", "granted", "executing"}
    /\ doomed' = doomed \ {b}
    /\ LET tk == [task EXCEPT ![b] = "cancelled"]
       IN  IF task[b] \in {"granted", "executing"} THEN Release(tk)
           ELSE task' = tk /\ UNCHANGED permits
    /\ UNCHANGED <<main, walk, ended, failure_event, cancelled, joined, runs>>

\* A handler may take the CancelledError and go on: an agent session inside a
\* batch of parallel tool calls does.
Swallow(b) ==
    /\ b \in doomed /\ task[b] = "executing"
    /\ doomed' = doomed \ {b}
    /\ UNCHANGED <<main, task, walk, ended, permits, failure_event, cancelled,
                   joined, runs>>

BranchStep(b) ==
    \/ Bail(b) \/ Acquire(b) \/ Queue(b) \/ Resume(b)
    \/ StepBoundReached(b) \/ StopOnCancel(b) \/ Arrive(b) \/ Execute(b)
    \/ FollowEdge(b) \/ ComeToAnEnd(b) \/ Raise(b) \/ Unwind(b) \/ Swallow(b)

----------------------------------------------------------------------------
(* The handler *)

Over(b) == task[b] \in {"done", "cancelled"}

\* The result a task hands over; a branch that bailed out or was cancelled has
\* none.
Reported(S) == {b \in S : task[b] = "done" /\ ended[b] # "none"}

Ok(S) == {b \in S : ended[b] \in Successful}

Failed(S) == {b \in S : ended[b] = "fail"}

\* error_policy "ignore" keeps only what succeeded.
Filtered(S) == IF policy.error = "ignore" THEN Ok(S) ELSE S

\* Wrong: one success is enough for every policy.
JoinAny(S) ==
    IF S = {} \/ Ok(S) # {} THEN "success"
    ELSE IF policy.join = "first_success" THEN "fail" ELSE "partial_success"

\* _apply_join_policy.
Join(S) ==
    IF S = {} THEN "success"
    ELSE IF policy.join = "first_success"
         THEN IF Ok(S) # {} THEN "success" ELSE "fail"
         ELSE IF Failed(S) = {} THEN "success" ELSE "partial_success"

Return(S) ==
    /\ handler' = "returned"
    /\ pending' = {}
    /\ results' = Filtered(S)
    /\ stored' = "this"
    /\ outcome' = Join(Filtered(S))

\* asyncio.gather
GatherAll ==
    /\ handler = "running" /\ Gathers
    /\ \A b \in Branches : Over(b)
    /\ Return(Reported(Branches))
    /\ UNCHANGED <<policy, branch, cancelled, joined>>

\* The branches that end the wait of _run_fail_fast and _run_first_success.
Decisive(S) == IF FailFast THEN Failed(Reported(S)) ELSE Ok(Reported(S))

NewlyDone == {b \in pending : Over(b)}

CollectUndecided ==
    /\ handler = "running" /\ ~Gathers
    /\ NewlyDone # {} /\ Decisive(NewlyDone) = {}
    /\ IF pending \subseteq NewlyDone
       THEN Return(results \cup Reported(NewlyDone))
       ELSE /\ pending' = pending \ NewlyDone
            /\ results' = results \cup Reported(NewlyDone)
            /\ UNCHANGED <<handler, outcome, stored>>
    /\ UNCHANGED <<policy, branch, cancelled, joined>>

\* newly_done is a set: the first decisive branch met ends the loop, and what
\* stands behind it is dropped.
CollectDecisive ==
    /\ handler = "running" /\ ~Gathers
    /\ \E b \in Decisive(NewlyDone) :
       \E before \in SUBSET (Reported(NewlyDone) \ Decisive(NewlyDone)) :
         LET collected == results \cup before \cup {b}
         IN  IF pending \subseteq NewlyDone
             THEN /\ Return(collected)
                  /\ UNCHANGED doomed
             ELSE /\ handler' = "draining"
                  /\ pending' = pending \ NewlyDone
                  /\ results' = collected
                  /\ doomed' = doomed \cup (pending \ NewlyDone)
                  /\ UNCHANGED <<outcome, stored>>
    /\ UNCHANGED <<policy, task, walk, ended, permits, failure_event, cancelled, joined,
                   runs>>

\* Wrong: it does not wait for the cancelled branches.
DrainAtOnce ==
    /\ handler = "draining"
    /\ Return(results \cup Reported(pending))
    /\ UNCHANGED <<policy, branch, cancelled, joined>>

Drain ==
    /\ handler = "draining"
    /\ \A b \in pending : Over(b)
    /\ Return(results \cup Reported(pending))
    /\ UNCHANGED <<policy, branch, cancelled, joined>>

\* The engine cancels the handler.  gather hands the cancellation on to its
\* branches and waits for them, asyncio.wait does neither.
CutGather ==
    /\ Bounded /\ handler = "running" /\ Gathers
    /\ handler' = "unwinding"
    /\ doomed' = {b \in Branches : ~Over(b)}
    /\ UNCHANGED <<policy, pending, results, outcome, stored, task, walk, ended,
                   permits, failure_event, cancelled, joined, runs>>

Unwound ==
    /\ handler = "unwinding"
    /\ \A b \in Branches : Over(b)
    /\ handler' = "cut"
    /\ UNCHANGED <<policy, pending, results, outcome, stored, branch, cancelled,
                   joined>>

CutWait ==
    /\ Bounded /\ handler \in {"running", "draining"} /\ ~Gathers
    /\ handler' = "cut"
    /\ UNCHANGED <<policy, pending, results, outcome, stored, branch, cancelled,
                   joined>>

----------------------------------------------------------------------------
(* The fan-in node.  The engine goes there whatever the outcome was.         *)

Rank(status) ==
    CASE status = "success" -> 0 [] status = "partial_success" -> 1
      [] status = "retry" -> 2   [] status = "skipped" -> 3
      [] OTHER -> 4

\* _heuristic_select: by rank, then by node id.
BestOf(S) ==
    {b \in S : \A c \in S :
        \/ Rank(ended[b]) < Rank(ended[c])
        \/ /\ Rank(ended[b]) = Rank(ended[c])
           /\ Lex[Edges[b].to] <= Lex[Edges[c].to]}

NothingToEvaluate == stored = "nobody" \/ (stored = "this" /\ results = {})

AtFanIn == handler \in {"returned", "cut"} /\ fan_in = ""

FanInWithout ==
    /\ AtFanIn /\ NothingToEvaluate
    /\ fan_in' = "fail"
    /\ UNCHANGED <<main, branch, cancelled, best>>

FanIn ==
    /\ AtFanIn /\ stored = "this" /\ results # {}
    /\ best' \in IF policy.prompt THEN results ELSE BestOf(results)
    /\ fan_in' = IF ended[best'] = "fail" THEN "fail" ELSE "success"
    /\ UNCHANGED <<main, branch, cancelled>>

\* What an earlier visit of the component node left in the context.
FanInEarlier ==
    /\ AtFanIn /\ stored = "earlier"
    /\ fan_in' \in {"success", "fail"}
    /\ UNCHANGED <<main, branch, cancelled, best>>

----------------------------------------------------------------------------
RequestCancel ==
    /\ ~cancelled
    /\ cancelled' = TRUE
    /\ UNCHANGED <<main, branch, joined>>

Settled == fan_in # "" /\ \A b \in Branches : Over(b)

Stopped == Settled /\ UNCHANGED vars

Handler == GatherAll \/ CollectUndecided \/ CollectDecisive \/ Drain \/ Unwound
           \/ FanInWithout \/ FanIn \/ FanInEarlier

Next == \/ \E b \in Branches : BranchStep(b)
        \/ Handler \/ CutGather \/ CutWait \/ RequestCancel \/ Stopped

Spec == Init /\ [][Next]_vars

\* The event loop runs every task that is ready, handlers return, and a
\* cancelled one unwinds.
FairSpec == /\ Spec /\ WF_vars(Handler)
            /\ \A b \in Branches : WF_vars(BranchStep(b))
----------------------------------------------------------------------------
(* What a fan-out promises *)

Steps == {"created", "queued", "granted", "running", "executing", "done",
          "cancelled"}

\* A branch that holds the semaphore.
Holding(b) == task[b] \in {"granted", "running", "executing"}

\* "Each parallel branch [...] runs independently", at most max_parallel of
\* them, and no cancellation loses or doubles a slot: what the branches hold
\* and what is free are max_parallel together.
SlotsConserved ==
    Cardinality({b \in Branches : Holding(b)}) + permits = policy.slots

\* "The handler waits for all branches to complete (or applies a configurable
\* join policy) before returning": once it has returned, or the engine has cut
\* it short where it waits with gather, no branch is running any more.
ReturnsAlone ==
    handler = "returned" \/ (handler = "cut" /\ Gathers) => \A b \in Branches : Over(b)

\* What the branches did is what is reported.  With wait_all a branch that
\* failed is never hidden behind SUCCESS, unless error_policy says to ignore it;
\* without fail_fast, FAIL means "No branches succeeded"; and as the results are
\* ranked by status before name, a fan-in node without a prompt chooses a branch
\* that succeeded, if there is one.
NothingHidden ==
    /\ outcome = "success" /\ policy.join = "wait_all" /\ policy.error # "ignore"
           => Failed(Branches) = {}
    /\ outcome = "fail" /\ ~FailFast => Ok(Branches) = {}
    /\ handler = "returned" /\ fan_in # "" /\ ~FailFast /\ ~policy.prompt /\ Ok(Branches) # {}
           => fan_in = "success"

\* A component node always returns or is cut short: no schedule of branches,
\* policies and cancellations leaves it waiting.
FanOutEnds == <>(handler \in {"returned", "cut"} /\ fan_in # "")

----------------------------------------------------------------------------
(* What comments and documents say, and the code does not do.                *)

\* _run_loop: "The engine must NOT re-fan-out after the handler returns - that
\* would execute each branch a second time."
BranchesRunOnce == \A n \in Nodes : runs[n] <= 1
=============================================================================

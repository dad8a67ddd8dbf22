# Specifications of the dot-runner

TLA+ models of the pipeline runner in this repository: what it does when a
graph is walked node by node, when the process dies between two steps, when a
run is resumed, cancelled or times out. The models are translated from the
Python source; a reader needs the repository and this file.

## The system

The repository runs *pipelines*: directed graphs written in DOT whose nodes
are executed by handlers (an LLM call, a shell tool, a human question, a fan
out, a child pipeline) and whose edges are selected from the outcome of the
node. It is a set of Python packages under `src/modules`.

| component | state it keeps | operations | talks to |
|---|---|---|---|
| engine (`loop-pipeline/engine.py`) | completed nodes, node outcomes, failed outputs, retry budgets, step counter, execution counts, iteration count | `run`, `resume`, `run_subgraph`, goal gates, skip check, failure routing, loop restart | handlers (await), retry ladder, checkpoint, context, hooks |
| checkpoint (`checkpoint.py`) | `checkpoint.json`: run state, last node, outcomes, context, budgets | save, load, the refusal ladder | file system, engine |
| edge selection, conditions | none | `select_edge`, `evaluate_condition` | engine |
| context (`context.py`) | key/value store and log of the run | get, set, update, clone | engine, every handler |
| retry ladder (`retry.py`), artifact checks (`must_write.py`, `status_file.py`, `freshness.py`) | attempt counter, `status.json`, artifacts of the node | `execute_with_retry` | handler, file system |
| parallel and fan-in handlers | branch tasks, a semaphore, results | fan out, error policy, join policy, selection of the best branch | engine clones (`run_subgraph`), context clones |
| manager loop handler | cycle counter, child status | supervise a child pipeline | child engine, context |
| pipeline/folder handler (`handlers/pipeline.py`) | child graph, invocation counts | run a child pipeline | nested engine |
| human gate, interviewer | pending question | ask, time out, default | a person |
| codergen handler, backend, workers | sessions per thread key | spawn a session, continue it | loop-agent, providers |
| DOT parser, transforms, stylesheet, validation, preflight | none | text to graph, lint | engine start |
| agent session (`loop-agent`) | history, steering and follow-up queues, state, round counters | submit, steer, abort, rounds of tool calls | LLM client, tools, subagents |
| subagents | table of child sessions | spawn, send, wait, close | agent sessions |
| LLM client | middleware chain | generate, stream, retry, tool rounds | provider adapters |
| pipeline runner (CLI) | run directory, process exit code | run, resume, validate | engine, workers |
| remote source cache | files on disk shared by processes | fetch, store, look up | network, file system |
| observability hooks | aggregated run state | fold events | engine, tools that query it |
| tools: pipeline run/status, dashboard, apply_patch, truncation | background runs, files | start, poll, patch | engine, file system |

Components interact by `await` within one event loop (engine, handlers, retry
ladder, backend), by tasks (fan-out branches, subagents, node timeouts), by a
thread event (cancellation), and through files (checkpoint, status file,
artifacts, remote cache).

What is hard, per component, and what makes it correct:

* **Engine and checkpoint.** A crash at any point, also inside the rewrite of
  the file; a checkpoint written *before* the edge of the node is selected; a
  resume that must neither repeat, lose nor invent a node and must not refresh
  a budget; retries that clear the tables other decisions read; cancellation
  from another thread. Correct: no handler is repeated beyond the crash that
  interrupted it, nothing runs on a failed input, no success past an
  unsatisfied gate, budgets only shrink, every run ends.
* **Retry ladder and timeouts.** A stale or half-written status file, or an
  artifact, of an earlier attempt that is taken for the result of this one; a
  cancelled handler that is still at work when the node is visited again, or
  that will not go. Correct: what is recorded is this attempt's doing.
* **Fan-out.** Branches in any order, first success and fail fast while others
  are in flight, the concurrency limit, branches left over when the handler
  itself is cancelled. Correct: the outcome reflects the branches it claims to,
  and nothing runs on behind a handler that returned.
* **Manager loop, folder nodes, child graphs.** Runs inside runs, each with an
  engine and a context of its own; results, labels and failures that travel up;
  cycles, retries and gates at every level; a cancel that must travel down.
  Correct: contexts stay apart but for what is declared, a verdict comes from a
  leaf that gave it, everything ends.
* **Validation and lint.** Rules that promise something about the runs of a
  graph. Correct: the run of a graph no rule spoke about does not do what the
  rule is about.
* **Backend and workers, pipeline orchestrator.** Providers, profiles, models
  and workers chosen from four places; a conversation shared by nodes that are
  retried, run on branches, outlive their engine's patience; a human's answer;
  verdicts read out of text; what is taken must be released. Correct: what is
  declared serves, a thread holds what was said, once, and a gate passes only
  on a verdict.
* **Human gate.** The choice an answer stands for, and the edge it takes.
* **Agent session.** Steering while tools run, a cancel at any await, limits.
  Correct: a request pairs calls and results, an envelope is honest.
* **Subagents.** wait, close and send racing the end of the child.
* **LLM client.** Four event orders made one stream; retries inside rounds
  inside an abort. Correct: calls are answered once, work is bounded.
* **Remote cache.** Two processes filling one entry, a crash in the middle.

## Modules

| module | models |
|---|---|
| `EdgeSelection` | `conditions.py`, `edge_selection.py`: pure operators |
| `PipelineGraph` | the graph as a parameter, and what the engine computes from it: fan-in node, retry targets, goal gates, skip routing, the results of a node, the context update |
| `PipelineEngine` | `run`, `resume`, `_run_loop`, the checkpoint file, crash and cancellation |
| `PipelineWalk` | abstract: what is left on record, a walk of the graph with no processes, crashes or budgets |
| `ParallelFanOut` | `handlers/parallel.py`, `run_subgraph`, `handlers/fan_in.py`: one component node, its branches and the node where they meet |
| `NodeAttempts` | `retry.py`, `must_write.py`, `status_file.py`, `freshness.py`, the node's await in `engine.py`: the executions of one node |
| `ChildGraphs` | `handlers/pipeline.py`, `handlers/manager_loop.py`: graphs that run graphs |
| `GraphValidation`, `GraphLint` | `validation.py`: a rule is an operator from a graph to its diagnostics |
| `GraphAdmission` | `validate`, `lint` and the startup preflight, then a walk of the graph they let through, with the tool, conditional and human handlers |
| `Verdicts` | how `backend.py` reads an outcome out of a text, a completion status and a `status.json` |
| `CodergenBackend` | `backend.py`, `transcript`, `fidelity`, workers: one LLM node in, one outcome out, and the threads |
| `PipelineOrchestrator` | `execute()` of `loop-pipeline`: stylesheet, preflight, backend, environment, the walk, the releases |
| `Subagents` | `subagent_tools.py`: spawn, send, wait, close |
| `AgentSession` | `loop-agent`: the orchestrator's envelope, the session's rounds, messages, limits, cancellation |
| `LLMStreams` | the adapters of `unified_llm`, `stream_validation.py`, `StreamAccumulator`, and what `complete()` gives for the same answer |
| `LLMGeneration` | `generate`, `stream` and their structured forms, retry, abort, timeouts, hook bridge |
| `MC...` | instances for TLC, one per state machine; `MCPipelineEngine` also has the refinement mapping to `PipelineWalk` |
| `...Proofs` | theorems and proofs about `PipelineEngine` (with `PipelineGraph`), `ParallelFanOut`, `NodeAttempts`, `ChildGraphs`, `GraphAdmission` (with `GraphValidation` and `GraphLint`), `PipelineOrchestrator` (with `CodergenBackend`), `AgentSession` and `LLMGeneration` |

How they compose. `PipelineEngine` and `ParallelFanOut` extend `PipelineGraph`,
which extends `EdgeSelection`; `ChildGraphs` instantiates `PipelineGraph` once
per file; `GraphAdmission` extends `GraphLint`, `GraphValidation` and
`EdgeSelection`, so the rules and the walk see one graph;
`PipelineOrchestrator` extends `CodergenBackend`, which extends `Verdicts`;
`AgentSession` extends `Subagents`; `LLMGeneration` extends `LLMStreams`. The
state machines meet where the code does: what `NodeAttempts` records of a
node, what `ParallelFanOut` and `ChildGraphs` return and what `CodergenBackend`
reads out of a text are elements of `outcomes` in `PipelineEngine`, which tries
them all. Between those machines no variable is shared.

### PipelineEngine

The walk is one coroutine, and `phase` is its program point: the head of the
loop (`top`), inside the handler (`exec`), after the checkpoint and before
edge selection (`route`, `skip_route`), at an exit before its gates (`gate`),
returned but not yet marked (`complete`), `done`, and `crashed`. An action is
the code between two awaits at which something else can happen: a crash, a
cancellation, the outside of the process. The emission of events is such an
await, which is why the save and the routing of one node are two actions.

| variable | code |
|---|---|
| `cur`, `hop` | `current_node`, `resume_outcome is not None` |
| `completed_nodes`, `node_outcomes`, `failed_outputs`, `iteration_count`, `node_execution_counts` | the engine's fields |
| `goal_gate_retries`, `failure_routing_retries`, `steps` | locals of `_run_loop` |
| `context` | the keys of `PipelineContext` that edge conditions read |
| `last_checkpoint` | `_last_checkpoint is not None` |
| `cancelled` | `cancel_event` |
| `ckpt` | `checkpoint.json`; `absent` and `torn` are files the ladder refuses |
| `verdict` | how `_run_loop` returned |

`interruptions`, `starts`, `gate_ledger` and `reported` are history variables:
no action reads the last three, and `interruptions` only bounds the model.

A node of the graph carries `outcomes`, what `execute_with_retry` may hand
back for it; the timeout, the `auto_status` promotion and the `must_write`
backstop that the engine applies to it are `Results`. A folder node may find
its child graph missing at any execution. The context holds only what
conditions read; a key a result does not set maps to `Kept`.

### ParallelFanOut

A branch is the index of an edge of the component node, and an asyncio task.
`task` says where it stands, from `created` over the wait for the semaphore to
`done` or `cancelled`; `walk` is the state of its `run_subgraph`. The handler
is `running`, `draining` (fail fast or first success is waiting for the tasks
it cancelled), `unwinding` (it was itself cancelled), `returned` or `cut`.
`permits` is the semaphore; a released slot is handed to a queued branch that
has not yet run again (`granted`), because a cancellation can fall in that gap.
`doomed` are the branches whose `task.cancel()` is requested and not raised;
an agent session may swallow it (`Swallow`). `asyncio.wait` returns all the
branches that are done by then: `CollectUndecided`, `CollectDecisive` and
`Drain` take a nonempty set of them. `stored` is whose results
`parallel.results` holds; `runs` is a history variable.

### NodeAttempts

Each visit of the node starts a task for `execute_with_retry`; `ladder[v]` is
the task of visit `v`, with the local variables of the function. The engine is
`waiting` for it, in its `grace` after the deadline, `overdue` when the grace is
over and `wait_for` has cancelled a second time, or `over` (the fuse). Every
handler, exception, cancellation, tool and clock tick interleaves with that. A
file is a stamp and a content; the tool of a handler may write `status.json` in
two steps (`open` truncates it), and `grain` is the resolution of the file
system's timestamps. `notes` stands for everything in an outcome but its
status: it names the visit, the attempt and the writer, so that a property can
say whose outcome was recorded. The requirements check before a visit, the
cancellation check after it and the fault of a missing child graph belong to
`PipelineEngine`.

### ChildGraphs

Every run that a folder or a manager starts is awaited by its handler, so the
runs that are going on form a stack, and `stack` is that: one frame per engine
(or `run_subgraph`), with its node, program point, context, completed nodes,
outcomes and budgets, and the attempts and cycles of the handler it is in.
`returned` is the outcome on its way from a child to its handler. A run is
named by its path from the user's run. `by` (who wrote a value of a context),
`from` (which leaf made a result), `ran`, `allowed`, `said` and `late` are
history. The engine is that of `PipelineEngine` reduced to what a child can
disturb: its loop, gates, failure routing, restarts and the retry ladder, but
no checkpoints, skipped nodes or fan-outs. The child of a manager may be a file
or the part of its own graph that begins behind it.

### GraphAdmission

`graph` is a parsed graph, `diags` what `validate` and `lint` say of it. A graph
with an error is refused, any other is walked: `node`, `outcome`, `last_line`,
`node_outcomes`, `gate_retries` are the engine's and the context's; `masked`,
`via`, `retried`, `unseen`, `routed` and `visits` record what the rules speak of.
A shell command is the shape of its last statements: a pipeline, an echo behind
it, a fallback behind that, and `pipefail` before it.

The searches of `validation.py` are loops over a stack or a queue, and so are
their models: `Reach` takes as many hops as there are nodes; `Descend` is one turn
of the depth-first loop (the next edge of the node on top, or that node is left,
or a new root), `Descents` its turns one after another, `Longest` the number that
is enough; `Gathered` is the second pass over the reverse of the order in which
nodes were left.

### CodergenBackend and PipelineOrchestrator

A *line* is an engine with its own backend: the main one and the clones that
branches walk with. `backend[l].transcripts` are the threads, `context[l]` the
pending answer of a human and the fidelity cap of a resume, `call[l]` the node
in flight; `zombies` are calls whose engine has timed out and that go on.
`cache` and `served` are the process-wide model cache, keyed by provider and
family name, and what the provider's list resolves to at the moment. Looking a
name up is an await: in the backend (`resolving`) and again in the direct worker
(`choosing`), which has a resolution of its own. The orchestrator's `phase` runs from the loaded
graph over the stylesheet, the preflight, the environment and the walk to the
releases; `client`, `container` and `source` are what it holds. A text is where
its JSON stands, what its object and an inner one say and whether braces follow.

### AgentSession and Subagents

`pc` is where `process_input` waits: for the provider, for a batch of tools, for
nothing. `history` is a sequence of turns, each a kind and the number of calls
or results it holds; `Request` is the conversion to messages. `steering`,
`follow_ups`, `cancel` and `closing` are what reaches it from outside;
`reason`, `calls`, `cancels`, `before` and `envelope` what it reports. An agent
of `Subagents` has the executions in flight and the one whose result is kept.

### LLMStreams and LLMGeneration

An answer is a sequence of blocks; `Wire` is the provider's order of events for
it, the adapters fold it into events, `validate_stream` passes or refuses each,
and the accumulator builds a response, which `Response` gives directly for
`complete()`. `LLMGeneration` has the rounds around it: `pc` is the await the
call is in, `due` what the adapter has still to yield of the wire event it has
read (the caller may await anything between two events), `conv` the
conversation, `sent` and `ran` the history of requests and tool executions. A
deadline may pass wherever the code waits. The provider names the calls of an
answer; `Numbered` renames them apart from those of earlier answers, as a
provider's ids are.

## Runs

| run | instance and bounds | checks |
|---|---|---|
| `MCLoop` | draft, judge (goal gate, `loop_restart` edge), exit; 2 gate retries, 2 interruptions; under `FairSpec` | `TypeOK`, `CrashCost`, `GatesHeldAtSuccess`, `BudgetsKept`, `Terminates` |
| `MCWide` | a producer and two consumers with a failure retry; then two component nodes, one converging on either of two nodes, one on none; timeouts and a fuse; 1 retry, 2 interruptions | `NoFailedInput`, `ReportedSuccessStands`, `CheckpointIsAWalk` |
| `MCFork` | three branches (one may fail, one may run into a dead end, one may loop), nine policies with 1 or 2 slots, a deadline and a cancellation at any point; under `FairSpec` | `SlotsConserved`, `ReturnsAlone`, `NothingHidden`, `FanOutEnds` |
| `MCAttempts` | four kinds of node (tool node with a timeout, the same with `must_write` and `auto_status`, LLM node under a fuse, LLM node on a coarse file system); 2 visits of 2 attempts, 3 ticks; under `FairSpec` | `AttemptsTypeOK`, `OneHandlerAtATime`, `VerdictIsThisAttempts`, `ExplicitMeansAsserted`, `ArtifactBehindCompletion`, `VisitsEnd` |
| `MCChildren` | seven files that run one another three deep, one with a plain loop, five a user may start; 2 gate retries, 2 cycles; a cancel and a timeout at any point | `ContextsStayApart`, `NoInventedVerdict`, `CancelReachesDown`, `ChildrenEnd` |
| `MCAdmission` | 2385 graphs of four nodes (routes, shell commands, budgets, sources of a node's kind, tools declared by an attribute, two gates); 7 steps, 2 gate retries | `CyclesAgree`, `RoutesWereFlagged`, `FailuresWereFlagged`, `DeadBudgetsStayDead` |
| `MCOrchestrator` | 422 scenarios in five groups: answers, conversations, serving, stylesheets, environments; up to 4 nodes a run | `ServedAsDeclared`, `ThreadsToldTrue`, `AnswerHeardOnce`, `GateNeedsVerdict`, `ReleasedAtEnd` |
| `MCSession` | five configurations, two inputs, one steering message and one follow-up, one agent of two executions, a window of 4, 3 calls | `RequestPairsCalls`, `SuccessIsAnswered`, `CancelHeeded`, `ResultsKept` |
| `MCGenerate` | both entries over four adapters; 2 rounds, 1 retry; answers of up to two blocks, five failures | `CallsAnsweredOnce`, `WorkBounded`, `GivenIsWellFormed`, `StreamAgrees`, `GenerationEnds` |

The bounds. In the engine, `MaxRetries` stands for `_MAX_GOAL_GATE_RETRIES`
(50): with 1 or 2 both the retry and the exhausted budget occur, and so does the
step bound `|Nodes| * MaxRetries`. `MaxInterruptions` bounds the crashes and the
resumes of a run that had returned: two suffice for a crash during a resumed
walk, and for a second resume. Three branches on two slots make one branch wait,
and let two be done in the same wake-up. Two attempts make an earlier attempt of
the same visit, two visits an earlier visit, and three ticks a file that is older
than, as old as and younger than the start of an attempt. Three levels of child
graphs make a run whose value must pass a level that does not declare it; two
cycles an earlier cycle. Four nodes hold a start, an exit and two nodes between
which every rule's flaw fits; seven steps go round such a graph twice. One
steering message and one follow-up, each at any await, are enough to race every
other event; two executions of an agent race each other. In a generation two
rounds make a conversation with an answered call, and one retry the choice
between sending again and not. Every action fires in one of these runs. The
programs do stop: the first modules stutter then (`Stopped`), the others are
checked without deadlock checking, and the liveness properties tell a run that
ended from one that is stuck.

What the properties say:

* `CrashCost`: the handler starts of a node, over all processes, exceed the
  engine's own restored count by at most one per interruption. A resumed node
  that was already recorded is not run again.
* `BudgetsKept`: each checkpoint has consumed more steps than the one before,
  and a retry budget falls only in a new `loop_restart` iteration.
* `NoFailedInput`: while a handler runs, no node recorded as failed produces a
  key it refers to, also when `failed_outputs` was rebuilt by a resume.
* `GatesHeldAtSuccess`: success is reported only if every goal gate among the
  completed nodes of the last attempt was last recorded satisfied.
* `ReportedSuccessStands`, an action property: after a success was announced, a
  resume (the crash fell between the announcement and the `run_state` flip)
  never announces a failed gate or the lack of an edge. It may end at the step
  bound, in a fuse or cancelled: those end the process, not the graph. The order
  matters: a resume of a failed run that then succeeds is what resuming is for.
* `CheckpointIsAWalk`: the checkpoint file implements `PipelineWalk`.
* `Terminates`: every run returns or a crash leaves nothing to resume.
* `SlotsConserved`: what the branches hold of the semaphore and what is free
  are `max_parallel` together, also when a branch is cancelled between the
  grant and its next step.
* `ReturnsAlone`: when the handler has returned, or was cut short while it
  waited with `gather`, no branch is running. A handler cut short in
  `asyncio.wait` does leave its branches running (`CutWait`); no text says
  otherwise, and no property hides it.
* `NothingHidden`: what the outcome of the component node and the choice of the
  fan-in node say of the branches is true of them.
* `FanOutEnds`: a component node returns or is cut short under every schedule.
* `OneHandlerAtATime`: two visits never run their handlers at the same time.
* `VerdictIsThisAttempts`: what is recorded is the last attempt of this visit.
* `ExplicitMeansAsserted`: an outcome counts as explicit, and can satisfy a
  goal gate, only if a handler or a tool asserted it.
* `ArtifactBehindCompletion`: a `must_write` node never completes without an
  artifact of this visit. This and the two before it are stated where stamps
  are fine (`grain = 1`): the code documents that on a coarse file system a file
  of the same tick counts as new.
* `VisitsEnd`: if handlers return or unwind, every visit ends.
* `ContextsStayApart`: every value in a context was written in its own run or
  above it before it began, or came up through nodes each of which lets that
  key out. No sibling, earlier cycle or failed child leaves a trace. A label
  that is not the run's own comes from the node directly above, which injects it.
* `NoInventedVerdict`: an explicit verdict of a folder or manager was asserted
  by a leaf below the last run it started. It is not stated while the node is
  visited again: until the second visit ends, `node_outcomes` holds the verdict
  of the first, whose run is no longer the last. An earlier form left that out,
  and failed on a plain loop when the proof reached it; `MCChildren` has one now.
* `CancelReachesDown`: after a cancel at most the one node already entered
  begins, at whatever depth, and no success is reported from a walk that was
  not at its exit.
* `ChildrenEnd`: runs of graphs that do not contain themselves end.
* `CyclesAgree`: the depth-first search finds a back edge exactly when a node
  reaches itself, the component search finds the components of those nodes and no
  other, and a graph called acyclic executes no node twice between gate retries.
* `RoutesWereFlagged`, `FailuresWereFlagged`, `DeadBudgetsStayDead`: a run that
  follows a dead edge, routes on a stale line, steps over a shadowed label, is
  refused a node, reaches the exit green behind a failure or takes a masked check
  for a pass was spoken of by the rule about it, and a budget called dead is not
  used up (TOPO-001, -002, -006, -007, -009, SHAPE-001, type_known, CMD-001). The
  rules have blind spots, which the proofs made explicit and the properties name:
  a tool by `node_type` alone is no tool to them; the start node's name excuses
  its shape; a `runs_on` mark makes TOPO-006 look away although no engine reads
  it (ATTR-LINT-001 says so); a hexagon of another type passes for a human gate; a
  pipe may end in a program CMD-001 does not know for a filter; TOPO-007 searches
  from one gate's target, so where several gates take turns it speaks only of the
  target the run went back to, and it does not follow failure edges.
* `ServedAsDeclared`: the stylesheet resolves as its documentation orders, the
  declared provider serves, one family name is one model along a line, and a
  node the preflight admitted is not refused later for lack of a profile.
* `ThreadsToldTrue`: a thread holds each run of a node once and in order, and a
  branch hears only itself.
* `AnswerHeardOnce`: along one line an answer goes into one instruction.
* `GateNeedsVerdict`: a gate passes explicitly on a verdict some object or file
  gave.
* `ReleasedAtEnd`: source, client and container are let go whichever way a run
  ends.
* `RequestPairsCalls`: every request answers each call right after the message
  that makes it, whatever was cancelled, seeded or elided before.
* `SuccessIsAnswered`: an envelope says success only of an invocation that
  ended in an answer.
* `CancelHeeded`: no provider call after a cancel, no tool after an immediate
  one.
* `ResultsKept`: what one wait returned for an agent every later wait returns.
* `CallsAnsweredOnce`: requests are well formed for the provider's API, and no
  tool call of a strict generation runs twice.
* `WorkBounded`: retries and rounds multiply and no more, what a provider refused
  for good is not sent again, and an abort stops the rounds.
* `GivenIsWellFormed`, `StreamAgrees`: a strict stream is properly nested, and
  says what `complete()` says of the same answer.
* `GenerationEnds`: every generation returns or raises.

Fairness. `PipelineEngine` and `ChildGraphs`: `WF(Walk)` says the event loop goes
on scheduling the coroutine and that a handler returns; the code bounds handlers
only when the graph sets a timeout or a fuse, so for other graphs this is an
assumption on handlers. `WF(Resume)` says that somebody resumes a crashed run.
Nothing is assumed of crashes and cancellation. `ParallelFanOut` and
`NodeAttempts`: the event loop runs each task that is ready, a timer that is due
fires, a cancelled task unwinds, a handler returns. Tools, ticks and swallowed
cancellations are never owed. `LLMGeneration`: the event loop runs what is ready,
and a provider answers, fails or cuts the stream off; aborts and deadlines are
never owed. The other modules state no liveness: an agent session waits for its
host, and the orchestrator ends when its engine does.

### Where the code departs from what is written about it

Each of these runs ends in the violation of one property that a comment or a
document of the repository states; PROJECT.json quotes the line.

| run | property | what happens |
|---|---|---|
| `MCForkNested` | `BranchesRunOnce` | a component node inside a branch: after its handler ran all branches the walk follows an edge into one of them again |
| `MCVerdict` | `ExplicitFailNeverSuccess` | a verdict object that holds another object is read at the inner one, and a stated fail becomes a success |
| `MCAnswer` | `AnswerInherited` | the human's answer leaves the context before the call that carries it succeeds, and a later node of the thread never hears it |

## Seen while modelling

In the code, and not kept as runs. Those marked (m) show in a model's behaviours.

Engine:
* (m) A resumed process that returns before its first save cannot flip
  `run_state`, and the finished run can be resumed (`engine.py:1850`; the comment
  at 333 says otherwise).
* (m) A gate retry clears `node_outcomes`; a route around the failed gate then
  succeeds (`engine.py:714`, EXTENSIONS.md:136).
* (m) Failure routing out of a skipped node keeps `failed_outputs`
  (`engine.py:833`, against the comment at 440).
* (m) Live, a skipped node routes as FAIL; resumed, as SKIPPED (`engine.py:803`).
* (m) The outcome of the last node stands in for the gate result at an exit, so
  its own suggestion can be followed from there (`engine.py:687`).
* A handler that returns SKIPPED leaves its outputs out of `failed_outputs`
  (`engine.py:2418`).
* (m) A handler that takes both cancellations for something else holds the
  engine beyond the fuse (`engine.py:2147`, against 916 and 2115).
* When the engine's own task is cancelled while it waits on a shielded handler,
  the handler's task goes on alone (`engine.py:2142`).
* When a backend raises, `CodergenHandler` writes its own FAIL over a
  `status.json` a tool wrote in that attempt (`codergen.py:196`).

Fan-out:
* (m) `fail_fast` with `first_success`: a success done in the same wake-up as a
  failure is dropped, and "no branches succeeded" (`parallel.py:306`, 405).
* (m) A fan-out cut short stores no results, and the fan-in node judges those of
  an earlier visit (`parallel.py:237`).
* (m) A branch queued for the semaphore can start after another failed, if its
  turn comes before the handler wakes up (`parallel.py:268`).
* (m) A fan-in node with a prompt may choose a branch that failed
  (`fan_in.py:78`); `NothingHidden` is stated for those without.
* `max_parallel=0` waits for ever (`parallel.py:96`); `error_policy="ignore"`
  with no success is SUCCESS, and FAIL at the fan-in (`parallel.py:231`).

Child graphs:
* The child shares the backend object of its parent, and the backend keys
  threads by thread id alone: a child's node continues, or truncates, the
  parent's conversation (`pipeline.py:444`, `backend.py:936`), where
  EXTENSIONS.md section 11 draws a fresh boundary.
* (m) The last outcome of a child is returned as it is, so its context updates,
  label and suggestions reach the parent, also from a child that failed
  (`pipeline.py:570`, `engine.py:1183`); the tests speak of declared outputs only.
* (m) After a cancel a manager still goes through its remaining cycles, each of
  them cut short; a missing child file fails each cycle anew.
* (m) A manager over its own graph: the engine walks the child's region once more
  after the manager ran it; one whose first edge leads to an exit succeeds with
  nothing run; `run_subgraph` ignores `loop_restart`.
* "A re-entered folder always gets a FRESH checkpoint directory"
  (`pipeline.py:396`) is not so in a re-entered manager, in the clone of a branch
  or after a resume. `max_cycles` is 1000, not 10 (`manager_loop.py:16`, 133).
  `actions` without `observe` changes nothing. Child graphs are neither validated
  nor transformed, and one that includes itself recurses without bound.

Backend, orchestrator, gates:
* (m) Two branches that miss the model cache may take two models for one family;
  an answer is heard in each branch and again after the join; a re-run node is
  sent its own stale turn; a zombie can rewrite a thread the retry extended; a
  node whose spawn failed still counts as completed; without a `thread_id` the
  last node is the key; the second LLM node after a resume gets a full but empty
  history.
* (m) A provider mounted without a profile passes the preflight and is refused by
  the spawn path; an agent without an orchestrator of its own passes and meets
  the recursion guard. With `spawn` but no profiles, agents or providers the
  preflight takes the run for a simulation, a backend is built all the same, and
  every node fails for want of a profile. An undeclared node with exactly one
  profile is resolved for that provider by the backend and run with "anthropic"
  by the direct worker. Refusals meant to be "terminal, loudly" are caught by
  `CodergenHandler` and become a plain FAIL.
* (m) An `env_create` whose output does not parse leaves a container; a raise
  between the registry and `engine.run` skips `backend.close`.
* Human gate: colliding accelerators select the last choice (`human.py:570`), a
  time-out or a yes the first; a gate in a re-entered folder repeats its stage id.

Lint: comments about failing fast are stale (`validation.py:1356` and others):
`edge_selection.py:80` follows a plain edge on any status. The preflight resolves
a handler otherwise than the registry does. Reachability counts a retry target
but not what lies behind it.

Agent session: (m) a turn limit is not given as the reason; two waits in one batch
execute an agent twice; a closed session still calls its provider; a follow-up
sent while the last one ends is lost.

LLM client: (m) the OpenAI adapter gives a streamed call twice, so `stream()` with
tools fails in strict mode and runs it twice in warn mode; an incomplete response
has no FINISH; in Chat Completions the usage chunk's second FINISH overwrites
"length"; a bare last chunk of Gemini loses the reason; `stream()` connects again
after an abort and ignores the step timeout and `stop_when`; `generate` executes
the last round's tools and drops their results; `stream_object` keeps an invalid
object (`generate.py:821`) and gets no text from Anthropic; the hook bridge under
`stream()` raises `TypeError`.

## Proofs

`PipelineEngineProofs` first proves of the helpers of `PipelineGraph`, for every
graph: that `select_edge` returns an outgoing edge of its node or none
(`SelectEdgeOutgoing`), that retry targets, fan-in nodes, results and contexts
are of their types. Then it proves of `Spec`, for every graph, budget and number of
interruptions:

* `TypeCorrect`: `[]TypeOK`, one step per action;
* `CrashCostHolds`: `CrashCost` strengthened with the same bound on the counts
  in the checkpoint, which is what a crash falls back on;
* `NoFailedInputHolds`: strengthened with "every failed node's outputs are in
  `failed_outputs`", which holds live by `FinishNode` and after a resume by the
  derivation;
* `BudgetsAreKept`: strengthened with "the live counters are ahead of the
  checkpoint's, and strictly so in the phases that save";
* `GatesHold`: strengthened with the agreement of `gate_ledger` with the
  recorded outcomes of completed nodes, in memory and in the checkpoint;
* `SuccessStands`: `ReportedSuccessStands`, from `SuccessInv`: once success is on
  record the checkpoint is that of an exit node whose gates hold, and a process
  resumed from it is at that exit and nowhere else. So it can only pass the same
  gates again;
* `CheckpointRefines`: `CheckpointIsAWalk`, the refinement of `PipelineWalk`. The
  initial state maps to one of its initial states, and each action to a step of
  the walk or a stutter. It needs `WalkInv`: a loop iteration begins where the
  record leads, or, just resumed, where the record stands, and the node in hand
  is recorded before its edge is chosen. The two actions that write the file are
  walk steps; a resume is a stutter because it begins where the record stands.

`ParallelFanOutProofs` proves of `ParallelFanOut!Spec`, for every graph, policy,
`max_parallel` and number of branches:

* `SlotsAreConserved`: `SlotsConserved`, inductive once `task` and `permits` are
  typed. The lemmas count: a branch that takes the semaphore is one holder more,
  one that ends is one less, and `Release` wakes a branch that is not yet a
  holder or returns the slot (`ReleaseReturnsOne`), also when what it releases
  was granted and never used;
* `NoBranchOutlivesTheHandler`: `ReturnsAlone`, strengthened with "what the
  handler no longer waits for is over" and "only the policies that wait with
  `asyncio.wait` drain". It needs that what is over stays over
  (`OverIsStable`), which a release that woke the wrong branch would break;
* `NothingIsHidden`: `NothingHidden`, from `ReportInv`: a handler under a policy
  that can decide goes on waiting only while no collected branch decides it, and
  what decided it is among the results it judges, also when it drains the rest.

`NodeAttemptsProofs` proves of `NodeAttempts!Spec`, for every number of
attempts and visits, every set of nodes and whatever handlers return and tools
write:

* `AttemptsTypeCorrect`: `[]AttemptsTypeOK`;
* `OneHandler`: `OneHandlerAtATime`, from `Control`: a task is alive only while
  the engine waits for its visit, in its grace or beyond it. The step that
  needs it is `TimeOut`, which waits for the end of the task;
* `ArtifactSafe`: `ArtifactBehindCompletion`, strengthened with "an artifact
  stamped after the visit began is of this visit", which needs `Control`: no
  handler of an earlier visit is left to write one;
* `VerdictSafe`: `VerdictIsThisAttempts`, strengthened with "a `status.json`
  stamped after the running attempt began is that attempt's" and "the engine
  listens to no task it has cancelled";
* `ExplicitIsAsserted`: `ExplicitMeansAsserted`, from `AssertedInv`: while a
  handler is at work only its tools write `status.json`, and a half-written file
  is always theirs, so what the ladder reads back was asserted by one.

The first invariant (`AttemptsTypeOK` and `Control`) is inductive by itself;
the others are proved relative to it, one step per action.

`ChildGraphsProofs` proves of `ChildGraphs!Spec`, for any graphs at all, running
one another to any depth; nothing is assumed of them:

* `VerdictsHaveASource`: `NoInventedVerdict`;
* `ContextsApart`: `ContextsStayApart`;
* `CancelIsHeard`: `CancelReachesDown`, with `LateInv`: the one node that begins
  after a cancel had been entered before it.

The first two share `StackInv`. Every frame but the last waits for its child, and
the run of each is one step longer than that of the frame below (`Linked`); of
every frame, what its node has made and what its context holds comes from runs
below it, by nodes each of which lets it out (`FrameInv`, `Handed`). Stacks change
in four ways only (a frame is added, taken away, or its top changes with or
without the run below having ended), so the proof is by these four and then by
action. The lemmas are about prefixes of runs: a run below a child is below its
parent, and what may leave a run may leave those above it if their nodes say so.

`PipelineOrchestratorProofs` proves of `PipelineOrchestrator!Spec`, which
contains `CodergenBackend`, for every set of scenarios and lines:

* `SceneCorrect`: graph and setup keep their fields and nodes, whatever the
  stylesheet assigns;
* `Released`: `ReleasedAtEnd`, from `ReleaseInv`: what is held in each phase;
* `AnswerOnce`: `AnswerHeardOnce`, strengthened with "an answer that stands in a
  context has not been heard on its line", which a clone and a join must keep;
* `ThreadsTold`: `ThreadsToldTrue`, from `ThreadInv`: every call in flight, and
  every one its engine gave up, carries the run it was started as, and while no
  call outlives its engine every turn of a thread is of an earlier run;
* `GateVerdict`: `GateNeedsVerdict`, by cases on the form of the text;
* `DeclaredServes`: `ServedAsDeclared`. Its part about the stylesheet is
  `StyledIsBest`, for every list of rules: the fold that applies them one after
  the other returns what the most specific of the matching ones sets, the last of
  those, by induction on the number of rules (`CountUp`, from `LeastIndex`; that
  the fold's recursive function exists is an induction too, `FoldedExists`). The
  others follow from `ServingInv` (a call that is ready is served as its node
  declares, and the refusals that can follow a passed preflight) and `PinnedInv`
  (on one line, what was taken for a family name is what the cache holds, and a
  name being looked up is not in it). Stepping through it showed two windows the
  model had closed: the worker's own resolution, and the cache keyed by provider
  and name.

`AgentSessionProofs` proves of `AgentSession!Spec`, for every configuration,
provider, host, number of agents and of messages:

* `SuccessMeansAnswered`: `SuccessIsAnswered`, strengthened with "a loop that
  ended with its reason still natural has just recorded an answer, and nothing
  is recorded between the end of an invocation and the next input". It rests on
  the history being a sequence of turns, whatever was seeded;
* `CancelIsHeeded`: `CancelHeeded`. Only `CallProvider` sends a request, and from
  an answer under way only its tool calls lead to the tools; each asks for the
  cancellation first;
* `ResultsAreKept`: `ResultsKept`, from the types of the table of agents and of
  the batch: a cached answer is overwritten only by an execution in flight, and
  no new one starts while it is cached;
* `RequestsPair`: `RequestPairsCalls`, in two halves. `PairInv` says of the
  history that results stand right behind the calls they answer (`Tidy`) and that
  calls are open only while their batch runs, or in a session left "processing"
  or closed, from which no input starts; `RequestPairs` says of any such history
  that its request is paired. The request is a flattening, so the second half
  rests on `FlattenedParts`: the parts are laid out one behind the other, and
  nothing else is. That one is an induction on the number of parts, from the
  well-foundedness of `<` on the naturals (`CountUp`).

`LLMGenerationProofs` proves of `LLMGeneration!Spec`, for every setup, provider,
answer and failure:

* `WorkIsBounded`: `WorkBounded`, from `WorkInv`: every request belongs to an
  attempt of a round (`BudgetInv`); one refused for good is the last and its
  generation has raised (`RefusedInv`, from the error classes of all four
  adapters, `RefusedIsFinal`); after an abort a next round may be counted on but
  sends nothing (`AbortInv`);
* `GivenWellFormed`: `GivenIsWellFormed`, from `GivenInv`: the flags of
  `validate_stream` agree with the numbers of blocks begun and ended
  (`ThroughIs`), for any event an adapter may yield. That the adapters yield one
  wire event in parts, each taken by itself, is what makes this a step and not an
  induction over a list; the code's generators do the same;
* `StreamsAgree`: `StreamAgrees`, from `StreamInv`. While a stream is open, either
  the events due take the accumulator to a state from which the rest of the wire
  runs to what `complete()` returns (`OnTrack`), or one of them is doomed: a
  delta of a call without an id, which a validator that does not merely warn
  refuses. That an answer is on track from its first wire event is shown block by
  block for each adapter (`AnthropicBlock`, `OpenAIBlock`, `CompatBlock`,
  `GeminiBlock`); deltas, blocks, folds and the flattening are each an induction
  on their number (`CountUp`);
* `EachCallAnsweredOnce`: `CallsAnsweredOnce`, from `CallInv`. The ids of a round
  are distinct and new (`CallsDistinct`), those executed belong to earlier rounds
  (`RanInv`), and a result's calls are those of its answer
  (by `StreamInv` when it was streamed). Of the conversation it says that the
  turns a provider makes of it are settled, every call answered in the turn after
  it and nowhere else, and that appending an exchange keeps them so: message by
  message for three adapters (`PlainTurns`), and for Anthropic through the merge
  that puts all answers of a round into one user turn (`MergedTurns`).

`GraphAdmissionProofs` proves of `Spec`, for every set of graphs and every bound,
what the rules say. All of it rests on `WalkInv` (what is walked passed
`validate()` and the walk stands at one of its nodes) and on what `Reach` is: the
least set that holds its start and is closed (`ReachIs`, `ReachLeast`). That so
many hops are enough is an induction on their number: a hop that finds anything
finds one node more.

* `CyclesFound`: `CyclesAgree`. `SearchInv` holds of each turn of the depth-first
  search: the visited nodes are the path and what was left, each once (`Placed`,
  `Once`), an edge that was looked at joins visited nodes (`Looked`), the path is
  a path (`Chained`), so a back edge closes a loop; without one, an edge leads to
  a node left earlier (`Ordered`); and from a node that was left the search
  reaches only nodes left before it, or the node is on a loop with one left later
  (`Finished`). Each turn makes `ToDo` less, so after `Longest` turns all is done
  (`DepthFirstIs`). `BackEdgesAgree` follows: in order of leaving, nothing
  reaches itself. For the components, what the second pass gathers from a node
  outside a union of components, when all nodes left later are inside it, is the
  node's component: all of it (`GatheredAll`) and, by `Finished`, nothing else
  (`GatheredOnly`). For the walk, `VisitsInv`: where nothing reaches itself, what
  was executed lies behind the walk;
* `RoutesFlagged`: `RoutesWereFlagged`, from `ServedInv` (a tool or a diamond
  prefers no label, a diamond succeeds) and `DeadInv` (no failure clause holds
  behind a diamond);
* `FailuresFlagged`: `FailuresWereFlagged`, from `MaskInv` (a tool's outcome is
  what the shell made of its command) and `SilentInv`: behind the edge that routed
  a failure nothing has looked at, TOPO-006's search keeps up with the run
  (`Tracked`), over pairs of a node and whether an unmarked node was passed;
* `BudgetsStayDead`: `DeadBudgetsStayDead`, from `BudgetInv`: short of a restart
  and of a routed failure, a run that went back stays in what TOPO-007 searches
  from the target.

The assumptions are the ASSUMEs of `PipelineGraph`, `ParallelFanOut`,
`NodeAttempts`, `GraphAdmission`, `PipelineOrchestrator`, `AgentSession`,
`Subagents` and `LLMGeneration`: a finite set of nodes, a well-formed graph, `Text` containing
the strings the code itself writes, a semaphore of at least one slot, at least
one attempt, scenarios, setups, configurations and bounds of their types. Of a
parsed graph (`GraphsAssumption`) they say that its nodes and edges are lists, an
edge without a condition has no clauses, a clause without an operator no value,
and a command ends in a pipeline of at least one stage; of the normalisation of
labels (`NormAssumption`) that it leaves a status word alone. Of the
answers of a provider (`AnswerShapesAssumption`) they say that a call has an id
of its own in its answer, at most `MaxCalls` of them, and that a thinking block
is streamed in one delta at least: the accumulator takes thinking from the
deltas, `complete()` from the block.

Model-checked only: liveness (`Terminates`, `FanOutEnds`, `VisitsEnd`,
`ChildrenEnd`, `GenerationEnds`), which the prover does not reach. Every other
property of a passing run is a theorem. The inductions these proofs need (over the
hops and turns of a search, the parts of an answer, the rules of a stylesheet) are
made over a set of numbers, from the well-foundedness of the naturals (`LeastNat`,
`CountUp`), since the library's own induction theorems take an operator the
provers cannot instantiate.

## Not modelled

Events, logs and traces, the texts of prompts and notes, DOT parsing, the
substitution of variables, wire formats beyond the order of their events: data
without control. The resume fidelity cap enters the backend as a flag
(`context[l].cap`) and is left out of the engine; the length of a backoff and the
iteration-scoped copies of `status.json` (nothing reads them back) are left out.

Of `ChildGraphs`: checkpoints, skip propagation and fan-outs inside a child (the
engine's and the fan-out's own modules have them), directories and their
numbering, the steering text and the poll interval, stage ids, telemetry other
than the last child's status, graphs that include themselves, the handler of a
timed-out child that goes on, threads of the shared backend.

Of `GraphAdmission`: rules about text alone, failure routing after a node without
a matching edge. Of `PipelineOrchestrator`: the materialising of a remote source,
parameters, the summary. Of `AgentSession`: events and the content of results.

Components not modelled: the pipeline runner's command line, the remote source
cache, the observability hooks, the tool modules (in the plan below); the
Amplifier agent orchestrator, a wrapper of an external loop; test kits and CI
scripts.

## Plan

1. `RemoteCache`: processes that fill one entry, a crash in the middle, two
   concurrent fetches of one ref.
2. Runner and tools: the command line's resume and exit codes, background runs
   of `tool-pipeline-run`, the atomicity of `apply_patch`.
3. The event aggregator: events out of order and repeated, folded to a run state.
4. `EdgeSelection` against a reference definition of the five-step choice, over
   all small sets of edges.
5. The threads of the shared backend under `ChildGraphs`: two engines, one table.

Liveness stays with TLC.
Runs of departures make room for runs of new components where they are the
less telling.

---------------------------- MODULE AgentSession ----------------------------
(***************************************************************************)
(* A coding agent: the orchestrator that makes one session and reports how *)
(* each invocation ended, and the session's loop of provider calls and     *)
(* tool batches, with the steering and follow-up messages, cancellations   *)
(* and the shutdown that reach it from outside while it waits.             *)
(*                                                                         *)
(* A turn is its kind and how many tool calls or results it holds; texts   *)
(* are left out, but for a final answer that ends as a question.           *)
(***************************************************************************)
EXTENDS Subagents, Integers, Sequences, SequencesExt

CONSTANTS
    Configs,        \* the configurations looked at: a subset of Config
    Window,         \* config.loop_detection_window
    MaxCalls,       \* bound: a provider asked this often answers with text
    MaxInputs,      \* bound on the host's prompts
    MaxMessages     \* bound on steering messages, and on follow-ups

Families == {"anthropic", "openai", "gemini"}

\* A provider's name: the family it contains, whether it is one of the distinct
\* compounds, the prompt profile a subscription provider defaults to.
Name  == [id: STRING, family: Families \cup {"none"}, compound: BOOLEAN,
          profile: Families \cup {"none"}]
NoName == [id |-> "", family |-> "none", compound |-> FALSE, profile |-> "none"]
Mount == [key: Name, module: Name]

\* base: where Layer 1 comes from; seeds: the messages a fidelity="full" spawn
\* put on the mounted context.
Config == [max_rounds: Nat, max_turns: Nat, parallel: BOOLEAN, nested: BOOLEAN,
           asked: Name, mounts: Seq(Mount),
           base: {"text", "file", "empty_file", "missing_file", "default"},
           retention: Nat, seeds: Seq({"user", "assistant", "asking", "tool", "system"})]

ASSUME SessionAssumption ==
    /\ Configs \subseteq Config
    /\ Window \in Nat \ {0}
    /\ MaxCalls \in Nat \ {0} /\ MaxInputs \in Nat /\ MaxMessages \in Nat

VARIABLES
    config,
    made,           \* the session's mount and base prompt, or NotMade
    state,          \* SessionStateMachine._state
    history,        \* SessionHistory
    pc,             \* where process_input is; "out" when nobody is in it
    depth,          \* _follow_up_depth
    rounds,         \* round_count
    batch,          \* the tool calls being executed
    signatures,     \* LoopDetector._signatures
    reason,         \* _termination_reason
    calls,          \* _provider_call_count
    cancels,        \* _cooperative_cancel_count
    before,         \* its value when execute was called
    envelope,       \* status of the last orchestrator:complete
    steering,       \* messages in the steering queue
    follow_ups,     \* messages in the follow-up queue
    sent,           \* follow-ups queued so far
    cancel,         \* coordinator.cancellation
    closing         \* shutdown waits for the tracked processes

loop    == <<pc, depth, rounds, batch, signatures>>
report  == <<reason, calls, cancels, before, envelope>>
outside == <<steering, follow_ups, sent, cancel, closing>>
vars == <<config, made, state, history, agents, loop, report, outside>>

Turn(kind)     == [kind |-> kind, calls |-> 0, results |-> 0]
Asking(n)      == [kind |-> "assistant", calls |-> n, results |-> 0]
Results(n)     == [kind |-> "tools", calls |-> 0, results |-> n]
Turns     == [kind: {"user", "assistant", "question", "tools", "steering"},
              calls: Nat, results: Nat]
Tools     == {"plain", "unknown", "spawn_agent", "send_input", "wait", "close_agent"}
Call      == [tool: Tools, agent: Agents, step: {"todo", "running", "done"}, run: 0..MaxRuns]

----------------------------------------------------------------------------
(* Making the session *)

Canonical(name) == IF name.compound THEN "none" ELSE name.family

NotMade == [mount |-> 0, prompt |-> "none"]

\* The mount whose key is asked for, else the first of the same family, 0 for none.
ChooseMount(c) ==
    LET exact  == {i \in DOMAIN c.mounts : c.mounts[i].key = c.asked}
        family == {i \in DOMAIN c.mounts : /\ Canonical(c.mounts[i].key) # "none"
                                           /\ Canonical(c.mounts[i].key) = Canonical(c.asked)}
    IN IF c.mounts = <<>> THEN 0
       ELSE IF c.asked = NoName THEN 1
       ELSE IF exact # {} THEN Min(exact)
       ELSE IF family # {} THEN Min(family) ELSE 0

\* The prompt profile a name stands for.
ProfileOf(name) == IF Canonical(name) # "none" THEN Canonical(name) ELSE name.profile

\* _resolve_base_prompt: configured, or the default of the mount's key, or of
\* its module; "none" raises.
BasePrompt(c, mount) ==
    CASE c.base \in {"text", "file"} -> "own"
      [] c.base = "empty_file"       -> "empty"
      [] c.base = "missing_file"     -> "none"
      [] OTHER -> IF ProfileOf(mount.key) # "none" THEN ProfileOf(mount.key)
                  ELSE ProfileOf(mount.module)

\* Only the text of user and assistant messages is replayed, in their order.
Hydrated(seeds) ==
    LET replay == {i \in DOMAIN seeds : seeds[i] \in {"user", "assistant", "asking"}}
        nth(k) == CHOOSE i \in replay : Cardinality({j \in replay : j <= i}) = k
    IN [k \in 1..Cardinality(replay) |->
            Turn(IF seeds[nth(k)] = "user" THEN "user" ELSE "assistant")]

----------------------------------------------------------------------------
(* The request a history makes *)

\* pending_tool_calls when the i-th turn is converted.
Pending(h, i) ==
    LET open == {j \in 1..(i - 1) : h[j].calls > 0 /\ \A k \in j..(i - 1) : h[k].kind # "tools"}
    IN IF open = {} THEN 0 ELSE h[Max(open)].calls

ToolTurns(h, i) == Cardinality({j \in 1..i : h[j].kind = "tools"})

\* Results older than the retention window are replaced by a stub, their
\* messages stay; a message of a result names the call it answers, 0 for none.
Messages(h, i, retention) ==
    IF h[i].kind = "tools"
    THEN [k \in 1..h[i].results |->
            [role |-> "tool", calls |-> 0,
             answers |-> IF k <= Pending(h, i) THEN k ELSE 0,
             elided |-> retention > 0 /\ ToolTurns(h, i) <= ToolTurns(h, Len(h)) - retention]]
    ELSE <<[role |-> IF h[i].kind \in {"assistant", "question"} THEN "assistant" ELSE "user",
            calls |-> h[i].calls, answers |-> 0, elided |-> FALSE]>>

Request(h, retention) == FlattenSeq([i \in DOMAIN h |-> Messages(h, i, retention)])

----------------------------------------------------------------------------
(* Loop detection *)

\* record: the window slides.
Recorded(w, batch_) ==
    LET all == w \o [i \in DOMAIN batch_ |-> batch_[i].tool]
    IN IF Len(all) <= Window THEN all ELSE SubSeq(all, Len(all) - Window + 1, Len(all))

\* check: the window is full and repeats its first 1, 2 or 3 signatures, of the
\* lengths that divide it.
Looping(w) ==
    /\ Len(w) >= Window
    /\ \E n \in 1..3 : /\ Window % n = 0
                       /\ \A i \in 1..Window : w[i] = w[((i - 1) % n) + 1]

----------------------------------------------------------------------------
(* How an invocation goes on *)

Raise == pc' = "raised" /\ depth' = 0

\* complete(), then _process_follow_ups; from a closed session complete raises.
Finish ==
    IF state = "processing"
    THEN state' = "idle" /\ pc' = "drain" /\ depth' = depth + 1
    ELSE UNCHANGED state /\ Raise

\* A raise that closes the session, which only a processing one can do.
Fail ==
    /\ state' = IF state = "processing" THEN "closed" ELSE state
    /\ Raise

Injected(n) == [i \in 1..n |-> Turn("steering")]

\* process_input from its first transition to its loop.
Submit(before_) ==
    /\ reason' = "natural"
    /\ IF state = "idle"
       THEN /\ state' = "processing"
            /\ history' = before_ \o <<Turn("user")>> \o Injected(steering)
            /\ steering' = 0 /\ rounds' = 0 /\ pc' = "top" /\ UNCHANGED depth
       ELSE /\ history' = before_ /\ Raise /\ UNCHANGED <<state, steering, rounds>>

Inputs == Cardinality({i \in DOMAIN history : history[i].kind = "user"})

\* execute: the first one makes the session, on failure there is none.
Execute ==
    /\ pc = "out" /\ Inputs < MaxInputs
    /\ before' = cancels /\ envelope' = "none"
    /\ IF made # NotMade
       THEN Submit(history) /\ UNCHANGED made
       ELSE LET m == ChooseMount(config)
                p == IF m = 0 THEN "none" ELSE BasePrompt(config, config.mounts[m])
            IN IF p = "none"
               THEN Raise /\ UNCHANGED <<made, state, history, reason, steering, rounds>>
               ELSE made' = [mount |-> m, prompt |-> p] /\ Submit(Hydrated(config.seeds))
    /\ UNCHANGED <<config, agents, batch, signatures, calls, cancels, follow_ups, sent,
                   cancel, closing>>

\* resume_with_input: AWAITING_INPUT, PROCESSING and IDLE in one step.
ResumeWithInput ==
    /\ pc = "out" /\ state = "awaiting" /\ Inputs < MaxInputs
    /\ state' = "processing" /\ reason' = "natural"
    /\ history' = history \o <<Turn("user")>> \o Injected(steering)
    /\ steering' = 0 /\ rounds' = 0 /\ pc' = "top"
    /\ before' = cancels /\ envelope' = "resumed"
    /\ UNCHANGED <<config, made, agents, depth, batch, signatures, calls, cancels,
                   follow_ups, sent, cancel, closing>>

RoundsLeft == config.max_rounds = 0 \/ rounds < config.max_rounds
TurnsLeft  == config.max_turns = 0 \/ Len(history) < config.max_turns

\* The loop ends at a limit of either kind; what the turn limit set is overwritten.
Limit ==
    /\ pc = "top" /\ (~RoundsLeft \/ (cancel = "no" /\ ~TurnsLeft))
    /\ reason' = "tool_round_limit" /\ Finish
    /\ UNCHANGED <<config, made, history, agents, rounds, batch, signatures, calls, cancels,
                   before, envelope, outside>>

Cancelled ==
    /\ reason' = "cancelled" /\ cancels' = cancels + 1 /\ Finish
    /\ UNCHANGED <<config, made, history, agents, rounds, batch, signatures, calls,
                   before, envelope, outside>>

\* Checkpoint 1.
CancelledAtTop == pc = "top" /\ RoundsLeft /\ cancel # "no" /\ Cancelled

\* Wrong: the call goes out whatever was cancelled.
MayCallAnyway == pc = "top" /\ RoundsLeft /\ TurnsLeft

MayCall == pc = "top" /\ RoundsLeft /\ cancel = "no" /\ TurnsLeft

\* The request is built and sent; an empty base prompt raises while it is built.
CallProvider ==
    /\ MayCall
    /\ IF made.prompt = "empty" THEN Raise /\ UNCHANGED calls
       ELSE pc' = "calling" /\ calls' = calls + 1 /\ UNCHANGED depth
    /\ UNCHANGED <<config, made, state, history, agents, rounds, batch, signatures,
                   reason, cancels, before, envelope, outside>>

\* Wrong: a context that is too long leaves the reason as it was.
ContextLimitUnreported ==
    /\ pc = "calling" /\ Finish
    /\ UNCHANGED <<config, made, history, agents, rounds, batch, signatures,
                   reason, calls, cancels, before, envelope, outside>>

ContextLimit ==
    /\ pc = "calling"
    /\ reason' = "context_limit" /\ Finish
    /\ UNCHANGED <<config, made, history, agents, rounds, batch, signatures,
                   calls, cancels, before, envelope, outside>>

\* A retryable error leaves the session processing; any other closes it.
ProviderFails ==
    /\ pc = "calling"
    /\ \/ Raise /\ UNCHANGED state
       \/ Fail
    /\ UNCHANGED <<config, made, history, agents, rounds, batch, signatures, report, outside>>

\* Checkpoint 2: the answer is dropped.
CancelledAnswer == pc = "calling" /\ cancel = "immediate" /\ Cancelled

\* A final answer; one that asks the user is not followed by follow-ups.
AnswersWithText ==
    /\ pc = "calling" /\ cancel # "immediate"
    /\ \/ /\ history' = Append(history, Turn("assistant"))
          /\ Finish /\ UNCHANGED reason
       \/ /\ history' = Append(history, Turn("question"))
          /\ reason' = "awaiting_input"
          /\ IF state = "processing"
             THEN /\ state' = "awaiting" /\ UNCHANGED depth
                  /\ pc' = IF depth = 0 THEN "returned" ELSE "drain"
             ELSE Raise /\ UNCHANGED state
    /\ UNCHANGED <<config, made, agents, rounds, batch, signatures, calls, cancels,
                   before, envelope, outside>>

ToDo(t, a) == [tool |-> t, agent |-> a, step |-> "todo", run |-> 0]

\* The batches looked at: one call, or two that interfere.
Batches ==
    UNION {{<<ToDo(t, a)>> : t \in Tools}
           \cup {<<ToDo("wait", a), ToDo(t, a)>> : t \in {"plain", "wait", "close_agent"}} :
               a \in Agents}

\* The answer asks for tools; without the subagent tools theirs are unknown.
AnswersWithCalls ==
    /\ pc = "calling" /\ cancel # "immediate" /\ calls < MaxCalls
    /\ \E b \in Batches :
        /\ config.nested \/ \A i \in DOMAIN b : b[i].tool \in {"plain", "unknown"}
        /\ batch' = b /\ history' = Append(history, Asking(Len(b)))
    /\ pc' = "tools"
    /\ UNCHANGED <<config, made, state, agents, depth, rounds, signatures, report, outside>>

----------------------------------------------------------------------------
(* Executing a batch *)

\* Several calls are gathered when the session allows it, else one by one.
Gathered == config.parallel /\ Len(batch) > 1

Startable(i) ==
    /\ pc = "tools" /\ batch[i].step = "todo"
    /\ Gathered \/ \A j \in 1..(i - 1) : batch[j].step = "done"

Step(i, step) == batch' = [batch EXCEPT ![i].step = step]

toolsFrame == <<config, made, state, history, pc, depth, rounds, signatures, report, outside>>

\* A tool that answers at once, or refuses: each call becomes a result.
CallAtOnce(i) ==
    LET a == batch[i].agent
    IN /\ Startable(i)
       /\ CASE batch[i].tool = "spawn_agent" -> Spawn(a) \/ (Known(a) /\ UNCHANGED agents)
            [] batch[i].tool = "send_input"  -> SendInput(a)
            [] batch[i].tool = "close_agent" -> CloseAgent(a)
            [] batch[i].tool = "wait" -> AnswersAtOnce(a) /\ UNCHANGED agents
            [] OTHER -> UNCHANGED agents
       /\ Step(i, "done") /\ UNCHANGED toolsFrame

\* A tool that takes time: the host may act before it ends.
StartCall(i) ==
    /\ Startable(i)
    /\ \/ /\ batch[i].tool = "plain"
          /\ Step(i, "running") /\ UNCHANGED agents
       \/ /\ batch[i].tool = "wait" /\ StartWait(batch[i].agent)
          /\ batch' = [batch EXCEPT ![i].step = "running",
                                    ![i].run = agents[batch[i].agent].runs + 1]
    /\ UNCHANGED toolsFrame

EndCall(i) ==
    /\ pc = "tools" /\ batch[i].step = "running"
    /\ IF batch[i].tool = "wait" THEN EndWait(batch[i].agent, batch[i].run)
       ELSE UNCHANGED agents
    /\ Step(i, "done") /\ UNCHANGED toolsFrame

\* The results are recorded, steering is drained, and a loop is warned of.
Conclude(results) ==
    LET w == Recorded(signatures, batch)
    IN /\ history' = history \o <<Results(results)>> \o Injected(steering)
                         \o IF Looping(w) THEN <<Turn("steering")>> ELSE <<>>
       /\ signatures' = IF Looping(w) THEN <<>> ELSE w
       /\ batch' = <<>> /\ rounds' = rounds + 1 /\ steering' = 0 /\ pc' = "top"
       /\ UNCHANGED <<config, made, state, depth, report, follow_ups, sent, cancel, closing>>

EndBatch ==
    /\ pc = "tools" /\ \A i \in DOMAIN batch : batch[i].step = "done"
    /\ Conclude(Len(batch)) /\ UNCHANGED agents

WaitsInFlight == {<<batch[i].agent, batch[i].run>> :
                    i \in {j \in DOMAIN batch : batch[j].step = "running" /\ batch[j].tool = "wait"}}

\* Wrong: only the calls that ended have results.
BatchCancelledPartly ==
    /\ pc = "tools" /\ Gathered /\ AbandonWaits(WaitsInFlight)
    /\ Conclude(Cardinality({i \in DOMAIN batch : batch[i].step = "done"}))

\* CancelledError in a gathered batch is swallowed: every call gets a result
\* that says it was cancelled, and the loop goes on.
BatchCancelled ==
    /\ pc = "tools" /\ Gathered /\ AbandonWaits(WaitsInFlight)
    /\ Conclude(Len(batch))

\* CancelledError anywhere else ends the invocation, and the session stays as it is.
TaskCancelled ==
    /\ pc = "calling" \/ (pc = "tools" /\ ~Gathered /\ \E i \in DOMAIN batch : batch[i].step = "running")
    /\ Raise /\ envelope' = "cancelled"
    /\ AbandonWaits(WaitsInFlight) /\ batch' = <<>>
    /\ UNCHANGED <<config, made, state, history, rounds, signatures, reason, calls, cancels,
                   before, outside>>

----------------------------------------------------------------------------
(* Follow-ups, and the end of the invocation *)

FollowUp ==
    /\ pc = "drain" /\ follow_ups > 0
    /\ follow_ups' = follow_ups - 1
    /\ Submit(history)
    /\ UNCHANGED <<config, made, agents, batch, signatures, calls, cancels, before, envelope,
                   sent, cancel, closing>>

\* The innermost loop over the follow-ups finds none, and its caller goes on with its own.
Drained ==
    /\ pc = "drain" /\ follow_ups = 0
    /\ depth' = depth - 1
    /\ pc' = IF depth = 1 THEN "returned" ELSE "drain"
    /\ UNCHANGED <<config, made, state, history, agents, rounds, batch, signatures, report, outside>>

\* The envelope of an invocation that returned.
StatusOf ==
    IF cancels > before \/ reason = "cancelled" THEN "cancelled"
    ELSE IF reason = "natural" THEN "success" ELSE "incomplete"

\* Exactly one orchestrator:complete; resume_with_input makes none.
Complete ==
    /\ pc \in {"returned", "raised"}
    /\ envelope' = IF envelope # "none" THEN envelope
                   ELSE IF pc = "raised" THEN "incomplete" ELSE StatusOf
    /\ pc' = "out"
    /\ UNCHANGED <<config, made, state, history, agents, depth, rounds, batch, signatures,
                   reason, calls, cancels, before, outside>>

----------------------------------------------------------------------------
(* What reaches the session from outside *)

inside == <<config, made, state, history, agents, loop, report>>

Steer ==
    /\ steering < MaxMessages
    /\ steering' = steering + 1
    /\ UNCHANGED <<inside, follow_ups, sent, cancel, closing>>

QueueFollowUp ==
    /\ sent < MaxMessages
    /\ follow_ups' = follow_ups + 1 /\ sent' = sent + 1
    /\ UNCHANGED <<inside, steering, cancel, closing>>

RequestCancel ==
    /\ cancel # "immediate"
    /\ cancel' \in {"graceful", "immediate"} \ {cancel}
    /\ UNCHANGED <<inside, steering, follow_ups, sent, closing>>

\* shutdown looks at the state, then waits for the processes it terminates.
BeginShutdown ==
    /\ made # NotMade /\ state # "closed" /\ ~closing
    /\ closing' = TRUE
    /\ UNCHANGED <<inside, steering, follow_ups, sent, cancel>>

\* The state it finds now decides the transition; all of them close.
EndShutdown ==
    /\ closing
    /\ closing' = FALSE /\ state' = "closed"
    /\ UNCHANGED <<config, made, history, agents, loop, report, steering, follow_ups, sent, cancel>>

----------------------------------------------------------------------------

Init ==
    /\ config \in Configs
    /\ made = NotMade /\ state = "idle" /\ history = <<>>
    /\ SubagentsInit
    /\ pc = "out" /\ depth = 0 /\ rounds = 0 /\ batch = <<>> /\ signatures = <<>>
    /\ reason = "natural" /\ calls = 0 /\ cancels = 0 /\ before = 0 /\ envelope = "none"
    /\ steering = 0 /\ follow_ups = 0 /\ sent = 0 /\ cancel = "no" /\ closing = FALSE

Host  == Execute \/ ResumeWithInput \/ Steer \/ QueueFollowUp \/ RequestCancel
         \/ BeginShutdown \/ EndShutdown \/ TaskCancelled \/ BatchCancelled
Model == ContextLimit \/ ProviderFails \/ CancelledAnswer \/ AnswersWithText \/ AnswersWithCalls
Loop  == Limit \/ CancelledAtTop \/ CallProvider \/ EndBatch \/ FollowUp \/ Drained \/ Complete
         \/ \E i \in DOMAIN batch : CallAtOnce(i) \/ StartCall(i) \/ EndCall(i)

Next == Host \/ Model \/ Loop
Spec == Init /\ [][Next]_vars

----------------------------------------------------------------------------
(* Properties *)

\* Whatever was seeded, cancelled, refused or elided, a request that goes out
\* answers each tool call right after the message that makes it, in order, and
\* holds no other tool message: providers reject anything else
\* (agent_session.py:1075, messages.py:57).
RequestPairsCalls ==
    pc = "calling" =>
        LET q == Request(history, config.retention)
        IN \A i \in DOMAIN q :
            /\ \A k \in 1..q[i].calls : i + k \in DOMAIN q /\ q[i + k].answers = k
            /\ q[i].role = "tool" =>
                \E j \in 1..(i - 1) : q[j].calls >= i - j /\ q[i].answers = i - j

\* An envelope says success only of an invocation whose last word is an answer:
\* not of one a limit, a cancellation, an error or a question ended
\* (__init__.py:605).
SuccessIsAnswered ==
    pc = "out" /\ envelope = "success" =>
        history # <<>> /\ Last(history) = Turn("assistant")

\* Once the session is cancelled no provider call starts, in this invocation, in
\* a follow-up or in a later one; and once it is cancelled immediately the answer
\* that is under way executes no tool (agent_session.py:551, :633).
CancelHeeded ==
    [][/\ cancel # "no" => calls' = calls
       /\ cancel = "immediate" /\ pc = "calling" => pc' # "tools"]_vars

\* What a wait has returned for an agent is what every later wait returns, until
\* it is closed, unless two waits were in flight (subagent_tools.py:290).
ResultsKept ==
    [][\A a \in Agents :
        Cached(a) /\ agents[a].running = {} =>
            agents'[a].status = "closed" \/ (agents'[a].status = agents[a].status
                                             /\ agents'[a].result = agents[a].result)]_agents
=============================================================================

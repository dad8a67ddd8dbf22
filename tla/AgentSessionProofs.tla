------------------------- MODULE AgentSessionProofs -------------------------
(***************************************************************************)
(* What an agent session reports, what a cancel and a wait promise, and    *)
(* that its requests pair calls and results, for every configuration,      *)
(* provider, host and number of messages.                                  *)
(***************************************************************************)
EXTENDS AgentSession, FiniteSetTheorems, WellFoundedInduction, TLAPS

----------------------------------------------------------------------------
(* The history is a sequence of turns *)

HistoryInv == config \in Configs /\ history \in Seq(Turns) /\ steering \in Nat

LEMMA TurnTypes ==
    /\ \A k \in {"user", "assistant", "question", "steering"} : Turn(k) \in Turns
    /\ \A n \in Nat : Asking(n) \in Turns /\ Results(n) \in Turns
BY DEF Turn, Asking, Results, Turns

LEMMA InjectedType ==
    ASSUME NEW n \in Nat
    PROVE  Injected(n) \in Seq(Turns)
BY TurnTypes DEF Injected

LEMMA HydratedType ==
    ASSUME NEW c \in Configs
    PROVE  Hydrated(c.seeds) \in Seq(Turns)
<1> DEFINE replay == {i \in DOMAIN c.seeds : c.seeds[i] \in {"user", "assistant", "asking"}}
           nth(k) == CHOOSE i \in replay : Cardinality({j \in replay : j <= i}) = k
           turn(k) == Turn(IF c.seeds[nth(k)] = "user" THEN "user" ELSE "assistant")
<1>1. c.seeds \in Seq({"user", "assistant", "asking", "tool", "system"})
  BY SessionAssumption DEF Config
<1>2. DOMAIN c.seeds = 1..Len(c.seeds) /\ Len(c.seeds) \in Nat
  BY <1>1
<1>3. IsFiniteSet(DOMAIN c.seeds)
  BY <1>2, FS_Interval
<1>4. replay \in SUBSET DOMAIN c.seeds
  OBVIOUS
<1>5. Cardinality(replay) \in Nat
  BY <1>3, <1>4, FS_Subset, FS_CardinalityType
<1>6. \A k : turn(k) \in Turns
  BY TurnTypes
<1>7. Hydrated(c.seeds) = [k \in 1..Cardinality(replay) |-> turn(k)]
  BY DEF Hydrated
<1> HIDE DEF replay, turn
<1> QED BY <1>5, <1>6, <1>7

LEMMA SubmitType ==
    ASSUME HistoryInv, NEW h \in Seq(Turns), Submit(h)
    PROVE  history' \in Seq(Turns) /\ steering' \in Nat
<1>1. CASE state = "idle"
  <2>1. history' = h \o <<Turn("user")>> \o Injected(steering) /\ steering' = 0
    BY <1>1 DEF Submit
  <2>2. <<Turn("user")>> \in Seq(Turns) /\ Injected(steering) \in Seq(Turns)
    BY TurnTypes, InjectedType DEF HistoryInv
  <2> QED BY <2>1, <2>2
<1>2. CASE state # "idle"
  BY <1>2 DEF Submit, HistoryInv
<1> QED BY <1>1, <1>2

LEMMA ConcludeType ==
    ASSUME HistoryInv, NEW n \in Nat, Conclude(n)
    PROVE  history' \in Seq(Turns) /\ steering' \in Nat /\ config' = config
<1> DEFINE w == Recorded(signatures, batch)
<1>1. <<Results(n)>> \in Seq(Turns) /\ Injected(steering) \in Seq(Turns)
  BY TurnTypes, InjectedType DEF HistoryInv
<1>2. (IF Looping(w) THEN <<Turn("steering")>> ELSE <<>>) \in Seq(Turns)
  BY TurnTypes
<1>3. history' = history \o <<Results(n)>> \o Injected(steering)
                         \o (IF Looping(w) THEN <<Turn("steering")>> ELSE <<>>)
  BY DEF Conclude
<1>4. steering' = 0 /\ config' = config
  BY DEF Conclude
<1> HIDE DEF w
<1> QED BY <1>1, <1>2, <1>3, <1>4 DEF HistoryInv

LEMMA HistoryInvInit == Init => HistoryInv
BY DEF Init, HistoryInv

----------------------------------------------------------------------------
(* The batch is a sequence of calls of known agents *)

AgentsInv == agents \in [Agents -> Agent] /\ batch \in Seq(Call)

LEMMA BatchesType == Batches \subseteq Seq(Call)
<1> SUFFICES ASSUME NEW b \in Batches PROVE b \in Seq(Call)
  OBVIOUS
<1>1. PICK a \in Agents :
        \/ \E t \in Tools : b = <<ToDo(t, a)>>
        \/ \E t \in {"plain", "wait", "close_agent"} : b = <<ToDo("wait", a), ToDo(t, a)>>
  BY DEF Batches
<1>2. \A t \in Tools : ToDo(t, a) \in Call
  BY SubagentsAssumption DEF ToDo, Call
<1>3. {"wait", "plain", "close_agent"} \subseteq Tools
  BY DEF Tools
<1>4. CASE \E t \in Tools : b = <<ToDo(t, a)>>
  BY <1>2, <1>4
<1>5. CASE \E t \in {"plain", "wait", "close_agent"} : b = <<ToDo("wait", a), ToDo(t, a)>>
  <2>1. PICK t \in {"plain", "wait", "close_agent"} : b = <<ToDo("wait", a), ToDo(t, a)>>
    BY <1>5
  <2>2. ToDo("wait", a) \in Call /\ ToDo(t, a) \in Call
    BY <1>2, <1>3
  <2> QED BY <2>1, <2>2
<1> QED BY <1>1, <1>4, <1>5

LEMMA CallType ==
    ASSUME AgentsInv, NEW i \in DOMAIN batch
    PROVE  /\ batch[i] \in Call /\ batch[i].agent \in Agents
           /\ \A s \in {"todo", "running", "done"} :
                 [batch EXCEPT ![i].step = s] \in Seq(Call)
           /\ \A r \in 0..MaxRuns :
                 [batch EXCEPT ![i].step = "running", ![i].run = r] \in Seq(Call)
<1>1. batch[i] \in Call
  BY DEF AgentsInv
<1>2. \A s \in {"todo", "running", "done"} : [batch[i] EXCEPT !.step = s] \in Call
  BY <1>1 DEF Call
<1>3. \A r \in 0..MaxRuns : [batch[i] EXCEPT !.step = "running", !.run = r] \in Call
  BY <1>1 DEF Call
<1>4. \A c \in Call : [batch EXCEPT ![i] = c] \in Seq(Call)
  BY DEF AgentsInv
<1>5. \A s : [batch EXCEPT ![i].step = s] = [batch EXCEPT ![i] = [batch[i] EXCEPT !.step = s]]
  OBVIOUS
<1>6. \A r : [batch EXCEPT ![i].step = "running", ![i].run = r]
                = [batch EXCEPT ![i] = [batch[i] EXCEPT !.step = "running", !.run = r]]
  BY <1>1 DEF AgentsInv, Call
<1> QED BY <1>1, <1>2, <1>3, <1>4, <1>5, <1>6 DEF Call

\* The four tools keep the table of agents well formed.
LEMMA ToolsKeepAgents ==
    ASSUME agents \in [Agents -> Agent], NEW a \in Agents
    PROVE  /\ Spawn(a) \/ SendInput(a) \/ CloseAgent(a) \/ StartWait(a)
                => agents' \in [Agents -> Agent]
           /\ \A run : EndWait(a, run) => agents' \in [Agents -> Agent]
           /\ StartWait(a) => agents[a].runs + 1 \in 0..MaxRuns
<1>1. agents[a] \in Agent /\ MaxRuns \in Nat
  BY SubagentsAssumption
<1>2. ASSUME Spawn(a) PROVE agents' \in [Agents -> Agent]
  BY <1>1, <1>2 DEF Spawn, Agent, AgentStatus
<1>3. ASSUME SendInput(a) PROVE agents' \in [Agents -> Agent]
  BY <1>1, <1>3 DEF SendInput, Agent
<1>4. ASSUME CloseAgent(a) PROVE agents' \in [Agents -> Agent]
  BY <1>1, <1>4 DEF CloseAgent, Agent, AgentStatus
<1>5. ASSUME StartWait(a)
      PROVE  agents' \in [Agents -> Agent] /\ agents[a].runs + 1 \in 0..MaxRuns
  <2>1. agents[a].runs + 1 \in 1..MaxRuns
    BY <1>1, <1>5 DEF StartWait, Agent
  <2>2. agents[a].running \cup {agents[a].runs + 1} \in SUBSET (1..MaxRuns)
    BY <1>1, <2>1 DEF Agent
  <2> DEFINE n == agents[a].runs + 1
             S == agents[a].running \cup {n}
  <2>3. [agents[a] EXCEPT !.status = "running", !.runs = n, !.running = S] \in Agent
    <3>1. n \in 0..MaxRuns /\ S \in SUBSET (1..MaxRuns)
      BY <1>1, <2>1, <2>2
    <3> HIDE DEF n, S
    <3> QED BY <1>1, <3>1 DEF Agent, AgentStatus
  <2>4. agents' = [agents EXCEPT ![a] =
             [agents[a] EXCEPT !.status = "running", !.runs = n, !.running = S]]
    BY <1>1, <1>5 DEF StartWait, Agent
  <2> QED BY <2>1, <2>3, <2>4
<1>6. ASSUME NEW run, EndWait(a, run) PROVE agents' \in [Agents -> Agent]
  <2>1. run \in 0..MaxRuns /\ agents[a].running \ {run} \in SUBSET (1..MaxRuns)
    BY <1>1, <1>6 DEF EndWait, Agent
  <2>2. CASE agents' = [agents EXCEPT ![a].status = "completed", ![a].result = run,
                                      ![a].queued = 0, ![a].running = @ \ {run}]
    BY <1>1, <2>1, <2>2 DEF Agent, AgentStatus
  <2>3. CASE agents' = [agents EXCEPT ![a].status = "failed", ![a].result = run,
                                      ![a].running = @ \ {run}]
    BY <1>1, <2>1, <2>3 DEF Agent, AgentStatus
  <2> QED BY <1>6, <2>2, <2>3 DEF EndWait
<1> QED BY <1>2, <1>3, <1>4, <1>5, <1>6

LEMMA AbandonKeepsAgents ==
    ASSUME agents \in [Agents -> Agent], NEW waits, AbandonWaits(waits)
    PROVE  /\ agents' \in [Agents -> Agent]
           /\ \A a \in Agents : /\ agents'[a].status = agents[a].status
                                /\ agents'[a].result = agents[a].result
<1> DEFINE ended(a) == {w[2] : w \in {v \in waits : v[1] = a}}
<1>1. agents' = [a \in Agents |-> [agents[a] EXCEPT !.running = @ \ ended(a)]]
  BY DEF AbandonWaits
<1> HIDE DEF ended
<1> QED BY <1>1 DEF Agent

LEMMA AgentsInvInit == Init => AgentsInv
BY SubagentsAssumption DEF Init, SubagentsInit, AgentsInv, NoAgent, Agent, AgentStatus

LEMMA ToolCallKeepsAgents ==
    ASSUME AgentsInv, NEW i \in DOMAIN batch, CallAtOnce(i) \/ StartCall(i) \/ EndCall(i)
    PROVE  AgentsInv'
<1> DEFINE a == batch[i].agent
<1>1. a \in Agents /\ agents \in [Agents -> Agent]
  BY CallType DEF AgentsInv
<1>2. \A s \in {"todo", "running", "done"} : [batch EXCEPT ![i].step = s] \in Seq(Call)
  BY CallType
<1>3. \A r \in 0..MaxRuns :
        [batch EXCEPT ![i].step = "running", ![i].run = r] \in Seq(Call)
  BY CallType
<1>4. CASE CallAtOnce(i)
  <2>1. Spawn(a) \/ SendInput(a) \/ CloseAgent(a) \/ UNCHANGED agents
    BY <1>4 DEF CallAtOnce
  <2>2. batch' = [batch EXCEPT ![i].step = "done"]
    BY <1>4 DEF CallAtOnce, Step
  <2>3. agents' \in [Agents -> Agent]
    BY <1>1, <2>1, ToolsKeepAgents
  <2> QED BY <1>2, <2>2, <2>3 DEF AgentsInv
<1>5. CASE StartCall(i)
  <2>1. CASE Step(i, "running") /\ UNCHANGED agents
    BY <1>2, <2>1 DEF AgentsInv, Step
  <2>2. CASE StartWait(a) /\ batch' = [batch EXCEPT ![i].step = "running",
                                                    ![i].run = agents[a].runs + 1]
    <3>1. agents' \in [Agents -> Agent] /\ agents[a].runs + 1 \in 0..MaxRuns
      BY <1>1, <2>2, ToolsKeepAgents
    <3> QED BY <1>3, <2>2, <3>1 DEF AgentsInv
  <2> QED BY <1>5, <2>1, <2>2 DEF StartCall
<1>6. CASE EndCall(i)
  <2>1. EndWait(a, batch[i].run) \/ UNCHANGED agents
    BY <1>6 DEF EndCall
  <2>2. batch' = [batch EXCEPT ![i].step = "done"]
    BY <1>6 DEF EndCall, Step
  <2>3. agents' \in [Agents -> Agent]
    BY <1>1, <2>1, ToolsKeepAgents
  <2> QED BY <1>2, <2>2, <2>3 DEF AgentsInv
<1> QED BY <1>4, <1>5, <1>6

\* Everything but the tools, and what ends their batch, leaves both alone.
Elsewhere ==
    \/ Execute \/ ResumeWithInput \/ Steer \/ QueueFollowUp \/ RequestCancel
    \/ BeginShutdown \/ EndShutdown
    \/ ContextLimit \/ ProviderFails \/ CancelledAnswer \/ AnswersWithText
    \/ Limit \/ CancelledAtTop \/ CallProvider \/ FollowUp \/ Drained \/ Complete

LEMMA NextCases ==
    Next => \/ Elsewhere \/ TaskCancelled \/ BatchCancelled \/ AnswersWithCalls \/ EndBatch
            \/ \E i \in DOMAIN batch : CallAtOnce(i) \/ StartCall(i) \/ EndCall(i)
BY DEF Next, Host, Model, Loop, Elsewhere

LEMMA ElsewhereKeepsAgents ==
    ASSUME Elsewhere
    PROVE  UNCHANGED <<agents, batch>>
<1>1. CASE Execute \/ ResumeWithInput
  BY <1>1 DEF Execute, ResumeWithInput
<1>2. CASE Steer \/ QueueFollowUp \/ RequestCancel \/ BeginShutdown \/ EndShutdown
  BY <1>2 DEF Steer, QueueFollowUp, RequestCancel, BeginShutdown, EndShutdown, inside, loop
<1>3. CASE ContextLimit \/ ProviderFails \/ CancelledAnswer \/ AnswersWithText
  BY <1>3 DEF ContextLimit, ProviderFails, CancelledAnswer, AnswersWithText, Cancelled
<1>4. CASE Limit \/ CancelledAtTop \/ CallProvider \/ FollowUp \/ Drained \/ Complete
  BY <1>4 DEF Limit, CancelledAtTop, CallProvider, FollowUp, Drained, Complete, Cancelled
<1> QED BY <1>1, <1>2, <1>3, <1>4 DEF Elsewhere

LEMMA AgentsInvStep == AgentsInv /\ [Next]_vars => AgentsInv'
<1> SUFFICES ASSUME AgentsInv, [Next]_vars PROVE AgentsInv'
  OBVIOUS
<1>1. CASE Elsewhere
  BY <1>1, ElsewhereKeepsAgents DEF AgentsInv
<1>2. CASE TaskCancelled
  BY <1>2, AbandonKeepsAgents DEF TaskCancelled, AgentsInv
<1>3. CASE BatchCancelled
  BY <1>3, AbandonKeepsAgents DEF BatchCancelled, Conclude, AgentsInv
<1>4. CASE AnswersWithCalls
  BY <1>4, BatchesType DEF AnswersWithCalls, AgentsInv
<1>5. CASE EndBatch
  BY <1>5 DEF EndBatch, Conclude, AgentsInv
<1>6. CASE \E i \in DOMAIN batch : CallAtOnce(i) \/ StartCall(i) \/ EndCall(i)
  BY <1>6, ToolCallKeepsAgents
<1>7. CASE UNCHANGED vars
  BY <1>7 DEF vars, loop, AgentsInv
<1> QED BY <1>1, <1>2, <1>3, <1>4, <1>5, <1>6, <1>7, NextCases

LEMMA HistoryInvStep == AgentsInv /\ HistoryInv /\ [Next]_vars => HistoryInv'
<1> SUFFICES ASSUME AgentsInv, HistoryInv, [Next]_vars PROVE HistoryInv'
  OBVIOUS
<1>0. config \in Configs /\ history \in Seq(Turns) /\ steering \in Nat
  BY DEF HistoryInv
<1>1. CASE Execute
  <2>1. config' = config
    BY <1>1 DEF Execute
  <2>2. CASE Submit(history) \/ Submit(Hydrated(config.seeds))
    BY <1>0, <2>1, <2>2, SubmitType, HydratedType DEF HistoryInv
  <2>3. CASE UNCHANGED <<history, steering>>
    BY <1>0, <2>1, <2>3 DEF HistoryInv
  <2> QED BY <1>1, <2>2, <2>3 DEF Execute
<1>2. CASE ResumeWithInput
  <2>1. <<Turn("user")>> \in Seq(Turns) /\ Injected(steering) \in Seq(Turns)
    BY <1>0, TurnTypes, InjectedType
  <2>2. history' = history \o <<Turn("user")>> \o Injected(steering)
        /\ steering' = 0 /\ config' = config
    BY <1>2 DEF ResumeWithInput
  <2> QED BY <1>0, <2>1, <2>2 DEF HistoryInv
<1>3. CASE FollowUp
  BY <1>0, <1>3, SubmitType DEF FollowUp, HistoryInv
<1>4. CASE EndBatch \/ BatchCancelled
  <2>1. Len(batch) \in Nat
    BY DEF AgentsInv
  <2> QED BY <1>0, <1>4, <2>1, ConcludeType DEF EndBatch, BatchCancelled, HistoryInv
<1>5. CASE AnswersWithText
  <2>1. /\ config' = config /\ steering' = steering
        /\ \/ history' = Append(history, Turn("assistant"))
           \/ history' = Append(history, Turn("question"))
    BY <1>5 DEF AnswersWithText, outside
  <2> QED BY <1>0, <2>1, TurnTypes DEF HistoryInv
<1>6. CASE AnswersWithCalls
  <2>1. PICK b \in Batches : history' = Append(history, Asking(Len(b)))
    BY <1>6 DEF AnswersWithCalls
  <2>2. Asking(Len(b)) \in Turns
    BY BatchesType, TurnTypes
  <2> QED BY <1>0, <1>6, <2>1, <2>2 DEF AnswersWithCalls, outside, HistoryInv
<1>7. CASE Steer
  BY <1>0, <1>7 DEF Steer, inside, HistoryInv
<1>8. CASE QueueFollowUp \/ RequestCancel \/ BeginShutdown \/ EndShutdown \/ UNCHANGED vars
  BY <1>0, <1>8 DEF QueueFollowUp, RequestCancel, BeginShutdown, EndShutdown, inside, vars,
                    outside, HistoryInv
<1>9. CASE ContextLimit \/ ProviderFails \/ CancelledAnswer \/ Limit \/ CancelledAtTop
           \/ CallProvider \/ Drained \/ Complete \/ TaskCancelled
  BY <1>0, <1>9 DEF ContextLimit, ProviderFails, CancelledAnswer, Limit, CancelledAtTop,
                    CallProvider, Drained, Complete, TaskCancelled, Cancelled, outside, HistoryInv
<1>10. CASE \E i \in DOMAIN batch : CallAtOnce(i) \/ StartCall(i) \/ EndCall(i)
  BY <1>0, <1>10 DEF CallAtOnce, StartCall, EndCall, toolsFrame, outside, HistoryInv
<1> QED BY <1>1, <1>2, <1>3, <1>4, <1>5, <1>6, <1>7, <1>8, <1>9, <1>10 DEF Next, Host, Model, Loop

----------------------------------------------------------------------------
(* What an envelope says *)

Answered == history # <<>> /\ Last(history) = Turn("assistant")

\* A loop that ends with its reason still "natural" has just recorded an answer,
\* and between the end of an invocation and the next input nothing is recorded.
AnswerInv ==
    /\ pc \in {"drain", "returned"} /\ reason = "natural" => Answered
    /\ envelope = "success" => pc = "out" /\ Answered

LEMMA AnswerIsLast ==
    ASSUME HistoryInv
    PROVE  LET h == Append(history, Turn("assistant"))
           IN  h # <<>> /\ Last(h) = Turn("assistant")
BY TurnTypes DEF HistoryInv, Last

\* complete() ends in the follow-ups, and raises in a closed session.
LEMMA FinishEnds == Finish => pc' \in {"drain", "raised"}
BY DEF Finish, Raise

LEMMA AnswerInvStep == HistoryInv /\ AnswerInv /\ [Next]_vars => AnswerInv'
<1> SUFFICES ASSUME HistoryInv, AnswerInv, [Next]_vars PROVE AnswerInv'
  OBVIOUS
<1>1. CASE Execute
  <2>1. envelope' = "none"
    BY <1>1 DEF Execute
  <2>2. pc' \in {"top", "raised"}
    BY <1>1 DEF Execute, Submit, Raise
  <2> QED BY <2>1, <2>2 DEF AnswerInv
<1>2. CASE ResumeWithInput
  BY <1>2 DEF ResumeWithInput, AnswerInv
<1>3. CASE FollowUp
  <2>1. pc' \in {"top", "raised"} /\ envelope' = envelope /\ pc = "drain"
    BY <1>3 DEF FollowUp, Submit, Raise
  <2> QED BY <2>1 DEF AnswerInv
<1>4. CASE Limit \/ ContextLimit \/ CancelledAtTop \/ CancelledAnswer
  <2>1. reason' # "natural" /\ envelope' = envelope /\ pc # "out"
    BY <1>4 DEF Limit, ContextLimit, CancelledAtTop, CancelledAnswer, Cancelled
  <2> QED BY <2>1 DEF AnswerInv
<1>5. CASE AnswersWithText
  <2>1. envelope' = envelope /\ pc = "calling"
    BY <1>5 DEF AnswersWithText
  <2>2. CASE history' = Append(history, Turn("assistant"))
    <3>1. Answered'
      BY <2>2, AnswerIsLast DEF Answered
    <3> QED BY <2>1, <3>1 DEF AnswerInv
  <2>3. CASE reason' = "awaiting_input"
    BY <2>1, <2>3 DEF AnswerInv
  <2> QED BY <1>5, <2>2, <2>3 DEF AnswersWithText
<1>6. CASE CallProvider \/ ProviderFails \/ AnswersWithCalls \/ TaskCancelled
           \/ EndBatch \/ BatchCancelled
  <2>1. pc' \in {"calling", "raised", "tools", "top"} /\ pc # "out"
        /\ envelope' \in {envelope, "cancelled"}
    BY <1>6 DEF CallProvider, MayCall, ProviderFails, AnswersWithCalls, TaskCancelled, EndBatch,
                BatchCancelled, Conclude, Fail, Raise, report
  <2> QED BY <2>1 DEF AnswerInv
<1>7. CASE Drained
  <2>1. pc = "drain" /\ UNCHANGED <<history, reason, envelope>>
    BY <1>7 DEF Drained, report
  <2> QED BY <2>1 DEF AnswerInv, Answered
<1>8. CASE Complete
  <2>1. pc \in {"returned", "raised"} /\ pc' = "out" /\ UNCHANGED <<history, reason>>
    BY <1>8 DEF Complete
  <2>2. envelope' = "success" => pc = "returned" /\ reason = "natural"
    BY <1>8, <2>1 DEF Complete, StatusOf, AnswerInv
  <2> QED BY <2>1, <2>2 DEF AnswerInv, Answered
<1>9. CASE \/ Steer \/ QueueFollowUp \/ RequestCancel \/ BeginShutdown \/ EndShutdown
           \/ UNCHANGED vars
           \/ \E i \in DOMAIN batch : CallAtOnce(i) \/ StartCall(i) \/ EndCall(i)
  <2>1. UNCHANGED <<history, pc, reason, envelope>>
    BY <1>9 DEF Steer, QueueFollowUp, RequestCancel, BeginShutdown, EndShutdown, vars, inside,
                CallAtOnce, StartCall, EndCall, toolsFrame, loop, report
  <2> QED BY <2>1 DEF AnswerInv, Answered
<1> QED BY <1>1, <1>2, <1>3, <1>4, <1>5, <1>6, <1>7, <1>8, <1>9 DEF Next, Host, Model, Loop

\* An envelope says success only of an invocation that ended in an answer, however
\* its session was seeded, steered, limited, cancelled and shut down
\* (__init__.py:605).
THEOREM SuccessMeansAnswered == Spec => []SuccessIsAnswered
<1> DEFINE Inv == AgentsInv /\ HistoryInv /\ AnswerInv
<1>1. Init => Inv
  <2>1. Init => AnswerInv
    BY DEF Init, AnswerInv
  <2> QED BY <2>1, AgentsInvInit, HistoryInvInit
<1>2. Inv /\ [Next]_vars => Inv'
  BY AgentsInvStep, HistoryInvStep, AnswerInvStep
<1>3. Inv => SuccessIsAnswered
  BY DEF AnswerInv, Answered, SuccessIsAnswered
<1> HIDE DEF Inv
<1> QED BY <1>1, <1>2, <1>3, PTL DEF Spec

----------------------------------------------------------------------------
(* What a cancel promises *)

\* Only CallProvider sends a request, and only checkpoint 1 lets it.
LEMMA OnlyCallProviderCalls == [Next]_vars => CallProvider \/ calls' = calls
<1> SUFFICES ASSUME [Next]_vars, ~CallProvider PROVE calls' = calls
  OBVIOUS
<1>1. CASE Execute \/ ResumeWithInput \/ FollowUp
  BY <1>1 DEF Execute, ResumeWithInput, FollowUp
<1>2. CASE Steer \/ QueueFollowUp \/ RequestCancel \/ BeginShutdown \/ EndShutdown
  BY <1>2 DEF Steer, QueueFollowUp, RequestCancel, BeginShutdown, EndShutdown, inside, report
<1>3. CASE ContextLimit \/ ProviderFails \/ CancelledAnswer \/ AnswersWithText \/ AnswersWithCalls
  BY <1>3 DEF ContextLimit, ProviderFails, CancelledAnswer, AnswersWithText, AnswersWithCalls,
              Cancelled, report
<1>4. CASE Limit \/ CancelledAtTop \/ Drained \/ Complete \/ TaskCancelled
  BY <1>4 DEF Limit, CancelledAtTop, Cancelled, Drained, Complete, TaskCancelled, report
<1>5. CASE EndBatch \/ BatchCancelled
  BY <1>5 DEF EndBatch, BatchCancelled, Conclude, report
<1>6. CASE \E i \in DOMAIN batch : CallAtOnce(i) \/ StartCall(i) \/ EndCall(i)
  BY <1>6 DEF CallAtOnce, StartCall, EndCall, toolsFrame, report
<1>7. CASE UNCHANGED vars
  BY <1>7 DEF vars, report
<1> QED BY <1>1, <1>2, <1>3, <1>4, <1>5, <1>6, <1>7 DEF Next, Host, Model, Loop

\* From an answer under way only its tool calls lead to the tools.
LEMMA OnlyCallsLeadToTools ==
    [Next]_vars /\ pc = "calling" /\ pc' = "tools" => AnswersWithCalls
<1> SUFFICES ASSUME [Next]_vars, pc = "calling", ~AnswersWithCalls PROVE pc' # "tools"
  OBVIOUS
<1>1. CASE Execute \/ ResumeWithInput \/ FollowUp \/ Limit \/ CancelledAtTop \/ CallProvider
           \/ Drained \/ Complete \/ EndBatch \/ BatchCancelled
  BY <1>1 DEF Execute, ResumeWithInput, FollowUp, Limit, CancelledAtTop, CallProvider, MayCall,
              Drained, Complete, EndBatch, BatchCancelled
<1>2. CASE Steer \/ QueueFollowUp \/ RequestCancel \/ BeginShutdown \/ EndShutdown
           \/ UNCHANGED vars
  BY <1>2 DEF Steer, QueueFollowUp, RequestCancel, BeginShutdown, EndShutdown, inside, loop, vars
<1>3. CASE ContextLimit \/ ProviderFails \/ CancelledAnswer \/ AnswersWithText \/ TaskCancelled
  BY <1>3 DEF ContextLimit, ProviderFails, CancelledAnswer, AnswersWithText, TaskCancelled,
              Cancelled, Finish, Fail, Raise
<1>4. CASE \E i \in DOMAIN batch : CallAtOnce(i) \/ StartCall(i) \/ EndCall(i)
  BY <1>4 DEF CallAtOnce, StartCall, EndCall, toolsFrame
<1> QED BY <1>1, <1>2, <1>3, <1>4 DEF Next, Host, Model, Loop

\* A cancelled session calls no provider again, and one cancelled immediately
\* executes no tool of the answer under way, whoever steers, queues, resumes or
\* shuts down meanwhile (agent_session.py:551, :633).
THEOREM CancelIsHeeded == Spec => CancelHeeded
<1>1. [Next]_vars => /\ cancel # "no" => calls' = calls
                     /\ cancel = "immediate" /\ pc = "calling" => pc' # "tools"
  <2> SUFFICES ASSUME [Next]_vars
               PROVE  /\ cancel # "no" => calls' = calls
                      /\ cancel = "immediate" /\ pc = "calling" => pc' # "tools"
    OBVIOUS
  <2>1. cancel # "no" => calls' = calls
    BY OnlyCallProviderCalls DEF CallProvider, MayCall
  <2>2. cancel = "immediate" /\ pc = "calling" => pc' # "tools"
    BY OnlyCallsLeadToTools DEF AnswersWithCalls
  <2> QED BY <2>1, <2>2
<1> QED BY <1>1, PTL DEF Spec, CancelHeeded

----------------------------------------------------------------------------
(* What a wait promises *)

Kept(a) == \/ agents'[a].status = "closed"
           \/ agents'[a].status = agents[a].status /\ agents'[a].result = agents[a].result

\* The tools leave an agent's cached answer alone, whichever agent they name.
LEMMA ToolsKeepAnswers ==
    ASSUME agents \in [Agents -> Agent], NEW a \in Agents, NEW b \in Agents, NEW run,
           Cached(b), agents[b].running = {},
           Spawn(a) \/ SendInput(a) \/ CloseAgent(a) \/ StartWait(a) \/ EndWait(a, run)
    PROVE  Kept(b)
<1>1. agents[a] \in Agent /\ agents[b] \in Agent
  OBVIOUS
<1>2. CASE a # b
  BY <1>2 DEF Spawn, SendInput, CloseAgent, StartWait, EndWait, Kept
<1>3. CASE a = b /\ Spawn(a)
  BY <1>3 DEF Spawn, Known, Cached
<1>4. CASE a = b /\ SendInput(a)
  BY <1>1, <1>4 DEF SendInput, Agent, Kept
<1>5. CASE a = b /\ CloseAgent(a)
  BY <1>1, <1>5 DEF CloseAgent, Agent, Kept
<1>6. CASE a = b /\ StartWait(a)
  BY <1>6 DEF StartWait, AnswersAtOnce, Cached
<1>7. CASE a = b /\ EndWait(a, run)
  BY <1>7 DEF EndWait
<1> QED BY <1>2, <1>3, <1>4, <1>5, <1>6, <1>7

LEMMA NextKeepsAnswers ==
    ASSUME AgentsInv, [Next]_vars, NEW b \in Agents, Cached(b), agents[b].running = {}
    PROVE  Kept(b)
<1>0. agents \in [Agents -> Agent]
  BY DEF AgentsInv
<1>1. CASE UNCHANGED agents
  BY <1>1 DEF Kept
<1>2. CASE Elsewhere
  BY <1>1, <1>2, ElsewhereKeepsAgents
<1>3. CASE TaskCancelled \/ BatchCancelled
  <2>1. AbandonWaits(WaitsInFlight)
    BY <1>3 DEF TaskCancelled, BatchCancelled
  <2> QED BY <1>0, <2>1, AbandonKeepsAgents DEF Kept
<1>4. CASE AnswersWithCalls \/ EndBatch \/ UNCHANGED vars
  BY <1>1, <1>4 DEF AnswersWithCalls, EndBatch, vars
<1>5. CASE \E i \in DOMAIN batch : CallAtOnce(i) \/ StartCall(i) \/ EndCall(i)
  <2>1. PICK i \in DOMAIN batch : CallAtOnce(i) \/ StartCall(i) \/ EndCall(i)
    BY <1>5
  <2> DEFINE a == batch[i].agent
  <2>2. a \in Agents
    BY CallType
  <2>3. \/ UNCHANGED agents
        \/ Spawn(a) \/ SendInput(a) \/ CloseAgent(a) \/ StartWait(a)
        \/ EndWait(a, batch[i].run)
    BY <2>1 DEF CallAtOnce, StartCall, EndCall
  <2> HIDE DEF a
  <2> QED BY <1>0, <1>1, <2>2, <2>3, ToolsKeepAnswers
<1> QED BY <1>2, <1>3, <1>4, <1>5, NextCases

\* The answer of a wait, when no other was in flight, is the answer of every later
\* one until the agent is closed, for every number of agents, batches and
\* cancellations (subagent_tools.py:290).
THEOREM ResultsAreKept == Spec => ResultsKept
<1> DEFINE Step_ == \A a \in Agents : Cached(a) /\ agents[a].running = {} => Kept(a)
<1>1. AgentsInv /\ [Next]_vars => Step_
  BY NextKeepsAnswers
<1>2. Step_ => \A a \in Agents :
        Cached(a) /\ agents[a].running = {} =>
            agents'[a].status = "closed" \/ (agents'[a].status = agents[a].status
                                             /\ agents'[a].result = agents[a].result)
  BY DEF Kept
<1> HIDE DEF Step_
<1> QED BY <1>1, <1>2, AgentsInvInit, AgentsInvStep, PTL DEF Spec, ResultsKept

----------------------------------------------------------------------------
(* Sequences made flat *)

\* A set of counts that has 1 and, with any, the next one has them all.
LEMMA CountUp ==
    ASSUME NEW S, 1 \in S, \A n \in Nat \ {0} : n \in S => n + 1 \in S
    PROVE  Nat \ {0} \subseteq S
<1> DEFINE Rest == {n \in Nat \ {0} : n \notin S}
           R == OpToRel(<, Nat)
<1>1. SUFFICES ASSUME Rest # {} PROVE FALSE
  OBVIOUS
<1>2. IsWellFoundedOn(R, Nat)
  BY NatLessThanWellFounded
<1>3. R = {ss \in Nat \X Nat : ss[1] < ss[2]}
  BY Zenon DEF OpToRel
<1>4. Rest \subseteq Nat
  OBVIOUS
<1> HIDE DEF R
<1>5. PICK n \in Rest : \A m \in Rest : <<m, n>> \notin R
  BY <1>1, <1>2, <1>4, WFMin
<1>6. n \in Nat \ {0} /\ n \notin S /\ n # 1
  BY <1>5
<1>7. n - 1 \in Nat \ {0} /\ n - 1 < n /\ (n - 1) + 1 = n
  BY <1>6
<1>8. <<n - 1, n>> \in R
  BY <1>3, <1>6, <1>7
<1>9. n - 1 \in S
  BY <1>5, <1>7, <1>8
<1> QED BY <1>6, <1>7, <1>9

\* What the first n parts make, for each n.
Joined(f, s, n) == f = [i \in 1..n |-> IF i = 1 THEN s[i] ELSE f[i - 1] \o s[i]]

LEMMA JoinedExists ==
    ASSUME NEW s, NEW n \in Nat \ {0}
    PROVE  \E f : Joined(f, s, n)
<1> DEFINE S == {m \in Nat \ {0} : \E f : Joined(f, s, m)}
<1>1. 1 \in S
  <2> DEFINE f == [i \in 1..1 |-> s[i]]
  <2>1. f = [i \in 1..1 |-> IF i = 1 THEN s[i] ELSE f[i - 1] \o s[i]]
    OBVIOUS
  <2>2. Joined(f, s, 1)
    BY <2>1 DEF Joined
  <2> QED BY <2>2
<1>2. ASSUME NEW m \in Nat \ {0}, m \in S PROVE m + 1 \in S
  <2>1. PICK f : Joined(f, s, m)
    BY <1>2
  <2> DEFINE last == f[m] \o s[m + 1]
             g == [i \in 1..(m + 1) |-> IF i = m + 1 THEN last ELSE f[i]]
             h == [i \in 1..(m + 1) |-> IF i = 1 THEN s[i] ELSE g[i - 1] \o s[i]]
  <2> HIDE DEF last
  <2>2. \A i \in 1..m : f[i] = IF i = 1 THEN s[i] ELSE f[i - 1] \o s[i]
    BY <2>1 DEF Joined
  <2>3. \A i \in 1..m : g[i] = f[i]
    OBVIOUS
  <2>4. g[m + 1] = last
    OBVIOUS
  <2>5. ASSUME NEW i \in 1..(m + 1) PROVE g[i] = h[i]
    <3>1. CASE i = m + 1
      <4>1. i # 1 /\ i - 1 = m /\ m \in 1..m
        BY <3>1
      <4>2. h[i] = g[i - 1] \o s[i]
        BY <4>1
      <4>3. g[m] = f[m]
        BY <2>3, <4>1
      <4> HIDE DEF g, h
      <4>4. h[i] = last
        BY <3>1, <4>1, <4>2, <4>3 DEF last
      <4> QED BY <2>4, <3>1, <4>4
    <3>2. CASE i # m + 1 /\ i # 1
      <4>1. i \in 1..m /\ i - 1 \in 1..m
        BY <3>2
      <4> QED BY <2>2, <2>3, <3>2, <4>1
    <3>3. CASE i # m + 1 /\ i = 1
      <4>1. i \in 1..m
        BY <3>3
      <4> QED BY <2>2, <2>3, <3>3, <4>1
    <3> QED BY <3>1, <3>2, <3>3
  <2>6. g = h
    <3>1. DOMAIN g = DOMAIN h
      OBVIOUS
    <3> QED BY <2>5, <3>1
  <2>7. Joined(g, s, m + 1)
    BY <2>6 DEF Joined
  <2> HIDE DEF g
  <2> QED BY <2>7
<1> HIDE DEF S
<1>3. n \in S
  BY <1>1, <1>2, CountUp
<1> QED BY <1>3 DEF S

LEMMA FlattenIsJoined ==
    ASSUME NEW s, Len(s) \in Nat \ {0}
    PROVE  \E f : Joined(f, s, Len(s)) /\ FlattenSeq(s) = f[Len(s)]
<1> DEFINE f == CHOOSE g : g = [i \in 1..Len(s) |-> IF i = 1 THEN s[i] ELSE g[i - 1] \o s[i]]
<1>1. FlattenSeq(s) = f[Len(s)]
  BY DEF FlattenSeq
<1>2. Joined(f, s, Len(s))
  BY JoinedExists DEF Joined
<1> QED BY <1>1, <1>2

LEMMA Concatenated ==
    ASSUME NEW T, NEW u \in Seq(T), NEW w \in Seq(T)
    PROVE  /\ u \o w \in Seq(T) /\ Len(u \o w) = Len(u) + Len(w)
           /\ Len(u) \in Nat /\ Len(w) \in Nat
           /\ \A k \in 1..Len(u) : (u \o w)[k] = u[k]
           /\ \A k \in 1..Len(w) : (u \o w)[Len(u) + k] = w[k]
OBVIOUS

Parts(s, n, T) == \A i \in 1..n : s[i] \in Seq(T)

\* Where the i-th part ends, when f joins the parts.
End(f, i) == IF i = 0 THEN 0 ELSE Len(f[i])

LEMMA JoinedGrows ==
    ASSUME NEW T, NEW s, NEW N \in Nat \ {0}, Parts(s, N, T),
           NEW f, Joined(f, s, N)
    PROVE  \A n \in 1..N :
              /\ f[n] \in Seq(T)
              /\ \A i \in 1..n :
                    /\ End(f, i) \in Nat /\ End(f, i - 1) \in Nat
                    /\ End(f, i) = End(f, i - 1) + Len(s[i])
                    /\ End(f, i) <= End(f, n)
                    /\ \A k \in 1..Len(s[i]) : f[n][End(f, i - 1) + k] = s[i][k]
<1> DEFINE Part(n, i) == /\ End(f, i) \in Nat /\ End(f, i - 1) \in Nat
                         /\ End(f, i) = End(f, i - 1) + Len(s[i])
                         /\ End(f, i) <= End(f, n)
                         /\ \A k \in 1..Len(s[i]) : f[n][End(f, i - 1) + k] = s[i][k]
           Good(n) == f[n] \in Seq(T) /\ \A i \in 1..n : Part(n, i)
           S == {n \in Nat \ {0} : n <= N => Good(n)}
<1> USE DEF Parts
<1>0. \A i \in 1..N : f[i] = IF i = 1 THEN s[i] ELSE f[i - 1] \o s[i]
  BY DEF Joined
<1>1. 1 \in S
  <2>1. f[1] = s[1] /\ s[1] \in Seq(T)
    BY <1>0
  <2>2. End(f, 0) = 0 /\ End(f, 1) = Len(s[1]) /\ Len(s[1]) \in Nat
    BY <2>1 DEF End
  <2>3. 1 - 1 = 0 /\ \A k \in 1..Len(s[1]) : 0 + k = k
    OBVIOUS
  <2>4. Part(1, 1)
    BY <2>1, <2>2, <2>3
  <2>5. 1..1 = {1}
    OBVIOUS
  <2> HIDE DEF Part
  <2> QED BY <2>1, <2>4, <2>5
<1>2. ASSUME NEW n \in Nat \ {0}, n \in S PROVE n + 1 \in S
  <2>1. SUFFICES ASSUME n + 1 <= N PROVE Good(n + 1)
    OBVIOUS
  <2>2. Good(n)
    BY <1>2, <2>1
  <2>3. f[n + 1] = f[n] \o s[n + 1] /\ s[n + 1] \in Seq(T) /\ f[n] \in Seq(T)
    <3>1. n + 1 \in 1..N /\ n + 1 # 1 /\ (n + 1) - 1 = n
      BY <2>1
    <3>2. f[n + 1] = f[(n + 1) - 1] \o s[n + 1]
      BY <1>0, <3>1
    <3> QED BY <2>2, <3>1, <3>2
  <2>4. /\ f[n + 1] \in Seq(T) /\ Len(f[n + 1]) = Len(f[n]) + Len(s[n + 1])
        /\ Len(f[n]) \in Nat /\ Len(s[n + 1]) \in Nat
        /\ \A k \in 1..Len(f[n]) : f[n + 1][k] = f[n][k]
        /\ \A k \in 1..Len(s[n + 1]) : f[n + 1][Len(f[n]) + k] = s[n + 1][k]
    <3> DEFINE u == f[n]
               w == s[n + 1]
               v == f[n + 1]
    <3>1. v = u \o w /\ u \in Seq(T) /\ w \in Seq(T)
      BY <2>3
    <3> HIDE DEF u, v, w
    <3>2. /\ v \in Seq(T) /\ Len(v) = Len(u) + Len(w)
          /\ Len(u) \in Nat /\ Len(w) \in Nat
          /\ \A k \in 1..Len(u) : v[k] = u[k]
          /\ \A k \in 1..Len(w) : v[Len(u) + k] = w[k]
      BY <3>1, Concatenated
    <3> QED BY <3>2 DEF u, v, w
  <2>5. /\ End(f, n + 1) = Len(f[n + 1]) /\ End(f, n) = Len(f[n])
        /\ (n + 1) - 1 = n
    BY DEF End
  <2>9. /\ End(f, n + 1) = End(f, n) + Len(s[n + 1])
        /\ End(f, n) \in Nat /\ Len(s[n + 1]) \in Nat
    BY <2>4, <2>5, Zenon
  <2>10. /\ End(f, n + 1) \in Nat
         /\ End(f, n) <= End(f, n + 1) /\ End(f, n + 1) <= End(f, n + 1)
    BY <2>9
  <2>6. Part(n + 1, n + 1)
    BY <2>4, <2>5, <2>9, <2>10, Zenon
  <2>7. ASSUME NEW i \in 1..n PROVE Part(n + 1, i)
    <3>1. Part(n, i)
      BY <2>2
    <3>2. End(f, i) <= End(f, n + 1)
      BY <2>9, <2>10, <3>1
    <3>3. ASSUME NEW k \in 1..Len(s[i])
          PROVE  f[n + 1][End(f, i - 1) + k] = s[i][k]
      <4>1. Len(s[i]) \in Nat
        BY <2>1
      <4>2. End(f, i - 1) + k \in 1..Len(f[n])
        BY <2>4, <2>5, <3>1, <4>1
      <4> QED BY <2>4, <3>1, <4>2
    <3> QED BY <3>1, <3>2, <3>3
  <2>8. 1..(n + 1) = 1..n \cup {n + 1}
    OBVIOUS
  <2> HIDE DEF Part
  <2> QED BY <2>4, <2>6, <2>7, <2>8
<1> HIDE DEF S
<1>3. Nat \ {0} \subseteq S
  BY <1>1, <1>2, CountUp
<1>4. \A n \in 1..N : Good(n)
  BY <1>3 DEF S
<1> QED BY <1>4

\* q lays out the first n parts of s one behind the other, the i-th behind start[i].
LaidOut(q, s, n, start) ==
    /\ \A i \in 1..n : \A k \in 1..Len(s[i]) :
          start[i] + k \in 1..Len(q) /\ q[start[i] + k] = s[i][k]
    /\ \A i \in 1..(n - 1) : start[i + 1] = start[i] + Len(s[i])
    /\ \A p \in 1..Len(q) : \E i \in 1..n : \E k \in 1..Len(s[i]) : p = start[i] + k

\* Each element of what is made flat stands in one of the parts, where it stood.
LEMMA FlattenedParts ==
    ASSUME NEW T, NEW s, Len(s) \in Nat \ {0}, Parts(s, Len(s), T)
    PROVE  /\ FlattenSeq(s) \in Seq(T)
           /\ \E start \in [1..Len(s) -> Nat] : LaidOut(FlattenSeq(s), s, Len(s), start)
<1> DEFINE N == Len(s)
           q == FlattenSeq(s)
<1>1. PICK f : Joined(f, s, N) /\ q = f[N]
  BY FlattenIsJoined
<1> HIDE DEF q
<1>2. \A n \in 1..N :
              /\ f[n] \in Seq(T)
              /\ \A i \in 1..n :
                    /\ End(f, i) \in Nat /\ End(f, i - 1) \in Nat
                    /\ End(f, i) = End(f, i - 1) + Len(s[i])
                    /\ End(f, i) <= End(f, n)
                    /\ \A k \in 1..Len(s[i]) : f[n][End(f, i - 1) + k] = s[i][k]
  BY <1>1, JoinedGrows
<1> DEFINE start == [i \in 1..N |-> End(f, i - 1)]
<1>3. N \in 1..N /\ N \in Nat \ {0} /\ q \in Seq(T) /\ End(f, N) = Len(q) /\ Len(q) \in Nat
  <2>1. N \in 1..N /\ N # 0
    OBVIOUS
  <2>2. q \in Seq(T)
    BY <1>1, <1>2, <2>1
  <2>3. End(f, N) = Len(q)
    BY <1>1, <2>1, Zenon DEF End
  <2> QED BY <2>1, <2>2, <2>3
<1>4. ASSUME NEW i \in 1..N, NEW k \in 1..Len(s[i])
      PROVE  start[i] + k \in 1..Len(q) /\ q[start[i] + k] = s[i][k]
  <2>1. Len(s[i]) \in Nat
    BY DEF Parts
  <2>2. /\ End(f, i) \in Nat /\ End(f, i - 1) \in Nat
        /\ End(f, i) = End(f, i - 1) + Len(s[i])
        /\ End(f, i) <= End(f, N)
        /\ f[N][End(f, i - 1) + k] = s[i][k]
    BY <1>2, <1>3
  <2>3. start[i] = End(f, i - 1)
    OBVIOUS
  <2> HIDE DEF start, N
  <2>4. start[i] + k \in 1..Len(q)
    BY <1>3, <2>1, <2>2, <2>3
  <2> QED BY <1>1, <2>2, <2>3, <2>4
<1>5. ASSUME NEW i \in 1..(N - 1) PROVE start[i + 1] = start[i] + Len(s[i])
  <2>1. i \in 1..N /\ i + 1 \in 1..N /\ (i + 1) - 1 = i
    BY <1>3
  <2> QED BY <1>2, <1>3, <2>1
<1>6. ASSUME NEW p \in 1..Len(q)
      PROVE  \E i \in 1..N : \E k \in 1..Len(s[i]) : p = start[i] + k
  <2> DEFINE S == {n \in Nat \ {0} : n <= N /\ p <= End(f, n) =>
                      \E i \in 1..N : \E k \in 1..Len(s[i]) : p = start[i] + k}
  <2>1. ASSUME NEW n \in 1..N, End(f, n - 1) < p, p <= End(f, n)
        PROVE  \E i \in 1..N : \E k \in 1..Len(s[i]) : p = start[i] + k
    <3>1. /\ End(f, n) \in Nat /\ End(f, n - 1) \in Nat /\ Len(s[n]) \in Nat
          /\ End(f, n) = End(f, n - 1) + Len(s[n])
      BY <1>2, <1>3
    <3>2. p - End(f, n - 1) \in 1..Len(s[n]) /\ p = start[n] + (p - End(f, n - 1))
      BY <1>3, <2>1, <3>1
    <3> QED BY <3>2
  <2>2. 1 \in S
    <3>1. End(f, 1 - 1) = 0 /\ 1 \in 1..N
      BY <1>3 DEF End
    <3> HIDE DEF start
    <3> QED BY <2>1, <3>1
  <2>3. ASSUME NEW n \in Nat \ {0}, n \in S PROVE n + 1 \in S
    <3>1. (n + 1) - 1 = n
      OBVIOUS
    <3>2. n + 1 <= N => End(f, n) \in Nat /\ n + 1 \in 1..N /\ n <= N
      BY <1>2, <1>3
    <3> HIDE DEF start
    <3>3. CASE n + 1 <= N /\ End(f, n) < p
      BY <2>1, <3>1, <3>2, <3>3
    <3>4. CASE ~(n + 1 <= N /\ End(f, n) < p)
      BY <2>3, <3>2, <3>4
    <3> QED BY <3>3, <3>4
  <2> HIDE DEF S, start
  <2>4. N \in S
    BY <1>3, <2>2, <2>3, CountUp
  <2> QED BY <1>3, <2>4 DEF S
<1>7. start \in [1..N -> Nat]
  BY <1>2, <1>3
<1>8. LaidOut(q, s, N, start)
  <2> HIDE DEF start, N
  <2> QED BY <1>4, <1>5, <1>6 DEF LaidOut
<1> HIDE DEF start
<1> QED BY <1>3, <1>7, <1>8 DEF q

----------------------------------------------------------------------------
(* What a request holds *)

\* Results come right behind the calls they answer, and nothing else does.
Tidy(h) ==
    \A i \in 1..Len(h) :
        /\ h[i].kind = "tools" =>
              i > 1 /\ h[i].calls = 0 /\ h[i - 1].calls = h[i].results
        /\ h[i].calls > 0 /\ i < Len(h) => h[i + 1].kind = "tools"

AllAnswered(h) == h # <<>> => h[Len(h)].calls = 0

LEMMA PendingIsPrevious ==
    ASSUME NEW h \in Seq(Turns), Tidy(h), NEW i \in 1..Len(h),
           h[i].kind = "tools", h[i].results > 0
    PROVE  Pending(h, i) = h[i].results
<1> DEFINE open == {j \in 1..(i - 1) : h[j].calls > 0 /\ \A k \in j..(i - 1) : h[k].kind # "tools"}
<1>1. i > 1 /\ i - 1 \in 1..(i - 1) /\ h[i - 1].calls = h[i].results
  BY DEF Tidy
<1>2. h[i - 1].kind # "tools"
  <2>1. i - 1 \in 1..Len(h)
    BY <1>1
  <2> QED BY <1>1, <2>1 DEF Tidy
<1>3. i - 1 \in open
  BY <1>1, <1>2
<1>4. ASSUME NEW j \in open, j # i - 1 PROVE FALSE
  <2>1. j \in 1..Len(h) /\ j + 1 \in j..(i - 1) /\ j < Len(h) /\ h[j].calls > 0
    BY <1>1, <1>4
  <2>2. h[j + 1].kind = "tools"
    BY <2>1 DEF Tidy
  <2> QED BY <1>4, <2>1, <2>2
<1>5. open = {i - 1}
  BY <1>3, <1>4
<1>6. Max(open) = i - 1
  <2>1. \A y \in {i - 1} : i - 1 >= y
    BY <1>1
  <2> HIDE DEF open
  <2> QED BY <1>5, <2>1 DEF Max
<1> HIDE DEF open
<1>7. Pending(h, i) = IF open = {} THEN 0 ELSE h[Max(open)].calls
  BY DEF Pending, open
<1> QED BY <1>1, <1>3, <1>6, <1>7

\* What a turn becomes.
Message == [role: {"tool", "assistant", "user"}, calls: Nat, answers: Nat, elided: BOOLEAN]

LEMMA MessagesOf ==
    ASSUME NEW h \in Seq(Turns), Tidy(h), NEW i \in 1..Len(h), NEW r,
           NEW m, m = Messages(h, i, r)
    PROVE  /\ m \in Seq(Message)
           /\ h[i].kind = "tools" =>
                 /\ Len(m) = h[i].results
                 /\ \A k \in 1..h[i].results :
                       m[k].role = "tool" /\ m[k].calls = 0 /\ m[k].answers = k
           /\ h[i].kind # "tools" =>
                 /\ Len(m) = 1
                 /\ m[1].role # "tool" /\ m[1].calls = h[i].calls
<1>1. h[i] \in Turns
  OBVIOUS
<1>2. CASE h[i].kind = "tools"
  <2> DEFINE Result(k) ==
            [role |-> "tool", calls |-> 0,
             answers |-> IF k <= Pending(h, i) THEN k ELSE 0,
             elided |-> r > 0 /\ ToolTurns(h, i) <= ToolTurns(h, Len(h)) - r]
  <2>1. h[i].results \in Nat
    BY <1>1 DEF Turns
  <2>2. \A k \in 1..h[i].results : k <= Pending(h, i)
    BY <1>2, <2>1, PendingIsPrevious
  <2>3. m = [k \in 1..h[i].results |-> Result(k)]
    BY <1>2 DEF Messages
  <2>4. ASSUME NEW k \in 1..h[i].results
        PROVE  /\ Result(k) \in Message
               /\ Result(k).role = "tool" /\ Result(k).calls = 0 /\ Result(k).answers = k
    BY <2>1, <2>2 DEF Message
  <2> HIDE DEF Result
  <2>5. m \in Seq(Message) /\ Len(m) = h[i].results
    BY <2>1, <2>3, <2>4
  <2>6. \A k \in 1..h[i].results : m[k] = Result(k)
    BY <2>3
  <2> QED BY <1>2, <2>4, <2>5, <2>6
<1>3. CASE h[i].kind # "tools"
  <2> DEFINE e == [role |-> IF h[i].kind \in {"assistant", "question"} THEN "assistant" ELSE "user",
                   calls |-> h[i].calls, answers |-> 0, elided |-> FALSE]
  <2>1. m = <<e>>
    BY <1>3 DEF Messages
  <2>2. e \in Message /\ e.role # "tool" /\ e.calls = h[i].calls
    BY <1>1 DEF Message, Turns
  <2> HIDE DEF e
  <2> QED BY <1>3, <2>1, <2>2
<1> QED BY <1>2, <1>3

LEMMA RequestPairs ==
    ASSUME NEW h \in Seq(Turns), Tidy(h), AllAnswered(h), NEW r
    PROVE  LET q == Request(h, r)
           IN \A p \in DOMAIN q :
                /\ \A k \in 1..q[p].calls : p + k \in DOMAIN q /\ q[p + k].answers = k
                /\ q[p].role = "tool" =>
                     \E j \in 1..(p - 1) : q[j].calls >= p - j /\ q[p].answers = p - j
<1> DEFINE s == [i \in DOMAIN h |-> Messages(h, i, r)]
           q == Request(h, r)
           N == Len(h)
<1>1. N \in Nat /\ DOMAIN h = 1..N /\ \A i \in 1..N : h[i] \in Turns
  OBVIOUS
<1>2. Len(s) = N /\ DOMAIN s = 1..N /\ q = FlattenSeq(s)
  BY <1>1 DEF Request
<1>3. CASE N = 0
  <2>1. q = s /\ DOMAIN s = {}
    BY <1>2, <1>3 DEF FlattenSeq
  <2> QED BY <2>1
<1>4. CASE N # 0
  <2>1. \A i \in 1..N : s[i] = Messages(h, i, r)
    BY <1>1
  <2> HIDE DEF s, q
  <2>2. ASSUME NEW i \in 1..N
        PROVE  /\ h[i].kind = "tools" =>
                    /\ Len(s[i]) = h[i].results
                    /\ \A k \in 1..h[i].results :
                          s[i][k].role = "tool" /\ s[i][k].calls = 0 /\ s[i][k].answers = k
               /\ h[i].kind # "tools" =>
                    /\ Len(s[i]) = 1
                    /\ s[i][1].role # "tool" /\ s[i][1].calls = h[i].calls
               /\ s[i] \in Seq(Message)
    <3> DEFINE m == s[i]
    <3>1. m = Messages(h, i, r) /\ i \in 1..Len(h)
      BY <2>1
    <3> HIDE DEF m
    <3>2. /\ h[i].kind = "tools" =>
               /\ Len(m) = h[i].results
               /\ \A k \in 1..h[i].results :
                     m[k].role = "tool" /\ m[k].calls = 0 /\ m[k].answers = k
          /\ h[i].kind # "tools" =>
               /\ Len(m) = 1
               /\ m[1].role # "tool" /\ m[1].calls = h[i].calls
          /\ m \in Seq(Message)
      BY <3>1, MessagesOf
    <3> QED BY <3>2 DEF m
  <2> HIDE DEF N
  <2>11. Len(s) = N /\ N \in Nat \ {0} /\ Parts(s, Len(s), Message)
    BY <1>1, <1>2, <1>4, <2>2 DEF Parts
  <2>12. q \in Seq(Message) /\ \E start \in [1..N -> Nat] : LaidOut(q, s, N, start)
    BY <1>2, <2>11, FlattenedParts
  <2>13. PICK start \in [1..N -> Nat] : LaidOut(q, s, N, start)
    BY <2>12
  <2>3. /\ q \in Seq(Message)
        /\ \A i \in 1..N : \A k \in 1..Len(s[i]) :
              start[i] + k \in 1..Len(q) /\ q[start[i] + k] = s[i][k]
        /\ \A i \in 1..(N - 1) : start[i + 1] = start[i] + Len(s[i])
        /\ \A p \in 1..Len(q) : \E i \in 1..N : \E k \in 1..Len(s[i]) : p = start[i] + k
    BY <2>12, <2>13 DEF LaidOut
  <2>4. DOMAIN q = 1..Len(q)
    BY <2>3
  <2> SUFFICES ASSUME NEW p \in 1..Len(q)
               PROVE  /\ \A k \in 1..q[p].calls : p + k \in 1..Len(q) /\ q[p + k].answers = k
                      /\ q[p].role = "tool" =>
                           \E j \in 1..(p - 1) : q[j].calls >= p - j /\ q[p].answers = p - j
    BY <2>4 DEF q
  <2>5. PICK i \in 1..N : \E k \in 1..Len(s[i]) : p = start[i] + k
    BY <2>3
  <2>6. PICK k \in 1..Len(s[i]) : p = start[i] + k
    BY <2>5
  <2>7. q[p] = s[i][k]
    BY <2>3, <2>6
  <2>8. h[i] \in Turns /\ start[i] \in Nat /\ N \in Nat
    BY <1>1
  <2>9. CASE h[i].kind = "tools"
    <3>1. /\ q[p].calls = 0 /\ q[p].role = "tool" /\ q[p].answers = k
          /\ k \in 1..h[i].results /\ h[i].results \in Nat
      BY <2>2, <2>7, <2>8, <2>9 DEF Turns
    <3>2. i > 1 /\ h[i - 1].calls = h[i].results
      BY <2>9 DEF Tidy, N
    <3>3. i - 1 \in 1..N /\ i - 1 \in 1..(N - 1) /\ (i - 1) + 1 = i
      BY <2>8, <3>2
    <3>4. h[i - 1].kind # "tools"
      BY <3>1, <3>2, <3>3 DEF Tidy, N
    <3>5. start[i - 1] \in Nat /\ Len(s[i - 1]) = 1 /\ s[i - 1][1].calls = h[i].results
      BY <2>2, <3>2, <3>3, <3>4
    <3>6. start[i] = start[i - 1] + 1
      <4>1. start[(i - 1) + 1] = start[i - 1] + Len(s[i - 1])
        BY <2>3, <3>3
      <4> QED BY <3>3, <3>5, <4>1
    <3>9. q[start[i]] = s[i - 1][1]
      <4>1. 1 \in 1..Len(s[i - 1])
        BY <3>5
      <4> QED BY <2>3, <3>3, <3>6, <4>1
    <3>10. k \in Nat /\ k >= 1
      BY <3>1
    <3>11. start[i] \in 1..(p - 1) /\ p - start[i] = k
      BY <2>6, <2>8, <3>5, <3>6, <3>10
    <3>7. /\ start[i] \in 1..(p - 1) /\ p - start[i] = k
          /\ q[start[i]].calls = h[i].results
      BY <3>5, <3>9, <3>11, Zenon
    <3>8. q[start[i]].calls >= p - start[i] /\ q[p].answers = p - start[i]
      BY <3>1, <3>7
    <3> QED BY <3>1, <3>7, <3>8
  <2>10. CASE h[i].kind # "tools"
    <3>1. k = 1 /\ q[p].role # "tool" /\ q[p].calls = h[i].calls /\ h[i].calls \in Nat
      BY <2>2, <2>7, <2>8, <2>10 DEF Turns
    <3>2. ASSUME NEW m \in 1..h[i].calls
          PROVE  p + m \in 1..Len(q) /\ q[p + m].answers = m
      <4>1. h[i].calls > 0
        BY <3>1
      <4>2. i < N
        BY <1>4, <2>8, <4>1 DEF AllAnswered, N
      <4>3. i \in 1..(N - 1) /\ i + 1 \in 1..N /\ (i + 1) - 1 = i
        BY <2>8, <4>2
      <4>4. h[i + 1].kind = "tools" /\ h[i].calls = h[i + 1].results
        BY <4>1, <4>2, <4>3 DEF Tidy, N
      <4>5. m \in 1..Len(s[i + 1]) /\ s[i + 1][m].answers = m
        BY <2>2, <4>3, <4>4
      <4>6. start[i + 1] = p
        <5>1. start[i + 1] = start[i] + Len(s[i]) /\ Len(s[i]) = 1
          BY <2>2, <2>3, <2>10, <4>3
        <5> QED BY <2>6, <2>8, <3>1, <5>1
      <4> QED BY <2>3, <4>3, <4>5, <4>6
    <3> QED BY <3>1, <3>2
  <2> QED BY <2>9, <2>10
<1> QED BY <1>1, <1>3, <1>4

----------------------------------------------------------------------------
(* Every request answers every call *)

Plain(u) == \A i \in 1..Len(u) : u[i].kind # "tools" /\ u[i].calls = 0

LEMMA TidyPlain ==
    ASSUME NEW h \in Seq(Turns), Tidy(h), AllAnswered(h), NEW u \in Seq(Turns), Plain(u)
    PROVE  h \o u \in Seq(Turns) /\ Tidy(h \o u) /\ AllAnswered(h \o u)
<1> DEFINE w == h \o u
<1>1. /\ w \in Seq(Turns) /\ Len(w) = Len(h) + Len(u)
      /\ Len(h) \in Nat /\ Len(u) \in Nat
      /\ \A k \in 1..Len(h) : w[k] = h[k]
      /\ \A k \in 1..Len(u) : w[Len(h) + k] = u[k]
  BY Concatenated
<1> HIDE DEF w
<1>2. \A i \in 1..Len(w) : i > Len(h) => w[i].kind # "tools" /\ w[i].calls = 0
  <2> SUFFICES ASSUME NEW i \in 1..Len(w), i > Len(h)
               PROVE  w[i].kind # "tools" /\ w[i].calls = 0
    OBVIOUS
  <2>1. i - Len(h) \in 1..Len(u) /\ Len(h) + (i - Len(h)) = i
    BY <1>1
  <2>2. w[i] = u[i - Len(h)]
    BY <1>1, <2>1
  <2> QED BY <2>1, <2>2 DEF Plain
<1>3. Tidy(w)
  <2> SUFFICES ASSUME NEW i \in 1..Len(w)
               PROVE  /\ w[i].kind = "tools" =>
                            i > 1 /\ w[i].calls = 0 /\ w[i - 1].calls = w[i].results
                      /\ w[i].calls > 0 /\ i < Len(w) => w[i + 1].kind = "tools"
    BY DEF Tidy
  <2>1. CASE i > Len(h)
    BY <1>2, <2>1
  <2>2. CASE i <= Len(h)
    <3>1. i \in 1..Len(h) /\ w[i] = h[i] /\ (i > 1 => i - 1 \in 1..Len(h) /\ w[i - 1] = h[i - 1])
      BY <1>1, <2>2
    <3>2. w[i].kind = "tools" => i > 1 /\ w[i].calls = 0 /\ w[i - 1].calls = w[i].results
      BY <3>1 DEF Tidy
    <3>3. CASE i < Len(h)
      <4>1. i + 1 \in 1..Len(h)
        BY <1>1, <3>1, <3>3
      <4>2. w[i + 1] = h[i + 1]
        BY <1>1, <4>1
      <4> QED BY <3>1, <3>2, <3>3, <4>2 DEF Tidy
    <3>4. CASE i = Len(h)
      BY <3>1, <3>2, <3>4 DEF AllAnswered
    <3> QED BY <1>1, <3>1, <3>3, <3>4
  <2> QED BY <1>1, <2>1, <2>2
<1>4. AllAnswered(w)
  <2>1. SUFFICES ASSUME w # <<>> PROVE w[Len(w)].calls = 0
    BY DEF AllAnswered
  <2>2. Len(w) \in 1..Len(w)
    BY <1>1, <2>1
  <2>3. CASE Len(w) > Len(h)
    BY <1>2, <2>2, <2>3
  <2>4. CASE Len(w) = Len(h)
    BY <1>1, <2>2, <2>4 DEF AllAnswered
  <2> QED BY <1>1, <2>3, <2>4
<1> QED BY <1>1, <1>3, <1>4 DEF w

\* The results of the calls that are open, and calls where none is.
LEMMA TidyNext ==
    ASSUME NEW h \in Seq(Turns), Tidy(h), NEW e \in Turns,
           \/ e.kind = "tools" /\ e.calls = 0 /\ h # <<>> /\ h[Len(h)].calls = e.results
           \/ e.kind # "tools" /\ AllAnswered(h)
    PROVE  Tidy(Append(h, e))
<1> DEFINE w == Append(h, e)
<1>1. /\ w \in Seq(Turns) /\ Len(w) = Len(h) + 1 /\ Len(h) \in Nat
      /\ \A k \in 1..Len(h) : w[k] = h[k]
      /\ w[Len(h) + 1] = e
  OBVIOUS
<1> HIDE DEF w
<1> SUFFICES ASSUME NEW i \in 1..Len(w)
             PROVE  /\ w[i].kind = "tools" =>
                          i > 1 /\ w[i].calls = 0 /\ w[i - 1].calls = w[i].results
                    /\ w[i].calls > 0 /\ i < Len(w) => w[i + 1].kind = "tools"
  BY DEF Tidy, w
<1>2. CASE i = Len(h) + 1
  <2>1. w[i] = e /\ ~(i < Len(w)) /\ i - 1 = Len(h)
    BY <1>1, <1>2
  <2>2. h # <<>> => i > 1 /\ w[i - 1] = h[Len(h)]
    BY <1>1, <1>2
  <2> QED BY <2>1, <2>2
<1>3. CASE i <= Len(h)
  <2>1. i \in 1..Len(h) /\ w[i] = h[i] /\ (i > 1 => i - 1 \in 1..Len(h) /\ w[i - 1] = h[i - 1])
    BY <1>1, <1>3
  <2>2. w[i].kind = "tools" => i > 1 /\ w[i].calls = 0 /\ w[i - 1].calls = w[i].results
    BY <2>1 DEF Tidy
  <2>3. CASE i < Len(h)
    <3>1. i + 1 \in 1..Len(h)
      BY <1>1, <2>1, <2>3
    <3>2. w[i + 1] = h[i + 1]
      BY <1>1, <3>1
    <3> QED BY <2>1, <2>2, <2>3, <3>2 DEF Tidy
  <2>4. CASE i = Len(h)
    <3>1. w[i + 1] = e /\ h # <<>>
      BY <1>1, <2>1, <2>4
    <3> QED BY <2>1, <2>2, <2>4, <3>1 DEF AllAnswered
  <2> QED BY <1>1, <2>1, <2>3, <2>4
<1> QED BY <1>1, <1>2, <1>3

LEMMA PlainTurns ==
    /\ \A k \in {"user", "assistant", "question", "steering"} : Plain(<<Turn(k)>>)
    /\ Plain(<<>>)
    /\ \A n \in Nat : Plain(Injected(n))
    /\ \A c \in Configs : Plain(Hydrated(c.seeds))
<1>1. \A k \in {"user", "assistant", "question", "steering"} : Plain(<<Turn(k)>>)
  BY DEF Plain, Turn
<1>2. Plain(<<>>)
  BY DEF Plain
<1>3. ASSUME NEW n \in Nat PROVE Plain(Injected(n))
  BY DEF Plain, Injected, Turn
<1>4. ASSUME NEW c \in Configs PROVE Plain(Hydrated(c.seeds))
  <2> DEFINE replay == {i \in DOMAIN c.seeds : c.seeds[i] \in {"user", "assistant", "asking"}}
             nth(k) == CHOOSE i \in replay : Cardinality({j \in replay : j <= i}) = k
             turn(k) == Turn(IF c.seeds[nth(k)] = "user" THEN "user" ELSE "assistant")
  <2>1. \A k : turn(k).kind # "tools" /\ turn(k).calls = 0
    BY DEF Turn
  <2>2. Hydrated(c.seeds) = [k \in 1..Cardinality(replay) |-> turn(k)]
    BY DEF Hydrated
  <2>3. Hydrated(c.seeds) \in Seq(Turns)
    BY HydratedType
  <2> HIDE DEF replay, turn
  <2>4. DOMAIN Hydrated(c.seeds) = 1..Len(Hydrated(c.seeds))
    BY <2>3
  <2> QED BY <2>1, <2>2, <2>4 DEF Plain
<1> QED BY <1>1, <1>2, <1>3, <1>4

\* Calls are without results only while their batch runs, or in a session that a
\* cancelled or failed invocation left in a state no input starts from.
PairInv ==
    /\ Tidy(history)
    /\ pc \in {"top", "calling", "tools"} => state \in {"processing", "closed"}
    /\ pc = "tools" => history # <<>> /\ history[Len(history)].calls = Len(batch)
    /\ \/ AllAnswered(history)
       \/ pc = "tools"
       \/ pc \in {"raised", "out"} /\ state \in {"processing", "closed"}

LEMMA PairInvInit == Init => PairInv
BY DEF Init, PairInv, Tidy, AllAnswered

LEMMA SubmitPairs ==
    ASSUME HistoryInv, NEW h \in Seq(Turns), Submit(h), Tidy(h),
           AllAnswered(h) \/ state \in {"processing", "closed"}
    PROVE  PairInv'
<1>1. CASE state = "idle"
  <2>1. /\ history' = h \o <<Turn("user")>> \o Injected(steering)
        /\ state' = "processing" /\ pc' = "top"
    BY <1>1 DEF Submit
  <2> DEFINE u == <<Turn("user")>>
             v == h \o u
             w == Injected(steering)
  <2>2. u \in Seq(Turns) /\ Plain(u) /\ w \in Seq(Turns) /\ Plain(w)
    BY TurnTypes, InjectedType, PlainTurns DEF HistoryInv
  <2>3. history' = v \o w
    BY <2>1
  <2> HIDE DEF u, w
  <2>4. v \in Seq(Turns) /\ Tidy(v) /\ AllAnswered(v)
    BY <1>1, <2>2, TidyPlain
  <2> HIDE DEF v
  <2>5. Tidy(v \o w) /\ AllAnswered(v \o w)
    BY <2>2, <2>4, TidyPlain
  <2> QED BY <2>1, <2>3, <2>5 DEF PairInv
<1>2. CASE state # "idle"
  <2>1. history' = h /\ pc' = "raised" /\ state' = state
    BY <1>2 DEF Submit, Raise
  <2> QED BY <2>1 DEF PairInv
<1> QED BY <1>1, <1>2

LEMMA ConcludePairs ==
    ASSUME HistoryInv, AgentsInv, PairInv, pc = "tools", Conclude(Len(batch))
    PROVE  PairInv'
<1>1. Len(batch) \in Nat /\ history \in Seq(Turns) /\ steering \in Nat
  BY DEF AgentsInv, HistoryInv
<1> DEFINE n == Len(batch)
           x == Recorded(signatures, batch)
           a == Append(history, Results(n))
           b == Injected(steering)
           c == IF Looping(x) THEN <<Turn("steering")>> ELSE <<>>
           d == a \o b
<1>2. history' = history \o <<Results(n)>> \o b \o c /\ pc' = "top" /\ state' = state
  BY DEF Conclude
<1>3. b \in Seq(Turns) /\ Plain(b) /\ c \in Seq(Turns) /\ Plain(c)
  BY <1>1, TurnTypes, InjectedType, PlainTurns
<1>4. a \in Seq(Turns) /\ Tidy(a) /\ AllAnswered(a) /\ a = history \o <<Results(n)>>
  <2>1. Results(n) \in Turns /\ Results(n).kind = "tools" /\ Results(n).calls = 0
        /\ Results(n).results = n
    BY <1>1, TurnTypes DEF Results
  <2>2. Tidy(history) /\ history # <<>> /\ history[Len(history)].calls = n
    BY DEF PairInv
  <2> HIDE DEF n
  <2>3. Tidy(a)
    BY <1>1, <2>1, <2>2, TidyNext
  <2>4. a \in Seq(Turns) /\ a[Len(a)] = Results(n) /\ a = history \o <<Results(n)>>
    BY <1>1, <2>1
  <2> HIDE DEF a
  <2> QED BY <2>1, <2>3, <2>4 DEF AllAnswered
<1>5. history' = d \o c
  BY <1>2, <1>4
<1> HIDE DEF a, b, c
<1>6. d \in Seq(Turns) /\ Tidy(d) /\ AllAnswered(d)
  BY <1>3, <1>4, TidyPlain
<1> HIDE DEF d
<1>7. Tidy(d \o c) /\ AllAnswered(d \o c)
  BY <1>3, <1>6, TidyPlain
<1>8. state \in {"processing", "closed"}
  BY DEF PairInv
<1> QED BY <1>2, <1>5, <1>7, <1>8 DEF PairInv
LEMMA FinishPairs ==
    ASSUME PairInv, pc \in {"top", "calling"}, Finish,
           Tidy(history'), AllAnswered(history')
    PROVE  PairInv'
BY DEF Finish, Raise, PairInv

LEMMA PairInvStep == AgentsInv /\ HistoryInv /\ PairInv /\ [Next]_vars => PairInv'
<1> SUFFICES ASSUME AgentsInv, HistoryInv, PairInv, [Next]_vars PROVE PairInv'
  OBVIOUS
<1>0. config \in Configs /\ history \in Seq(Turns) /\ steering \in Nat /\ Tidy(history)
  BY DEF HistoryInv, PairInv
<1>1. CASE Execute
  <2>1. pc = "out"
    BY <1>1 DEF Execute
  <2>2. CASE Submit(history)
    BY <1>0, <2>1, <2>2, SubmitPairs DEF PairInv
  <2>3. CASE Submit(Hydrated(config.seeds))
    <3> DEFINE h == Hydrated(config.seeds)
    <3>1. h \in Seq(Turns) /\ Plain(h)
      BY <1>0, HydratedType, PlainTurns
    <3>2. Submit(h)
      BY <2>3
    <3> HIDE DEF h
    <3>3. DOMAIN h = 1..Len(h) /\ (h # <<>> => Len(h) \in 1..Len(h))
      BY <3>1
    <3>4. Tidy(h) /\ AllAnswered(h)
      BY <3>1, <3>3 DEF Plain, Tidy, AllAnswered
    <3> QED BY <3>1, <3>2, <3>4, SubmitPairs
  <2>4. CASE Raise /\ UNCHANGED <<state, history>>
    BY <2>1, <2>4 DEF Raise, PairInv
  <2> QED BY <1>1, <2>2, <2>3, <2>4 DEF Execute
<1>2. CASE ResumeWithInput
  <2>1. /\ history' = history \o <<Turn("user")>> \o Injected(steering)
        /\ state' = "processing" /\ pc' = "top" /\ pc = "out" /\ state = "awaiting"
    BY <1>2 DEF ResumeWithInput
  <2> DEFINE u == <<Turn("user")>>
             v == history \o u
             w == Injected(steering)
  <2>2. u \in Seq(Turns) /\ Plain(u) /\ w \in Seq(Turns) /\ Plain(w)
    BY <1>0, TurnTypes, InjectedType, PlainTurns
  <2>3. history' = v \o w /\ AllAnswered(history)
    BY <2>1 DEF PairInv
  <2> HIDE DEF u, w
  <2>4. v \in Seq(Turns) /\ Tidy(v) /\ AllAnswered(v)
    BY <1>0, <2>2, <2>3, TidyPlain
  <2> HIDE DEF v
  <2>5. Tidy(v \o w) /\ AllAnswered(v \o w)
    BY <2>2, <2>4, TidyPlain
  <2> QED BY <2>1, <2>3, <2>5 DEF PairInv
<1>3. CASE FollowUp
  <2>1. pc = "drain" /\ Submit(history)
    BY <1>3 DEF FollowUp
  <2> QED BY <1>0, <2>1, SubmitPairs DEF PairInv
<1>4. CASE EndBatch \/ BatchCancelled
  BY <1>4, ConcludePairs DEF EndBatch, BatchCancelled
<1>5. CASE AnswersWithText
  <2>1. pc = "calling" /\ AllAnswered(history)
    BY <1>5 DEF AnswersWithText, PairInv
  <2>2. ASSUME NEW k \in {"assistant", "question"}, history' = Append(history, Turn(k))
        PROVE  Tidy(history') /\ AllAnswered(history')
    <3> DEFINE u == <<Turn(k)>>
    <3>1. u \in Seq(Turns) /\ Plain(u) /\ history' = history \o u
      BY <1>0, <2>2, TurnTypes, PlainTurns
    <3> HIDE DEF u
    <3> QED BY <1>0, <2>1, <3>1, TidyPlain
  <2>3. CASE history' = Append(history, Turn("assistant")) /\ Finish
    BY <2>1, <2>2, <2>3, FinishPairs
  <2>4. CASE /\ history' = Append(history, Turn("question"))
             /\ IF state = "processing"
                THEN /\ state' = "awaiting" /\ UNCHANGED depth
                     /\ pc' = IF depth = 0 THEN "returned" ELSE "drain"
                ELSE Raise /\ UNCHANGED state
    <3>1. pc' \notin {"top", "calling", "tools"}
      BY <2>4 DEF Raise
    <3>2. Tidy(history') /\ AllAnswered(history')
      BY <2>2, <2>4
    <3> QED BY <3>1, <3>2 DEF PairInv
  <2> QED BY <1>5, <2>3, <2>4 DEF AnswersWithText
<1>6. CASE AnswersWithCalls
  <2>1. /\ pc = "calling" /\ pc' = "tools" /\ state' = state
        /\ \E b \in Batches : batch' = b /\ history' = Append(history, Asking(Len(b)))
    BY <1>6 DEF AnswersWithCalls
  <2>2. PICK b \in Batches : batch' = b /\ history' = Append(history, Asking(Len(b)))
    BY <2>1
  <2> DEFINE e == Asking(Len(b))
  <2>3. e \in Turns /\ e.kind # "tools" /\ e.calls = Len(b)
    BY BatchesType, TurnTypes DEF Asking
  <2>4. history' = Append(history, e)
    BY <2>2
  <2> HIDE DEF e
  <2>5. Tidy(Append(history, e))
    BY <1>0, <2>1, <2>3, TidyNext DEF PairInv
  <2>6. Append(history, e) # <<>> /\ Append(history, e)[Len(Append(history, e))] = e
    BY <1>0, <2>3
  <2>7. state \in {"processing", "closed"}
    BY <2>1 DEF PairInv
  <2> QED BY <2>1, <2>2, <2>3, <2>4, <2>5, <2>6, <2>7 DEF PairInv
<1>7. CASE Limit \/ CancelledAtTop \/ ContextLimit \/ CancelledAnswer
  <2>1. pc \in {"top", "calling"} /\ Finish /\ history' = history
    BY <1>7 DEF Limit, CancelledAtTop, ContextLimit, CancelledAnswer, Cancelled
  <2>2. AllAnswered(history)
    BY <2>1 DEF PairInv
  <2> QED BY <1>0, <2>1, <2>2, FinishPairs
<1>8. CASE CallProvider \/ ProviderFails \/ TaskCancelled
  <2>1. /\ history' = history
        /\ \/ pc = "top" /\ pc' = "calling" /\ state' = state
           \/ pc' = "raised" /\ state' \in {state, "closed"} /\ pc \in {"top", "calling", "tools"}
    BY <1>8 DEF CallProvider, MayCall, ProviderFails, TaskCancelled, Fail, Raise
  <2> QED BY <2>1 DEF PairInv
<1>9. CASE Drained \/ Complete
  <2>1. /\ UNCHANGED <<history, state>>
        /\ \/ pc = "drain" /\ pc' \in {"returned", "drain"}
           \/ pc \in {"returned", "raised"} /\ pc' = "out"
    BY <1>9 DEF Drained, Complete
  <2> QED BY <2>1 DEF PairInv
<1>10. CASE \/ Steer \/ QueueFollowUp \/ RequestCancel \/ BeginShutdown \/ EndShutdown
            \/ UNCHANGED vars
  <2>1. UNCHANGED <<history, pc, batch>> /\ state' \in {state, "closed"}
    BY <1>10 DEF Steer, QueueFollowUp, RequestCancel, BeginShutdown, EndShutdown, vars, inside,
                 loop
  <2> QED BY <2>1 DEF PairInv
<1>11. CASE \E i \in DOMAIN batch : CallAtOnce(i) \/ StartCall(i) \/ EndCall(i)
  <2>1. PICK i \in DOMAIN batch : CallAtOnce(i) \/ StartCall(i) \/ EndCall(i)
    BY <1>11
  <2>2. UNCHANGED <<history, pc, state>>
    BY <2>1 DEF CallAtOnce, StartCall, EndCall, toolsFrame
  <2>3. \E e : batch' = [batch EXCEPT ![i] = e]
    BY <2>1 DEF CallAtOnce, StartCall, EndCall, Step
  <2>4. Len(batch') = Len(batch)
    BY <2>3 DEF AgentsInv
  <2> QED BY <2>2, <2>4 DEF PairInv
<1> QED BY <1>1, <1>2, <1>3, <1>4, <1>5, <1>6, <1>7, <1>8, <1>9, <1>10, <1>11
        DEF Next, Host, Model, Loop

\* Whatever the seeds, limits, cancellations, failures and steering messages, each
\* request answers every call right behind the message that makes it, in order,
\* and answers nothing else (agent_session.py:1075, messages.py:57).
THEOREM RequestsPair == Spec => []RequestPairsCalls
<1> DEFINE Inv == AgentsInv /\ HistoryInv /\ PairInv
<1>1. Init => Inv
  BY AgentsInvInit, HistoryInvInit, PairInvInit
<1>2. Inv /\ [Next]_vars => Inv'
  BY AgentsInvStep, HistoryInvStep, PairInvStep
<1>3. Inv => RequestPairsCalls
  <2> SUFFICES ASSUME Inv, pc = "calling"
               PROVE  LET q == Request(history, config.retention)
                      IN \A i \in DOMAIN q :
                          /\ \A k \in 1..q[i].calls : i + k \in DOMAIN q /\ q[i + k].answers = k
                          /\ q[i].role = "tool" =>
                              \E j \in 1..(i - 1) : q[j].calls >= i - j /\ q[i].answers = i - j
    BY DEF RequestPairsCalls
  <2>1. history \in Seq(Turns) /\ Tidy(history) /\ AllAnswered(history)
    BY DEF HistoryInv, PairInv
  <2> QED BY <2>1, RequestPairs
<1> HIDE DEF Inv
<1> QED BY <1>1, <1>2, <1>3, PTL DEF Spec
=============================================================================

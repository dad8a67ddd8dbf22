----------------------------- MODULE Subagents -----------------------------
(***************************************************************************)
(* The four tools by which an agent runs others (subagent_tools.py):       *)
(* spawn_agent only notes the task, wait executes it, send_input queues a  *)
(* message for its instruction, close_agent forgets it.  wait suspends     *)
(* while the child session runs; the other tools are atomic.               *)
(***************************************************************************)
EXTENDS Naturals, FiniteSets

CONSTANTS
    Agents,         \* agent ids, each given out once (uuid4)
    MaxRuns         \* bound on the executions of one agent

ASSUME SubagentsAssumption == MaxRuns \in Nat

VARIABLE agents     \* SubagentManager._agents

\* queued: pending messages; runs: executions so far; running: those in
\* flight; result: the execution whose output is kept, 0 for none.
AgentStatus == {"none", "pending", "running", "completed", "failed", "closed"}
Agent == [status: AgentStatus, queued: Nat, runs: 0..MaxRuns,
          running: SUBSET (1..MaxRuns), result: 0..MaxRuns]
NoAgent == [status |-> "none", queued |-> 0, runs |-> 0, running |-> {}, result |-> 0]

SubagentsInit == agents = [a \in Agents |-> NoAgent]

Known(a)  == agents[a].status # "none"
Cached(a) == agents[a].status \in {"completed", "failed"}

Spawn(a) ==
    /\ ~Known(a)
    /\ agents' = [agents EXCEPT ![a].status = "pending"]

SendInput(a) ==
    agents' = IF agents[a].status \in {"none", "closed"} THEN agents
              ELSE [agents EXCEPT ![a].queued = @ + 1]

\* Wrong: what an execution returned is not kept for the next wait.
AnswersUnknownOnly(a) == ~Known(a)

\* wait answers without executing: unknown agents and kept results.
AnswersAtOnce(a) == ~Known(a) \/ Cached(a)

\* A pending, a running and a closed agent are all executed.
StartWait(a) ==
    /\ ~AnswersAtOnce(a)
    /\ agents[a].runs < MaxRuns
    /\ agents' = [agents EXCEPT ![a].status = "running", ![a].runs = @ + 1,
                                ![a].running = @ \cup {agents[a].runs + 1}]

\* The child session returns, or raises.
EndWait(a, run) ==
    /\ run \in agents[a].running
    /\ \/ agents' = [agents EXCEPT ![a].status = "completed", ![a].result = run,
                                   ![a].queued = 0, ![a].running = @ \ {run}]
       \/ agents' = [agents EXCEPT ![a].status = "failed", ![a].result = run,
                                   ![a].running = @ \ {run}]

\* A cancelled wait leaves the status as it is.
AbandonWaits(waits) ==
    agents' = [a \in Agents |->
        [agents[a] EXCEPT !.running = @ \ {w[2] : w \in {v \in waits : v[1] = a}}]]

CloseAgent(a) ==
    agents' = IF ~Known(a) THEN agents
              ELSE [agents EXCEPT ![a].status = "closed", ![a].queued = 0]
=============================================================================

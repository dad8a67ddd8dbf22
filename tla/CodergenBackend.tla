-------------------------- MODULE CodergenBackend --------------------------
(***************************************************************************)
(* AmplifierBackend behind the codergen handler: one node in, one outcome  *)
(* out.  The backend resolves provider, model, fidelity, thread and worker *)
(* of the node, hands the worker an instruction and the thread so far, and *)
(* keeps the exchange for the nodes after it.                              *)
(*                                                                         *)
(* A line is an engine with its own backend: the main one, and the clones  *)
(* of it that the branches of a fan-out walk with.                         *)
(***************************************************************************)
EXTENDS Verdicts, FiniteSets, SequencesExt

CONSTANTS
    Lines,          \* "main" and the branches
    Threads         \* names that may name a thread

VARIABLES
    graph,          \* the nodes, the defaults of the graph, what its workers return
                    \* (results), and a bound: nodes begun in a run (budget)
    setup,          \* what the orchestrator was mounted with
    backend,        \* of each line: [transcripts, completed, last]
    context,        \* of each line: [answer, cap]
    call,           \* of each line: the node in flight, or Idle
    zombies,        \* calls their engine has given up, still going on
    cache,          \* _MODEL_RESOLUTION_CACHE: [key -> a served id]
    served,         \* the id the provider's list resolves to at present
    runs,           \* nodes begun
    finished        \* the execution that returned last

backendVars == <<backend, context, call, zombies, cache, served, runs, finished>>

Idle == [state |-> "idle"]
NoText == [form |-> "empty", status |-> "absent", inner |-> "none", tail |-> FALSE]
NotYet == [line |-> "main", node |-> "", why |-> "none", text |-> NoText, file |-> "none",
           outcome |-> Outcome("success", FALSE, FALSE)]

KeyEnv == {"anthropic", "openai"}               \* PROVIDER_KEY_ENV
SubscriptionOnly == {"copilot"}
Workers == {"spawn", "llm-direct"}

EmptyThreads == [t \in Threads |-> <<>>]

\* AmplifierBackend.clone: nothing of the conversation is taken along.
Fresh == [transcripts |-> EmptyThreads, completed |-> {}, last |-> ""]

\* Wrong: a clone shares the transcripts it was cloned from.
CloneWithThreads(b) == [Fresh EXCEPT !.transcripts = b.transcripts]

Clone(b) == Fresh

----------------------------------------------------------------------------
(* What a node resolves to *)

\* Python's "a or b" on names.
OrElse(name, other) == IF name # "" THEN name ELSE other

\* Profiles: the explicit mapping, or every agent under its own name.
Profiles ==
    CASE DOMAIN setup.profiles # {} -> setup.profiles
      [] DOMAIN setup.profiles = {} /\ setup.spawn -> [a \in DOMAIN setup.agents |-> a]
      [] OTHER -> <<>>

\* A backend without a spawn capability is given no profiles.
BackendProfiles == IF setup.spawn THEN Profiles ELSE <<>>

\* The only one there is, or anthropic.
DefaultAmong(names) ==
    IF Cardinality(names) = 1 THEN CHOOSE p \in names : TRUE ELSE "anthropic"

ImplicitDefaultProvider == DefaultAmong(DOMAIN BackendProfiles)

Provider(n) == OrElse(n.provider, ImplicitDefaultProvider)

\* The direct worker has a default of its own.
WorkerProvider(n) == OrElse(n.provider, "anthropic")

\* A family, and the family a provider has for the nodes that name no model.
BackendKey(n) == <<Provider(n), "family">>
WorkerKey(n) == <<WorkerProvider(n), IF n.model = "" THEN "default" ELSE "family">>

\* Wrong: a provider without a profile takes the profile of another.
AnyProfile(p) ==
    IF p \in DOMAIN BackendProfiles THEN BackendProfiles[p]
    ELSE IF BackendProfiles = <<>> THEN "none"
    ELSE BackendProfiles[CHOOSE q \in DOMAIN BackendProfiles : TRUE]

ProfileOf(p) == IF p \in DOMAIN BackendProfiles THEN BackendProfiles[p] ELSE "none"

Modes == {"full", "compact", "truncate", "summary"}

\* resolve_fidelity; the handler has no incoming edge to pass on.
Fidelity(n) ==
    IF n.fidelity \in Modes THEN n.fidelity
    ELSE IF graph.default_fidelity \in Modes THEN graph.default_fidelity
    ELSE "compact"

\* The cap of the first hop after a resume.
CappedFidelity(l, n) ==
    IF context[l].cap /\ Fidelity(n) = "full" THEN "summary" ELSE Fidelity(n)

\* resolve_thread_key
ThreadKey(l, id) ==
    OrElse(graph.at[id].thread, OrElse(graph.default_thread, OrElse(backend[l].last, id)))

\* _resolve_worker_name, with the names the registry does not know.
WorkerName(n) ==
    OrElse(n.worker, OrElse(setup.default_worker,
                            IF setup.spawn THEN "spawn" ELSE "llm-direct"))

----------------------------------------------------------------------------
(* The outcome of a call *)

\* A ValueError of the backend is the handler's FAIL; nothing is recorded.
Refuse(l, id, why) ==
    /\ call' = [call EXCEPT ![l] = Idle]
    /\ finished' = [NotYet EXCEPT !.line = l, !.node = id, !.why = why,
                                  !.outcome = Outcome("fail", FALSE, FALSE)]
    /\ UNCHANGED backend

\* Wrong: the answer stays for the next node as well.
LeaveAnswer(l) == UNCHANGED context

\* The human's answer goes into the instruction of the first node after the
\* gate, whether or not that node gets as far as a worker.
HearAnswer(l) == context' = [context EXCEPT ![l].answer = 0]

\* What goes to a worker, a spawned agent or the direct one, in the states "sent"
\* and "choosing", in which the direct worker waits for the list of its provider.
Call(l, id, state, model, worker) ==
    LET n == graph.at[id]
        fidelity == CappedFidelity(l, n)
        key == ThreadKey(l, id)
    IN  [state |-> state, node |-> id, run |-> runs', model |-> model,
         worker |-> worker, fidelity |-> fidelity, key |-> key,
         provider |-> IF worker = "spawn" THEN Provider(n) ELSE WorkerProvider(n),
         agent |-> IF worker = "spawn" THEN ProfileOf(Provider(n)) ELSE "none",
         answer |-> context[l].answer,
         replay |-> IF fidelity = "full" THEN backend[l].transcripts[key] ELSE <<>>,
         preamble |-> IF fidelity = "full" THEN {} ELSE backend[l].completed]

Send(l, id, model, worker) ==
    /\ call' = [call EXCEPT ![l] = Call(l, id, "sent", model, worker)]
    /\ UNCHANGED <<backend, finished>>

\* DirectWorker.run resolves the model again, for its own provider, with a family
\* of the provider's where the node names none.
SendDirect(l, id) ==
    LET n == graph.at[id]
    IN  CASE n.model = "id" -> Send(l, id, 0, "llm-direct")
          [] n.model # "id" /\ WorkerKey(n) \in DOMAIN cache' ->
                Send(l, id, cache'[WorkerKey(n)], "llm-direct")
          [] OTHER -> /\ call' = [call EXCEPT ![l] = Call(l, id, "choosing", 0, "llm-direct")]
                      /\ UNCHANGED <<backend, finished>>

\* DirectWorker.run refuses before it asks the client.
DirectRefusal(n) ==
    IF WorkerProvider(n) \in SubscriptionOnly THEN "subscription"
    ELSE IF n.model = "" /\ n.provider \notin KeyEnv THEN "model" ELSE "none"

\* _run_with_spawn refuses an agent that would run the pipeline again.
SpawnRefusal(n) ==
    LET agent == ProfileOf(Provider(n))
    IN  IF ~setup.spawn THEN "spawn"
        ELSE IF agent = "none" THEN "profile"
        ELSE IF agent \notin DOMAIN setup.agents THEN "unresolvable"
        ELSE IF setup.agents[agent] # "own" THEN "recursion" ELSE "none"

\* AmplifierBackend.run from the model on.
Proceed(l, id, model) ==
    LET n == graph.at[id]  worker == WorkerName(n)
    IN  CASE worker \notin Workers -> Refuse(l, id, "worker") /\ UNCHANGED context
          [] worker = "spawn" /\ SpawnRefusal(n) # "none" ->
                Refuse(l, id, SpawnRefusal(n)) /\ HearAnswer(l)
          [] worker = "llm-direct" /\ setup.mounted = {} ->
                Refuse(l, id, "nothing") /\ HearAnswer(l)
          [] worker = "llm-direct" /\ setup.mounted # {} /\ DirectRefusal(n) # "none" ->
                Refuse(l, id, DirectRefusal(n)) /\ HearAnswer(l)
          [] worker = "llm-direct" /\ setup.mounted # {} /\ DirectRefusal(n) = "none" ->
                SendDirect(l, id) /\ HearAnswer(l)
          [] OTHER -> Send(l, id, model, worker) /\ HearAnswer(l)

\* A family name is looked up once and then kept.
Begin(l, id) ==
    LET n == graph.at[id]
    IN  /\ call[l].state = "idle" /\ n.kind = "llm" /\ runs < graph.budget
        /\ runs' = runs + 1
        /\ UNCHANGED <<zombies, cache, served>>
        /\ CASE n.model # "family" -> Proceed(l, id, 0)
             [] n.model = "family" /\ Provider(n) \in SubscriptionOnly ->
                   Refuse(l, id, "resolve") /\ UNCHANGED context
             [] n.model = "family" /\ Provider(n) \notin SubscriptionOnly
                                  /\ BackendKey(n) \in DOMAIN cache ->
                   Proceed(l, id, cache[BackendKey(n)])
             [] OTHER -> /\ call' = [call EXCEPT ![l] = [state |-> "resolving", node |-> id]]
                         /\ UNCHANGED <<backend, context, finished>>

Remember(key) == [k \in DOMAIN cache \cup {key} |-> IF k = key THEN served ELSE cache[k]]

\* The provider's list comes back; or has no such model.
Resolved(l) ==
    LET id == call[l].node
    IN  /\ call[l].state = "resolving"
        /\ UNCHANGED <<zombies, served, runs>>
        /\ \/ /\ cache' = Remember(BackendKey(graph.at[id]))
              /\ Proceed(l, id, served)
           \/ /\ Refuse(l, id, "resolve") /\ UNCHANGED <<cache, context>>

\* The same for the direct worker, whose call is ready.
Chosen(l) ==
    LET id == call[l].node
    IN  /\ call[l].state = "choosing"
        /\ UNCHANGED <<context, zombies, served, runs>>
        /\ \/ /\ cache' = Remember(WorkerKey(graph.at[id]))
              /\ call' = [call EXCEPT ![l].state = "sent", ![l].model = served]
              /\ UNCHANGED <<backend, finished>>
           \/ /\ Refuse(l, id, "resolve") /\ UNCHANGED cache

\* The provider serves a newer model of the family.
NewModelServed ==
    /\ served = 1 /\ served' = 2
    /\ UNCHANGED <<backend, context, call, zombies, cache, runs, finished>>

----------------------------------------------------------------------------
(* A call returns *)

Before(turns, id) ==
    LET own == {i \in DOMAIN turns : turns[i].node = id}
    IN  IF own = {} THEN turns
        ELSE SubSeq(turns, 1, (CHOOSE i \in own : \A j \in own : i <= j) - 1)

\* _append_to_transcript: from the node's own turn on, the thread is retold.
Retell(turns, turn) == Append(Before(turns, turn.node), turn)

Turn(l, c) == [line |-> l, node |-> c.node, run |-> c.run, answer |-> c.answer]

\* What run() keeps of a call that a worker answered.
Recorded(b, l, c, told) ==
    [transcripts |-> IF told /\ c.fidelity = "full"
                     THEN [b.transcripts EXCEPT ![c.key] = Retell(@, Turn(l, c))]
                     ELSE b.transcripts,
     completed |-> b.completed \cup {c.node},
     last |-> c.node]

Record(l, c, told) == backend' = [backend EXCEPT ![l] = Recorded(@, l, c, told)]

\* The spawn itself fails, the client fails, or a hook denies the request.
Broken == [broken |-> TRUE, text |-> NoText, completion |-> "error", file |-> "none"]

Returned(c, r) ==
    LET gate == graph.at[c.node].goal_gate
    IN  CASE r.broken -> Outcome("fail", FALSE, FALSE)
          [] ~r.broken /\ c.worker = "spawn" ->
                ReadStatusOverride(r.file, SpawnOutcome(r, gate))
          [] OTHER -> ReadStatusOverride(r.file, ToolLoopResult(r.text, gate))

\* The direct worker's exchange is always told; a spawned one unless it broke or
\* ended with nothing.
Told(c, r) ==
    \/ c.worker = "llm-direct"
    \/ ~r.broken /\ (r.text.form # "empty" \/ Completed(r.completion))

Return(l, r) ==
    /\ call[l].state = "sent"
    /\ Record(l, call[l], Told(call[l], r))
    /\ finished' = [line |-> l, node |-> call[l].node,
                    why |-> IF r.broken THEN "broken" ELSE "returned",
                    text |-> r.text, file |-> r.file, outcome |-> Returned(call[l], r)]
    /\ call' = [call EXCEPT ![l] = Idle]
    /\ UNCHANGED <<context, zombies, cache, served, runs>>

\* The engine gives a node up whose worker does not stop when it is cancelled ...
GiveUp(l) ==
    /\ call[l].state = "sent" /\ zombies = {}
    /\ zombies' = {[line |-> l, call |-> call[l]]}
    /\ call' = [call EXCEPT ![l] = Idle]
    /\ finished' = [NotYet EXCEPT !.line = l, !.node = call[l].node, !.why = "timeout",
                                  !.outcome = Outcome("fail", FALSE, FALSE)]
    /\ UNCHANGED <<backend, context, cache, served, runs>>

\* ... and which returns to its backend later.
ZombieReturns(r) ==
    \E z \in zombies :
        /\ Record(z.line, z.call, Told(z.call, r))
        /\ zombies' = zombies \ {z}
        /\ UNCHANGED <<context, call, cache, served, runs, finished>>
=============================================================================

------------------------ MODULE PipelineOrchestrator ------------------------
(***************************************************************************)
(* PipelineOrchestrator.execute: the stylesheet is applied, the graph is   *)
(* checked against what the run can serve, a backend is built, an          *)
(* execution environment is set up, the engine walks, and everything that  *)
(* was taken is released.                                                  *)
(*                                                                         *)
(* The engine appears as what it asks of the backend: LLM nodes in any     *)
(* order, again after a failure or a goal gate, on branches side by side;  *)
(* a human gate that leaves an answer; a walk that ends or is cancelled.   *)
(***************************************************************************)
EXTENDS CodergenBackend

CONSTANTS
    Scenarios,      \* pairs of a graph and a setup
    MaxAnswers      \* bound: answers of a human

\* A graph and its nodes have these fields; a thread is named by the graph, by a
\* node, or after one.
GraphFields == {"given", "at", "default_thread", "default_fidelity", "rules", "parallel",
                "human", "results", "budget"}
NodeFields == {"kind", "provider", "model", "worker", "fidelity", "thread", "goal_gate",
               "classes", "shape", "alias", "env_ok"}
ThreadOrNone == Threads \cup {""}

ASSUME ScenariosAssumption ==
    /\ "main" \in Lines
    /\ \A s \in Scenarios :
          LET g == s[1]  u == s[2]
          IN  /\ DOMAIN g = GraphFields /\ g.at = g.given /\ g.budget \in Nat
              /\ DOMAIN g.given \subseteq Threads /\ g.default_thread \in ThreadOrNone
              /\ DOMAIN g.rules = 1..Len(g.rules) /\ Len(g.rules) \in Nat
              /\ \A id \in DOMAIN g.given :
                    DOMAIN g.given[id] = NodeFields /\ g.given[id].thread \in ThreadOrNone
              /\ u.environment \in {"none", "create", "full"}
              /\ {u.resumed, u.stubborn} \subseteq BOOLEAN /\ "none" \notin DOMAIN u.agents

VARIABLES
    phase,          \* "loaded", "styled", "built", "walking", "closing",
                    \* "destroying", "leaving", "ended"
    live,           \* the lines that walk
    answers,        \* answers given
    heard,          \* <<line, answer, run>>: an answer was put into an instruction
    told_on,        \* <<line, thread, answer>>: in a conversation that is kept
    used,           \* <<key, id>>: a family name was taken for this id
    client,         \* the backend: "none", "open" or "closed"
    container,      \* "none", "local", "up", "unknown" (no id came back), "down" or "stuck"
    source          \* the materialised source: "held" or "released"

vars == <<graph, setup, backend, context, call, zombies, cache, served, runs, finished,
          phase, live, answers, heard, told_on, used, client, container, source>>

runVars == <<graph, setup, client, container, source>>

Branches == Lines \ {"main"}

Init ==
    /\ \E s \in Scenarios : graph = s[1] /\ setup = s[2]
    /\ backend = [l \in Lines |-> Fresh]
    /\ context = [l \in Lines |-> [answer |-> 0, cap |-> setup.resumed]]
    /\ call = [l \in Lines |-> Idle] /\ zombies = {}
    /\ cache = <<>> /\ served = 1 /\ runs = 0 /\ finished = NotYet
    /\ phase = "loaded" /\ live = {"main"}
    /\ answers = 0 /\ heard = {} /\ told_on = {} /\ used = {}
    /\ client = "none" /\ container = "none" /\ source = "held"

----------------------------------------------------------------------------
(* apply_stylesheet *)

Specificity(rule) ==
    CASE rule.kind = "*" -> 0 [] rule.kind = "shape" -> 1
      [] rule.kind = "class" -> 2 [] OTHER -> 3

SelectorMatches(rule, id, n) ==
    CASE rule.kind = "*" -> TRUE
      [] rule.kind = "id" -> rule.name = id
      [] rule.kind = "class" -> rule.name \in n.classes
      [] OTHER -> rule.name = n.shape

Properties == {"provider", "model"}

Nothing == [spec |-> -1, value |-> ""]

Styled(rules, id, n, prop) ==
    FoldLeft(LAMBDA acc, rule :
                IF SelectorMatches(rule, id, n) /\ rule.sets[prop] # ""
                   /\ Specificity(rule) >= acc.spec
                THEN [spec |-> Specificity(rule), value |-> rule.sets[prop]] ELSE acc,
             Nothing, rules)

\* An attribute of the node stands.
WithStyle(rules, id, n) ==
    [n EXCEPT !.provider = OrElse(@, Styled(rules, id, n, "provider").value),
              !.model = OrElse(@, Styled(rules, id, n, "model").value)]

ApplyTransforms ==
    /\ phase = "loaded" /\ phase' = "styled"
    /\ graph' = [graph EXCEPT !.at =
                    [id \in DOMAIN graph.given |-> WithStyle(graph.rules, id, graph.given[id])]]
    /\ UNCHANGED <<setup, backendVars, live, answers, heard, told_on, used, client,
                   container, source>>

----------------------------------------------------------------------------
(* The preflight *)

LlmNodes == {id \in DOMAIN graph.at : graph.at[id].kind = "llm"}

\* check_provider_selection_attrs, check_tool_env_names
InertAttributes == \E id \in LlmNodes : graph.at[id].alias
LostToolEnv == \E id \in DOMAIN graph.at : ~graph.at[id].env_ok

\* _spawn_resolvable_agents: what is not knowable is not policed.
Resolvable(agent) == ~setup.spawn \/ agent \in DOMAIN setup.agents

HasCredential(p) == p \notin KeyEnv \/ p \in setup.credentials

Serviceable(p) ==
    \/ p \in setup.mounted
    \/ p \in DOMAIN Profiles /\ Resolvable(Profiles[p]) /\ HasCredential(p)

Simulated == setup.mounted = {} /\ Profiles = <<>>

ProvidersRefused ==
    /\ ~Simulated
    /\ \E id \in LlmNodes : graph.at[id].provider # "" /\ ~Serviceable(graph.at[id].provider)

\* _build_backend, whose constructor refuses a worker nobody registered.
Build ==
    IF InertAttributes \/ LostToolEnv \/ ProvidersRefused
       \/ setup.default_worker \notin Workers \cup {""}
    THEN phase' = "leaving" /\ UNCHANGED client
    ELSE /\ phase' = "built"
         /\ client' = IF setup.mounted = {} /\ ~setup.spawn THEN "none" ELSE "open"

Preflight ==
    /\ phase = "styled" /\ Build
    /\ UNCHANGED <<graph, setup, backendVars, live, answers, heard, told_on, used,
                   container, source>>

----------------------------------------------------------------------------
(* The execution environment *)

\* env_create may answer without an id, or raise.
SetUpEnvironment ==
    /\ phase = "built"
    /\ \/ /\ setup.environment = "none" /\ phase' = "walking" /\ UNCHANGED container
       \/ /\ setup.environment # "none" /\ phase' = "walking" /\ container' \in {"up", "unknown"}
       \/ /\ setup.environment # "none" /\ phase' = "leaving" /\ UNCHANGED container
    /\ UNCHANGED <<graph, setup, backendVars, live, answers, heard, told_on, used,
                   client, source>>

----------------------------------------------------------------------------
(* The walk *)

Walking(l) == phase = "walking" /\ l \in live

Same == UNCHANGED <<phase, live, answers, runVars>>

\* What the properties remember of a call that goes out.
Heard(l) ==
    LET c == call'[l]  n == graph.at[c.node]
        made == /\ c.state \in {"choosing", "sent"} /\ call[l].state # "choosing"
                /\ c.answer # 0
    IN  /\ heard' = IF made THEN heard \cup {<<l, c.answer, c.run>>} ELSE heard
        /\ told_on' = IF made /\ c.fidelity = "full"
                      THEN told_on \cup {<<l, c.key, c.answer>>} ELSE told_on
        /\ used' = IF c.state = "sent" /\ c.model # 0
                   THEN used \cup {<<IF c.worker = "spawn" THEN BackendKey(n) ELSE WorkerKey(n),
                                    c.model>>}
                   ELSE used

\* CodergenHandler.execute without a backend refuses.
NoBackend(l, id) ==
    /\ call[l].state = "idle" /\ runs < graph.budget /\ runs' = runs + 1
    /\ Refuse(l, id, "backend")
    /\ UNCHANGED <<context, zombies, cache, served>>

ExecuteNode(l) ==
    /\ Walking(l) /\ (l = "main" => live = {"main"})
    /\ \E id \in LlmNodes :
          /\ l = "main" /\ context[l].cap /\ runs > 0 => id = finished.node
          /\ IF client = "none" THEN NoBackend(l, id) ELSE Begin(l, id)
    /\ Heard(l) /\ Same

ModelResolved(l) == Walking(l) /\ (Resolved(l) \/ Chosen(l)) /\ Heard(l) /\ Same

WorkerReturns(l) ==
    /\ Walking(l) /\ \E r \in graph.results : Return(l, r)
    /\ UNCHANGED <<heard, told_on, used>> /\ Same

EngineGivesUp(l) ==
    /\ Walking(l) /\ setup.stubborn /\ GiveUp(l)
    /\ UNCHANGED <<heard, told_on, used>> /\ Same

LateReturn ==
    /\ phase = "walking" /\ \E r \in graph.results : ZombieReturns(r)
    /\ UNCHANGED <<heard, told_on, used>> /\ Same

ListChanges ==
    /\ phase = "walking" /\ \E id \in LlmNodes : graph.at[id].model # "id"
    /\ NewModelServed /\ UNCHANGED <<heard, told_on, used>> /\ Same

\* A freeform gate leaves human.gate.text for the node after it.
HumanAnswers ==
    /\ Walking("main") /\ live = {"main"} /\ call["main"].state = "idle"
    /\ graph.human /\ answers < MaxAnswers
    /\ answers' = answers + 1
    /\ context' = [context EXCEPT !["main"].answer = answers']
    /\ UNCHANGED <<backend, call, zombies, cache, served, runs, finished, phase, live,
                   heard, told_on, used, runVars>>

\* The first hop after a resume is over when its handler returns.
HopEnds ==
    /\ Walking("main") /\ live = {"main"} /\ context["main"].cap
    /\ call["main"].state = "idle"
    /\ runs > 0 \/ \E id \in DOMAIN graph.at : graph.at[id].kind = "tool"
    /\ context' = [l \in Lines |-> [context[l] EXCEPT !.cap = FALSE]]
    /\ UNCHANGED <<backend, call, zombies, cache, served, runs, finished, phase, live,
                   answers, heard, told_on, used, runVars>>

\* Branches get clones of the backend and of the context ...
FanOut ==
    /\ Walking("main") /\ live = {"main"} /\ call["main"].state = "idle"
    /\ graph.parallel /\ client = "open"
    /\ live' = Lines
    /\ backend' = [l \in Lines |-> IF l = "main" THEN backend[l] ELSE Clone(backend["main"])]
    /\ context' = [l \in Lines |-> context["main"]]
    /\ UNCHANGED <<call, zombies, cache, served, runs, finished, phase, answers, heard,
                   told_on, used, runVars>>

\* ... and take theirs with them.
Join ==
    /\ phase = "walking" /\ live # {"main"}
    /\ \A l \in Branches : call[l].state = "idle"
    /\ live' = {"main"}
    /\ backend' = [l \in Lines |-> IF l = "main" THEN backend[l] ELSE Fresh]
    /\ context' = [l \in Lines |-> context["main"]]
    /\ zombies' = {z \in zombies : z.line = "main"}
    /\ heard' = {h \in heard : h[1] = "main"} /\ told_on' = {t \in told_on : t[1] = "main"}
    /\ UNCHANGED <<used, call, cache, served, runs, finished, phase, answers,
                   runVars>>

\* The engine returns, or is cancelled with nodes in flight.
EngineEnds ==
    /\ phase = "walking" /\ phase' = "closing"
    /\ call' = [l \in Lines |-> Idle]
    /\ UNCHANGED <<backend, context, zombies, cache, served, runs, finished, live, answers,
                   heard, told_on, used, runVars>>

----------------------------------------------------------------------------
(* Finalize *)

\* An error of close is logged, and the rest goes on.
CloseBackend ==
    /\ phase = "closing" /\ phase' = "destroying"
    /\ client' = IF client = "open" THEN "closed" ELSE client
    /\ UNCHANGED <<graph, setup, backendVars, live, answers, heard, told_on, used,
                   container, source>>

\* Wrong: a container is only destroyed when the walk ended well.
DestroyAfterSuccess ==
    /\ phase = "destroying" /\ phase' = "leaving"
    /\ container' = IF container = "up" /\ finished.outcome.status = "success"
                    THEN "down" ELSE container

Destroy ==
    /\ phase = "destroying" /\ phase' = "leaving"
    /\ IF container = "up" /\ setup.environment = "full"
       THEN container' \in {"down", "stuck"} ELSE UNCHANGED container

DestroyEnvironment ==
    /\ Destroy
    /\ UNCHANGED <<graph, setup, backendVars, live, answers, heard, told_on, used,
                   client, source>>

CleanUpSource ==
    /\ phase = "leaving" /\ phase' = "ended" /\ source' = "released"
    /\ UNCHANGED <<graph, setup, backendVars, live, answers, heard, told_on, used,
                   client, container>>

Next ==
    \/ ApplyTransforms \/ Preflight \/ SetUpEnvironment
    \/ \E l \in Lines : ExecuteNode(l) \/ ModelResolved(l) \/ WorkerReturns(l) \/ EngineGivesUp(l)
    \/ LateReturn \/ ListChanges \/ HumanAnswers \/ HopEnds \/ FanOut \/ Join
    \/ EngineEnds \/ CloseBackend \/ DestroyEnvironment \/ CleanUpSource

Spec == Init /\ [][Next]_vars

----------------------------------------------------------------------------
(* Properties *)

\* The rule a stylesheet gives a property by: the most specific, the last of
\* those, and none for an attribute the node has (stylesheet.py, "Resolution
\* order").
Best(id, prop) ==
    LET n == graph.given[id]
        M == {i \in DOMAIN graph.rules :
                 SelectorMatches(graph.rules[i], id, n) /\ graph.rules[i].sets[prop] # ""}
        above(i, j) == \/ Specificity(graph.rules[i]) > Specificity(graph.rules[j])
                       \/ Specificity(graph.rules[i]) = Specificity(graph.rules[j]) /\ i >= j
    IN  CASE n[prop] # "" -> n[prop]
          [] n[prop] = "" /\ M = {} -> ""
          [] OTHER -> graph.rules[CHOOSE i \in M : \A j \in M : above(i, j)].sets[prop]

\* What apply_stylesheet leaves on a node is what the order of resolution says.
StyleAgrees ==
    phase # "loaded" =>
        \A id \in DOMAIN graph.given, prop \in Properties : graph.at[id][prop] = Best(id, prop)

\* Nodes that declare different providers are never served by one agent, unless
\* the profiles say so: no provider stands in for another (issue #155).
DeclaredProviderServes ==
    \A l \in Lines :
        LET c == call[l]  declared == graph.at[c.node].provider
        IN  c.state = "sent" /\ declared # "" =>
                /\ c.provider = declared
                /\ c.worker = "spawn" =>
                       declared \in DOMAIN Profiles /\ c.agent = Profiles[declared]

\* Without branches, a family name means one model for the whole run, although
\* the provider's list changes.
ModelPinned ==
    ~graph.parallel => \A u, v \in used : u[1] = v[1] => u = v

\* After the preflight a node never meets a missing profile or agent, unless it
\* declares nothing or its provider is mounted as a module, which the preflight
\* takes for served (issue #195), or nothing is there at all, which it takes for
\* a simulation.
AdmittedMeansServed ==
    finished.why \in {"profile", "unresolvable"} =>
        Simulated \/ graph.at[finished.node].provider \in setup.mounted \cup {""}

\* What a node declares, in its attributes or by the stylesheet, is what serves
\* it: provider, agent and model, and the preflight knew.
ServedAsDeclared ==
    StyleAgrees /\ DeclaredProviderServes /\ ModelPinned /\ AdmittedMeansServed

\* A thread tells every node at most once, however often it ran, and in the order
\* the nodes ran if none of them outlived its engine's patience.
TurnsToldOnce ==
    \A l \in Lines, t \in Threads :
        LET turns == backend[l].transcripts[t]
        IN  \A i, j \in DOMAIN turns : i < j =>
                /\ turns[i].node # turns[j].node
                /\ ~setup.stubborn => turns[i].run < turns[j].run

\* A branch is told only what it said itself, whatever runs beside it and
\* whatever was said on the same thread before the fan-out.
BranchesIsolated ==
    \A l \in Lines : call[l].state = "sent" =>
        \A i \in DOMAIN call[l].replay : call[l].replay[i].line = l

\* A thread holds what was said on it, once and by its own line.
ThreadsToldTrue == TurnsToldOnce /\ BranchesIsolated

\* Along one line, an answer is put into one instruction only.
AnswerHeardOnce ==
    \A h, k \in heard : h[1] = k[1] /\ h[2] = k[2] => h = k

\* A goal gate that passes on a verdict of its node was given one: by an object
\* of its text, or by its status.json.
GateNeedsVerdict ==
    LET o == finished.outcome
    IN  finished.why = "returned" /\ graph.at[finished.node].goal_gate
        /\ IsSuccess(o) /\ o.explicit =>
            \/ finished.file = o.status
            \/ o.status \in Said(finished.text)


\* Whatever way the run ended: the source is released, a client that may have
\* been opened is closed, and a container whose id came back was destroyed, or
\* its destruction was tried, if there is a tool for it.
ReleasedAtEnd ==
    phase = "ended" =>
        /\ source = "released"
        /\ client = "open" => runs = 0
        /\ container = "up" => setup.environment = "create"

\* "Spec invariant: an explicit FAIL/RETRY verdict MUST NOT be silently coerced to
\* SUCCESS" (backend.py, _parse_outcome): a text whose last object says fail or
\* retry does not make its node succeed.
ExplicitFailNeverSuccess ==
    LET t == finished.text
    IN  finished.why = "returned" /\ finished.file = "none" /\ ~t.tail
        /\ Stated(t) \in {"fail", "retry"} => ~IsSuccess(finished.outcome)

\* "With fidelity=full and session reuse, the instruction IS a durable user turn
\* [...] all future nodes on the same thread inherit it" (backend.py, run): an
\* answer given on a thread is in what every later node of the thread is sent.
AnswerInherited ==
    \A l \in Lines : call[l].state = "sent" /\ call[l].fidelity = "full" =>
        \A t \in told_on : t[1] = l /\ t[2] = call[l].key =>
            \/ call[l].answer = t[3]
            \/ \E i \in DOMAIN call[l].replay : call[l].replay[i].answer = t[3]
=============================================================================

--------------------- MODULE PipelineOrchestratorProofs ---------------------
(***************************************************************************)
(* What holds of the orchestrator and its backend for every scenario, any  *)
(* lines and threads and whatever workers return.                          *)
(***************************************************************************)
EXTENDS PipelineOrchestrator, TLAPS, WellFoundedInduction
----------------------------------------------------------------------------
(* The walk and the steps around it *)

Walk ==
    \/ \E l \in Lines : ExecuteNode(l) \/ ModelResolved(l) \/ WorkerReturns(l) \/ EngineGivesUp(l)
    \/ LateReturn \/ ListChanges \/ HumanAnswers \/ HopEnds \/ FanOut \/ Join
    \/ EngineEnds

LEMMA NextCases ==
    Next <=> \/ ApplyTransforms \/ Preflight \/ SetUpEnvironment \/ Walk
             \/ CloseBackend \/ DestroyEnvironment \/ CleanUpSource
BY DEF Next, Walk

LEMMA WalkFrame ==
    ASSUME Walk
    PROVE  /\ phase = "walking" /\ phase' \in {"walking", "closing"}
           /\ UNCHANGED runVars
<1>1. CASE \E l \in Lines :
             ExecuteNode(l) \/ ModelResolved(l) \/ WorkerReturns(l) \/ EngineGivesUp(l)
  BY <1>1 DEF ExecuteNode, ModelResolved, WorkerReturns, EngineGivesUp, Walking, Same
<1>2. CASE LateReturn \/ ListChanges
  BY <1>2 DEF LateReturn, ListChanges, Same
<1>3. CASE HumanAnswers \/ HopEnds \/ FanOut
  BY <1>3 DEF HumanAnswers, HopEnds, FanOut, Walking
<1>4. CASE Join \/ EngineEnds
  BY <1>4 DEF Join, EngineEnds
<1>. QED BY <1>1, <1>2, <1>3, <1>4 DEF Walk

\* The steps before the walk and after it leave what the walk is about alone.
LEMMA OutsideFrame ==
    ASSUME ApplyTransforms \/ Preflight \/ SetUpEnvironment \/ CloseBackend
           \/ DestroyEnvironment \/ CleanUpSource
    PROVE  UNCHANGED <<setup, backend, context, call, zombies, cache, served, runs, finished,
                       live, answers, heard, told_on, used>>
BY DEF ApplyTransforms, Preflight, SetUpEnvironment, CloseBackend, DestroyEnvironment,
       CleanUpSource, backendVars

----------------------------------------------------------------------------
(* The scene: what every step leaves as it is, or the style as it finds it   *)

SceneInv ==
    /\ "main" \in Lines /\ live \subseteq Lines
    /\ DOMAIN graph = GraphFields
    /\ DOMAIN graph.given \subseteq Threads
    /\ graph.default_thread \in ThreadOrNone
    /\ DOMAIN graph.at = DOMAIN graph.given
    /\ \A id \in DOMAIN graph.at :
          DOMAIN graph.at[id] = NodeFields /\ graph.at[id].thread \in ThreadOrNone
    /\ phase = "loaded" => graph.at = graph.given
    /\ setup.environment \in {"none", "create", "full"}
    /\ {setup.resumed, setup.stubborn} \subseteq BOOLEAN
    /\ "none" \notin DOMAIN setup.agents

LEMMA StyleKeeps ==
    ASSUME NEW rules, NEW id, NEW n, DOMAIN n = NodeFields
    PROVE  /\ DOMAIN WithStyle(rules, id, n) = NodeFields
           /\ WithStyle(rules, id, n).thread = n.thread
           /\ WithStyle(rules, id, n).goal_gate = n.goal_gate
<1>1. ASSUME NEW a, NEW b
      PROVE  LET m == [n EXCEPT !.provider = a, !.model = b]
             IN  DOMAIN m = NodeFields /\ m.thread = n.thread /\ m.goal_gate = n.goal_gate
  BY DEF NodeFields
<1>2. \A a, b : LET m == [n EXCEPT !.provider = a, !.model = b]
                IN  DOMAIN m = NodeFields /\ m.thread = n.thread /\ m.goal_gate = n.goal_gate
  BY <1>1
<1>. DEFINE a == OrElse(n.provider, Styled(rules, id, n, "provider").value)
            b == OrElse(n.model, Styled(rules, id, n, "model").value)
<1>3. WithStyle(rules, id, n) = [n EXCEPT !.provider = a, !.model = b]
  BY Zenon DEF WithStyle
<1>. HIDE DEF a, b
<1>. QED BY <1>2, <1>3, Zenon

LEMMA SceneInit == Init => SceneInv
<1>. SUFFICES ASSUME Init PROVE SceneInv
  OBVIOUS
<1>1. PICK s \in Scenarios : graph = s[1] /\ setup = s[2]
  BY DEF Init
<1>2. /\ DOMAIN graph = GraphFields /\ graph.at = graph.given
      /\ DOMAIN graph.given \subseteq Threads /\ graph.default_thread \in ThreadOrNone
      /\ \A id \in DOMAIN graph.given :
            DOMAIN graph.given[id] = NodeFields /\ graph.given[id].thread \in ThreadOrNone
      /\ setup.environment \in {"none", "create", "full"}
      /\ {setup.resumed, setup.stubborn} \subseteq BOOLEAN /\ "none" \notin DOMAIN setup.agents
  BY <1>1, ScenariosAssumption
<1>3. "main" \in Lines /\ live = {"main"}
  BY ScenariosAssumption DEF Init
<1>. QED BY <1>2, <1>3 DEF SceneInv

LEMMA SceneStep == SceneInv /\ [Next]_vars => SceneInv'
<1>. SUFFICES ASSUME SceneInv, [Next]_vars PROVE SceneInv'
  OBVIOUS
<1>1. CASE UNCHANGED vars
  BY <1>1 DEF SceneInv, vars
<1>2. CASE Walk
  <2>1. UNCHANGED <<graph, setup>> /\ phase' # "loaded"
    BY <1>2, WalkFrame DEF runVars
  <2>2. live' \subseteq Lines
    <3>1. CASE \E l \in Lines :
                 ExecuteNode(l) \/ ModelResolved(l) \/ WorkerReturns(l) \/ EngineGivesUp(l)
      BY <3>1 DEF SceneInv, ExecuteNode, ModelResolved, WorkerReturns, EngineGivesUp, Same
    <3>2. CASE LateReturn \/ ListChanges
      BY <3>2 DEF SceneInv, LateReturn, ListChanges, Same
    <3>3. CASE HumanAnswers \/ HopEnds \/ FanOut
      BY <3>3 DEF SceneInv, HumanAnswers, HopEnds, FanOut
    <3>4. CASE Join \/ EngineEnds
      BY <3>4 DEF SceneInv, Join, EngineEnds
    <3>. QED BY <1>2, <3>1, <3>2, <3>3, <3>4 DEF Walk
  <2>. QED BY <2>1, <2>2 DEF SceneInv
<1>3. CASE ApplyTransforms
  <2>1. phase' # "loaded" /\ setup' = setup /\ live' = live /\ graph.at = graph.given
    BY <1>3, OutsideFrame DEF ApplyTransforms, SceneInv
  <2>. DEFINE styled == [id \in DOMAIN graph.given |->
                            WithStyle(graph.rules, id, graph.given[id])]
  <2>2. graph' = [graph EXCEPT !.at = styled]
    BY <1>3, Zenon DEF ApplyTransforms
  <2>3. /\ DOMAIN styled = DOMAIN graph.given
        /\ \A id \in DOMAIN styled :
              DOMAIN styled[id] = NodeFields /\ styled[id].thread \in ThreadOrNone
    BY <2>1, StyleKeeps DEF SceneInv
  <2>. HIDE DEF styled
  <2>4. /\ DOMAIN graph' = GraphFields /\ graph'.at = styled /\ graph'.given = graph.given
        /\ graph'.default_thread = graph.default_thread
    BY <2>2 DEF SceneInv, GraphFields
  <2>. QED BY <2>1, <2>3, <2>4 DEF SceneInv
<1>4. CASE Preflight \/ SetUpEnvironment \/ CloseBackend \/ DestroyEnvironment \/ CleanUpSource
  <2>1. UNCHANGED <<graph, setup, live>> /\ phase' # "loaded"
    <3>1. Build => phase' # "loaded"
      BY Zenon DEF Build
    <3>. QED BY <1>4, <3>1, OutsideFrame DEF Preflight, SetUpEnvironment, CloseBackend,
             DestroyEnvironment, Destroy, CleanUpSource
  <2>. QED BY <2>1 DEF SceneInv
<1>. QED BY <1>1, <1>2, <1>3, <1>4, NextCases

\* The graph keeps its nodes and their fields, whatever the stylesheet gives them and
\* whoever walks (apply_stylesheet).
THEOREM SceneCorrect == Spec => []SceneInv
BY SceneInit, SceneStep, PTL DEF Spec

----------------------------------------------------------------------------
(* Releases                                                                  *)

ReleaseInv ==
    /\ phase \in {"loaded", "styled", "built"} => runs = 0 /\ container = "none"
    /\ phase = "destroying" => client # "open"
    /\ phase \in {"leaving", "ended"} =>
          /\ client = "open" => runs = 0
          /\ container = "up" => setup.environment = "create"
    /\ phase = "ended" => source = "released"
    /\ container = "up" => setup.environment \in {"create", "full"}

LEMMA ReleaseInit == Init => ReleaseInv
<1>. SUFFICES ASSUME Init PROVE ReleaseInv
  OBVIOUS
<1>1. phase = "loaded" /\ runs = 0 /\ container = "none"
  BY DEF Init
<1>. QED BY <1>1 DEF ReleaseInv

LEMMA ReleaseStep == SceneInv /\ ReleaseInv /\ [Next]_vars => ReleaseInv'
<1>. SUFFICES ASSUME SceneInv, ReleaseInv, [Next]_vars PROVE ReleaseInv'
  OBVIOUS
<1>1. CASE UNCHANGED vars
  BY <1>1 DEF ReleaseInv, vars
<1>2. CASE Walk
  BY <1>2, WalkFrame DEF ReleaseInv, runVars
<1>3. CASE ApplyTransforms
  BY <1>3, OutsideFrame DEF ReleaseInv, ApplyTransforms
<1>4. CASE Preflight
  <2>1. phase = "styled" /\ phase' \in {"leaving", "built"} /\ container' = container
        /\ runs' = runs /\ setup' = setup
    <3>1. Build => phase' \in {"leaving", "built"}
      BY Zenon DEF Build
    <3>. QED BY <1>4, <3>1, OutsideFrame DEF Preflight
  <2>. QED BY <2>1 DEF ReleaseInv
<1>5. CASE SetUpEnvironment
  <2>1. runs' = runs /\ setup' = setup
    BY <1>5, OutsideFrame
  <2>2. SceneInv => setup.environment \in {"none", "create", "full"}
    BY DEF SceneInv
  <2>3. /\ phase = "built" /\ phase' \in {"walking", "leaving"}
        /\ container' = container \/ (container' \in {"up", "unknown"} /\ setup.environment # "none"
                                     /\ phase' = "walking")
    BY <1>5 DEF SetUpEnvironment
  <2>. QED BY <2>1, <2>2, <2>3 DEF ReleaseInv
<1>6. CASE CloseBackend
  BY <1>6, OutsideFrame DEF ReleaseInv, CloseBackend
<1>7. CASE DestroyEnvironment
  BY <1>7, OutsideFrame DEF ReleaseInv, DestroyEnvironment, Destroy
<1>8. CASE CleanUpSource
  BY <1>8, OutsideFrame DEF ReleaseInv, CleanUpSource
<1>. QED BY <1>1, <1>2, <1>3, <1>4, <1>5, <1>6, <1>7, <1>8, NextCases

\* However a run ends, refused, failed, cancelled or completed, its source is
\* released, its client closed and its container destroyed, or that was tried
\* (PipelineOrchestrator.execute and its finally).
THEOREM Released == Spec => []ReleasedAtEnd
<1>1. ReleaseInv => ReleasedAtEnd
  BY DEF ReleaseInv, ReleasedAtEnd
<1>. QED BY <1>1, ReleaseInit, ReleaseStep, SceneCorrect, PTL DEF Spec

----------------------------------------------------------------------------
(* What a step does to the call of its line                                  *)

Ready(c) == c.state \in {"choosing", "sent"}

CallFields == {"state", "node", "run", "model", "worker", "fidelity", "key", "provider",
               "agent", "answer", "replay", "preamble"}

\* c is the call of node id that line l makes up in this step.
MadeUp(l, id, c) ==
    /\ DOMAIN c = CallFields /\ Ready(c) /\ c.node = id /\ c.run = runs' /\ c.answer = context[l].answer
    /\ c.key = ThreadKey(l, id)
    /\ c.replay = IF c.fidelity = "full" THEN backend[l].transcripts[ThreadKey(l, id)] ELSE <<>>

CallsType == call = [l \in Lines |-> call[l]]

OnlyCall(l) == call' = [call EXCEPT ![l] = call'[l]]

\* The backend refuses or its worker is called.
Proceeds(l, id) ==
    /\ OnlyCall(l) /\ backend' = backend
    /\ \/ call'[l] = Idle /\ (context' = context \/ HearAnswer(l))
       \/ MadeUp(l, id, call'[l]) /\ HearAnswer(l)

LEMMA CallMade ==
    ASSUME NEW l, NEW id, NEW state \in {"choosing", "sent"}, NEW model, NEW worker
    PROVE  MadeUp(l, id, Call(l, id, state, model, worker))
BY DEF MadeUp, Ready, Call, CallFields

LEMMA RefuseEffect ==
    ASSUME NEW l \in Lines, NEW id, NEW why, CallsType, Refuse(l, id, why)
    PROVE  OnlyCall(l) /\ call'[l] = Idle /\ backend' = backend
BY DEF Refuse, CallsType, OnlyCall

LEMMA SendEffect ==
    ASSUME NEW l \in Lines, NEW id, NEW model, NEW worker, CallsType,
           Send(l, id, model, worker)
    PROVE  OnlyCall(l) /\ backend' = backend /\ MadeUp(l, id, call'[l])
<1>. DEFINE c == Call(l, id, "sent", model, worker)
<1>1. call' = [call EXCEPT ![l] = c] /\ backend' = backend
  BY DEF Send
<1>2. MadeUp(l, id, c)
  BY CallMade
<1>. HIDE DEF c
<1>. QED BY <1>1, <1>2 DEF CallsType, OnlyCall

LEMMA SendDirectEffect ==
    ASSUME NEW l \in Lines, NEW id, CallsType, SendDirect(l, id)
    PROVE  OnlyCall(l) /\ backend' = backend /\ MadeUp(l, id, call'[l])
<1>. DEFINE c == Call(l, id, "choosing", 0, "llm-direct")
<1>1. CASE \E model : Send(l, id, model, "llm-direct")
  BY <1>1, SendEffect
<1>2. CASE call' = [call EXCEPT ![l] = c] /\ backend' = backend
  <2>1. MadeUp(l, id, c)
    BY CallMade
  <2>. HIDE DEF c
  <2>. QED BY <1>2, <2>1 DEF CallsType, OnlyCall
<1>. QED BY <1>1, <1>2 DEF SendDirect

LEMMA ProceedEffect ==
    ASSUME NEW l \in Lines, NEW id, NEW model, CallsType, Proceed(l, id, model)
    PROVE  Proceeds(l, id)
<1>1. \/ \E why : Refuse(l, id, why) /\ (context' = context \/ HearAnswer(l))
      \/ SendDirect(l, id) /\ HearAnswer(l)
      \/ \E worker : Send(l, id, model, worker) /\ HearAnswer(l)
  BY DEF Proceed
<1>. QED BY <1>1, RefuseEffect, SendDirectEffect, SendEffect DEF Proceeds

\* A node begins.
LEMMA BeginEffect ==
    ASSUME NEW l \in Lines, CallsType, ExecuteNode(l)
    PROVE  /\ call[l].state = "idle" /\ runs' = runs + 1
           /\ zombies' = zombies /\ UNCHANGED <<phase, live, answers, runVars>>
           /\ Walking(l) /\ Heard(l)
           /\ \E id \in LlmNodes :
                 \/ Proceeds(l, id)
                 \/ /\ OnlyCall(l) /\ UNCHANGED <<backend, context>>
                    /\ call'[l] = [state |-> "resolving", node |-> id]
<1>1. /\ UNCHANGED <<phase, live, answers, runVars>> /\ Walking(l) /\ Heard(l)
      /\ \E id \in LlmNodes : NoBackend(l, id) \/ Begin(l, id)
  BY DEF ExecuteNode, Same
<1>2. PICK id \in LlmNodes : NoBackend(l, id) \/ Begin(l, id)
  BY <1>1
<1>3. CASE NoBackend(l, id)
  BY <1>1, <1>3, RefuseEffect DEF NoBackend, Proceeds
<1>4. CASE Begin(l, id)
  <2>1. call[l].state = "idle" /\ runs' = runs + 1 /\ zombies' = zombies
    BY <1>4 DEF Begin
  <2>2. \/ \E model : Proceed(l, id, model)
        \/ Refuse(l, id, "resolve") /\ UNCHANGED context
        \/ /\ call' = [call EXCEPT ![l] = [state |-> "resolving", node |-> id]]
           /\ UNCHANGED <<backend, context>>
    BY <1>4 DEF Begin
  <2>3. CASE \E model : Proceed(l, id, model)
    BY <1>1, <2>1, <2>3, ProceedEffect
  <2>4. CASE Refuse(l, id, "resolve") /\ UNCHANGED context
    BY <1>1, <2>1, <2>4, RefuseEffect DEF Proceeds
  <2>5. CASE /\ call' = [call EXCEPT ![l] = [state |-> "resolving", node |-> id]]
             /\ UNCHANGED <<backend, context>>
    BY <1>1, <2>1, <2>5 DEF CallsType, OnlyCall
  <2>. QED BY <2>2, <2>3, <2>4, <2>5
<1>. QED BY <1>2, <1>3, <1>4

ChosenCall(l) == [call[l] EXCEPT !.state = "sent", !.model = served]

\* The list of a provider comes back to the backend or to the direct worker.
LEMMA ResolvedEffect ==
    ASSUME NEW l \in Lines, CallsType, ModelResolved(l)
    PROVE  /\ runs' = runs /\ zombies' = zombies /\ UNCHANGED <<phase, live, answers, runVars>>
           /\ Walking(l) /\ Heard(l)
           /\ \/ call[l].state = "resolving" /\ Proceeds(l, call[l].node)
              \/ /\ call[l].state = "choosing" /\ UNCHANGED <<backend, context>> /\ OnlyCall(l)
                 /\ \/ call'[l] = Idle
                    \/ call'[l] = ChosenCall(l)
<1>1. /\ UNCHANGED <<phase, live, answers, runVars>> /\ Walking(l) /\ Heard(l)
      /\ Resolved(l) \/ Chosen(l)
  BY DEF ModelResolved, Same
<1>2. CASE Resolved(l)
  <2>1. call[l].state = "resolving" /\ UNCHANGED <<zombies, runs>>
    BY <1>2 DEF Resolved
  <2>2. \/ Proceed(l, call[l].node, served)
        \/ Refuse(l, call[l].node, "resolve") /\ UNCHANGED context
    BY <1>2 DEF Resolved
  <2>. QED BY <1>1, <2>1, <2>2, ProceedEffect, RefuseEffect DEF Proceeds
<1>3. CASE Chosen(l)
  <2>1. call[l].state = "choosing" /\ UNCHANGED <<context, zombies, runs>>
    BY <1>3 DEF Chosen
  <2>2. \/ /\ call' = [call EXCEPT ![l] = ChosenCall(l)]
           /\ UNCHANGED backend
        \/ Refuse(l, call[l].node, "resolve")
    BY <1>3 DEF Chosen, CallsType, ChosenCall
  <2>. QED BY <1>1, <2>1, <2>2, RefuseEffect DEF CallsType, OnlyCall
<1>. QED BY <1>1, <1>2, <1>3

\* Both, in short.
LEMMA LineEffect ==
    ASSUME NEW l \in Lines, CallsType, ExecuteNode(l) \/ ModelResolved(l)
    PROVE  /\ UNCHANGED <<phase, live, answers>> /\ Walking(l) /\ Heard(l) /\ zombies' = zombies
           /\ OnlyCall(l) /\ backend' = backend
           /\ \/ \E id : Proceeds(l, id)
              \/ context' = context /\ (call[l].state = "choosing" \/ ~Ready(call'[l]))
<1>1. CASE ExecuteNode(l)
  <2>1. /\ UNCHANGED <<phase, live, answers>> /\ Walking(l) /\ Heard(l) /\ zombies' = zombies
    BY <1>1, BeginEffect
  <2>2. PICK id \in LlmNodes : \/ Proceeds(l, id)
                              \/ /\ OnlyCall(l) /\ UNCHANGED <<backend, context>>
                                 /\ call'[l] = [state |-> "resolving", node |-> id]
    BY <1>1, BeginEffect
  <2>3. [state |-> "resolving", node |-> id].state \notin {"choosing", "sent"}
    OBVIOUS
  <2>4. OnlyCall(l) /\ backend' = backend
    BY <2>2 DEF Proceeds
  <2>. QED BY <2>1, <2>2, <2>3, <2>4 DEF Ready
<1>2. CASE ModelResolved(l)
  <2>1. /\ UNCHANGED <<phase, live, answers>> /\ Walking(l) /\ Heard(l) /\ zombies' = zombies
    BY <1>2, ResolvedEffect
  <2>2. \/ Proceeds(l, call[l].node)
        \/ call[l].state = "choosing" /\ UNCHANGED <<backend, context>> /\ OnlyCall(l)
    BY <1>2, ResolvedEffect
  <2>3. OnlyCall(l) /\ backend' = backend
    BY <2>2 DEF Proceeds
  <2>. QED BY <2>1, <2>2, <2>3
<1>. QED BY <1>1, <1>2

----------------------------------------------------------------------------
(* Answers                                                                   *)

\* What stands in a context has not been heard on its line.
AnswerInv ==
    /\ context \in [Lines -> [answer: Nat, cap: BOOLEAN]]
    /\ answers \in Nat
    /\ \A l \in Lines : context[l].answer <= answers
    /\ \A h \in heard :
          /\ h[1] \in live /\ h[2] \in 1..answers
          /\ h[2] # context[h[1]].answer
    /\ AnswerHeardOnce

LEMMA CallsInit == Init => CallsType
BY DEF Init, CallsType

LEMMA CallsStep == CallsType /\ [Next]_vars => CallsType'
<1>. SUFFICES ASSUME CallsType, [Next]_vars PROVE CallsType'
  OBVIOUS
<1>1. CASE \E l \in Lines : ExecuteNode(l) \/ ModelResolved(l)
  <2>. PICK l \in Lines : ExecuteNode(l) \/ ModelResolved(l)
    BY <1>1
  <2>1. OnlyCall(l)
    BY LineEffect DEF Proceeds
  <2>. QED BY <2>1 DEF OnlyCall, CallsType
<1>2. CASE \E l \in Lines : WorkerReturns(l) \/ EngineGivesUp(l)
  BY <1>2 DEF WorkerReturns, EngineGivesUp, Return, GiveUp, CallsType
<1>3. CASE LateReturn \/ ListChanges
  BY <1>3 DEF LateReturn, ListChanges, ZombieReturns, NewModelServed, CallsType
<1>4. CASE HumanAnswers \/ HopEnds \/ FanOut \/ Join \/ EngineEnds
  BY <1>4 DEF HumanAnswers, HopEnds, FanOut, Join, EngineEnds, CallsType
<1>5. CASE UNCHANGED call
  BY <1>5 DEF CallsType
<1>. QED BY <1>1, <1>2, <1>3, <1>4, <1>5, NextCases, OutsideFrame DEF Walk, vars

LEMMA HeardEffect ==
    ASSUME NEW l, Heard(l)
    PROVE  \/ heard' = heard
           \/ /\ heard' = heard \cup {<<l, call'[l].answer, call'[l].run>>}
              /\ Ready(call'[l]) /\ call[l].state # "choosing" /\ call'[l].answer # 0
BY DEF Heard, Ready

\* A step of line l leaves its answer alone, drops it or puts it into a call.
LEMMA AnswerMoves ==
    ASSUME AnswerInv, NEW l \in Lines, l \in live, live' = live, answers' = answers,
           \/ context' = context /\ heard' = heard
           \/ /\ context' = [context EXCEPT ![l].answer = 0]
              /\ \/ heard' = heard
                 \/ /\ context[l].answer # 0
                    /\ \E r : heard' = heard \cup {<<l, context[l].answer, r>>}
    PROVE  AnswerInv'
<1>1. CASE context' = context /\ heard' = heard
  BY <1>1 DEF AnswerInv, AnswerHeardOnce
<1>2. CASE context' = [context EXCEPT ![l].answer = 0]
  <2>1. /\ context' \in [Lines -> [answer: Nat, cap: BOOLEAN]]
        /\ context'[l].answer = 0
        /\ \A m \in Lines : m # l => context'[m] = context[m]
        /\ \A m \in Lines : context'[m].answer <= answers'
    BY <1>2 DEF AnswerInv
  <2>2. \A h \in heard : h[2] \in 1..answers' /\ h[2] # context'[h[1]].answer
    <3>. SUFFICES ASSUME NEW h \in heard
                  PROVE  h[2] \in 1..answers' /\ h[2] # context'[h[1]].answer
      OBVIOUS
    <3>1. h[2] \in 1..answers /\ h[2] # context[h[1]].answer
      BY DEF AnswerInv
    <3>2. CASE h[1] = l
      BY <2>1, <3>1, <3>2 DEF AnswerInv
    <3>3. CASE h[1] # l
      <4>1. context'[h[1]] = context[h[1]]
        BY <1>2, <3>3 DEF AnswerInv
      <4>. QED BY <3>1, <4>1
    <3>. QED BY <3>2, <3>3
  <2>3. CASE heard' = heard
    BY <2>1, <2>2, <2>3 DEF AnswerInv, AnswerHeardOnce
  <2>4. CASE /\ context[l].answer # 0
             /\ \E r : heard' = heard \cup {<<l, context[l].answer, r>>}
    <3>1. PICK r : heard' = heard \cup {<<l, context[l].answer, r>>}
      BY <2>4
    <3>2. context[l].answer \in 1..answers
      BY <2>4 DEF AnswerInv
    <3>3. \A h \in heard : h[1] = l => h[2] # context[l].answer
      BY DEF AnswerInv
    <3>4. AnswerHeardOnce'
      BY <3>1, <3>3 DEF AnswerHeardOnce, AnswerInv
    <3>5. \A h \in heard' : /\ h[1] \in live' /\ h[2] \in 1..answers'
                            /\ h[2] # context'[h[1]].answer
      BY <2>1, <2>2, <3>1, <3>2 DEF AnswerInv
    <3>. QED BY <2>1, <3>4, <3>5 DEF AnswerInv
  <2>. QED BY <1>2, <2>3, <2>4
<1>. QED BY <1>1, <1>2

LEMMA AnswerInit == Init => AnswerInv
<1>. SUFFICES ASSUME Init PROVE AnswerInv
  OBVIOUS
<1>1. setup.resumed \in BOOLEAN
  BY SceneInit DEF SceneInv
<1>2. context = [l \in Lines |-> [answer |-> 0, cap |-> setup.resumed]] /\ answers = 0
      /\ heard = {}
  BY DEF Init
<1>. QED BY <1>1, <1>2 DEF AnswerInv, AnswerHeardOnce

LEMMA AnswerStep == SceneInv /\ CallsType /\ AnswerInv /\ [Next]_vars => AnswerInv'
<1>. SUFFICES ASSUME SceneInv, CallsType, AnswerInv, [Next]_vars PROVE AnswerInv'
  OBVIOUS
<1>1. CASE UNCHANGED <<context, heard, answers, live>>
  BY <1>1 DEF AnswerInv, AnswerHeardOnce
<1>2. ASSUME NEW l \in Lines, ExecuteNode(l) \/ ModelResolved(l) PROVE AnswerInv'
  <2>1. l \in live /\ live' = live /\ answers' = answers /\ Heard(l)
    BY <1>2, LineEffect DEF Walking
  <2>2. \/ \E id : Proceeds(l, id)
        \/ context' = context /\ (call[l].state = "choosing" \/ ~Ready(call'[l]))
    BY <1>2, LineEffect
  <2>3. CASE context' = context /\ (call[l].state = "choosing" \/ ~Ready(call'[l]))
    BY <2>1, <2>3, HeardEffect, AnswerMoves
  <2>4. ASSUME NEW id, Proceeds(l, id) PROVE AnswerInv'
    <3>1. CASE call'[l] = Idle
      <4>1. heard' = heard
        BY <2>1, <3>1, HeardEffect DEF Ready, Idle
      <4>. QED BY <2>1, <2>4, <3>1, <4>1, AnswerMoves DEF Proceeds, HearAnswer, MadeUp
    <3>2. CASE MadeUp(l, id, call'[l]) /\ HearAnswer(l)
      <4>1. \/ heard' = heard
            \/ /\ heard' = heard \cup {<<l, context[l].answer, call'[l].run>>}
               /\ context[l].answer # 0
        BY <2>1, <3>2, HeardEffect DEF MadeUp
      <4>. QED BY <2>1, <3>2, <4>1, AnswerMoves DEF HearAnswer
    <3>. QED BY <2>4, <3>1, <3>2 DEF Proceeds
  <2>. QED BY <2>2, <2>3, <2>4
<1>3. CASE HumanAnswers
  <2>1. /\ context' = [context EXCEPT !["main"].answer = answers'] /\ answers' = answers + 1
        /\ heard' = heard /\ live' = live /\ live = {"main"} /\ "main" \in Lines
    BY <1>3 DEF HumanAnswers, SceneInv
  <2>2. /\ context' \in [Lines -> [answer: Nat, cap: BOOLEAN]]
        /\ context'["main"].answer = answers + 1
        /\ \A m \in Lines : context'[m].answer <= answers'
    BY <2>1 DEF AnswerInv
  <2>3. \A h \in heard : h[1] = "main" /\ h[2] \in 1..answers
    BY <2>1 DEF AnswerInv
  <2>. QED BY <2>1, <2>2, <2>3 DEF AnswerInv, AnswerHeardOnce
<1>4. CASE HopEnds
  <2>1. /\ context' = [l \in Lines |-> [context[l] EXCEPT !.cap = FALSE]]
        /\ UNCHANGED <<answers, live, heard>>
    BY <1>4 DEF HopEnds
  <2>2. /\ context' \in [Lines -> [answer: Nat, cap: BOOLEAN]]
        /\ \A m \in Lines : context'[m].answer = context[m].answer
    BY <2>1 DEF AnswerInv
  <2>3. live \subseteq Lines
    BY DEF SceneInv
  <2>. QED BY <2>1, <2>2, <2>3 DEF AnswerInv, AnswerHeardOnce
<1>5. CASE FanOut
  <2>1. /\ live = {"main"} /\ live' = Lines /\ "main" \in Lines
        /\ context' = [l \in Lines |-> context["main"]] /\ UNCHANGED <<answers, heard>>
    BY <1>5 DEF FanOut, SceneInv
  <2>. QED BY <2>1 DEF AnswerInv, AnswerHeardOnce
<1>6. CASE Join
  <2>1. /\ live' = {"main"} /\ "main" \in Lines /\ heard' = {h \in heard : h[1] = "main"}
        /\ context' = [l \in Lines |-> context["main"]] /\ answers' = answers
    BY <1>6 DEF Join, SceneInv
  <2>. QED BY <2>1 DEF AnswerInv, AnswerHeardOnce
<1>7. CASE \/ \E l \in Lines : WorkerReturns(l) \/ EngineGivesUp(l)
           \/ LateReturn \/ ListChanges \/ EngineEnds
  <2>1. CASE \E l \in Lines : WorkerReturns(l) \/ EngineGivesUp(l)
    BY <1>1, <2>1 DEF WorkerReturns, EngineGivesUp, Return, GiveUp, Same
  <2>2. CASE LateReturn \/ ListChanges \/ EngineEnds
    BY <1>1, <2>2 DEF LateReturn, ListChanges, EngineEnds, ZombieReturns, NewModelServed, Same
  <2>. QED BY <1>7, <2>1, <2>2
<1>. QED BY <1>1, <1>2, <1>3, <1>4, <1>5, <1>6, <1>7, NextCases, OutsideFrame
         DEF Walk, vars

\* Along one line no answer of a human goes into two instructions, whether its node
\* is refused, retried, given up or fanned out (AmplifierBackend.run, "consume-once").
THEOREM AnswerOnce == Spec => []AnswerHeardOnce
<1>1. Init => SceneInv /\ CallsType /\ AnswerInv
  BY SceneInit, CallsInit, AnswerInit
<1>2. /\ SceneInv /\ CallsType /\ AnswerInv /\ [Next]_vars
      => (SceneInv /\ CallsType /\ AnswerInv)'
  BY SceneStep, CallsStep, AnswerStep
<1>3. AnswerInv => AnswerHeardOnce
  BY DEF AnswerInv
<1>. QED BY <1>1, <1>2, <1>3, PTL DEF Spec

----------------------------------------------------------------------------
(* Conversations                                                             *)

Turns == [line: Lines, node: Threads, run: Nat, answer: Nat]

\* A thread of line l: its own turns, a node once, in order.
Orderly(l, turns) ==
    \A i \in DOMAIN turns :
        /\ turns[i].line = l /\ turns[i].run <= runs
        /\ \A j \in DOMAIN turns : i < j =>
              /\ turns[i].node # turns[j].node
              /\ ~setup.stubborn => turns[i].run < turns[j].run

Conversation(l) ==
    /\ backend[l].last \in ThreadOrNone
    /\ backend[l].transcripts \in [Threads -> Seq(Turns)]
    /\ \A t \in Threads : Orderly(l, backend[l].transcripts[t])

InFlight(l, c) ==
    /\ DOMAIN c = CallFields /\ c.node \in Threads /\ c.key \in Threads /\ c.answer \in Nat
    /\ c.run \in Nat /\ c.run <= runs
    /\ \A i \in DOMAIN c.replay : c.replay[i].line = l

\* The node a line is at began after everything its threads hold.
Ahead(l, turns) ==
    \A i \in DOMAIN turns :
        /\ Ready(call[l]) => turns[i].run < call[l].run
        /\ call[l].state = "resolving" => turns[i].run < runs

Flight(l) ==
    /\ call[l].state \in {"idle", "resolving", "choosing", "sent"}
    /\ call[l].state # "idle" => call[l].node \in DOMAIN graph.at
    /\ Ready(call[l]) => InFlight(l, call[l])
    /\ ~setup.stubborn => \A t \in Threads : Ahead(l, backend[l].transcripts[t])

ThreadInv ==
    /\ runs \in Nat
    /\ backend = [l \in Lines |-> backend[l]]
    /\ \A l \in Lines : Conversation(l) /\ Flight(l)
    /\ \A z \in zombies : z.line \in Lines /\ InFlight(z.line, z.call)
    /\ zombies # {} => setup.stubborn

LEMMA LeastIndex ==
    ASSUME NEW S, S \subseteq Nat, S # {}
    PROVE  \E i \in S : \A j \in S : i <= j
<1>. DEFINE R == OpToRel(<, Nat)
<1>1. IsWellFoundedOn(R, Nat)
  BY NatLessThanWellFounded, Zenon
<1>2. R = {ss \in Nat \X Nat : ss[1] < ss[2]}
  BY Zenon DEF OpToRel
<1>. HIDE DEF R
<1>3. PICK i \in S : \A j \in S : ~(<<j, i>> \in R)
  BY <1>1, WFMin
<1>4. ASSUME NEW j \in S PROVE i <= j
  <2>1. <<j, i>> \notin R
    BY <1>3
  <2>2. ~(j < i)
    BY <2>1, <1>2
  <2>. QED BY <2>2
<1>. QED BY <1>4

\* _append_to_transcript keeps what came before the node's own first turn.
LEMMA BeforeKeeps ==
    ASSUME NEW turns \in Seq(Turns), NEW id
    PROVE  \E m \in 0..Len(turns) :
              /\ Before(turns, id) = SubSeq(turns, 1, m)
              /\ \A i \in 1..m : turns[i].node # id
<1>. DEFINE own == {i \in DOMAIN turns : turns[i].node = id}
<1>1. CASE own = {}
  <2>1. Before(turns, id) = SubSeq(turns, 1, Len(turns))
    BY <1>1 DEF Before
  <2>2. \A i \in 1..Len(turns) : turns[i].node # id
    BY <1>1
  <2>. QED BY <2>1, <2>2
<1>2. CASE own # {}
  <2>. DEFINE first == CHOOSE i \in own : \A j \in own : i <= j
  <2>1. own \subseteq Nat /\ own \subseteq 1..Len(turns)
    OBVIOUS
  <2>2. first \in own /\ \A j \in own : first <= j
    BY <1>2, <2>1, LeastIndex
  <2>3. Before(turns, id) = SubSeq(turns, 1, first - 1)
    BY <1>2 DEF Before
  <2>. HIDE DEF first
  <2>4. first - 1 \in 0..Len(turns) /\ first \in Nat
    BY <2>1, <2>2
  <2>5. \A i \in 1..(first - 1) : turns[i].node # id
    <3>. SUFFICES ASSUME NEW i \in 1..(first - 1), turns[i].node = id PROVE FALSE
      OBVIOUS
    <3>1. i \in own
      BY <2>4
    <3>2. i \in Nat /\ i < first
      BY <2>4
    <3>. QED BY <2>2, <2>4, <3>1, <3>2
  <2>. QED BY <2>3, <2>4, <2>5
<1>. QED BY <1>1, <1>2

LEMMA RetellKeeps ==
    ASSUME NEW turns \in Seq(Turns), NEW turn \in Turns
    PROVE  /\ Retell(turns, turn) \in Seq(Turns)
           /\ \E m \in 0..Len(turns) :
                 /\ Len(Retell(turns, turn)) = m + 1
                 /\ Retell(turns, turn)[m + 1] = turn
                 /\ \A i \in 1..m : /\ Retell(turns, turn)[i] = turns[i]
                                    /\ turns[i].node # turn.node
<1>1. PICK m \in 0..Len(turns) : /\ Before(turns, turn.node) = SubSeq(turns, 1, m)
                                 /\ \A i \in 1..m : turns[i].node # turn.node
  BY BeforeKeeps
<1>2. Retell(turns, turn) = Append(SubSeq(turns, 1, m), turn)
  BY <1>1 DEF Retell
<1>3. /\ SubSeq(turns, 1, m) \in Seq(Turns) /\ Len(SubSeq(turns, 1, m)) = m
      /\ \A i \in 1..m : SubSeq(turns, 1, m)[i] = turns[i]
  OBVIOUS
<1>. HIDE <1>1
<1>. QED BY <1>1, <1>2, <1>3

LEMMA ThreadKeyType ==
    ASSUME SceneInv, NEW l, NEW id \in DOMAIN graph.at, backend[l].last \in ThreadOrNone
    PROVE  ThreadKey(l, id) \in Threads
<1>1. /\ graph.at[id].thread \in ThreadOrNone /\ graph.default_thread \in ThreadOrNone
      /\ id \in Threads
  BY DEF SceneInv
<1>2. \A x : x \in ThreadOrNone /\ x # "" => x \in Threads
  BY Zenon DEF ThreadOrNone
<1>. QED BY <1>1, <1>2, Zenon DEF ThreadKey, OrElse


LEMMA TurnsTyped ==
    ASSUME NEW turns \in Seq(Turns), NEW i \in DOMAIN turns
    PROVE  turns[i].run \in Nat
<1>1. turns[i] \in Turns
  OBVIOUS
<1>. QED BY <1>1 DEF Turns

\* What no step touches stays true while nodes begin.
LEMMA ConversationStays ==
    ASSUME NEW l, Conversation(l), runs \in Nat, runs' \in Nat, runs <= runs',
           setup' = setup, backend'[l] = backend[l]
    PROVE  Conversation(l)'
<1>1. ASSUME NEW t \in Threads PROVE Orderly(l, backend[l].transcripts[t])'
  <2>. DEFINE turns == backend[l].transcripts[t]
  <2>1. turns \in Seq(Turns) /\ Orderly(l, turns)
    BY DEF Conversation
  <2>2. turns' = turns
    OBVIOUS
  <2>3. \A i \in DOMAIN turns : turns[i].run \in Nat
    BY <2>1, TurnsTyped
  <2>. HIDE DEF turns
  <2>. QED BY <2>1, <2>2, <2>3 DEF Orderly, turns
<1>. QED BY <1>1 DEF Conversation

LEMMA FlightStays ==
    ASSUME NEW l, Conversation(l), Flight(l), runs \in Nat, runs' \in Nat, runs <= runs',
           setup' = setup, DOMAIN graph'.at = DOMAIN graph.at,
           backend'[l] = backend[l], call'[l] = call[l]
    PROVE  Flight(l)'
<1>1. Ready(call[l])' => InFlight(l, call[l])'
  <2>1. Ready(call[l])' => InFlight(l, call[l])
    BY DEF Flight, Ready
  <2>. QED BY <2>1 DEF InFlight
<1>2. ASSUME ~setup.stubborn, NEW t \in Threads PROVE Ahead(l, backend[l].transcripts[t])'
  <2>. DEFINE turns == backend[l].transcripts[t]
  <2>1. turns \in Seq(Turns) /\ Ahead(l, turns)
    BY <1>2 DEF Conversation, Flight
  <2>2. turns' = turns
    OBVIOUS
  <2>3. \A i \in DOMAIN turns : turns[i].run \in Nat
    BY <2>1, TurnsTyped
  <2>. HIDE DEF turns
  <2>. QED BY <2>1, <2>2, <2>3 DEF Ahead, turns, Ready
<1>3. call'[l].state \in {"idle", "resolving", "choosing", "sent"}
      /\ (call'[l].state # "idle" => call'[l].node \in DOMAIN graph'.at)
  BY DEF Flight
<1>. QED BY <1>1, <1>2, <1>3 DEF Flight

\* A line that walks no more, or whose node has returned.
LEMMA FlightOver ==
    ASSUME NEW l, call'[l] = Idle
    PROVE  Flight(l)'
<1>1. call'[l].state = "idle"
  BY DEF Idle
<1>. QED BY <1>1 DEF Flight, Ready, Ahead

\* A clone begins with nothing.
LEMMA FreshThreads ==
    ASSUME NEW l, NEW b, b = Fresh
    PROVE  /\ b.last \in ThreadOrNone /\ b.transcripts \in [Threads -> Seq(Turns)]
           /\ \A t \in Threads : b.transcripts[t] = <<>>
<1>1. Fresh.last \in ThreadOrNone
  BY Zenon DEF Fresh, ThreadOrNone
<1>2. Fresh.transcripts = EmptyThreads
  BY Zenon DEF Fresh
<1>3. /\ EmptyThreads \in [Threads -> Seq(Turns)]
      /\ \A t \in Threads : EmptyThreads[t] = <<>>
  BY DEF EmptyThreads
<1>. QED BY <1>1, <1>2, <1>3

LEMMA FreshConversation ==
    ASSUME NEW l, backend'[l] = Fresh
    PROVE  Conversation(l)'
<1>1. /\ backend'[l].last \in ThreadOrNone
      /\ backend'[l].transcripts \in [Threads -> Seq(Turns)]
      /\ \A t \in Threads : backend'[l].transcripts[t] = <<>>
  BY FreshThreads
<1>2. \A t \in Threads : Orderly(l, backend[l].transcripts[t])'
  BY <1>1 DEF Orderly
<1>. QED BY <1>1, <1>2 DEF Conversation

LEMMA FreshFlight ==
    ASSUME NEW l, Flight(l), backend'[l] = Fresh, runs' = runs, setup' = setup, graph' = graph,
           call'[l] = call[l]
    PROVE  Flight(l)'
<1>1. \A t \in Threads : backend'[l].transcripts[t] = <<>>
  BY FreshThreads
<1>2. \A t \in Threads : Ahead(l, backend[l].transcripts[t])'
  BY <1>1 DEF Ahead
<1>3. Ready(call[l])' => InFlight(l, call[l])'
  <2>1. Ready(call[l])' => InFlight(l, call[l])
    BY DEF Flight, Ready
  <2>. QED BY <2>1 DEF InFlight
<1>. QED BY <1>2, <1>3 DEF Flight

\* What a call leaves on its thread.
LEMMA RecordEffect ==
    ASSUME NEW l \in Lines, NEW c, NEW told, Record(l, c, told),
           backend = [m \in Lines |-> backend[m]]
    PROVE  /\ backend' = [m \in Lines |-> backend'[m]]
           /\ backend'[l] = Recorded(backend[l], l, c, told)
           /\ \A m \in Lines : m # l => backend'[m] = backend[m]
<1>1. backend' = [backend EXCEPT ![l] = Recorded(backend[l], l, c, told)]
  BY DEF Record
<1>. QED BY <1>1

LEMMA RecordKeeps ==
    ASSUME NEW l \in Lines, NEW c, NEW told, Record(l, c, told), Conversation(l),
           backend = [m \in Lines |-> backend[m]],
           InFlight(l, c), UNCHANGED <<setup, runs>>,
           ~setup.stubborn => \A t \in Threads : \A i \in DOMAIN backend[l].transcripts[t] :
                                  backend[l].transcripts[t][i].run < c.run
    PROVE  Conversation(l)'
<1>. DEFINE turn == Turn(l, c)
            turns == backend[l].transcripts[c.key]
<1>1. turn \in Turns /\ turn.line = l /\ turn.node = c.node /\ turn.run = c.run
      /\ turn.run <= runs
  BY DEF InFlight, Turn, Turns
<1>2. /\ turns \in Seq(Turns) /\ Orderly(l, turns)
      /\ ~setup.stubborn => \A i \in DOMAIN turns : turns[i].run < turn.run
  BY <1>1 DEF Conversation, InFlight
<1>. DEFINE new == Recorded(backend[l], l, c, told)
<1>31. backend'[l] = new
  BY RecordEffect
<1>32. /\ new.last = c.node
      /\ \/ new.transcripts = backend[l].transcripts
         \/ new.transcripts = [backend[l].transcripts EXCEPT ![c.key] = Retell(turns, turn)]
  BY DEF Recorded
<1>. HIDE DEF new
<1>3. backend'[l].last = c.node /\ c.node \in ThreadOrNone
  <2>1. backend'[l].last = c.node
    BY <1>31, <1>32
  <2>2. c.node \in Threads
    BY DEF InFlight
  <2>. QED BY <2>1, <2>2, Zenon DEF ThreadOrNone
<1>4. \/ backend'[l].transcripts = backend[l].transcripts
      \/ backend'[l].transcripts = [backend[l].transcripts EXCEPT ![c.key] = Retell(turns, turn)]
  BY <1>31, <1>32
<1>5. c.key \in Threads
  BY DEF InFlight
<1>. HIDE DEF turn, turns
<1>6. Retell(turns, turn) \in Seq(Turns) /\ Orderly(l, Retell(turns, turn))
  <2>. DEFINE retold == Retell(turns, turn)
  <2>1. retold \in Seq(Turns)
    BY <1>1, <1>2, RetellKeeps
  <2>2. PICK m \in 0..Len(turns) :
               /\ Len(retold) = m + 1 /\ retold[m + 1] = turn
               /\ \A i \in 1..m : retold[i] = turns[i] /\ turns[i].node # turn.node
    BY <1>1, <1>2, RetellKeeps
  <2>. HIDE DEF retold
  <2>3. ASSUME NEW i \in DOMAIN retold PROVE retold[i].line = l /\ retold[i].run <= runs
    BY <1>1, <1>2, <2>1, <2>2 DEF Orderly
  <2>4. ASSUME NEW i \in DOMAIN retold, NEW j \in DOMAIN retold, i < j
        PROVE  /\ retold[i].node # retold[j].node
               /\ ~setup.stubborn => retold[i].run < retold[j].run
    <3>1. i \in 1..m /\ retold[i] = turns[i] /\ i \in DOMAIN turns
      BY <1>2, <2>1, <2>2, <2>4
    <3>2. CASE j = m + 1
      BY <1>2, <2>2, <3>1, <3>2
    <3>3. CASE j # m + 1
      <4>1. j \in 1..m /\ retold[j] = turns[j] /\ j \in DOMAIN turns
        BY <1>2, <2>1, <2>2, <3>3
      <4>. QED BY <1>2, <2>4, <3>1, <4>1 DEF Orderly
    <3>. QED BY <3>2, <3>3
  <2>5. Orderly(l, retold)
    BY <2>3, <2>4 DEF Orderly
  <2>. QED BY <2>1, <2>5 DEF retold
<1>7. ASSUME NEW t \in Threads
      PROVE  backend'[l].transcripts[t] \in Seq(Turns) /\ Orderly(l, backend'[l].transcripts[t])
  <2>1. backend[l].transcripts \in [Threads -> Seq(Turns)] /\ Orderly(l, backend[l].transcripts[t])
    BY DEF Conversation
  <2>2. \/ backend'[l].transcripts[t] = backend[l].transcripts[t]
        \/ backend'[l].transcripts[t] = Retell(turns, turn)
    BY <1>4, <1>5, <2>1
  <2>. QED BY <1>6, <2>1, <2>2
<1>8. backend'[l].transcripts \in [Threads -> Seq(Turns)]
  BY <1>4, <1>5, <1>6 DEF Conversation
<1>9. \A t \in Threads : Orderly(l, backend[l].transcripts[t])'
  BY <1>7 DEF Orderly
<1>. QED BY <1>3, <1>8, <1>9 DEF Conversation

LEMMA ThreadInit == Init => ThreadInv
<1>. SUFFICES ASSUME Init PROVE ThreadInv
  OBVIOUS
<1>1. /\ backend = [l \in Lines |-> Fresh] /\ call = [l \in Lines |-> Idle]
      /\ runs = 0 /\ zombies = {}
  BY DEF Init
<1>2. ASSUME NEW l \in Lines PROVE Conversation(l) /\ Flight(l)
  <2>1. /\ backend[l].last \in ThreadOrNone
        /\ backend[l].transcripts \in [Threads -> Seq(Turns)]
        /\ \A t \in Threads : backend[l].transcripts[t] = <<>>
    BY <1>1, FreshThreads
  <2>2. Conversation(l)
    BY <2>1 DEF Conversation, Orderly
  <2>3. Flight(l)
    BY <1>1, <2>1 DEF Flight, Ahead, Ready, Idle
  <2>. QED BY <2>2, <2>3
<1>3. backend = [l \in Lines |-> backend[l]]
  BY <1>1
<1>. QED BY <1>1, <1>2, <1>3 DEF ThreadInv

\* A node that is made up is in flight, and ahead of its thread.
LEMMA MadeUpFlies ==
    ASSUME SceneInv, AnswerInv, ThreadInv, NEW l \in Lines, NEW id \in DOMAIN graph.at,
           MadeUp(l, id, call'[l]), UNCHANGED <<backend, setup, graph>>,
           runs' \in Nat, runs <= runs',
           ~setup.stubborn =>
               \A t \in Threads : \A i \in DOMAIN backend[l].transcripts[t] :
                   backend[l].transcripts[t][i].run < runs'
    PROVE  Flight(l)'
<1>. DEFINE c == call'[l]
<1>1. /\ DOMAIN c = CallFields /\ Ready(c) /\ c.node = id /\ c.run = runs' /\ c.answer \in Nat
      /\ c.key = ThreadKey(l, id)
      /\ c.replay = IF c.fidelity = "full" THEN backend[l].transcripts[c.key] ELSE <<>>
  BY DEF MadeUp, AnswerInv
<1>2. c.key \in Threads /\ c.node \in Threads /\ Conversation(l)
  <2>1. Conversation(l)
    BY DEF ThreadInv
  <2>2. backend[l].last \in ThreadOrNone
    BY <2>1 DEF Conversation
  <2>3. id \in Threads
    BY DEF SceneInv
  <2>. QED BY <1>1, <2>1, <2>2, <2>3, ThreadKeyType
<1>3. \A i \in DOMAIN c.replay : c.replay[i].line = l
  BY <1>1, <1>2 DEF Conversation, Orderly
<1>4. InFlight(l, call[l])'
  BY <1>1, <1>2, <1>3 DEF InFlight
<1>5. call'[l].state \in {"idle", "resolving", "choosing", "sent"} /\ call'[l].state # "resolving"
      /\ call'[l].node \in DOMAIN graph'.at
  BY <1>1 DEF Ready
<1>6. ~setup.stubborn => \A t \in Threads : Ahead(l, backend[l].transcripts[t])'
  BY <1>1, <1>5 DEF Ahead
<1>. QED BY <1>4, <1>5, <1>6 DEF Flight

LEMMA ThreadStep == SceneInv /\ CallsType /\ AnswerInv /\ ThreadInv /\ [Next]_vars => ThreadInv'
<1>. SUFFICES ASSUME SceneInv, CallsType, AnswerInv, ThreadInv, [Next]_vars PROVE ThreadInv'
  OBVIOUS
<1>. USE DEF ThreadInv
<1>z. ASSUME runs' \in Nat, runs <= runs'
      PROVE  \A z \in zombies : z.line \in Lines /\ InFlight(z.line, z.call)'
  BY <1>z DEF InFlight
<1>r. runs' = runs => runs' \in Nat /\ runs <= runs'
  OBVIOUS
<1>1. CASE /\ UNCHANGED <<backend, call, zombies, runs, setup>>
           /\ DOMAIN graph'.at = DOMAIN graph.at
  <2>1. \A l \in Lines : Conversation(l)' /\ Flight(l)'
    BY <1>1, ConversationStays, FlightStays
  <2>. QED BY <1>1, <1>z, <2>1
<1>2. ASSUME NEW l \in Lines, ExecuteNode(l) \/ ModelResolved(l) PROVE ThreadInv'
  <2>1. /\ OnlyCall(l) /\ backend' = backend /\ zombies' = zombies
    BY <1>2, LineEffect
  <2>2. /\ UNCHANGED <<setup, graph>>
        /\ runs' \in Nat /\ runs <= runs'
    <3>1. CASE ExecuteNode(l)
      BY <3>1, BeginEffect DEF runVars
    <3>2. CASE ModelResolved(l)
      BY <3>2, ResolvedEffect DEF runVars
    <3>. QED BY <1>2, <3>1, <3>2
  <2>3. \A m \in Lines : Conversation(m)'
    BY <2>1, <2>2, ConversationStays
  <2>4. ASSUME NEW m \in Lines, m # l PROVE Flight(m)'
    <3>1. call'[m] = call[m]
      BY <2>1, <2>4 DEF OnlyCall, CallsType
    <3>. QED BY <2>1, <2>2, <3>1, FlightStays
  <2>5. Flight(l)'
    <3>t. \A t \in Threads : \A i \in DOMAIN backend[l].transcripts[t] :
              backend[l].transcripts[t][i].run \in Nat /\ backend[l].transcripts[t][i].run <= runs
      BY TurnsTyped DEF Conversation, Orderly
    <3>1. CASE ExecuteNode(l)
      <4>1. /\ call[l].state = "idle" /\ runs' = runs + 1
            /\ \E id \in LlmNodes :
                  \/ Proceeds(l, id)
                  \/ /\ OnlyCall(l) /\ UNCHANGED <<backend, context>>
                     /\ call'[l] = [state |-> "resolving", node |-> id]
        BY <3>1, BeginEffect
      <4>2. PICK id \in LlmNodes :
                  \/ Proceeds(l, id)
                  \/ /\ OnlyCall(l) /\ UNCHANGED <<backend, context>>
                     /\ call'[l] = [state |-> "resolving", node |-> id]
        BY <4>1
      <4>3. id \in DOMAIN graph.at
        BY DEF LlmNodes
      <4>4. \A t \in Threads : \A i \in DOMAIN backend[l].transcripts[t] :
                backend[l].transcripts[t][i].run < runs'
        BY <3>t, <4>1
      <4>5. CASE call'[l] = Idle
        BY <4>5, FlightOver
      <4>6. CASE MadeUp(l, id, call'[l])
        BY <2>1, <2>2, <4>3, <4>4, <4>6, MadeUpFlies
      <4>7. CASE call'[l] = [state |-> "resolving", node |-> id]
        <5>1. call'[l].state = "resolving" /\ call'[l].node \in DOMAIN graph'.at
          BY <2>2, <4>3, <4>7
        <5>2. \A t \in Threads : Ahead(l, backend[l].transcripts[t])'
          BY <2>1, <4>4, <5>1 DEF Ahead, Ready
        <5>. QED BY <5>1, <5>2 DEF Flight, Ready
      <4>. QED BY <4>2, <4>5, <4>6, <4>7 DEF Proceeds
    <3>2. CASE ModelResolved(l)
      <4>1. /\ runs' = runs
            /\ \/ call[l].state = "resolving" /\ Proceeds(l, call[l].node)
               \/ /\ call[l].state = "choosing" /\ UNCHANGED <<backend, context>> /\ OnlyCall(l)
                  /\ \/ call'[l] = Idle
                     \/ call'[l] = ChosenCall(l)
        BY <3>2, ResolvedEffect
      <4>2. CASE call'[l] = Idle
        BY <4>2, FlightOver
      <4>3. CASE call[l].state = "resolving" /\ MadeUp(l, call[l].node, call'[l])
        <5>1. call[l].node \in DOMAIN graph.at
          BY <4>3 DEF Flight
        <5>2. ~setup.stubborn =>
                  \A t \in Threads : \A i \in DOMAIN backend[l].transcripts[t] :
                      backend[l].transcripts[t][i].run < runs'
          BY <4>1, <4>3 DEF Flight, Ahead
        <5>. QED BY <2>1, <2>2, <4>3, <5>1, <5>2, MadeUpFlies
      <4>4. CASE call[l].state = "choosing" /\ call'[l] = ChosenCall(l)
        <5>1. /\ call[l].node \in DOMAIN graph.at /\ InFlight(l, call[l])
              /\ ~setup.stubborn => \A t \in Threads : \A i \in DOMAIN backend[l].transcripts[t] :
                     backend[l].transcripts[t][i].run < call[l].run
          BY <4>4 DEF Flight, Ahead, Ready
        <5>2. /\ call'[l].state = "sent" /\ call'[l].node = call[l].node
              /\ call'[l].key = call[l].key /\ call'[l].answer = call[l].answer
              /\ call'[l].run = call[l].run /\ call'[l].replay = call[l].replay
              /\ DOMAIN call'[l] = CallFields
          BY <4>4, <5>1 DEF ChosenCall, InFlight, CallFields
        <5>3. InFlight(l, call[l])'
          BY <2>2, <5>1, <5>2 DEF InFlight
        <5>4. ~setup.stubborn => \A t \in Threads : Ahead(l, backend[l].transcripts[t])'
          BY <2>1, <5>1, <5>2 DEF Ahead
        <5>5. call'[l].node \in DOMAIN graph'.at
          BY <2>2, <5>1, <5>2
        <5>. QED BY <2>2, <5>2, <5>3, <5>4, <5>5 DEF Flight
      <4>. QED BY <4>1, <4>2, <4>3, <4>4 DEF Proceeds
    <3>. QED BY <1>2, <3>1, <3>2
  <2>. QED BY <1>z, <2>1, <2>2, <2>3, <2>4, <2>5
<1>3. ASSUME NEW l \in Lines, WorkerReturns(l) PROVE ThreadInv'
  <2>1. PICK r \in graph.results : Return(l, r)
    BY <1>3 DEF WorkerReturns
  <2>2. /\ Record(l, call[l], Told(call[l], r)) /\ call[l].state = "sent"
        /\ call' = [call EXCEPT ![l] = Idle]
        /\ UNCHANGED <<zombies, runs, graph, setup>>
    BY <1>3, <2>1 DEF Return, WorkerReturns, Same, runVars
  <2>3. /\ backend' = [m \in Lines |-> backend'[m]]
        /\ \A m \in Lines : m # l => backend'[m] = backend[m] /\ call'[m] = call[m]
        /\ call'[l] = Idle
    <3>1. backend = [m \in Lines |-> backend[m]] /\ call = [m \in Lines |-> call[m]]
      BY DEF CallsType
    <3>2. /\ backend' = [m \in Lines |-> backend'[m]]
          /\ \A m \in Lines : m # l => backend'[m] = backend[m]
      BY <2>2, <3>1, RecordEffect
    <3>. QED BY <2>2, <3>1, <3>2
  <2>4. /\ InFlight(l, call[l]) /\ Conversation(l)
        /\ ~setup.stubborn => \A t \in Threads : \A i \in DOMAIN backend[l].transcripts[t] :
               backend[l].transcripts[t][i].run < call[l].run
    BY <2>2 DEF Flight, Ahead, Ready
  <2>5. Conversation(l)'
    BY <2>2, <2>4, RecordKeeps
  <2>6. \A m \in Lines : m # l => Conversation(m)' /\ Flight(m)'
    BY <2>2, <2>3, ConversationStays, FlightStays
  <2>7. Flight(l)'
    BY <2>3, FlightOver
  <2>. QED BY <1>z, <2>2, <2>3, <2>5, <2>6, <2>7
<1>4. ASSUME NEW l \in Lines, EngineGivesUp(l) PROVE ThreadInv'
  <2>1. /\ setup.stubborn /\ call[l].state = "sent"
        /\ zombies' = {[line |-> l, call |-> call[l]]}
        /\ call' = [call EXCEPT ![l] = Idle]
        /\ UNCHANGED <<backend, runs, graph, setup>>
    BY <1>4 DEF EngineGivesUp, GiveUp, Same, runVars
  <2>2. call'[l] = Idle /\ \A m \in Lines : m # l => call'[m] = call[m]
    BY <2>1 DEF CallsType
  <2>3. \A m \in Lines : Conversation(m)'
    BY <2>1, ConversationStays
  <2>4. \A m \in Lines : m # l => Flight(m)'
    BY <2>1, <2>2, FlightStays
  <2>5. Flight(l)'
    BY <2>2, FlightOver
  <2>6. InFlight(l, call[l])
    BY <2>1 DEF Flight, Ready
  <2>7. \A z \in zombies' : z.line \in Lines /\ InFlight(z.line, z.call)'
    BY <2>1, <2>6 DEF InFlight
  <2>. QED BY <2>1, <2>3, <2>4, <2>5, <2>7
<1>5. CASE LateReturn
  <2>1. PICK r \in graph.results, z \in zombies :
               Record(z.line, z.call, Told(z.call, r)) /\ zombies' = zombies \ {z}
    BY <1>5 DEF LateReturn, ZombieReturns
  <2>2. UNCHANGED <<call, runs, graph, setup>>
    BY <1>5 DEF LateReturn, ZombieReturns, Same, runVars
  <2>. DEFINE l == z.line
  <2>3. l \in Lines /\ InFlight(l, z.call) /\ setup.stubborn
    BY <2>1
  <2>4. Record(l, z.call, Told(z.call, r)) /\ Conversation(l)
    BY <2>1, <2>3
  <2>. HIDE DEF l
  <2>5. /\ backend' = [m \in Lines |-> backend'[m]]
        /\ \A m \in Lines : m # l => backend'[m] = backend[m]
    BY <2>3, <2>4, RecordEffect
  <2>6. Conversation(l)'
    BY <2>2, <2>3, <2>4, RecordKeeps
  <2>7. \A m \in Lines : m # l => Conversation(m)'
    BY <1>r, <2>2, <2>5, ConversationStays
  <2>8. \A m \in Lines : Flight(m)'
    <3>. SUFFICES ASSUME NEW m \in Lines PROVE Flight(m)'
      OBVIOUS
    <3>1. Flight(m)
      OBVIOUS
    <3>2. Ready(call[m])' => InFlight(m, call[m])'
      BY <2>2, <3>1 DEF Flight, Ready, InFlight
    <3>. QED BY <2>2, <2>3, <3>1, <3>2 DEF Flight
  <2>. QED BY <1>z, <2>1, <2>2, <2>3, <2>5, <2>6, <2>7, <2>8
<1>6. CASE FanOut \/ Join
  <2>1. /\ UNCHANGED <<call, runs, graph, setup>> /\ zombies' \subseteq zombies
        /\ backend' = [l \in Lines |-> IF l = "main" THEN backend[l] ELSE Fresh]
    <3>1. CASE FanOut
      BY <3>1 DEF FanOut, Clone, runVars
    <3>2. CASE Join
      BY <3>2 DEF Join, runVars
    <3>. QED BY <1>6, <3>1, <3>2
  <2>2. /\ backend' = [m \in Lines |-> backend'[m]]
        /\ \A m \in Lines : backend'[m] = backend[m] \/ backend'[m] = Fresh
    BY <2>1
  <2>3. \A m \in Lines : Conversation(m)' /\ Flight(m)'
    <3>. SUFFICES ASSUME NEW m \in Lines PROVE Conversation(m)' /\ Flight(m)'
      OBVIOUS
    <3>1. CASE backend'[m] = backend[m]
      <4>1. Conversation(m)'
        BY <1>r, <2>1, <3>1, ConversationStays
      <4>2. Flight(m)'
        BY <1>r, <2>1, <3>1, FlightStays
      <4>. QED BY <4>1, <4>2
    <3>2. CASE backend'[m] = Fresh
      BY <2>1, <3>2, FreshConversation, FreshFlight
    <3>. QED BY <2>2, <3>1, <3>2
  <2>. QED BY <1>z, <2>1, <2>2, <2>3
<1>7. CASE EngineEnds
  <2>1. /\ UNCHANGED <<backend, zombies, runs, graph, setup>>
        /\ \A l \in Lines : call'[l] = Idle
    BY <1>7 DEF EngineEnds, runVars
  <2>. QED BY <1>z, <2>1, ConversationStays, FlightOver
<1>8. CASE ListChanges \/ HumanAnswers \/ HopEnds
  <2>1. UNCHANGED <<backend, call, zombies, runs, setup, graph>>
    <3>1. CASE ListChanges
      BY <3>1 DEF ListChanges, NewModelServed, Same, runVars
    <3>2. CASE HumanAnswers \/ HopEnds
      BY <3>2 DEF HumanAnswers, HopEnds, runVars
    <3>. QED BY <1>8, <3>1, <3>2
  <2>. QED BY <1>1, <2>1
<1>9. CASE \/ ApplyTransforms \/ Preflight \/ SetUpEnvironment \/ CloseBackend
           \/ DestroyEnvironment \/ CleanUpSource
  <2>1. DOMAIN graph'.at = DOMAIN graph.at
    <3>1. CASE ApplyTransforms
      <4>1. SceneInv' /\ graph'.given = graph.given
        <5>. DEFINE styled == [id \in DOMAIN graph.given |->
                                  WithStyle(graph.rules, id, graph.given[id])]
        <5>1. graph' = [graph EXCEPT !.at = styled]
          BY <3>1, Zenon DEF ApplyTransforms
        <5>. HIDE DEF styled
        <5>2. graph'.given = graph.given
          BY <5>1 DEF SceneInv, GraphFields
        <5>. QED BY <5>2, SceneStep
      <4>2. DOMAIN graph'.at = DOMAIN graph'.given
        BY <4>1 DEF SceneInv
      <4>. QED BY <4>1, <4>2 DEF SceneInv
    <3>2. CASE Preflight \/ SetUpEnvironment \/ CloseBackend \/ DestroyEnvironment
               \/ CleanUpSource
      BY <3>2 DEF Preflight, SetUpEnvironment, CloseBackend, DestroyEnvironment, CleanUpSource
    <3>. QED BY <1>9, <3>1, <3>2
  <2>. QED BY <1>1, <1>9, <2>1, OutsideFrame
<1>10. CASE UNCHANGED vars
  BY <1>1, <1>10 DEF vars
<1>. QED BY <1>2, <1>3, <1>4, <1>5, <1>6, <1>7, <1>8, <1>9, <1>10, NextCases DEF Walk

\* Every thread of every line holds the turns of that line only, a node once and in
\* the order the nodes ran, through retries, late answers of abandoned workers,
\* fan-outs and their clones (_append_to_transcript, AmplifierBackend.clone).
THEOREM ThreadsTold == Spec => []ThreadsToldTrue
<1>1. Init => SceneInv /\ CallsType /\ AnswerInv /\ ThreadInv
  BY SceneInit, CallsInit, AnswerInit, ThreadInit
<1>2. /\ SceneInv /\ CallsType /\ AnswerInv /\ ThreadInv /\ [Next]_vars
      => (SceneInv /\ CallsType /\ AnswerInv /\ ThreadInv)'
  BY SceneStep, CallsStep, AnswerStep, ThreadStep
<1>3. ThreadInv => ThreadsToldTrue
  BY DEF ThreadInv, Conversation, Flight, Orderly, InFlight, Ready, ThreadsToldTrue,
         TurnsToldOnce, BranchesIsolated
<1>. QED BY <1>1, <1>2, <1>3, PTL DEF Spec

----------------------------------------------------------------------------
(* Verdicts                                                                  *)

VerdictInv ==
    /\ phase = "loaded" => finished = NotYet
    /\ GateNeedsVerdict


\* A refusal says why, and of which node.
LEMMA RefuseSays ==
    ASSUME NEW l, NEW id, NEW why, Refuse(l, id, why)
    PROVE  finished'.why = why /\ finished'.node = id
<1>1. DOMAIN NotYet = {"line", "node", "why", "text", "file", "outcome"}
  BY Zenon DEF NotYet
<1>2. ASSUME NEW o
      PROVE  LET f == [NotYet EXCEPT !.line = l, !.node = id, !.why = why, !.outcome = o]
             IN  f.why = why /\ f.node = id
  BY <1>1
<1>3. \A o : LET f == [NotYet EXCEPT !.line = l, !.node = id, !.why = why, !.outcome = o]
             IN  f.why = why /\ f.node = id
  BY <1>2
<1>4. finished' = [NotYet EXCEPT !.line = l, !.node = id, !.why = why,
                                 !.outcome = Outcome("fail", FALSE, FALSE)]
  BY Zenon DEF Refuse
<1>. QED BY <1>3, <1>4, Zenon

Refusals == {"none", "backend", "worker", "spawn", "profile", "unresolvable", "recursion",
             "nothing", "subscription", "model", "resolve"}

\* A worker that is not reached leaves no verdict.
LEMMA ProceedSays ==
    ASSUME NEW l, NEW id, NEW model, Proceed(l, id, model)
    PROVE  \/ finished' = finished
           \/ finished'.why \in Refusals /\ finished'.node = id
<1>. DEFINE n == graph.at[id]
<1>1. SpawnRefusal(n) \in Refusals
  BY DEF SpawnRefusal, Refusals
<1>2. DirectRefusal(n) \in Refusals
  <2>1. \/ DirectRefusal(n) = "subscription" \/ DirectRefusal(n) = "model"
        \/ DirectRefusal(n) = "none"
    BY Zenon DEF DirectRefusal
  <2>. QED BY <2>1 DEF Refusals
<1>3. SendDirect(l, id) => finished' = finished
  BY Zenon DEF SendDirect, Send
<1>4. \A worker : Send(l, id, model, worker) => finished' = finished
  BY DEF Send
<1>5. \/ \E why \in Refusals : Refuse(l, id, why)
      \/ SendDirect(l, id) \/ \E worker : Send(l, id, model, worker)
  <2>1. {"worker", "nothing"} \subseteq Refusals
    BY DEF Refusals
  <2>. HIDE DEF n
  <2>2. \/ Refuse(l, id, "worker") \/ Refuse(l, id, SpawnRefusal(n)) \/ Refuse(l, id, "nothing")
        \/ Refuse(l, id, DirectRefusal(n))
        \/ SendDirect(l, id) \/ \E worker : Send(l, id, model, worker)
    BY DEF Proceed, n
  <2>. QED BY <1>1, <1>2, <2>1, <2>2
<1>. QED BY <1>3, <1>4, <1>5, RefuseSays

\* Nor does one whose model is still looked up.
LEMMA LineSays ==
    ASSUME NEW l \in Lines, ExecuteNode(l) \/ ModelResolved(l)
    PROVE  \/ finished' = finished
           \/ finished'.why \in Refusals
<1>1. "backend" \in Refusals /\ "resolve" \in Refusals
  BY DEF Refusals
<1>2. \/ \E id : NoBackend(l, id) \/ Begin(l, id)
      \/ Resolved(l) \/ Chosen(l)
  BY DEF ExecuteNode, ModelResolved
<1>3. \/ \E id : Refuse(l, id, "backend") \/ Refuse(l, id, "resolve")
      \/ \E id, model : Proceed(l, id, model)
      \/ finished' = finished
  <2>1. CASE \E id : NoBackend(l, id)
    BY <2>1 DEF NoBackend
  <2>2. CASE \E id : Begin(l, id)
    BY <2>2 DEF Begin
  <2>3. CASE Resolved(l)
    BY <2>3 DEF Resolved
  <2>4. CASE Chosen(l)
    BY <2>4 DEF Chosen
  <2>. QED BY <1>2, <2>1, <2>2, <2>3, <2>4
<1>. QED BY <1>1, <1>3, ProceedSays, RefuseSays

\* What a gate's node is taken to have said, it said (_parse_outcome).
LEMMA ParseSaid ==
    ASSUME NEW text, NEW gate, gate = TRUE,
           IsSuccess(ParseOutcome(text, gate)), ParseOutcome(text, gate).explicit
    PROVE  ParseOutcome(text, gate).status \in Said(text)
<1>. DEFINE said == IF Whole(text) /\ text.status \in Statuses THEN text.status
                   ELSE LastObject(text)
<1>1. CASE text.form = "empty"
  BY <1>1 DEF ParseOutcome, Outcome
<1>2. CASE text.form # "empty" /\ said \in Statuses
  <2>1. ParseOutcome(text, gate) = Outcome(said, TRUE, FALSE)
    BY <1>2 DEF ParseOutcome
  <2>2. said \in Said(text)
    BY <1>2 DEF LastObject, Said, Statuses, Whole
  <2>. QED BY <2>1, <2>2 DEF Outcome
<1>3. CASE text.form # "empty" /\ said \notin Statuses
  BY <1>3 DEF ParseOutcome, Outcome, IsSuccess
<1>. QED BY <1>1, <1>2, <1>3

\* ... or wrote it into its status file (read_status_override).
LEMMA OverrideSaid ==
    ASSUME NEW file, NEW o, NEW text,
           IsSuccess(o) /\ o.explicit => o.status \in Said(text),
           IsSuccess(ReadStatusOverride(file, o)), ReadStatusOverride(file, o).explicit
    PROVE  \/ file = ReadStatusOverride(file, o).status
           \/ ReadStatusOverride(file, o).status \in Said(text)
<1>1. CASE file = "none" \/ Matches(file, o)
  BY <1>1 DEF ReadStatusOverride
<1>2. CASE ~(file = "none" \/ Matches(file, o)) /\ file = "malformed"
  BY <1>2 DEF ReadStatusOverride, Outcome, IsSuccess
<1>3. CASE ~(file = "none" \/ Matches(file, o)) /\ file # "malformed"
  BY <1>3 DEF ReadStatusOverride, Outcome
<1>. QED BY <1>1, <1>2, <1>3

LEMMA ReturnedSaid ==
    ASSUME NEW c, NEW r, ~r.broken, graph.at[c.node].goal_gate,
           IsSuccess(Returned(c, r)), Returned(c, r).explicit
    PROVE  r.file = Returned(c, r).status \/ Returned(c, r).status \in Said(r.text)
<1>. DEFINE gate == graph.at[c.node].goal_gate
<1>1. \A o : IsSuccess(o) /\ o.explicit /\ o = ParseOutcome(r.text, gate)
             => o.status \in Said(r.text)
  BY ParseSaid
<1>2. \/ Returned(c, r) = ReadStatusOverride(r.file, SpawnOutcome(r, gate))
      \/ Returned(c, r) = ReadStatusOverride(r.file, ToolLoopResult(r.text, gate))
  BY DEF Returned
<1>. HIDE DEF gate
<1>3. \/ SpawnOutcome(r, gate) = ParseOutcome(r.text, gate)
      \/ ~SpawnOutcome(r, gate).explicit
  BY DEF SpawnOutcome, Outcome
<1>4. \/ ToolLoopResult(r.text, gate) = ParseOutcome(r.text, gate)
      \/ ~ToolLoopResult(r.text, gate).explicit
  BY DEF ToolLoopResult, Outcome
<1>. QED BY <1>1, <1>2, <1>3, <1>4, OverrideSaid

LEMMA GivenUpSays ==
    ASSUME NEW l, EngineGivesUp(l)
    PROVE  finished'.why = "timeout"
<1>1. DOMAIN NotYet = {"line", "node", "why", "text", "file", "outcome"}
  BY Zenon DEF NotYet
<1>2. \A o, id : [NotYet EXCEPT !.line = l, !.node = id, !.why = "timeout",
                                !.outcome = o].why = "timeout"
  BY <1>1
<1>3. finished' = [NotYet EXCEPT !.line = l, !.node = call[l].node, !.why = "timeout",
                                 !.outcome = Outcome("fail", FALSE, FALSE)]
  BY Zenon DEF EngineGivesUp, GiveUp
<1>. QED BY <1>2, <1>3, Zenon

LEMMA VerdictInit == Init => VerdictInv
<1>1. Init => finished = NotYet
  BY DEF Init
<1>2. NotYet.why = "none"
  BY Zenon DEF NotYet
<1>. QED BY <1>1, <1>2 DEF VerdictInv, GateNeedsVerdict

LEMMA VerdictStep == VerdictInv /\ [Next]_vars => VerdictInv'
<1>. SUFFICES ASSUME VerdictInv, [Next]_vars PROVE VerdictInv'
  OBVIOUS
<1>1. CASE UNCHANGED vars
  BY <1>1 DEF vars, VerdictInv, GateNeedsVerdict
<1>2. CASE Walk
  <2>1. phase' # "loaded" /\ graph' = graph
    BY <1>2, WalkFrame DEF runVars
  <2>2. CASE finished' = finished
    BY <2>1, <2>2 DEF VerdictInv, GateNeedsVerdict
  <2>3. CASE finished'.why # "returned"
    BY <2>1, <2>3 DEF VerdictInv, GateNeedsVerdict
  <2>4. CASE \E l \in Lines : ExecuteNode(l) \/ ModelResolved(l)
    <3>1. "returned" \notin Refusals
      BY DEF Refusals
    <3>. QED BY <2>2, <2>3, <2>4, <3>1, LineSays
  <2>5. ASSUME NEW l \in Lines, WorkerReturns(l) PROVE VerdictInv'
    <3>1. PICK r \in graph.results : Return(l, r)
      BY <2>5 DEF WorkerReturns
    <3>2. /\ finished'.why = IF r.broken THEN "broken" ELSE "returned"
          /\ finished'.node = call[l].node /\ finished'.text = r.text
          /\ finished'.file = r.file /\ finished'.outcome = Returned(call[l], r)
      BY <3>1 DEF Return
    <3>. QED BY <2>1, <3>2, ReturnedSaid DEF VerdictInv, GateNeedsVerdict
  <2>6. CASE \E l \in Lines : EngineGivesUp(l)
    <3>1. finished'.why = "timeout"
      BY <2>6, GivenUpSays
    <3>. QED BY <2>3, <3>1
  <2>7. CASE LateReturn \/ ListChanges \/ HumanAnswers \/ HopEnds \/ FanOut \/ Join \/ EngineEnds
    <3>1. CASE LateReturn \/ ListChanges
      BY <2>2, <3>1 DEF LateReturn, ListChanges, ZombieReturns, NewModelServed
    <3>2. CASE HumanAnswers \/ HopEnds \/ FanOut \/ Join \/ EngineEnds
      BY <2>2, <3>2 DEF HumanAnswers, HopEnds, FanOut, Join, EngineEnds
    <3>. QED BY <2>7, <3>1, <3>2
  <2>. QED BY <1>2, <2>4, <2>5, <2>6, <2>7 DEF Walk
<1>3. CASE \/ ApplyTransforms \/ Preflight \/ SetUpEnvironment \/ CloseBackend
           \/ DestroyEnvironment \/ CleanUpSource
  <2>1. finished' = finished
    BY <1>3, OutsideFrame
  <2>2. phase' # "loaded"
    <3>1. Build => phase' # "loaded"
      BY Zenon DEF Build
    <3>. QED BY <1>3, <3>1 DEF ApplyTransforms, Preflight, SetUpEnvironment, CloseBackend,
             DestroyEnvironment, Destroy, CleanUpSource
  <2>3. CASE ApplyTransforms
    <3>1. finished = NotYet
      BY <2>3 DEF ApplyTransforms, VerdictInv
    <3>2. NotYet.why = "none"
      BY Zenon DEF NotYet
    <3>. QED BY <2>1, <2>2, <3>1, <3>2 DEF VerdictInv, GateNeedsVerdict
  <2>4. CASE graph' = graph
    BY <2>1, <2>2, <2>4 DEF VerdictInv, GateNeedsVerdict
  <2>. QED BY <1>3, <2>3, <2>4 DEF Preflight, SetUpEnvironment, CloseBackend,
           DestroyEnvironment, CleanUpSource
<1>. QED BY <1>1, <1>2, <1>3, NextCases

\* A goal gate is passed on a verdict somebody gave, never on a text that gives none
\* (_parse_outcome and read_status_override).
THEOREM GateVerdict == Spec => []GateNeedsVerdict
<1>1. VerdictInv => GateNeedsVerdict
  BY DEF VerdictInv
<1>. QED BY <1>1, VerdictInit, VerdictStep, PTL DEF Spec

----------------------------------------------------------------------------
(* Providers and models                                                      *)

Declares(n) == n.provider # ""

\* A call goes to the provider its node declares, and an agent is its profile's.
Served(c) ==
    LET n == graph.at[c.node]
    IN  Declares(n) =>
           /\ c.provider = n.provider
           /\ c.worker = "spawn" =>
                  n.provider \in DOMAIN Profiles /\ c.agent = Profiles[n.provider]

\* A refused execution is not one the preflight should have seen.
Admitted(f) ==
    f.why \in {"profile", "unresolvable"} =>
        \/ Simulated \/ ~Declares(graph.at[f.node])
        \/ graph.at[f.node].provider \in setup.mounted

ServingInv ==
    /\ phase \in {"built", "walking"} => ~ProvidersRefused
    /\ phase \in {"loaded", "styled", "built"} =>
          finished.why = "none" /\ \A l \in Lines : call[l].state = "idle"
    /\ \A l \in Lines :
          /\ call[l].state # "idle" => call[l].node \in LlmNodes
          /\ Ready(call[l]) => Served(call[l])
          /\ call[l].state = "choosing" => call[l].worker = "llm-direct"
    /\ Admitted(finished)

\* One line: what was taken is what the cache holds, and what is being looked up
\* is not in it.
PinnedInv ==
    ~graph.parallel =>
        /\ live = {"main"}
        /\ \A l \in Lines : l # "main" => call[l].state = "idle"
        /\ \A u \in used : u[1] \in DOMAIN cache /\ u = <<u[1], cache[u[1]]>>
        /\ LET c == call["main"]  n == graph.at[c.node]
           IN  /\ c.state = "resolving" => BackendKey(n) \notin DOMAIN cache
               /\ c.state = "choosing" => WorkerKey(n) \notin DOMAIN cache

KeyOf(c) ==
    IF c.worker = "spawn" THEN BackendKey(graph.at[c.node]) ELSE WorkerKey(graph.at[c.node])

\* What a call that is made up takes a model from.
Uses(c) ==
    \/ /\ c.state = "sent"
       /\ c.model = 0 \/ (KeyOf(c) \in DOMAIN cache' /\ c.model = cache'[KeyOf(c)])
    \/ /\ c.state = "choosing" /\ c.worker = "llm-direct"
       /\ WorkerKey(graph.at[c.node]) \notin DOMAIN cache'

LEMMA OrElseDeclared ==
    ASSUME NEW n, Declares(n)
    PROVE  Provider(n) = n.provider /\ WorkerProvider(n) = n.provider
BY Zenon DEF Declares, Provider, WorkerProvider, OrElse

LEMMA AdmittedFinished == AdmittedMeansServed <=> Admitted(finished)
BY Zenon DEF AdmittedMeansServed, Admitted, Declares

LEMMA PreflightPassed ==
    ASSUME ~ProvidersRefused
    PROVE  Simulated \/ \A id \in LlmNodes : Declares(graph.at[id])
                                             => Serviceable(graph.at[id].provider)
BY Zenon DEF ProvidersRefused, Declares

LEMMA CallServes ==
    ASSUME NEW l, NEW id, NEW state, NEW model, NEW worker,
           worker = "spawn" => SpawnRefusal(graph.at[id]) = "none"
    PROVE  LET c == Call(l, id, state, model, worker)
           IN  /\ c.state = state /\ c.node = id /\ c.model = model /\ c.worker = worker
               /\ Served(c)
<1>. DEFINE c == Call(l, id, state, model, worker)
            n == graph.at[id]
<1>1. /\ c.state = state /\ c.node = id /\ c.model = model /\ c.worker = worker
      /\ c.provider = IF worker = "spawn" THEN Provider(n) ELSE WorkerProvider(n)
      /\ worker = "spawn" => c.agent = ProfileOf(Provider(n))
  BY DEF Call
<1>2. ASSUME Declares(n), worker = "spawn"
      PROVE  n.provider \in DOMAIN Profiles /\ ProfileOf(n.provider) = Profiles[n.provider]
  <2>1. setup.spawn /\ ProfileOf(Provider(n)) # "none"
    BY <1>2 DEF SpawnRefusal
  <2>2. Provider(n) = n.provider
    BY <1>2, OrElseDeclared
  <2>. QED BY <2>1, <2>2 DEF ProfileOf, BackendProfiles
<1>3. Served(c)
  <2>. HIDE DEF c, n
  <2>1. ASSUME Declares(n) PROVE c.provider = n.provider
    BY <1>1, <2>1, OrElseDeclared
  <2>2. ASSUME Declares(n), c.worker = "spawn"
        PROVE  n.provider \in DOMAIN Profiles /\ c.agent = Profiles[n.provider]
    <3>1. worker = "spawn" /\ Provider(n) = n.provider
      BY <1>1, <2>2, OrElseDeclared
    <3>. QED BY <1>1, <1>2, <2>2, <3>1
  <2>3. graph.at[c.node] = n
    BY <1>1 DEF n
  <2>. QED BY <2>1, <2>2, <2>3 DEF Served
<1>. QED BY <1>1, <1>3

\* What a node that proceeds is served with.
LEMMA ProceedServes ==
    ASSUME NEW l \in Lines, NEW id, NEW model, CallsType, Proceed(l, id, model),
           \/ model = 0
           \/ /\ BackendKey(graph.at[id]) \in DOMAIN cache'
              /\ model = cache'[BackendKey(graph.at[id])]
    PROVE  \/ call'[l].state = "idle"
           \/ /\ Ready(call'[l]) /\ call'[l].node = id
              /\ Served(call'[l]) /\ Uses(call'[l])
              /\ call'[l].state = "choosing" => call'[l].worker = "llm-direct"
<1>. DEFINE n == graph.at[id]
            c == call'[l]
<1>1. ASSUME NEW m, NEW worker, Send(l, id, m, worker),
             worker = "spawn" => SpawnRefusal(n) = "none"
      PROVE  c.state = "sent" /\ c.node = id /\ c.model = m /\ c.worker = worker /\ Served(c)
  <2>1. c = Call(l, id, "sent", m, worker)
    BY <1>1 DEF Send, CallsType
  <2>. QED BY <1>1, <2>1, CallServes
<1>2. ASSUME SendDirect(l, id)
      PROVE  /\ Ready(c) /\ c.node = id /\ Served(c) /\ Uses(c)
             /\ c.state = "choosing" => c.worker = "llm-direct"
  <2>1. CASE Send(l, id, 0, "llm-direct")
    <3>1. c.state = "sent" /\ c.node = id /\ c.model = 0 /\ Served(c)
      BY <1>1, <2>1
    <3>. QED BY <3>1 DEF Ready, Uses
  <2>2. CASE WorkerKey(n) \in DOMAIN cache' /\ Send(l, id, cache'[WorkerKey(n)], "llm-direct")
    <3>1. /\ c.state = "sent" /\ c.node = id /\ c.model = cache'[WorkerKey(n)]
          /\ c.worker = "llm-direct" /\ Served(c)
      BY <1>1, <2>2
    <3>. QED BY <2>2, <3>1 DEF Ready, Uses, KeyOf
  <2>3. CASE /\ WorkerKey(n) \notin DOMAIN cache'
             /\ call' = [call EXCEPT ![l] = Call(l, id, "choosing", 0, "llm-direct")]
    <3>1. c = Call(l, id, "choosing", 0, "llm-direct")
      BY <2>3 DEF CallsType
    <3>2. c.state = "choosing" /\ c.node = id /\ c.worker = "llm-direct" /\ Served(c)
      BY <3>1, CallServes
    <3>. QED BY <2>3, <3>2 DEF Ready, Uses
  <2>. QED BY <1>2, <2>1, <2>2, <2>3 DEF SendDirect
<1>3. \/ \E why : Refuse(l, id, why)
      \/ SendDirect(l, id)
      \/ SpawnRefusal(n) = "none" /\ Send(l, id, model, "spawn")
  BY DEF Proceed, Workers
<1>4. CASE \E why : Refuse(l, id, why)
  <2>1. c = Idle
    BY <1>4, RefuseEffect
  <2>. QED BY <2>1 DEF Idle
<1>5. CASE SpawnRefusal(n) = "none" /\ Send(l, id, model, "spawn")
  <2>1. c.state = "sent" /\ c.node = id /\ c.model = model /\ c.worker = "spawn" /\ Served(c)
    BY <1>1, <1>5
  <2>2. KeyOf(c) = BackendKey(n)
    BY <2>1 DEF KeyOf
  <2>. QED BY <2>1, <2>2 DEF Ready, Uses
<1>. QED BY <1>2, <1>3, <1>4, <1>5

\* A missing profile or agent is what the preflight looks for (_serviceable).
LEMMA RefusalExcused ==
    ASSUME SceneInv, ~ProvidersRefused, NEW id \in LlmNodes,
           SpawnRefusal(graph.at[id]) \in {"profile", "unresolvable"}
    PROVE  \/ Simulated \/ ~Declares(graph.at[id])
           \/ graph.at[id].provider \in setup.mounted
<1>. DEFINE n == graph.at[id]
<1>1. SUFFICES ASSUME ~Simulated, Declares(n), n.provider \notin setup.mounted PROVE FALSE
  OBVIOUS
<1>2. Serviceable(n.provider)
  BY <1>1, PreflightPassed
<1>3. setup.spawn /\ Provider(n) = n.provider
  BY <1>1, OrElseDeclared DEF SpawnRefusal
<1>4. n.provider \in DOMAIN Profiles /\ Profiles[n.provider] \in DOMAIN setup.agents
  BY <1>1, <1>2, <1>3 DEF Serviceable, Resolvable
<1>5. ProfileOf(Provider(n)) \in DOMAIN setup.agents
  BY <1>3, <1>4 DEF ProfileOf, BackendProfiles
<1>6. "none" \notin DOMAIN setup.agents
  BY DEF SceneInv
<1>. QED BY <1>3, <1>5, <1>6 DEF SpawnRefusal

LEMMA ProceedAdmits ==
    ASSUME SceneInv, ~ProvidersRefused, NEW l, NEW id \in LlmNodes, NEW model,
           Proceed(l, id, model), Admitted(finished)
    PROVE  Admitted(finished')
<1>. DEFINE n == graph.at[id]
<1>1. CASE finished' = finished
  BY <1>1
<1>2. ASSUME NEW why, Refuse(l, id, why),
             \/ why \notin {"profile", "unresolvable"}
             \/ why = SpawnRefusal(n)
      PROVE  Admitted(finished')
  <2>1. finished'.why = why /\ finished'.node = id
    BY <1>2, RefuseSays
  <2>. QED BY <1>2, <2>1, RefusalExcused DEF Admitted
<1>3. DirectRefusal(n) \notin {"profile", "unresolvable"}
  <2>1. DirectRefusal(n) \in {"subscription", "model", "none"}
    BY Zenon DEF DirectRefusal
  <2>. QED BY <2>1
<1>4. \A m, worker : Send(l, id, m, worker) => finished' = finished
  BY DEF Send
<1>5. SendDirect(l, id) => finished' = finished
  BY Zenon DEF SendDirect, Send
<1>6. \/ Refuse(l, id, "worker") \/ Refuse(l, id, SpawnRefusal(n)) \/ Refuse(l, id, "nothing")
      \/ Refuse(l, id, DirectRefusal(n))
      \/ SendDirect(l, id) \/ \E worker : Send(l, id, model, worker)
  BY DEF Proceed
<1>. HIDE DEF n
<1>. QED BY <1>1, <1>2, <1>3, <1>4, <1>5, <1>6

\* A node that begins, or whose model is there.
LEMMA LineServes ==
    ASSUME SceneInv, CallsType, ThreadInv, ServingInv, NEW l \in Lines,
           ExecuteNode(l) \/ ModelResolved(l)
    PROVE  /\ Admitted(finished')
           /\ \/ call'[l].state = "idle"
              \/ /\ call'[l].state = "resolving" /\ call'[l].node \in LlmNodes
                 /\ BackendKey(graph.at[call'[l].node]) \notin DOMAIN cache'
              \/ /\ Ready(call'[l]) /\ call'[l].node \in LlmNodes
                 /\ Served(call'[l]) /\ Uses(call'[l])
                 /\ call'[l].state = "choosing" => call'[l].worker = "llm-direct"
           /\ \/ cache' = cache
              \/ /\ call[l].state = "resolving"
                 /\ cache' = Remember(BackendKey(graph.at[call[l].node]))
              \/ /\ call[l].state = "choosing"
                 /\ cache' = Remember(WorkerKey(graph.at[call[l].node]))
<1>1. ~ProvidersRefused /\ Admitted(finished)
  BY DEF ServingInv, ExecuteNode, ModelResolved, Walking
<1>2. ASSUME NEW id, NEW why, Refuse(l, id, why), why \in {"backend", "resolve"}
      PROVE  Admitted(finished') /\ call'[l].state = "idle"
  <2>1. finished'.why = why
    BY <1>2, RefuseSays
  <2>2. call'[l] = Idle
    BY <1>2, RefuseEffect
  <2>. QED BY <1>2, <2>1, <2>2 DEF Admitted, Idle
<1>3. CASE ExecuteNode(l)
  <2>1. PICK id \in LlmNodes : NoBackend(l, id) \/ Begin(l, id)
    BY <1>3 DEF ExecuteNode
  <2>2. cache' = cache
    BY <2>1 DEF NoBackend, Begin
  <2>3. \/ Refuse(l, id, "backend") \/ Refuse(l, id, "resolve")
        \/ Proceed(l, id, 0)
        \/ /\ BackendKey(graph.at[id]) \in DOMAIN cache
           /\ Proceed(l, id, cache[BackendKey(graph.at[id])])
        \/ /\ BackendKey(graph.at[id]) \notin DOMAIN cache /\ finished' = finished
           /\ call' = [call EXCEPT ![l] = [state |-> "resolving", node |-> id]]
    <3>1. CASE NoBackend(l, id)
      BY <3>1 DEF NoBackend
    <3>2. CASE Begin(l, id)
      BY <3>2 DEF Begin
    <3>. QED BY <2>1, <3>1, <3>2
  <2>4. ASSUME NEW model, Proceed(l, id, model),
               \/ model = 0
               \/ /\ BackendKey(graph.at[id]) \in DOMAIN cache'
                  /\ model = cache'[BackendKey(graph.at[id])]
        PROVE  /\ Admitted(finished')
               /\ \/ call'[l].state = "idle"
                  \/ /\ Ready(call'[l]) /\ call'[l].node = id
                     /\ Served(call'[l]) /\ Uses(call'[l])
                     /\ call'[l].state = "choosing" => call'[l].worker = "llm-direct"
    <3>1. Admitted(finished')
      BY <1>1, <2>4, ProceedAdmits
    <3>. QED BY <2>4, <3>1, ProceedServes
  <2>5. CASE Refuse(l, id, "backend") \/ Refuse(l, id, "resolve")
    BY <1>2, <2>2, <2>5
  <2>6. CASE Proceed(l, id, 0)
    BY <2>2, <2>4, <2>6
  <2>7. CASE /\ BackendKey(graph.at[id]) \in DOMAIN cache
             /\ Proceed(l, id, cache[BackendKey(graph.at[id])])
    BY <2>2, <2>4, <2>7
  <2>8. CASE /\ BackendKey(graph.at[id]) \notin DOMAIN cache /\ finished' = finished
             /\ call' = [call EXCEPT ![l] = [state |-> "resolving", node |-> id]]
    <3>1. call'[l] = [state |-> "resolving", node |-> id]
      BY <2>8 DEF CallsType
    <3>. QED BY <1>1, <2>2, <2>8, <3>1
  <2>. QED BY <2>3, <2>5, <2>6, <2>7, <2>8
<1>4. CASE Resolved(l)
  <2>. DEFINE id == call[l].node
  <2>1. call[l].state = "resolving" /\ id \in LlmNodes
    BY <1>4 DEF Resolved, ServingInv
  <2>2. CASE cache' = Remember(BackendKey(graph.at[id])) /\ Proceed(l, id, served)
    <3>1. BackendKey(graph.at[id]) \in DOMAIN cache' /\ served = cache'[BackendKey(graph.at[id])]
      BY <2>2 DEF Remember
    <3>2. Admitted(finished')
      BY <1>1, <2>1, <2>2, ProceedAdmits
    <3>. HIDE DEF id
    <3>3. \/ call'[l].state = "idle"
          \/ /\ Ready(call'[l]) /\ call'[l].node = id
             /\ Served(call'[l]) /\ Uses(call'[l])
             /\ call'[l].state = "choosing" => call'[l].worker = "llm-direct"
      BY <2>2, <3>1, ProceedServes
    <3>. QED BY <2>1, <2>2, <3>2, <3>3 DEF id
  <2>3. CASE Refuse(l, id, "resolve") /\ cache' = cache
    BY <1>2, <2>3
  <2>. QED BY <1>4, <2>2, <2>3 DEF Resolved
<1>5. CASE Chosen(l)
  <2>. DEFINE id == call[l].node
  <2>1. /\ call[l].state = "choosing" /\ id \in LlmNodes /\ Served(call[l])
        /\ call[l].worker = "llm-direct"
    BY <1>5 DEF Chosen, ServingInv, Ready
  <2>2. CASE /\ cache' = Remember(WorkerKey(graph.at[id])) /\ finished' = finished
             /\ call' = [call EXCEPT ![l] = ChosenCall(l)]
    <3>1. DOMAIN call[l] = CallFields
      BY <2>1 DEF ThreadInv, Flight, InFlight, Ready
    <3>2. call'[l] = ChosenCall(l)
      BY <2>2 DEF CallsType
    <3>3. /\ call'[l].state = "sent" /\ call'[l].model = served /\ call'[l].node = id
          /\ call'[l].worker = call[l].worker /\ call'[l].provider = call[l].provider
          /\ call'[l].agent = call[l].agent
      BY <3>1, <3>2 DEF ChosenCall, CallFields
    <3>4. Served(call'[l])
      BY <2>1, <3>3 DEF Served
    <3>5. Uses(call'[l])
      BY <2>1, <2>2, <3>3 DEF Uses, KeyOf, Remember
    <3>. QED BY <1>1, <2>1, <2>2, <3>3, <3>4, <3>5 DEF Ready
  <2>3. CASE Refuse(l, id, "resolve") /\ cache' = cache
    BY <1>2, <2>3
  <2>. QED BY <1>5, <2>2, <2>3 DEF Chosen, ChosenCall, CallsType
<1>. QED BY <1>3, <1>4, <1>5 DEF ModelResolved

LEMMA ServingInit == Init => ServingInv
<1>. SUFFICES ASSUME Init PROVE ServingInv
  OBVIOUS
<1>1. /\ phase = "loaded" /\ finished = NotYet /\ call = [l \in Lines |-> Idle]
  BY DEF Init
<1>2. finished.why = "none"
  BY <1>1, Zenon DEF NotYet
<1>3. \A l \in Lines : call[l].state = "idle"
  BY <1>1 DEF Idle
<1>. QED BY <1>1, <1>2, <1>3 DEF ServingInv, Admitted, Ready

\* While the graph and the mounts stay, so does what they say.
LEMMA SameScene ==
    ASSUME graph' = graph, setup' = setup
    PROVE  /\ ProvidersRefused' <=> ProvidersRefused
           /\ LlmNodes' = LlmNodes
           /\ \A f : Admitted(f)' <=> Admitted(f)
           /\ \A c : Served(c)' <=> Served(c)
<1>1. Profiles' = Profiles
  BY Zenon DEF Profiles
<1>2. Simulated' <=> Simulated
  BY <1>1, Zenon DEF Simulated
<1>3. LlmNodes' = LlmNodes
  BY DEF LlmNodes
<1>4. ProvidersRefused' <=> ProvidersRefused
  BY <1>1, <1>2, <1>3, Zenon DEF ProvidersRefused, Serviceable, Resolvable, HasCredential
<1>5. \A f : Admitted(f)' <=> Admitted(f)
  BY <1>2 DEF Admitted
<1>6. \A c : Served(c)' <=> Served(c)
  BY <1>1 DEF Served
<1>. QED BY <1>3, <1>4, <1>5, <1>6

\* What a line has in flight stays served; a new phase is asked for by itself.
LEMMA ServingStays ==
    ASSUME ServingInv, NEW l \in Lines, graph' = graph, setup' = setup,
           call'[l] = call[l] \/ call'[l] = Idle
    PROVE  /\ call'[l].state # "idle" => call'[l].node \in LlmNodes'
           /\ Ready(call[l])' => Served(call[l])'
           /\ call'[l].state = "choosing" => call'[l].worker = "llm-direct"
<1>1. CASE call'[l] = Idle
  BY <1>1 DEF Idle, Ready
<1>2. CASE call'[l] = call[l]
  <2>1. /\ call[l].state # "idle" => call[l].node \in LlmNodes
        /\ Ready(call[l]) => Served(call[l])
        /\ call[l].state = "choosing" => call[l].worker = "llm-direct"
    BY DEF ServingInv
  <2>2. Ready(call[l])' => Served(call[l])'
    <3>1. Ready(call[l])' => Served(call'[l])
      BY <1>2, <2>1 DEF Ready
    <3>2. Served(call[l])' <=> Served(call'[l])
      BY <1>2, SameScene
    <3>. QED BY <3>1, <3>2
  <2>. QED BY <1>2, <2>1, <2>2, SameScene
<1>. QED BY <1>1, <1>2

LEMMA ServingStep ==
    SceneInv /\ CallsType /\ ThreadInv /\ ServingInv /\ [Next]_vars => ServingInv'
<1>. SUFFICES ASSUME SceneInv, CallsType, ThreadInv, ServingInv, [Next]_vars PROVE ServingInv'
  OBVIOUS
<1>. DEFINE Line(l) == /\ call'[l].state # "idle" => call'[l].node \in LlmNodes'
                       /\ Ready(call[l])' => Served(call[l])'
                       /\ call'[l].state = "choosing" => call'[l].worker = "llm-direct"
<1>1. CASE UNCHANGED vars
  <2>1. /\ graph' = graph /\ setup' = setup /\ phase' = phase /\ finished' = finished
        /\ call' = call
    BY <1>1 DEF vars
  <2>2. \A l \in Lines : Line(l)
    BY <2>1, ServingStays
  <2>3. Admitted(finished)' /\ (ProvidersRefused' <=> ProvidersRefused)
    <3>1. Admitted(finished)
      BY DEF ServingInv
    <3>. QED BY <2>1, <3>1, SameScene DEF Admitted
  <2>. HIDE DEF Line
  <2>. QED BY <2>1, <2>2, <2>3 DEF ServingInv, Line
<1>2. CASE Walk
  <2>1. phase = "walking" /\ phase' \in {"walking", "closing"} /\ graph' = graph /\ setup' = setup
    BY <1>2, WalkFrame DEF runVars
  <2>2. SUFFICES Admitted(finished') /\ \A l \in Lines : Line(l)
    <3>. HIDE DEF Line
    <3>1. ~ProvidersRefused'
      <4>1. ~ProvidersRefused
        BY <2>1 DEF ServingInv
      <4>. QED BY <2>1, <4>1, SameScene
    <3>2. Admitted(finished') => Admitted(finished)'
      BY <2>1, SameScene DEF Admitted
    <3>. QED BY <2>1, <3>1, <3>2 DEF ServingInv, Line
  <2>3. \A l \in Lines : call'[l] = call[l] \/ call'[l] = Idle => Line(l)
    BY <2>1, ServingStays
  <2>4. ASSUME NEW l \in Lines, ExecuteNode(l) \/ ModelResolved(l)
        PROVE  Admitted(finished') /\ \A m \in Lines : Line(m)
    <3>1. \A m \in Lines : m # l => call'[m] = call[m]
      BY <2>4, LineEffect DEF OnlyCall, CallsType
    <3>2. /\ Admitted(finished')
          /\ \/ call'[l].state = "idle"
             \/ /\ call'[l].state = "resolving" /\ call'[l].node \in LlmNodes
             \/ /\ Ready(call'[l]) /\ call'[l].node \in LlmNodes /\ Served(call'[l])
                /\ call'[l].state = "choosing" => call'[l].worker = "llm-direct"
      BY <2>4, LineServes
    <3>3. Served(call'[l]) => Served(call[l])'
      BY <2>1, SameScene
    <3>4. Line(l)
      BY <2>1, <3>2, <3>3, SameScene DEF Ready
    <3>. HIDE DEF Line
    <3>. QED BY <2>3, <3>1, <3>2, <3>4
  <2>5. ASSUME NEW l \in Lines, WorkerReturns(l) \/ EngineGivesUp(l)
        PROVE  Admitted(finished') /\ \A m \in Lines : Line(m)
    <3>1. \A m \in Lines : call'[m] = call[m] \/ call'[m] = Idle
      BY <2>5 DEF WorkerReturns, EngineGivesUp, Return, GiveUp, CallsType
    <3>2. finished'.why \in {"broken", "returned", "timeout"}
      <4>1. CASE WorkerReturns(l)
        <5>. PICK r \in graph.results : Return(l, r)
          BY <4>1 DEF WorkerReturns
        <5>1. finished'.why = IF r.broken THEN "broken" ELSE "returned"
          BY DEF Return
        <5>. QED BY <5>1
      <4>2. CASE EngineGivesUp(l)
        BY <4>2, GivenUpSays
      <4>. QED BY <2>5, <4>1, <4>2
    <3>. HIDE DEF Line
    <3>. QED BY <2>3, <3>1, <3>2 DEF Admitted
  <2>6. CASE LateReturn \/ ListChanges \/ HumanAnswers \/ HopEnds \/ FanOut \/ Join \/ EngineEnds
    <3>1. finished' = finished /\ \A m \in Lines : call'[m] = call[m] \/ call'[m] = Idle
      <4>1. CASE LateReturn \/ ListChanges
        BY <4>1 DEF LateReturn, ListChanges, ZombieReturns, NewModelServed
      <4>2. CASE HumanAnswers \/ HopEnds \/ FanOut \/ Join
        BY <4>2 DEF HumanAnswers, HopEnds, FanOut, Join
      <4>3. CASE EngineEnds
        BY <4>3 DEF EngineEnds
      <4>. QED BY <2>6, <4>1, <4>2, <4>3
    <3>. HIDE DEF Line
    <3>. QED BY <2>3, <3>1 DEF ServingInv
  <2>. QED BY <1>2, <2>4, <2>5, <2>6 DEF Walk
<1>3. CASE ApplyTransforms
  <2>1. phase' = "styled" /\ finished' = finished /\ call' = call
        /\ finished.why = "none" /\ \A l \in Lines : call[l].state = "idle"
    BY <1>3, OutsideFrame DEF ApplyTransforms, ServingInv
  <2>. QED BY <2>1 DEF ServingInv, Admitted, Ready
<1>4. CASE Preflight \/ SetUpEnvironment \/ CloseBackend \/ DestroyEnvironment \/ CleanUpSource
  <2>1. /\ graph' = graph /\ setup' = setup /\ finished' = finished /\ call' = call
    BY <1>4, OutsideFrame DEF Preflight, SetUpEnvironment, CloseBackend, DestroyEnvironment,
       CleanUpSource
  <2>2. \A l \in Lines : Line(l)
    BY <2>1, ServingStays
  <2>3. Admitted(finished)'
    <3>1. Admitted(finished)
      BY DEF ServingInv
    <3>. QED BY <2>1, <3>1, SameScene DEF Admitted
  <2>4. phase' \in {"built", "walking"} => ~ProvidersRefused'
    <3>1. CASE Preflight
      <4>1. Build => phase' \in {"leaving", "built"} /\ (phase' = "built" => ~ProvidersRefused)
        <5>1. Build => \/ phase' = "leaving"
                       \/ phase' = "built" /\ ~ProvidersRefused
          BY Zenon DEF Build
        <5>. QED BY <5>1
      <4>. QED BY <2>1, <3>1, <4>1, SameScene DEF Preflight
    <3>2. CASE SetUpEnvironment
      <4>1. ~ProvidersRefused
        BY <3>2 DEF SetUpEnvironment, ServingInv
      <4>. QED BY <2>1, <4>1, SameScene
    <3>3. CASE CloseBackend \/ DestroyEnvironment \/ CleanUpSource
      BY <3>3 DEF CloseBackend, DestroyEnvironment, Destroy, CleanUpSource
    <3>. QED BY <1>4, <3>1, <3>2, <3>3
  <2>5. phase' \in {"loaded", "styled", "built"} =>
            finished'.why = "none" /\ \A l \in Lines : call'[l].state = "idle"
    <3>1. phase' \in {"loaded", "styled", "built"} => phase = "styled"
      BY <1>4 DEF Preflight, SetUpEnvironment, CloseBackend, DestroyEnvironment, Destroy,
         CleanUpSource
    <3>. QED BY <2>1, <3>1 DEF ServingInv
  <2>. HIDE DEF Line
  <2>. QED BY <2>2, <2>3, <2>4, <2>5 DEF ServingInv, Line
<1>. QED BY <1>1, <1>2, <1>3, <1>4, NextCases

LEMMA PinnedInit == Init => PinnedInv
<1>. SUFFICES ASSUME Init PROVE PinnedInv
  OBVIOUS
<1>1. /\ live = {"main"} /\ used = {} /\ call = [l \in Lines |-> Idle] /\ "main" \in Lines
  BY ScenariosAssumption DEF Init
<1>2. \A l \in Lines : call[l].state = "idle"
  BY <1>1 DEF Idle
<1>. QED BY <1>1, <1>2 DEF PinnedInv

\* What the properties remember of a call is its key and its model.
LEMMA UsedEffect ==
    ASSUME NEW l, Heard(l)
    PROVE  \/ used' = used
           \/ /\ call'[l].state = "sent" /\ call'[l].model # 0
              /\ used' = used \cup {<<KeyOf(call'[l]), call'[l].model>>}
BY DEF Heard, KeyOf

LEMMA SameKeys ==
    ASSUME setup' = setup
    PROVE  \A n : BackendKey(n)' = BackendKey(n) /\ WorkerKey(n)' = WorkerKey(n)
<1>1. ImplicitDefaultProvider' = ImplicitDefaultProvider
  <2>1. BackendProfiles' = BackendProfiles
    BY Zenon DEF BackendProfiles, Profiles
  <2>. QED BY <2>1, Zenon DEF ImplicitDefaultProvider
<1>2. \A n : BackendKey(n)' = BackendKey(n)
  BY <1>1, Zenon DEF BackendKey, Provider, OrElse
<1>3. \A n : WorkerKey(n)' = WorkerKey(n)
  BY Zenon DEF WorkerKey, WorkerProvider, OrElse
<1>. QED BY <1>2, <1>3

\* What is being looked up is not in the cache.
New(c, k) ==
    LET n == graph.at[c.node]
    IN  /\ c.state = "resolving" => BackendKey(n) \notin DOMAIN k
        /\ c.state = "choosing" => WorkerKey(n) \notin DOMAIN k

\* A call in flight keeps its key, and a looked-up key is new.
LEMMA PinnedStays ==
    ASSUME PinnedInv, ~graph.parallel, live' = live, cache' = cache, used' = used,
           graph' = graph, setup' = setup, "main" \in Lines,
           \A l \in Lines : call'[l] = call[l] \/ call'[l] = Idle
    PROVE  PinnedInv'
<1>1. call'["main"] = call["main"] \/ call'["main"].state = "idle"
  BY DEF Idle
<1>2. \A l \in Lines : l # "main" => call'[l].state = "idle"
  BY DEF PinnedInv, Idle
<1>3. New(call["main"], cache)
  BY DEF PinnedInv, New
<1>4. New(call["main"], cache)'
  BY <1>1, <1>3, SameKeys DEF New
<1>. QED BY <1>2, <1>4 DEF PinnedInv, New

LEMMA PinnedStep ==
    /\ SceneInv /\ CallsType /\ ThreadInv /\ ServingInv /\ PinnedInv /\ [Next]_vars
    => PinnedInv'
<1>. SUFFICES ASSUME SceneInv, CallsType, ThreadInv, ServingInv, PinnedInv, [Next]_vars
              PROVE  PinnedInv'
  OBVIOUS
<1>m. "main" \in Lines
  BY DEF SceneInv
<1>1. CASE UNCHANGED vars
  <2>1. CASE graph.parallel
    BY <1>1, <2>1 DEF vars, PinnedInv
  <2>2. CASE ~graph.parallel
    BY <1>1, <1>m, <2>2, PinnedStays DEF vars
  <2>. QED BY <2>1, <2>2
<1>2. CASE Walk
  <2>1. graph' = graph /\ setup' = setup
    BY <1>2, WalkFrame DEF runVars
  <2>2. CASE graph.parallel
    BY <2>1, <2>2 DEF PinnedInv
  <2>3. CASE ~graph.parallel
    <3>1. /\ live = {"main"}
          /\ \A l \in Lines : l # "main" => call[l].state = "idle"
          /\ \A u \in used : u[1] \in DOMAIN cache /\ u = <<u[1], cache[u[1]]>>
          /\ New(call["main"], cache)
      BY <2>3 DEF PinnedInv, New
    <3>2. ASSUME NEW l \in Lines, ExecuteNode(l) \/ ModelResolved(l) PROVE PinnedInv'
      <4>1. l = "main" /\ live' = live /\ Heard(l)
        BY <3>1, <3>2, LineEffect DEF Walking
      <4>2. \A m \in Lines : m # "main" => call'[m].state = "idle"
        BY <3>1, <3>2, <4>1, LineEffect DEF OnlyCall, CallsType
      <4>3. /\ DOMAIN cache \subseteq DOMAIN cache'
            /\ \A k \in DOMAIN cache : cache'[k] = cache[k]
        <5>1. \/ cache' = cache
              \/ \E k : k \notin DOMAIN cache /\ cache' = Remember(k)
          BY <3>1, <3>2, <4>1, LineServes DEF New
        <5>. QED BY <5>1 DEF Remember
      <4>4. \/ call'[l].state = "idle"
            \/ /\ call'[l].state = "resolving"
               /\ BackendKey(graph.at[call'[l].node]) \notin DOMAIN cache'
            \/ Uses(call'[l])
        BY <3>2, LineServes
      <4>5. \A u \in used' : u[1] \in DOMAIN cache' /\ u = <<u[1], cache'[u[1]]>>
        <5>1. \A u \in used : u[1] \in DOMAIN cache' /\ u = <<u[1], cache'[u[1]]>>
          BY <3>1, <4>3
        <5>2. CASE used' = used
          BY <5>1, <5>2
        <5>3. CASE /\ call'[l].state = "sent" /\ call'[l].model # 0
                   /\ used' = used \cup {<<KeyOf(call'[l]), call'[l].model>>}
          <6>1. KeyOf(call'[l]) \in DOMAIN cache' /\ call'[l].model = cache'[KeyOf(call'[l])]
            BY <4>4, <5>3 DEF Uses
          <6>. QED BY <5>1, <5>3, <6>1
        <5>. QED BY <4>1, <5>2, <5>3, UsedEffect
      <4>6. New(call["main"], cache)'
        <5>1. \A n : BackendKey(n)' = BackendKey(n) /\ WorkerKey(n)' = WorkerKey(n)
          BY <2>1, SameKeys
        <5>. QED BY <2>1, <4>1, <4>4, <5>1 DEF New, Uses
      <4>. QED BY <3>1, <4>1, <4>2, <4>5, <4>6 DEF PinnedInv, New
    <3>3. CASE \/ \E l \in Lines : WorkerReturns(l) \/ EngineGivesUp(l)
               \/ LateReturn \/ ListChanges \/ HumanAnswers \/ HopEnds \/ EngineEnds
      <4>1. /\ live' = live /\ cache' = cache /\ used' = used
            /\ \A l \in Lines : call'[l] = call[l] \/ call'[l] = Idle
        <5>1. CASE \E l \in Lines : WorkerReturns(l) \/ EngineGivesUp(l)
          BY <5>1 DEF WorkerReturns, EngineGivesUp, Return, GiveUp, CallsType, Same
        <5>2. CASE LateReturn \/ ListChanges
          BY <5>2 DEF LateReturn, ListChanges, ZombieReturns, NewModelServed, Same
        <5>3. CASE HumanAnswers \/ HopEnds \/ EngineEnds
          BY <5>3 DEF HumanAnswers, HopEnds, EngineEnds
        <5>. QED BY <3>3, <5>1, <5>2, <5>3
      <4>. QED BY <1>m, <2>1, <2>3, <4>1, PinnedStays
    <3>4. CASE FanOut \/ Join
      BY <2>3, <3>1, <3>4 DEF FanOut, Join
    <3>. QED BY <1>2, <3>2, <3>3, <3>4 DEF Walk
  <2>. QED BY <2>2, <2>3
<1>3. CASE ApplyTransforms
  <2>1. /\ live' = live /\ cache' = cache /\ used' = used /\ call' = call
        /\ \A l \in Lines : call[l].state = "idle"
    BY <1>3, OutsideFrame DEF ApplyTransforms, ServingInv
  <2>2. graph'.parallel = graph.parallel
    <3>. DEFINE styled == [id \in DOMAIN graph.given |->
                              WithStyle(graph.rules, id, graph.given[id])]
    <3>1. graph' = [graph EXCEPT !.at = styled]
      BY <1>3, Zenon DEF ApplyTransforms
    <3>. HIDE DEF styled
    <3>. QED BY <3>1 DEF SceneInv, GraphFields
  <2>. QED BY <1>m, <2>1, <2>2 DEF PinnedInv
<1>4. CASE Preflight \/ SetUpEnvironment \/ CloseBackend \/ DestroyEnvironment \/ CleanUpSource
  <2>1. /\ graph' = graph /\ setup' = setup /\ live' = live /\ cache' = cache
        /\ used' = used /\ call' = call
    BY <1>4, OutsideFrame DEF Preflight, SetUpEnvironment, CloseBackend, DestroyEnvironment,
       CleanUpSource
  <2>2. CASE graph.parallel
    BY <2>1, <2>2 DEF PinnedInv
  <2>3. CASE ~graph.parallel
    BY <1>m, <2>1, <2>3, PinnedStays
  <2>. QED BY <2>2, <2>3
<1>. QED BY <1>1, <1>2, <1>3, <1>4, NextCases

----------------------------------------------------------------------------
(* What a stylesheet leaves on the nodes *)

\* A set of counts that has 0 and, with any, the next one has them all.
LEMMA CountUp ==
    ASSUME NEW S, 0 \in S, \A n \in Nat : n \in S => n + 1 \in S
    PROVE  Nat \subseteq S
<1>. DEFINE Rest == {n \in Nat : n \notin S}
<1>1. SUFFICES ASSUME Rest # {} PROVE FALSE
  OBVIOUS
<1>2. PICK n \in Rest : \A m \in Rest : n <= m
  BY <1>1, LeastIndex
<1>3. n \in Nat /\ n # 0 /\ n - 1 \in Nat /\ (n - 1) + 1 = n
  BY <1>2
<1>4. n - 1 \notin Rest
  BY <1>2, <1>3
<1>. QED BY <1>2, <1>3, <1>4

\* A rule that matches the node and sets the property, and what one more rule does.
Applies(rule, id, n, prop) == SelectorMatches(rule, id, n) /\ rule.sets[prop] # ""

Given(rule, prop) == [spec |-> Specificity(rule), value |-> rule.sets[prop]]

Applied(acc, rule, id, n, prop) ==
    IF Applies(rule, id, n, prop) /\ Specificity(rule) >= acc.spec
    THEN Given(rule, prop) ELSE acc

\* The fold of the first rules, on sets of their indices.
Folded(f, rules, id, n, prop, m) ==
    f = [s \in SUBSET (1..m) |->
            IF s = {} THEN Nothing
            ELSE Applied(f[s \ {Max(s)}], rules[Max(s)], id, n, prop)]

LEMMA MaxIn ==
    ASSUME NEW m \in Nat, NEW s \in SUBSET (1..m), m \in s
    PROVE  Max(s) = m
<1>1. \A y \in s : m >= y
  OBVIOUS
<1>2. ASSUME NEW x \in s, \A y \in s : x >= y PROVE x = m
  <2>1. x \in Nat /\ x >= m /\ m >= x
    BY <1>1, <1>2
  <2>. QED BY <2>1
<1>. QED BY <1>1, <1>2 DEF Max

LEMMA MaxWithin ==
    ASSUME NEW m \in Nat, NEW s \in SUBSET (1..m), s # {}
    PROVE  Max(s) \in s
<1>. DEFINE S == {k \in Nat : \A t \in SUBSET (1..k) : t # {} => \E x \in t : \A y \in t : x >= y}
<1>1. 0 \in S
  <2>1. \A t \in SUBSET (1..0) : t = {}
    OBVIOUS
  <2>. QED BY <2>1
<1>2. ASSUME NEW k \in Nat, k \in S PROVE k + 1 \in S
  <2>1. SUFFICES ASSUME NEW t \in SUBSET (1..(k + 1)), t # {}
                 PROVE  \E x \in t : \A y \in t : x >= y
    OBVIOUS
  <2>2. CASE k + 1 \in t
    BY <2>2
  <2>3. CASE k + 1 \notin t
    <3>1. t \in SUBSET (1..k)
      BY <2>3
    <3>. QED BY <1>2, <2>1, <3>1
  <2>. QED BY <2>2, <2>3
<1>. HIDE DEF S
<1>3. m \in S
  BY <1>1, <1>2, CountUp
<1>4. \E x \in s : \A y \in s : x >= y
  BY <1>3 DEF S
<1>. QED BY <1>4 DEF Max

LEMMA FoldedExists ==
    ASSUME NEW rules, NEW id, NEW n, NEW prop, NEW m \in Nat
    PROVE  \E f : Folded(f, rules, id, n, prop, m)
<1>. DEFINE S == {k \in Nat : \E f : Folded(f, rules, id, n, prop, k)}
<1>1. 0 \in S
  <2>. DEFINE f == [s \in SUBSET (1..0) |-> Nothing]
  <2>1. SUBSET (1..0) = {{}}
    OBVIOUS
  <2>. HIDE DEF Nothing
  <2>2. f = [s \in SUBSET (1..0) |->
               IF s = {} THEN Nothing
               ELSE Applied(f[s \ {Max(s)}], rules[Max(s)], id, n, prop)]
    BY <2>1
  <2>. QED BY <2>2 DEF Folded
<1>2. ASSUME NEW k \in Nat, k \in S PROVE k + 1 \in S
  <2>1. PICK g : Folded(g, rules, id, n, prop, k)
    BY <1>2
  <2>. DEFINE G(t, x) == Applied(g[t], rules[x], id, n, prop)
             f == [s \in SUBSET (1..(k + 1)) |->
                      IF k + 1 \in s THEN G(s \ {k + 1}, k + 1) ELSE g[s]]
  <2>2. /\ DOMAIN g = SUBSET (1..k)
        /\ \A s \in SUBSET (1..k) : g[s] = IF s = {} THEN Nothing ELSE G(s \ {Max(s)}, Max(s))
    BY <2>1 DEF Folded
  <2>. HIDE DEF G
  <2>3. \A s \in SUBSET (1..k) : s \in SUBSET (1..(k + 1)) /\ k + 1 \notin s
    OBVIOUS
  <2>4. \A s \in SUBSET (1..k) : f[s] = g[s]
    BY <2>3
  <2>5. ASSUME NEW s \in SUBSET (1..(k + 1))
        PROVE  f[s] = IF s = {} THEN Nothing
                      ELSE Applied(f[s \ {Max(s)}], rules[Max(s)], id, n, prop)
    <3>1. CASE k + 1 \in s
      <4>1. Max(s) = k + 1 /\ s # {}
        BY <3>1, MaxIn
      <4>2. s \ {k + 1} \in SUBSET (1..k)
        OBVIOUS
      <4>3. f[s] = G(s \ {k + 1}, k + 1) /\ f[s \ {k + 1}] = g[s \ {k + 1}]
        BY <2>4, <3>1, <4>2
      <4>. HIDE DEF f
      <4>4. f[s] = Applied(f[s \ {k + 1}], rules[k + 1], id, n, prop)
        BY <4>3 DEF G
      <4>. QED BY <4>1, <4>4
    <3>2. CASE k + 1 \notin s
      <4>1. s \in SUBSET (1..k)
        BY <3>2
      <4>2. s # {} => Max(s) \in s /\ s \ {Max(s)} \in SUBSET (1..k)
        BY <4>1, MaxWithin
      <4>3. f[s] = g[s] /\ (s # {} => f[s \ {Max(s)}] = g[s \ {Max(s)}])
        BY <2>4, <4>1, <4>2
      <4>. HIDE DEF f
      <4>4. s # {} => f[s] = G(s \ {Max(s)}, Max(s))
        BY <2>2, <4>1, <4>3
      <4>5. s = {} => f[s] = Nothing
        BY <2>2, <4>1, <4>3
      <4>. QED BY <4>3, <4>4, <4>5 DEF G
    <3>. QED BY <3>1, <3>2
  <2>6. Folded(f, rules, id, n, prop, k + 1)
    <3>1. f = [s \in SUBSET (1..(k + 1)) |-> f[s]]
      OBVIOUS
    <3>. HIDE DEF f
    <3>. QED BY <2>5, <3>1, Zenon DEF Folded
  <2>. QED BY <2>6
<1>. HIDE DEF S
<1>3. m \in S
  BY <1>1, <1>2, CountUp
<1>. QED BY <1>3 DEF S

LEMMA StyledFolded ==
    ASSUME NEW rules, NEW id, NEW n, NEW prop, NEW m \in Nat, DOMAIN rules = 1..m
    PROVE  \E f : Folded(f, rules, id, n, prop, m) /\ Styled(rules, id, n, prop) = f[1..m]
<1>. DEFINE f == CHOOSE g : g = [s \in SUBSET DOMAIN rules |->
                                   IF s = {} THEN Nothing
                                   ELSE Applied(g[s \ {Max(s)}], rules[Max(s)], id, n, prop)]
<1>1. Styled(rules, id, n, prop) = f[DOMAIN rules]
  BY Zenon DEF Styled, FoldLeft, MapThenFoldSet, Applied, Applies, Given
<1>2. \E g : g = [s \in SUBSET DOMAIN rules |->
                       IF s = {} THEN Nothing
                       ELSE Applied(g[s \ {Max(s)}], rules[Max(s)], id, n, prop)]
  <2>1. PICK g : Folded(g, rules, id, n, prop, m)
    BY FoldedExists
  <2>2. SUBSET DOMAIN rules = SUBSET (1..m)
    OBVIOUS
  <2>. QED BY <2>1, <2>2, Zenon DEF Folded
<1>3. f = [s \in SUBSET DOMAIN rules |->
              IF s = {} THEN Nothing
              ELSE Applied(f[s \ {Max(s)}], rules[Max(s)], id, n, prop)]
  BY <1>2, Zenon
<1>. HIDE DEF f
<1>4. Folded(f, rules, id, n, prop, m)
  BY <1>3, Zenon DEF Folded
<1>. QED BY <1>1, <1>4

LEMMA Unfolded ==
    ASSUME NEW rules, NEW id, NEW n, NEW prop, NEW m \in Nat, NEW f,
           Folded(f, rules, id, n, prop, m)
    PROVE  /\ f[1..0] = Nothing
           /\ \A k \in 1..m : f[1..k] = Applied(f[1..(k - 1)], rules[k], id, n, prop)
<1>. DEFINE G(t, x) == Applied(f[t], rules[x], id, n, prop)
<1>1. \A s \in SUBSET (1..m) : f[s] = IF s = {} THEN Nothing ELSE G(s \ {Max(s)}, Max(s))
  BY DEF Folded
<1>. HIDE DEF G, Nothing
<1>2. f[1..0] = Nothing
  <2>1. 1..0 = {} /\ {} \in SUBSET (1..m)
    OBVIOUS
  <2>. QED BY <1>1, <2>1
<1>3. ASSUME NEW k \in 1..m PROVE f[1..k] = G(1..(k - 1), k)
  <2>1. 1..k \in SUBSET (1..m) /\ k \in 1..k /\ k \in Nat
    OBVIOUS
  <2>2. Max(1..k) = k
    BY <2>1, MaxIn
  <2>3. (1..k) \ {k} = 1..(k - 1)
    OBVIOUS
  <2>4. f[1..k] = G((1..k) \ {Max(1..k)}, Max(1..k))
    BY <1>1, <2>1
  <2>. QED BY <2>2, <2>3, <2>4
<1>. QED BY <1>2, <1>3 DEF G

\* No other rule stands above the i-th one among those in M.
Tops(rules, M, i) ==
    \A j \in M : \/ Specificity(rules[i]) > Specificity(rules[j])
                 \/ Specificity(rules[i]) = Specificity(rules[j]) /\ i >= j

LEMMA SpecificityType == \A rule : Specificity(rule) \in 0..3
BY DEF Specificity

\* a is what the topmost of the first m rules that apply sets.
SetByTop(a, rules, id, n, prop, m) ==
    LET M == {i \in 1..m : Applies(rules[i], id, n, prop)}
    IN  /\ M = {} => a = Nothing
        /\ M # {} => \E i \in M : Tops(rules, M, i) /\ a = Given(rules[i], prop)

\* What the fold holds behind the rules is what the topmost of those that apply sets.
LEMMA FoldedIsTop ==
    ASSUME NEW rules, NEW id, NEW n, NEW prop, NEW m \in Nat, NEW f,
           Folded(f, rules, id, n, prop, m)
    PROVE  SetByTop(f[1..m], rules, id, n, prop, m)
<1>. DEFINE A(i) == Applies(rules[i], id, n, prop)
            M(k) == {i \in 1..k : A(i)}
            Good(k) == /\ M(k) = {} => f[1..k] = Nothing
                       /\ M(k) # {} => \E i \in M(k) : /\ Tops(rules, M(k), i)
                                                       /\ f[1..k] = Given(rules[i], prop)
            S == {k \in Nat : k <= m => Good(k)}
<1>. HIDE DEF A
<1>1. 0 \in S
  <2>1. M(0) = {}
    OBVIOUS
  <2>. QED BY <2>1, Unfolded
<1>2. ASSUME NEW k \in Nat, k \in S PROVE k + 1 \in S
  <2>. HIDE DEF Good
  <2>1. SUFFICES ASSUME k + 1 <= m PROVE Good(k + 1)
    OBVIOUS
  <2>2. Good(k)
    BY <1>2, <2>1
  <2>. USE DEF Good
  <2>3. k + 1 \in 1..m /\ (k + 1) - 1 = k
    BY <2>1
  <2>4. f[1..(k + 1)] = Applied(f[1..k], rules[k + 1], id, n, prop)
    <3>0. \A j \in 1..m : f[1..j] = Applied(f[1..(j - 1)], rules[j], id, n, prop)
      BY Unfolded
    <3>1. f[1..(k + 1)] = Applied(f[1..((k + 1) - 1)], rules[k + 1], id, n, prop)
      BY <2>3, <3>0
    <3>. QED BY <2>3, <3>1
  <2>5. f[1..(k + 1)] = IF A(k + 1) /\ Specificity(rules[k + 1]) >= f[1..k].spec
                        THEN Given(rules[k + 1], prop) ELSE f[1..k]
    BY <2>4 DEF Applied, A
  <2>6. M(k + 1) = IF A(k + 1) THEN M(k) \cup {k + 1} ELSE M(k)
    <3>1. 1..(k + 1) = (1..k) \cup {k + 1}
      OBVIOUS
    <3>. QED BY <3>1
  <2>7. CASE ~A(k + 1)
    BY <2>2, <2>5, <2>6, <2>7
  <2>8. CASE A(k + 1) /\ M(k) = {}
    <3>1. f[1..k].spec = -1
      <4>1. Nothing.spec = -1
        BY Zenon DEF Nothing
      <4>. QED BY <2>2, <2>8, <4>1
    <3>2. f[1..(k + 1)] = Given(rules[k + 1], prop)
      BY <2>5, <2>8, <3>1, SpecificityType
    <3>3. M(k + 1) = {k + 1} /\ Tops(rules, {k + 1}, k + 1)
      BY <2>6, <2>8, SpecificityType DEF Tops
    <3>. QED BY <3>2, <3>3
  <2>9. CASE A(k + 1) /\ M(k) # {}
    <3>1. PICK i \in M(k) : Tops(rules, M(k), i) /\ f[1..k] = Given(rules[i], prop)
      BY <2>2, <2>9
    <3>2. f[1..k].spec = Specificity(rules[i]) /\ i \in 1..k
      BY <3>1 DEF Given
    <3>. HIDE DEF Good
    <3>3. M(k + 1) = M(k) \cup {k + 1} /\ \A j \in M(k) : j \in 1..k
      BY <2>6, <2>9
    <3>. HIDE DEF M
    <3>4. CASE Specificity(rules[k + 1]) >= Specificity(rules[i])
      <4>1. f[1..(k + 1)] = Given(rules[k + 1], prop)
        BY <2>5, <2>9, <3>2, <3>4
      <4>2. Tops(rules, M(k + 1), k + 1)
        <5>1. SUFFICES ASSUME NEW j \in M(k)
                       PROVE  \/ Specificity(rules[k + 1]) > Specificity(rules[j])
                              \/ Specificity(rules[k + 1]) = Specificity(rules[j]) /\ k + 1 >= j
          BY <3>3, SpecificityType DEF Tops
        <5>2. Specificity(rules[i]) >= Specificity(rules[j]) /\ j \in 1..k
          BY <3>1, <3>3, SpecificityType DEF Tops
        <5>. QED BY <3>4, <5>2, SpecificityType
      <4>. QED BY <3>3, <4>1, <4>2 DEF Good
    <3>5. CASE ~(Specificity(rules[k + 1]) >= Specificity(rules[i]))
      <4>1. f[1..(k + 1)] = Given(rules[i], prop)
        BY <2>5, <3>1, <3>2, <3>5
      <4>2. Tops(rules, M(k + 1), i)
        <5>1. Specificity(rules[i]) > Specificity(rules[k + 1])
          BY <3>5, SpecificityType
        <5>. QED BY <3>1, <3>3, <5>1 DEF Tops
      <4>. QED BY <3>1, <3>3, <4>1, <4>2 DEF Good
    <3>. QED BY <3>4, <3>5
  <2>. QED BY <2>7, <2>8, <2>9
<1>. HIDE DEF S
<1>3. m \in S
  BY <1>1, <1>2, CountUp
<1>. QED BY <1>3 DEF S, A, SetByTop

\* The best rule that sets a property, if one does, is what the fold returns.
BestRule(rules, id, n, prop, m) ==
    LET M == {i \in 1..m : Applies(rules[i], id, n, prop)}
    IN  IF M = {} THEN Nothing
        ELSE Given(rules[CHOOSE i \in M : Tops(rules, M, i)], prop)

LEMMA StyledIsBest ==
    ASSUME NEW rules, NEW id, NEW n, NEW prop, NEW m \in Nat, DOMAIN rules = 1..m
    PROVE  Styled(rules, id, n, prop) = BestRule(rules, id, n, prop, m)
<1>. DEFINE M == {i \in 1..m : Applies(rules[i], id, n, prop)}
<1>1. PICK f : Folded(f, rules, id, n, prop, m) /\ Styled(rules, id, n, prop) = f[1..m]
  BY StyledFolded
<1>2. /\ M = {} => f[1..m] = Nothing
      /\ M # {} => \E i \in M : Tops(rules, M, i) /\ f[1..m] = Given(rules[i], prop)
  <2>1. SetByTop(f[1..m], rules, id, n, prop, m)
    BY <1>1, FoldedIsTop
  <2>. QED BY <2>1 DEF SetByTop
<1>3. M \subseteq 1..m
  OBVIOUS
<1>. HIDE DEF M
<1>4. ASSUME NEW i \in M, NEW j \in M, Tops(rules, M, i), Tops(rules, M, j)
      PROVE  i = j
  <2>1. i \in 1..m /\ j \in 1..m
    BY <1>3
  <2>2. /\ \/ Specificity(rules[i]) > Specificity(rules[j])
           \/ Specificity(rules[i]) = Specificity(rules[j]) /\ i >= j
        /\ \/ Specificity(rules[j]) > Specificity(rules[i])
           \/ Specificity(rules[j]) = Specificity(rules[i]) /\ j >= i
    BY <1>4 DEF Tops
  <2>3. Specificity(rules[i]) \in 0..3 /\ Specificity(rules[j]) \in 0..3
    BY SpecificityType
  <2>. QED BY <2>1, <2>2, <2>3
<1>5. CASE M = {}
  BY <1>1, <1>2, <1>5 DEF BestRule, M
<1>6. CASE M # {}
  <2>1. PICK i \in M : Tops(rules, M, i) /\ f[1..m] = Given(rules[i], prop)
    BY <1>2, <1>6
  <2>2. (CHOOSE j \in M : Tops(rules, M, j)) = i
    BY <1>4, <2>1
  <2>. QED BY <1>1, <1>6, <2>1, <2>2 DEF BestRule, M
<1>. QED BY <1>5, <1>6

\* What the transform leaves on a node is what the order of resolution says.
LEMMA StyledNode ==
    ASSUME NEW m \in Nat, DOMAIN graph.rules = 1..m, NEW id \in DOMAIN graph.given,
           DOMAIN graph.given[id] = NodeFields, NEW prop \in Properties,
           graph.at[id] = WithStyle(graph.rules, id, graph.given[id])
    PROVE  graph.at[id][prop] = Best(id, prop)
<1>. DEFINE n == graph.given[id]
            rules == graph.rules
            M == {i \in 1..m : Applies(rules[i], id, n, prop)}
            b == BestRule(rules, id, n, prop, m)
<1>1. graph.at[id][prop] = OrElse(n[prop], Styled(rules, id, n, prop).value)
  <2>1. ASSUME NEW x, NEW y
        PROVE  /\ [n EXCEPT !.provider = x, !.model = y].provider = x
               /\ [n EXCEPT !.provider = x, !.model = y].model = y
    BY DEF NodeFields
  <2>. DEFINE p == OrElse(n.provider, Styled(rules, id, n, "provider").value)
              q == OrElse(n.model, Styled(rules, id, n, "model").value)
  <2>2. graph.at[id] = [n EXCEPT !.provider = p, !.model = q]
    BY Zenon DEF WithStyle
  <2>3. graph.at[id].provider = p /\ graph.at[id].model = q
    <3>. HIDE DEF p, q, n
    <3>. QED BY <2>1, <2>2
  <2>4. prop = "provider" \/ prop = "model"
    BY DEF Properties
  <2>. QED BY <2>3, <2>4, Zenon
<1>2. Styled(rules, id, n, prop) = b
  BY StyledIsBest
<1>3. CASE n[prop] # ""
  BY <1>1, <1>3, Zenon DEF Best, OrElse
<1>4. CASE n[prop] = "" /\ M = {}
  <2>1. {i \in DOMAIN rules : SelectorMatches(rules[i], id, n) /\ rules[i].sets[prop] # ""} = {}
    BY <1>4, Zenon DEF Applies
  <2>2. b.value = ""
    BY <1>4, Zenon DEF BestRule, Nothing
  <2>. QED BY <1>1, <1>2, <1>4, <2>1, <2>2, Zenon DEF Best, OrElse
<1>5. CASE n[prop] = "" /\ M # {}
  <2>1. {i \in DOMAIN rules : SelectorMatches(rules[i], id, n) /\ rules[i].sets[prop] # ""} = M
    BY Zenon DEF Applies
  <2>2. b.value = rules[CHOOSE i \in M : Tops(rules, M, i)].sets[prop]
    BY <1>5, Zenon DEF BestRule, Given
  <2>3. Best(id, prop) = rules[CHOOSE i \in M : Tops(rules, M, i)].sets[prop]
    BY <1>5, <2>1, Zenon DEF Best, Tops
  <2>. QED BY <1>1, <1>2, <1>5, <2>2, <2>3, Zenon DEF OrElse
<1>. QED BY <1>3, <1>4, <1>5

\* The rules are a list, and behind the transform every node carries its style.
StyleInv ==
    /\ DOMAIN graph.rules = 1..Len(graph.rules) /\ Len(graph.rules) \in Nat
    /\ \A id \in DOMAIN graph.given : DOMAIN graph.given[id] = NodeFields
    /\ phase # "loaded" =>
          \A id \in DOMAIN graph.given :
             graph.at[id] = WithStyle(graph.rules, id, graph.given[id])

LEMMA StyleInit == Init => StyleInv
<1>. SUFFICES ASSUME Init PROVE StyleInv
  OBVIOUS
<1>1. PICK s \in Scenarios : graph = s[1] /\ setup = s[2]
  BY DEF Init
<1>2. /\ DOMAIN graph.rules = 1..Len(graph.rules) /\ Len(graph.rules) \in Nat
      /\ \A id \in DOMAIN graph.given : DOMAIN graph.given[id] = NodeFields
  BY <1>1, ScenariosAssumption
<1>. QED BY <1>2 DEF Init, StyleInv

LEMMA StyleStep == SceneInv /\ StyleInv /\ [Next]_vars => StyleInv'
<1>. SUFFICES ASSUME SceneInv, StyleInv, [Next]_vars PROVE StyleInv'
  OBVIOUS
<1>1. CASE ApplyTransforms
  <2>. DEFINE styled == [id \in DOMAIN graph.given |->
                            WithStyle(graph.rules, id, graph.given[id])]
  <2>1. graph' = [graph EXCEPT !.at = styled]
    BY <1>1, Zenon DEF ApplyTransforms
  <2>2. \A id \in DOMAIN graph.given :
           styled[id] = WithStyle(graph.rules, id, graph.given[id])
    OBVIOUS
  <2>. HIDE DEF styled
  <2>3. graph'.at = styled /\ graph'.given = graph.given /\ graph'.rules = graph.rules
    BY <2>1 DEF SceneInv, GraphFields
  <2>. QED BY <2>2, <2>3 DEF StyleInv
<1>2. CASE Walk \/ UNCHANGED vars
  <2>1. graph' = graph /\ (phase' = "loaded" \/ phase # "loaded")
    BY <1>2, WalkFrame DEF runVars, vars
  <2>. QED BY <2>1 DEF StyleInv
<1>3. CASE Preflight \/ SetUpEnvironment \/ CloseBackend \/ DestroyEnvironment \/ CleanUpSource
  <2>1. graph' = graph /\ phase # "loaded"
    BY <1>3 DEF Preflight, SetUpEnvironment, CloseBackend, DestroyEnvironment, Destroy,
                CleanUpSource
  <2>. QED BY <2>1 DEF StyleInv
<1>. QED BY <1>1, <1>2, <1>3, NextCases

LEMMA StyleHolds == SceneInv /\ StyleInv => StyleAgrees
<1>. SUFFICES ASSUME SceneInv, StyleInv, phase # "loaded",
                     NEW id \in DOMAIN graph.given, NEW prop \in Properties
              PROVE  graph.at[id][prop] = Best(id, prop)
  BY Zenon DEF StyleAgrees
<1>1. /\ Len(graph.rules) \in Nat /\ DOMAIN graph.rules = 1..Len(graph.rules)
      /\ DOMAIN graph.given[id] = NodeFields
      /\ graph.at[id] = WithStyle(graph.rules, id, graph.given[id])
  BY DEF StyleInv
<1>. QED BY <1>1, StyledNode, Zenon

\* A node carries what the most specific rule of the stylesheet, the last of those,
\* gives it; it is served by the provider it declares and, when spawned, by the agent
\* its profile names; a family name means one model for a run without branches,
\* although the provider's list changes; and after the preflight no node that declares
\* a provider is refused for want of a profile or an agent, but for the two cases the
\* preflight passes over (stylesheet.py, backend.py and preflight.py).
THEOREM DeclaredServes == Spec => []ServedAsDeclared
<1>. DEFINE Inv == /\ SceneInv /\ CallsType /\ AnswerInv /\ ThreadInv
                   /\ ServingInv /\ PinnedInv /\ StyleInv
<1>1. Init => Inv
  BY SceneInit, CallsInit, AnswerInit, ThreadInit, ServingInit, PinnedInit, StyleInit
<1>2. Inv /\ [Next]_vars => Inv'
  BY SceneStep, CallsStep, AnswerStep, ThreadStep, ServingStep, PinnedStep, StyleStep
<1>3. ServingInv => DeclaredProviderServes
  <2>1. ServingInv => \A l \in Lines : call[l].state = "sent" => Served(call[l])
    BY DEF ServingInv, Ready
  <2>2. (\A l \in Lines : call[l].state = "sent" => Served(call[l])) => DeclaredProviderServes
    BY Zenon DEF Served, Declares, DeclaredProviderServes
  <2>. QED BY <2>1, <2>2
<1>4. PinnedInv => ModelPinned
  BY DEF PinnedInv, ModelPinned
<1>5. ServingInv => AdmittedMeansServed
  BY AdmittedFinished DEF ServingInv
<1>6. Inv => ServedAsDeclared
  BY <1>3, <1>4, <1>5, StyleHolds DEF ServedAsDeclared
<1>. HIDE DEF Inv
<1>. QED BY <1>1, <1>2, <1>6, PTL DEF Spec
============================================================================

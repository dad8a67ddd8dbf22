------------------------ MODULE PipelineEngineProofs ------------------------
(***************************************************************************)
(* Theorems of PipelineEngine, for every graph, every retry bound and every *)
(* number of crashes.                                                      *)
(***************************************************************************)
EXTENDS PipelineEngine, WellFoundedInduction, TLAPS

----------------------------------------------------------------------------
(* Edge selection.  The CHOOSE of each tie-break needs a best element to   *)
(* exist; that is an induction, from the well-foundedness of < on Nat.     *)

\* Every non-empty set of naturals has a least element.
LEMMA LeastNat ==
    ASSUME NEW S, S \subseteq Nat, S # {}
    PROVE  \E i \in S : \A j \in S : i <= j
<1> DEFINE R == OpToRel(<, Nat)
<1>1. IsWellFoundedOn(R, Nat)
  BY NatLessThanWellFounded
<1>2. R = {ss \in Nat \X Nat : ss[1] < ss[2]}
  BY Zenon DEF OpToRel
<1> HIDE DEF R
<1>3. PICK x \in S : \A y \in S : ~ (<<y, x>> \in R)
  BY <1>1, WFMin
<1>4. ASSUME NEW y \in S PROVE x <= y
  <2>1. <<y, x>> \notin R BY <1>3
  <2>2. ~ (y < x) BY <2>1, <1>2
  <2> QED BY <2>2
<1> QED BY <1>4

\* The first edge of a non-empty set of positions is one of them.
LEMMA FirstInListIn ==
    ASSUME NEW S, S \subseteq Nat, S # {}
    PROVE  FirstInList(S) \in S
BY LeastNat DEF FirstInList

\* sorted() has a first element: among any edges one is better than all.
LEMMA BestExists ==
    ASSUME NEW S, S \subseteq DOMAIN Edges, S # {}
    PROVE  \E i \in S : \A j \in S : Better(Edges, i, j)
<1> DEFINE Upto(k) == {i \in S : i <= k}
           HasBest(k) == \E i \in Upto(k) : \A j \in Upto(k) : Better(Edges, i, j)
           Stuck == {k \in Nat : Upto(k) # {} /\ ~HasBest(k)}
<1>1. /\ S \subseteq Nat
      /\ \A i \in S : Edges[i].weight \in Int /\ Edges[i].to \in Nodes
      /\ \A n \in Nodes : Lex[n] \in Int
  <2>1. /\ S \subseteq 1..Len(Edges) /\ Len(Edges) \in Nat
        /\ \A i \in S : Edges[i] \in Edge
    BY EdgesAssumption
  <2>2. \A e \in Edge : e.weight \in Int /\ e.to \in Nodes
    BY DEF Edge
  <2>3. \A n \in Nodes : Lex[n] \in Int
    BY EdgesAssumption
  <2> QED BY <2>1, <2>2, <2>3
<1>2. \A i \in S : Lex[Edges[i].to] \in Int
  BY <1>1
<1>3. ASSUME NEW i \in S PROVE Better(Edges, i, i)
  BY <1>1, <1>3 DEF Better
<1>4. ASSUME NEW i \in S, NEW j \in S PROVE Better(Edges, i, j) \/ Better(Edges, j, i)
  BY <1>1, <1>2 DEF Better
<1>5. ASSUME NEW i \in S, NEW j \in S, NEW k \in S,
             Better(Edges, i, j), Better(Edges, j, k)
      PROVE  Better(Edges, i, k)
  BY <1>1, <1>2, <1>5 DEF Better
<1>6. Stuck = {}
  <2> SUFFICES ASSUME Stuck # {} PROVE FALSE
    OBVIOUS
  <2>1. PICK k \in Stuck : \A h \in Stuck : k <= h
    BY LeastNat
  <2>2. k \in Nat /\ Upto(k) # {} /\ ~HasBest(k)
    OBVIOUS
  <2>3. k # 0
    <3> SUFFICES ASSUME k = 0 PROVE FALSE
      OBVIOUS
    <3>1. \A i \in S : i >= 1
      BY EdgesAssumption
    <3> QED BY <3>1, <2>2, <1>1
  <2>4. (k - 1) \in Nat /\ ~ (k <= k - 1)
    BY <2>2, <2>3
  <2>5. k - 1 \notin Stuck
    BY <2>1, <2>4
  <2>6. ASSUME NEW i \in Upto(k) PROVE i \in Upto(k-1) \/ i = k
    <3>1. i \in S /\ i \in Nat /\ i <= k
      BY <1>1
    <3>2. i <= k - 1 \/ i = k
      BY <3>1, <2>2
    <3> QED BY <3>1, <3>2
  <2>7. Upto(k-1) \subseteq Upto(k)
    BY <1>1, <2>2, <2>4
  <2>8. CASE Upto(k-1) = {}
    <3>1. Upto(k) = {k} /\ k \in S
      BY <2>8, <2>6, <2>2
    <3>2. Better(Edges, k, k)
      BY <3>1, <1>3
    <3> QED BY <3>1, <3>2, <2>2
  <2>9. CASE Upto(k-1) # {}
    <3>1. PICK b \in Upto(k-1) : \A j \in Upto(k-1) : Better(Edges, b, j)
      BY <2>9, <2>5, <2>4
    <3>2. b \in S /\ b \in Upto(k)
      BY <2>7
    <3>3. CASE k \notin S
      BY <3>1, <3>2, <3>3, <2>2, <2>6
    <3>4. CASE k \in S /\ Better(Edges, b, k)
      BY <3>1, <3>2, <3>4, <2>2, <2>6
    <3>5. CASE k \in S /\ Better(Edges, k, b)
      <4>1. k \in Upto(k)
        BY <3>5, <2>2
      <4>2. ASSUME NEW j \in Upto(k) PROVE Better(Edges, k, j)
        BY <1>3, <1>5, <2>6, <3>1, <3>2, <3>5
      <4> QED BY <4>1, <4>2, <2>2
    <3> QED BY <3>3, <3>4, <3>5, <3>2, <1>4
  <2> QED BY <2>8, <2>9
<1>7. Len(Edges) \in Nat /\ Upto(Len(Edges)) = S
  BY EdgesAssumption
<1> QED BY <1>6, <1>7

LEMMA BestIn ==
    ASSUME NEW S, S \subseteq DOMAIN Edges, S # {}
    PROVE  BestByWeightThenLexical(Edges, S) \in S
BY BestExists DEF BestByWeightThenLexical

\* select_edge returns an edge out of the node it was asked about, or none.
THEOREM SelectEdgeOutgoing ==
    ASSUME NEW n \in Nodes, NEW o, NEW ctx, DOMAIN o.suggested \subseteq Nat
    PROVE  SelectEdge(Edges, n, o, ctx) \in Outgoing(Edges, n) \cup {NoEdge}
<1> DEFINE matched   == ConditionMatched(Edges, n, o, ctx)
           labelled  == LabelMatched(Edges, n, o)
           suggested == SuggestionsThatMatch(Edges, n, o)
           plain     == Unconditional(Edges, n)
           first     == SuggestedBy(Edges, n, o.suggested[FirstInList(suggested)])
<1>1. /\ matched \subseteq Outgoing(Edges, n) /\ labelled \subseteq plain
      /\ plain \subseteq Outgoing(Edges, n) /\ first \subseteq plain
  BY DEF ConditionMatched, LabelMatched, Unconditional, SuggestedBy
<1>2. Outgoing(Edges, n) \subseteq DOMAIN Edges /\ DOMAIN Edges \subseteq Nat
  BY EdgesAssumption DEF Outgoing
<1>3. suggested # {} => first # {}
  <2> SUFFICES ASSUME suggested # {} PROVE first # {}
    OBVIOUS
  <2>1. suggested \subseteq Nat
    BY DEF SuggestionsThatMatch
  <2>2. FirstInList(suggested) \in suggested
    BY <2>1, FirstInListIn
  <2> QED BY <2>2 DEF SuggestionsThatMatch
<1>4. matched # {} => BestByWeightThenLexical(Edges, matched) \in matched
  BY <1>1, <1>2, BestIn
<1>5. plain # {} => BestByWeightThenLexical(Edges, plain) \in plain
  BY <1>1, <1>2, BestIn
<1>6. labelled # {} => FirstInList(labelled) \in labelled
  BY <1>1, <1>2, FirstInListIn
<1>7. first # {} => FirstInList(first) \in first
  BY <1>1, <1>2, FirstInListIn
<1> HIDE DEF matched, labelled, suggested, plain, first
<1>8. SelectEdge(Edges, n, o, ctx) =
        (CASE matched # {} -> BestByWeightThenLexical(Edges, matched)
          [] matched = {} /\ labelled # {} -> FirstInList(labelled)
          [] matched = {} /\ labelled = {} /\ suggested # {} -> FirstInList(first)
          [] matched = {} /\ labelled = {} /\ suggested = {} /\ plain # {} ->
                 BestByWeightThenLexical(Edges, plain)
          [] OTHER -> NoEdge)
  BY Zenon DEF SelectEdge, matched, labelled, suggested, plain, first
<1> QED BY <1>1, <1>3, <1>4, <1>5, <1>6, <1>7, <1>8
----------------------------------------------------------------------------
(* What the helpers of PipelineGraph return                                *)

LEMMA PlainOutcomeType ==
    ASSUME NEW s \in Statuses
    PROVE  PlainOutcome(s) \in Outcome /\ PlainOutcome(s).status = s
<1>1. "" \in Text
  BY TextAssumption DEF Missing
<1>2. <<>> \in Seq([kind: {"str", "int", "bad"}, id: Text])
  OBVIOUS
<1> QED BY <1>1, <1>2 DEF PlainOutcome, Outcome

\* The target of an edge is a node.
LEMMA EdgeTarget ==
    ASSUME NEW n, NEW e \in Outgoing(Edges, n)
    PROVE  Edges[e].to \in Nodes /\ e # NoEdge
<1>1. e \in 1..Len(Edges) /\ Edges[e] \in Edge
  BY EdgesAssumption DEF Outgoing
<1> QED BY <1>1 DEF Edge, NoEdge

LEMMA SelectFromSkippedOutgoing ==
    ASSUME NEW n \in Nodes, NEW ctx
    PROVE  SelectFromSkipped(n, ctx) \in Outgoing(Edges, n) \cup {NoEdge}
<1>1. SelectEdge(Edges, n, PlainOutcome("fail"), ctx)
        \in Outgoing(Edges, n) \cup {NoEdge}
  <2>1. DOMAIN PlainOutcome("fail").suggested \subseteq Nat
    BY DEF PlainOutcome
  <2> QED BY <2>1, SelectEdgeOutgoing
<1>2. Unconditional(Edges, n) \subseteq Outgoing(Edges, n)
  BY DEF Unconditional
<1>3. Unconditional(Edges, n) # {} =>
        BestByWeightThenLexical(Edges, Unconditional(Edges, n)) \in Outgoing(Edges, n)
  BY <1>2, BestIn DEF Outgoing
<1> QED BY <1>1, <1>3, Zenon DEF SelectFromSkipped

LEMMA RetryTargets ==
    /\ \A n : FailureRetryTarget(n) \in Nodes \cup {""}
    /\ \A completed, outcomes : JumpTarget(completed, outcomes) \in Nodes \cup {""}
BY Zenon DEF FailureRetryTarget, JumpTarget, SuggestedNode

\* Where the branches of a fan-out meet is a node.
LEMMA FanInType ==
    ASSUME NEW n \in Nodes, IsFanOut(n)
    PROVE  FanInNodes[n] \subseteq Nodes
BY DEF FanInNodes

\* Timeout, promotion and the artifact check leave well-formed results.
LEMMA ResultsType ==
    ASSUME NEW n \in Nodes
    PROVE  Results(n) \subseteq Result
<1>1. NodeAttrs[n].outcomes \subseteq Result
  BY AttrsAssumption DEF Node
<1>2. \A s \in Statuses : [outcome |-> PlainOutcome(s), updates |-> NoUpdates] \in Result
  <2>1. NoUpdates \in [CtxKeys -> Text]
    BY TextAssumption DEF NoUpdates
  <2> QED BY <2>1, PlainOutcomeType DEF Result
<1>3. \A r \in Result :
        [r EXCEPT !.outcome.status = "success", !.outcome.explicit = FALSE] \in Result
  BY DEF Result, Outcome, Statuses
<1>4. {"fail", "partial_success", "success"} \subseteq Statuses
  BY DEF Statuses
<1> QED BY <1>1, <1>2, <1>3, <1>4 DEF Results

LEMMA ContextAfterType ==
    ASSUME NEW ctx \in [CtxKeys -> Text], NEW r \in Result
    PROVE  ContextAfter(ctx, r) \in [CtxKeys -> Text]
<1>1. /\ r.outcome.status \in Text /\ r.outcome.label \in Text
      /\ r.updates \in [CtxKeys -> Text]
  BY TextAssumption DEF Result, Outcome
<1> QED BY <1>1 DEF ContextAfter

----------------------------------------------------------------------------
(* Type correctness *)

LEMMA RecordedType ==
    /\ NoOutcome \in Recorded
    /\ NoOutcomes \in [Nodes -> Recorded]
    /\ \A s \in Statuses : PlainOutcome(s) \in Recorded
    /\ \A o \in Recorded : /\ OutcomeRecord(o) = o
                           /\ DOMAIN o.suggested \subseteq Nat
<1>1. \A s \in Statuses : PlainOutcome(s) \in Recorded
  BY PlainOutcomeType DEF Recorded
<1>2. NoOutcome = [status |-> "none", label |-> "", suggested |-> <<>>, explicit |-> FALSE]
  BY DEF NoOutcome, PlainOutcome
<1>3. ASSUME NEW o \in Recorded
      PROVE  OutcomeRecord(o) = o /\ DOMAIN o.suggested \subseteq Nat
  <2>1. CASE o = NoOutcome
    <3>1. /\ o.status = "none" /\ o.label = "" /\ o.suggested = <<>>
          /\ o.explicit = FALSE
      BY <1>2, <2>1
    <3>2. DOMAIN o.suggested \subseteq Nat
      <4>1. <<>> \in Seq(Nat)
        OBVIOUS
      <4>2. o.suggested \in Seq(Nat)
        BY <3>1, <4>1
      <4> QED BY <4>2
    <3> QED BY <1>2, <2>1, <3>1, <3>2, Zenon DEF OutcomeRecord
  <2>2. CASE o \in Outcome
    BY <2>2 DEF Outcome, OutcomeRecord
  <2> QED BY <2>1, <2>2 DEF Recorded
<1> QED BY <1>1, <1>3 DEF Recorded, NoOutcomes

LEMMA OutputsType == \A n \in Nodes : NodeAttrs[n].outputs \subseteq Keys
BY AttrsAssumption DEF Node

\* What _save_checkpoint writes is a checkpoint.
LEMMA SaveType ==
    ASSUME NEW n \in Nodes, SaveCheckpoint(n),
           completed_nodes' \in Seq(Nodes), node_outcomes' \in [Nodes -> Recorded],
           context' \in Context,
           goal_gate_retries' \in Nat, failure_routing_retries' \in Nat,
           steps' \in Nat, iteration_count' \in Nat,
           node_execution_counts' \in [Nodes -> Nat]
    PROVE  ckpt' \in Checkpoint /\ last_checkpoint' = TRUE
<1>1. [m \in Nodes |-> OutcomeRecord(node_outcomes'[m])] \in [Nodes -> Recorded]
  BY RecordedType
<1> QED BY <1>1 DEF SaveCheckpoint, Checkpoint

LEMMA InitType == Init => TypeOK
<1> SUFFICES ASSUME Init PROVE TypeOK
  OBVIOUS
<1>1. InitialContext \in Context
  BY TextAssumption DEF InitialContext, Context, Missing
<1>2. ZeroCounts \in [Nodes -> Nat] /\ [n \in Nodes |-> "none"] \in [Nodes -> Marks]
  BY DEF ZeroCounts, Marks
<1>6. <<>> \in Seq(Nodes) /\ {} \subseteq Keys /\ {} \subseteq Verdicts
  OBVIOUS
<1>3. EmptyCheckpoint \in Checkpoint
  BY <1>1, <1>2, <1>6, RecordedType, NodesAssumption DEF EmptyCheckpoint, Checkpoint
<1>5. hop \in BOOLEAN /\ last_checkpoint \in BOOLEAN /\ cancelled \in BOOLEAN
  BY DEF Init
<1>4. phase \in Phases /\ verdict \in Verdicts
  BY DEF Init, Phases, Verdicts
<1> QED BY <1>1, <1>2, <1>3, <1>4, <1>5, <1>6, RecordedType, NodesAssumption DEF Init, TypeOK

\* Returning from _run_loop, for each of the reasons it has.
LEMMA ReturnType ==
    ASSUME TypeOK, NEW why \in Verdicts, Return(why),
           node_outcomes' \in [Nodes -> Recorded], steps' \in Nat
    PROVE  TypeOK'
BY DEF TypeOK, Return, Phases, retries, counts, Verdicts

LEMMA VerdictsHave ==
    {"", "step_bound", "fuse", "cancelled", "unsatisfied_gate",
     "child_dot_resolution", "no_fan_in", "no_matching_edge"} \subseteq Verdicts
BY DEF Verdicts

\* A step that only moves on to another node.
LEMMA GoType ==
    ASSUME TypeOK, cur' \in Nodes, phase' = "top",
           context' \in Context, goal_gate_retries' \in Nat,
           failure_routing_retries' \in Nat, iteration_count' \in Nat,
           UNCHANGED attempt \/ ClearAttempt,
           UNCHANGED <<hop, steps, node_execution_counts, last_checkpoint,
                       cancelled, verdict, ckpt, ghosts>>
    PROVE  TypeOK'
<1>1. /\ completed_nodes' \in Seq(Nodes)
      /\ node_outcomes' \in [Nodes -> Recorded]
      /\ failed_outputs' \subseteq Keys
  <2>1. CASE UNCHANGED attempt
    BY <2>1 DEF TypeOK, attempt
  <2>2. CASE ClearAttempt
    BY <2>2, RecordedType DEF ClearAttempt
  <2> QED BY <2>1, <2>2
<1> QED BY <1>1 DEF TypeOK, Phases, ghosts

LEMMA StepType == TypeOK /\ [Next]_vars => TypeOK'
<1> SUFFICES ASSUME TypeOK, [Next]_vars PROVE TypeOK'
  OBVIOUS
<1>1. CASE StepBoundExceeded \/ FuseExpiredBetweenNodes \/ CancelledBetweenNodes
  <2>1. steps' \in Nat /\ node_outcomes' \in [Nodes -> Recorded]
    BY <1>1 DEF TypeOK, StepBoundExceeded, FuseExpiredBetweenNodes,
                CancelledBetweenNodes
  <2> QED BY <1>1, <2>1, ReturnType, VerdictsHave
          DEF StepBoundExceeded, FuseExpiredBetweenNodes, CancelledBetweenNodes
<1>2. CASE ReachExit
  <2>1. steps' \in Nat
    BY <1>2 DEF TypeOK, ReachExit, Enter
  <2>2. ckpt' \in Checkpoint /\ last_checkpoint' = TRUE
    BY <1>2, <2>1, SaveType DEF TypeOK, ReachExit, attempt, retries, counts
  <2> QED BY <1>2, <2>1, <2>2
          DEF TypeOK, Phases, ReachExit, attempt, retries, counts, ghosts
<1>3. CASE ResumeHop
  <2>1. hop' \in BOOLEAN
    BY <1>3 DEF ResumeHop
  <2> QED BY <2>1, <1>3 DEF TypeOK, Phases, ResumeHop, Enter, attempt, retries, counts, ghosts
<1>4. CASE SkipNode
  <2>1. steps' \in Nat /\ completed_nodes' \in Seq(Nodes)
    BY <1>4 DEF TypeOK, SkipNode, Enter
  <2>5. failed_outputs' \subseteq Keys
    BY <1>4, OutputsType DEF TypeOK, SkipNode
  <2>2. node_outcomes' \in [Nodes -> Recorded]
    <3>1. PlainOutcome("skipped") \in Recorded
      BY RecordedType DEF Statuses
    <3> QED BY <1>4, <3>1 DEF TypeOK, SkipNode
  <2>3. gate_ledger' \in [Nodes -> Marks]
    BY <1>4 DEF TypeOK, SkipNode, RecordGate, Verdict, Marks
  <2>4. ckpt' \in Checkpoint /\ last_checkpoint' = TRUE
    BY <1>4, <2>1, <2>2, SaveType DEF TypeOK, SkipNode, retries, counts
  <2> QED BY <1>4, <2>1, <2>2, <2>3, <2>4, <2>5
          DEF TypeOK, Phases, SkipNode, retries, counts
<1>5. CASE StartNode
  BY <1>5 DEF TypeOK, Phases, StartNode, Enter, attempt, retries
<1>6. CASE GateRetry
  <2>1. cur' \in Nodes
    BY <1>6, RetryTargets DEF GateRetry, Jump
  <2>2. /\ ClearAttempt /\ phase' = "top"
        /\ UNCHANGED <<hop, steps, node_execution_counts, last_checkpoint,
                       cancelled, verdict, ckpt, ghosts>>
    BY <1>6 DEF GateRetry, counts
  <2>3. /\ context' \in Context /\ goal_gate_retries' \in Nat
        /\ failure_routing_retries' \in Nat /\ iteration_count' \in Nat
    <3>1. /\ goal_gate_retries' = goal_gate_retries + 1
          /\ UNCHANGED <<context, failure_routing_retries, iteration_count>>
      BY <1>6 DEF GateRetry, counts
    <3> QED BY <3>1 DEF TypeOK
  <2> QED BY <2>1, <2>2, <2>3, GoType
<1>7. CASE FinishAtExit
  <2>1. GateResult(completed_nodes, node_outcomes).status \in Verdicts
    <3>1. ASSUME NEW o \in Recorded PROVE o.status \in Verdicts
      <4>1. o \in Outcome => o.status \in Statuses
        BY DEF Outcome
      <4>2. NoOutcome.status = "none"
        BY DEF NoOutcome, PlainOutcome
      <4> QED BY <4>1, <4>2 DEF Recorded, Verdicts
    <3>2. completed_nodes # <<>> =>
            completed_nodes[Len(completed_nodes)] \in Nodes
      BY DEF TypeOK
    <3>3. PlainOutcome("success") \in Recorded
      BY RecordedType DEF Statuses
    <3>4. CASE Unsatisfied(node_outcomes) # {}
      BY <3>4 DEF GateResult, PlainOutcome, Verdicts, Statuses
    <3>5. CASE Unsatisfied(node_outcomes) = {}
      BY <3>1, <3>2, <3>3, <3>5 DEF GateResult, TypeOK
    <3> QED BY <3>4, <3>5
  <2> QED BY <1>7, <2>1, ReturnType, VerdictsHave DEF FinishAtExit, TypeOK
<1>8. CASE FinishNode
  <2>1. PICK r \in Results(cur) :
          /\ completed_nodes' = Append(completed_nodes, cur)
          /\ node_outcomes' = [node_outcomes EXCEPT ![cur] = r.outcome]
          /\ failed_outputs' = IF r.outcome.status = "fail"
                               THEN failed_outputs \cup NodeAttrs[cur].outputs
                               ELSE failed_outputs
          /\ context' = ContextAfter(context, r)
          /\ RecordGate(cur, r.outcome)
    BY <1>8 DEF FinishNode
  <2>2. r \in Result /\ r.outcome \in Recorded
    BY ResultsType DEF TypeOK, Result, Recorded
  <2>3. /\ completed_nodes' \in Seq(Nodes)
        /\ node_outcomes' \in [Nodes -> Recorded]
    BY <2>1, <2>2 DEF TypeOK
  <2>7. failed_outputs' \subseteq Keys
    BY <2>1, OutputsType DEF TypeOK
  <2>4. context' \in Context
    BY <2>1, <2>2, ContextAfterType DEF TypeOK, Context
  <2>5. gate_ledger' \in [Nodes -> Marks]
    BY <2>1 DEF TypeOK, RecordGate, Verdict, Marks
  <2>6. ckpt' \in Checkpoint /\ last_checkpoint' = TRUE
    BY <1>8, <2>3, <2>4, SaveType DEF TypeOK, FinishNode, retries, counts
  <2> QED BY <1>8, <2>3, <2>4, <2>5, <2>6, <2>7
          DEF TypeOK, Phases, FinishNode, retries, counts
<1>9. CASE CancelledAfterNode \/ FuseExpiredInNode \/ ChildGraphMissing
  <2>1. PlainOutcome("fail") \in Recorded
    BY RecordedType DEF Statuses
  <2>2. steps' \in Nat /\ node_outcomes' \in [Nodes -> Recorded]
    BY <1>9, <2>1 DEF TypeOK, CancelledAfterNode, FuseExpiredInNode, ChildGraphMissing
  <2> QED BY <1>9, <2>2, ReturnType, VerdictsHave
          DEF CancelledAfterNode, FuseExpiredInNode, ChildGraphMissing
<1>10. CASE RouteToFanIn
  <2>1. cur' \in Nodes
    BY <1>10, FanInType DEF TypeOK, RouteToFanIn
  <2> QED BY <1>10, <2>1, GoType DEF TypeOK, RouteToFanIn, retries, counts
<1>11. CASE NoConvergence \/ NoMatchingEdge \/ NoMatchingEdgeFromSkipped
  BY <1>11, ReturnType, VerdictsHave
     DEF TypeOK, NoConvergence, NoMatchingEdge, NoMatchingEdgeFromSkipped
<1>12. Selected # NoEdge => Edges[Selected].to \in Nodes
  <2>1. DOMAIN node_outcomes[cur].suggested \subseteq Nat
    BY RecordedType DEF TypeOK
  <2>2. Selected \in Outgoing(Edges, cur) \cup {NoEdge}
    BY <2>1, SelectEdgeOutgoing DEF TypeOK, Selected
  <2> QED BY <2>2, EdgeTarget
<1>13. CASE FollowEdge
  BY <1>12, <1>13, GoType DEF TypeOK, FollowEdge, retries, counts
<1>14. CASE RestartLoop
  <2>1. context' \in Context
    BY <1>14, TextAssumption DEF TypeOK, RestartLoop, Context, Missing
  <2> QED BY <1>12, <1>14, <2>1, GoType DEF TypeOK, RestartLoop
<1>15. CASE FailureRetry \/ FailureRetryFromSkipped
  <2>1. cur' \in Nodes
    BY <1>15, RetryTargets
       DEF FailureRetry, FailureRetryFromSkipped, CanRetryFailure
  <2> QED BY <1>15, <2>1, GoType
          DEF TypeOK, FailureRetry, FailureRetryFromSkipped, counts
<1>16. CASE FollowEdgeFromSkipped
  <2>1. cur' \in Nodes
    BY <1>16, SelectFromSkippedOutgoing, EdgeTarget
       DEF TypeOK, FollowEdgeFromSkipped, SkipSelected
  <2> QED BY <1>16, <2>1, GoType DEF TypeOK, FollowEdgeFromSkipped, retries, counts
<1>17. CASE MarkRunCompleted
  <2>1. [ckpt EXCEPT !.run_state = "completed"] \in Checkpoint
    BY DEF TypeOK, Checkpoint
  <2> QED BY <1>17, <2>1
          DEF TypeOK, Phases, MarkRunCompleted, attempt, retries, counts, ghosts
<1>18. CASE RequestCancel
  BY <1>18 DEF TypeOK, Phases, RequestCancel, attempt, retries, counts, ghosts
<1>19. CASE Crash \/ CrashWhileSaving
  <2>1. LoseMemory
    BY <1>19 DEF Crash, CrashWhileSaving
  <2>2. ckpt' \in Checkpoint
    BY <1>19 DEF TypeOK, Checkpoint, Crash, CrashWhileSaving
  <2>3. InitialContext \in Context
    BY TextAssumption DEF InitialContext, Context, Missing
  <2>4. /\ phase' \in Phases /\ verdict' \in Verdicts
        /\ hop' \in BOOLEAN /\ last_checkpoint' \in BOOLEAN /\ cancelled' \in BOOLEAN
    BY <2>1 DEF LoseMemory, Phases, Verdicts
  <2>5. /\ completed_nodes' \in Seq(Nodes) /\ failed_outputs' \subseteq Keys
        /\ node_outcomes' \in [Nodes -> Recorded]
    <3>1. /\ completed_nodes' = <<>> /\ failed_outputs' = {}
          /\ node_outcomes' = NoOutcomes
      BY <2>1, Zenon DEF LoseMemory, ClearAttempt
    <3> QED BY <3>1, RecordedType
  <2>6. node_execution_counts' \in [Nodes -> Nat]
    <3>1. node_execution_counts' = ZeroCounts
      BY <2>1, Zenon DEF LoseMemory
    <3> QED BY <3>1 DEF ZeroCounts
  <2>7. /\ cur' \in Nodes /\ context' \in Context
        /\ goal_gate_retries' = 0 /\ failure_routing_retries' = 0
        /\ steps' = 0 /\ iteration_count' = 0
        /\ interruptions' = interruptions + 1
        /\ UNCHANGED <<starts, gate_ledger, reported>>
    BY <2>1, <2>3, NodesAssumption DEF LoseMemory
  <2> QED BY <2>2, <2>4, <2>5, <2>6, <2>7 DEF TypeOK
<1>20. CASE Resume \/ ResumeReturned
  <2>1. Restore /\ interruptions' \in Nat
    BY <1>20 DEF TypeOK, Resume, ResumeReturned
  <2>2. DerivedFailedOutputs(ckpt.node_outcomes) \subseteq Keys
    BY AttrsAssumption DEF DerivedFailedOutputs, Node
  <2>3. ckpt \in Checkpoint
    BY DEF TypeOK
  <2> QED BY <2>1, <2>2, <2>3
          DEF TypeOK, Phases, Restore, RestoreBudgets, AlreadyRan, Checkpoint, Verdicts
<1>21. CASE Stopped \/ UNCHANGED vars
  BY <1>21 DEF Stopped, TypeOK, vars, attempt, retries, counts, ghosts
<1> QED
  BY <1>1, <1>2, <1>3, <1>4, <1>5, <1>6, <1>7, <1>8, <1>9, <1>10, <1>11, <1>13,
     <1>14, <1>15, <1>16, <1>17, <1>18, <1>19, <1>20, <1>21 DEF Next, Walk

\* Memory and checkpoint.json hold well-formed values, whatever the graph, the
\* outcomes and the crashes: every target the walk moves to is a node.
THEOREM TypeCorrect == Spec => []TypeOK
<1>1. Init => TypeOK
  BY InitType
<1>2. TypeOK /\ [Next]_vars => TypeOK'
  BY StepType
<1> QED BY <1>1, <1>2, PTL DEF Spec

----------------------------------------------------------------------------
(* A crash costs at most one handler start per interruption                 *)

\* Between a save and the next node's start the checkpoint holds the live
\* counts, and a start puts the live count of one node at most one ahead.
CountsInv ==
    /\ phase \in {"top", "route", "skip_route", "gate"} =>
          node_execution_counts = ckpt.node_execution_counts
    /\ phase # "crashed" =>
          \A n \in Nodes :
              node_execution_counts[n] <= ckpt.node_execution_counts[n] + 1
    /\ CrashCost

\* Steps that move neither a count nor the checkpoint's counts.
LEMMA CountsStill ==
    ASSUME TypeOK, TypeOK', CountsInv, phase # "crashed", phase' # "crashed",
           UNCHANGED <<node_execution_counts, ckpt.node_execution_counts, starts,
                       interruptions>>,
           phase' \in {"top", "route", "skip_route", "gate"} =>
               phase \in {"top", "route", "skip_route", "gate"}
    PROVE  CountsInv'
BY DEF CountsInv, CrashCost, CountsNow

\* A save brings the checkpoint's counts up to the live ones.
LEMMA CountsSaved ==
    ASSUME TypeOK, CountsInv, phase # "crashed", phase' # "crashed",
           ckpt'.node_execution_counts = node_execution_counts',
           UNCHANGED <<node_execution_counts, starts, interruptions>>,
           TypeOK'
    PROVE  CountsInv'
<1>1. \A n \in Nodes : node_execution_counts'[n] \in Nat
  BY DEF TypeOK
<1> QED BY <1>1 DEF CountsInv, CrashCost, CountsNow

\* At a crash the live counts are lost, and one more start is forgiven.
LEMMA CountsLost ==
    ASSUME TypeOK, CountsInv, phase # "crashed", phase' = "crashed",
           UNCHANGED <<ckpt.node_execution_counts, starts>>,
           interruptions' = interruptions + 1
    PROVE  CountsInv'
<1>1. ASSUME NEW n \in Nodes
      PROVE  starts[n] <= ckpt.node_execution_counts[n] + (interruptions + 1)
  <2>1. /\ starts[n] \in Nat /\ node_execution_counts[n] \in Nat
        /\ ckpt.node_execution_counts[n] \in Nat /\ interruptions \in Nat
    BY DEF TypeOK, Checkpoint
  <2>2. /\ starts[n] <= node_execution_counts[n] + interruptions
        /\ node_execution_counts[n] <= ckpt.node_execution_counts[n] + 1
    BY DEF CountsInv, CrashCost, CountsNow
  <2> QED BY <2>1, <2>2
<1>2. CrashCost'
  BY <1>1 DEF CrashCost, CountsNow
<1> QED BY <1>2 DEF CountsInv

LEMMA CountsStep == TypeOK /\ TypeOK' /\ CountsInv /\ [Next]_vars => CountsInv'
<1> SUFFICES ASSUME TypeOK, TypeOK', CountsInv, [Next]_vars PROVE CountsInv'
  OBVIOUS
<1>1. CASE \/ StepBoundExceeded \/ FuseExpiredBetweenNodes \/ CancelledBetweenNodes
           \/ FinishAtExit \/ CancelledAfterNode \/ FuseExpiredInNode
           \/ ChildGraphMissing \/ NoConvergence \/ NoMatchingEdge
           \/ NoMatchingEdgeFromSkipped
  <2>1. phase # "crashed" /\ \E why : Return(why)
    BY <1>1 DEF StepBoundExceeded, FuseExpiredBetweenNodes, CancelledBetweenNodes,
                FinishAtExit, CancelledAfterNode, FuseExpiredInNode,
                ChildGraphMissing, NoConvergence, NoMatchingEdge,
                NoMatchingEdgeFromSkipped
  <2>2. phase' = "complete"
        /\ UNCHANGED <<node_execution_counts, ckpt, starts, interruptions>>
    BY <2>1 DEF Return, counts
  <2> QED BY <2>1, <2>2, CountsStill
<1>2. CASE ReachExit \/ SkipNode \/ FinishNode
  <2>1. phase # "crashed" /\ phase' # "crashed"
    BY <1>2 DEF ReachExit, SkipNode, FinishNode, Enter
  <2>2. /\ ckpt'.node_execution_counts = node_execution_counts'
        /\ UNCHANGED <<node_execution_counts, starts, interruptions>>
    BY <1>2 DEF ReachExit, SkipNode, FinishNode, SaveCheckpoint, counts, ghosts
  <2> QED BY <2>1, <2>2, CountsSaved
<1>3. CASE StartNode
  <2>1. /\ phase = "top" /\ phase' = "exec"
        /\ node_execution_counts' = [node_execution_counts EXCEPT ![cur] = @ + 1]
        /\ starts' = [starts EXCEPT ![cur] = @ + 1]
        /\ UNCHANGED <<ckpt, interruptions>>
    BY <1>3 DEF StartNode, Enter
  <2>2. ASSUME NEW n \in Nodes
        PROVE  /\ node_execution_counts'[n] <= ckpt'.node_execution_counts[n] + 1
               /\ starts'[n] <= node_execution_counts'[n] + interruptions'
    <3>1. /\ starts[n] \in Nat /\ node_execution_counts[n] \in Nat
          /\ interruptions \in Nat /\ cur \in Nodes
      BY DEF TypeOK
    <3>2. /\ node_execution_counts = ckpt.node_execution_counts
          /\ starts[n] <= node_execution_counts[n] + interruptions
      BY <2>1 DEF CountsInv, CrashCost, CountsNow
    <3>3. starts \in [Nodes -> Nat] /\ node_execution_counts \in [Nodes -> Nat]
      BY DEF TypeOK
    <3>4. CASE n = cur
      BY <2>1, <3>1, <3>2, <3>3, <3>4
    <3>5. CASE n # cur
      BY <2>1, <3>1, <3>2, <3>3, <3>5
    <3> QED BY <3>4, <3>5
  <2> QED BY <2>1, <2>2 DEF CountsInv, CrashCost, CountsNow
<1>4. CASE \/ ResumeHop \/ GateRetry \/ RouteToFanIn \/ FollowEdge \/ RestartLoop
           \/ FailureRetry \/ FollowEdgeFromSkipped \/ FailureRetryFromSkipped
  <2>1. /\ phase \in {"top", "route", "skip_route", "gate"}
        /\ phase' \in {"top", "route"}
    BY <1>4 DEF ResumeHop, Enter, GateRetry, RouteToFanIn, FollowEdge, RestartLoop,
                FailureRetry, FollowEdgeFromSkipped, FailureRetryFromSkipped
  <2>2. UNCHANGED <<node_execution_counts, ckpt, starts, interruptions>>
    BY <1>4 DEF ResumeHop, GateRetry, RouteToFanIn, FollowEdge, RestartLoop,
                FailureRetry, FollowEdgeFromSkipped, FailureRetryFromSkipped,
                counts, ghosts
  <2> QED BY <2>1, <2>2, CountsStill
<1>5. CASE MarkRunCompleted
  <2>1. /\ phase = "complete" /\ phase' = "done"
        /\ UNCHANGED <<node_execution_counts, starts, interruptions>>
    BY <1>5 DEF MarkRunCompleted, counts, ghosts
  <2>2. UNCHANGED ckpt.node_execution_counts
    BY <1>5 DEF MarkRunCompleted, TypeOK, Checkpoint
  <2> QED BY <2>1, <2>2, CountsStill
<1>6. CASE RequestCancel
  <2>1. phase # "crashed"
    BY <1>6 DEF RequestCancel, Running
  <2>2. UNCHANGED <<phase, node_execution_counts, ckpt, starts, interruptions>>
    BY <1>6 DEF RequestCancel, counts, ghosts
  <2> QED BY <2>1, <2>2, CountsStill
<1>7. CASE Crash \/ CrashWhileSaving
  <2>1. phase # "crashed"
    BY <1>7 DEF Crash, CrashWhileSaving, Running, Saving
  <2>2. /\ phase' = "crashed" /\ interruptions' = interruptions + 1
        /\ UNCHANGED starts
    BY <1>7 DEF Crash, CrashWhileSaving, LoseMemory
  <2>3. UNCHANGED ckpt.node_execution_counts
    BY <1>7 DEF Crash, CrashWhileSaving, TypeOK, Checkpoint
  <2> QED BY <2>1, <2>2, <2>3, CountsLost
<1>8. CASE Resume \/ ResumeReturned
  <2>1. /\ phase' = "top" /\ node_execution_counts' = ckpt.node_execution_counts
        /\ UNCHANGED <<ckpt, starts>>
    BY <1>8 DEF Resume, ResumeReturned, Restore, RestoreBudgets
  <2>2. ASSUME NEW n \in Nodes
        PROVE  starts[n] <= ckpt.node_execution_counts[n] + interruptions'
    <3>1. /\ starts[n] \in Nat /\ node_execution_counts[n] \in Nat
          /\ ckpt.node_execution_counts[n] \in Nat /\ interruptions \in Nat
      BY DEF TypeOK, Checkpoint
    <3>2. CASE Resume
      BY <3>2 DEF Resume, CountsInv, CrashCost, CountsNow
    <3>3. CASE ResumeReturned
      <4>1. phase = "done" /\ interruptions' = interruptions + 1
        BY <3>3 DEF ResumeReturned
      <4>2. /\ starts[n] <= node_execution_counts[n] + interruptions
            /\ node_execution_counts[n] <= ckpt.node_execution_counts[n] + 1
        BY <4>1 DEF CountsInv, CrashCost, CountsNow
      <4> QED BY <3>1, <4>1, <4>2
    <3> QED BY <1>8, <3>2, <3>3
  <2>3. \A n \in Nodes : ckpt.node_execution_counts[n] \in Nat
    BY DEF TypeOK, Checkpoint
  <2> QED BY <2>1, <2>2, <2>3 DEF CountsInv, CrashCost, CountsNow
<1>9. CASE Stopped \/ UNCHANGED vars
  BY <1>9 DEF Stopped, vars, counts, ghosts, CountsInv, CrashCost, CountsNow
<1> QED BY <1>1, <1>2, <1>3, <1>4, <1>5, <1>6, <1>7, <1>8, <1>9 DEF Next, Walk

\* resume() repeats no completed work: over any number of crashes and resumes,
\* a handler is started at most once more per interruption than the restored
\* execution count says.
THEOREM CrashCostHolds == Spec => []CrashCost
<1>1. Init => CountsInv
  <2> SUFFICES ASSUME Init PROVE CountsInv
    OBVIOUS
  <2>1. /\ phase = "top" /\ interruptions = 0 /\ starts = ZeroCounts
        /\ node_execution_counts = ZeroCounts
        /\ ckpt.node_execution_counts = ZeroCounts
    BY DEF Init, EmptyCheckpoint
  <2>2. \A n \in Nodes : ZeroCounts[n] = 0
    BY DEF ZeroCounts
  <2> QED BY <2>1, <2>2 DEF CountsInv, CrashCost, CountsNow
<1>2. TypeOK /\ TypeOK' /\ CountsInv /\ [Next]_vars => CountsInv'
  BY CountsStep
<1>3. CountsInv => CrashCost
  BY DEF CountsInv
<1> QED BY <1>1, <1>2, <1>3, TypeCorrect, PTL DEF Spec

----------------------------------------------------------------------------
(* No handler runs on a failed input *)

\* The node loop proper: failed_outputs means something there.
Walking == phase \in {"top", "exec", "route", "skip_route"}

FailedInv ==
    /\ Walking => \A n \in Nodes : node_outcomes[n].status = "fail" =>
                       NodeAttrs[n].outputs \subseteq failed_outputs
    /\ phase = "exec" => ~MustSkip(cur)

LEMMA NoneFailed == \A n \in Nodes : NoOutcomes[n].status # "fail"
BY DEF NoOutcomes, NoOutcome, PlainOutcome

LEMMA FailedStep == TypeOK /\ FailedInv /\ [Next]_vars => FailedInv'
<1> SUFFICES ASSUME TypeOK, FailedInv, [Next]_vars PROVE FailedInv'
  OBVIOUS
<1>1. CASE phase' \in {"gate", "complete", "done", "crashed"}
  BY <1>1 DEF FailedInv, Walking
<1>2. CASE \/ ResumeHop \/ RouteToFanIn \/ FollowEdge
           \/ FollowEdgeFromSkipped \/ FailureRetryFromSkipped
  <2>1. Walking /\ phase' \in {"top", "route"} /\ UNCHANGED attempt
    BY <1>2 DEF ResumeHop, Enter, RouteToFanIn, FollowEdge,
                FollowEdgeFromSkipped, FailureRetryFromSkipped, Walking
  <2> QED BY <2>1 DEF FailedInv, attempt
<1>3. CASE StartNode
  <2>1. phase = "top" /\ phase' = "exec" /\ UNCHANGED <<attempt, cur>> /\ ~MustSkip(cur)
    BY <1>3 DEF StartNode, Enter
  <2> QED BY <2>1 DEF FailedInv, attempt, Walking, MustSkip
<1>4. CASE GateRetry \/ RestartLoop \/ FailureRetry
  <2>1. phase' = "top" /\ node_outcomes' = NoOutcomes
    BY <1>4 DEF GateRetry, RestartLoop, FailureRetry, ClearAttempt
  <2> QED BY <2>1, NoneFailed DEF FailedInv
<1>5. CASE SkipNode
  <2>1. /\ phase = "top" /\ phase' = "skip_route"
        /\ node_outcomes' = [node_outcomes EXCEPT ![cur] = PlainOutcome("skipped")]
        /\ failed_outputs' = failed_outputs \cup NodeAttrs[cur].outputs
    BY <1>5 DEF SkipNode, Enter
  <2>2. PlainOutcome("skipped").status # "fail"
    BY DEF PlainOutcome
  <2>3. \A n \in Nodes : node_outcomes'[n].status = "fail" =>
                             node_outcomes[n].status = "fail"
    BY <2>1, <2>2 DEF TypeOK
  <2> QED BY <2>1, <2>3 DEF FailedInv, Walking
<1>6. CASE FinishNode
  <2>1. PICK r \in Results(cur) :
          /\ node_outcomes' = [node_outcomes EXCEPT ![cur] = r.outcome]
          /\ failed_outputs' = IF r.outcome.status = "fail"
                               THEN failed_outputs \cup NodeAttrs[cur].outputs
                               ELSE failed_outputs
    BY <1>6 DEF FinishNode
  <2>2. phase = "exec" /\ phase' = "route"
    BY <1>6 DEF FinishNode
  <2>3. ASSUME NEW n \in Nodes, node_outcomes'[n].status = "fail"
        PROVE  NodeAttrs[n].outputs \subseteq failed_outputs'
    <3>1. CASE n = cur
      BY <2>1, <2>3, <3>1 DEF TypeOK
    <3>2. CASE n # cur
      <4>1. node_outcomes[n].status = "fail"
        BY <2>1, <2>3, <3>2 DEF TypeOK
      <4> QED BY <2>1, <2>2, <4>1 DEF FailedInv, Walking
    <3> QED BY <3>1, <3>2
  <2> QED BY <2>2, <2>3 DEF FailedInv
<1>7. CASE Resume \/ ResumeReturned
  <2>1. /\ phase' = "top" /\ node_outcomes' = ckpt.node_outcomes
        /\ failed_outputs' = DerivedFailedOutputs(ckpt.node_outcomes)
    BY <1>7 DEF Resume, ResumeReturned, Restore
  <2> QED BY <2>1 DEF FailedInv, DerivedFailedOutputs
<1>8. CASE RequestCancel \/ Stopped \/ UNCHANGED vars
  <2>1. UNCHANGED <<phase, cur, attempt>>
    BY <1>8 DEF RequestCancel, Stopped, vars
  <2> QED BY <2>1 DEF FailedInv, Walking, attempt, MustSkip
<1>9. ASSUME \E why : Return(why) PROVE phase' = "complete"
  BY <1>9 DEF Return
<1>10. CASE \/ StepBoundExceeded \/ FuseExpiredBetweenNodes \/ CancelledBetweenNodes
            \/ FinishAtExit \/ CancelledAfterNode \/ FuseExpiredInNode
            \/ ChildGraphMissing \/ NoConvergence \/ NoMatchingEdge
            \/ NoMatchingEdgeFromSkipped
  <2>1. \E why : Return(why)
    BY <1>10 DEF StepBoundExceeded, FuseExpiredBetweenNodes, CancelledBetweenNodes,
                 FinishAtExit, CancelledAfterNode, FuseExpiredInNode,
                 ChildGraphMissing, NoConvergence, NoMatchingEdge,
                 NoMatchingEdgeFromSkipped
  <2> QED BY <2>1, <1>9, <1>1
<1>11. CASE ReachExit \/ MarkRunCompleted \/ Crash \/ CrashWhileSaving
  BY <1>1, <1>11 DEF ReachExit, MarkRunCompleted, Crash, CrashWhileSaving, LoseMemory
<1> QED BY <1>2, <1>3, <1>4, <1>5, <1>6, <1>7, <1>8, <1>10, <1>11 DEF Next, Walk

\* A node is skipped, never executed, when a node whose recorded outcome is FAIL
\* was to produce a key it refers to, also in a process that resumed the run.
THEOREM NoFailedInputHolds == Spec => []NoFailedInput
<1>1. Init => FailedInv
  BY NoneFailed DEF Init, FailedInv
<1>2. TypeOK /\ FailedInv /\ [Next]_vars => FailedInv'
  BY FailedStep
<1>3. FailedInv => NoFailedInput
  BY DEF FailedInv, NoFailedInput, Walking, MustSkip
<1> QED BY <1>1, <1>2, <1>3, TypeCorrect, PTL DEF Spec

----------------------------------------------------------------------------
(* Budgets survive a kill and resume                                        *)

\* The live budgets have moved on from the checkpoint's.
BudgetsOn ==
    /\ steps >= ckpt.steps
    /\ phase = "exec" => steps > ckpt.steps
    /\ \/ iteration_count > ckpt.iteration_count
       \/ /\ iteration_count = ckpt.iteration_count
          /\ goal_gate_retries >= ckpt.goal_gate_retries
          /\ failure_routing_retries >= ckpt.failure_routing_retries

BudgetInv == Walking \/ phase = "gate" => BudgetsOn

\* What TypeOK says of the budgets.
LEMMA BudgetTypes ==
    ASSUME TypeOK
    PROVE  /\ steps \in Nat /\ iteration_count \in Nat
           /\ goal_gate_retries \in Nat /\ failure_routing_retries \in Nat
           /\ ckpt.steps \in Nat /\ ckpt.iteration_count \in Nat
           /\ ckpt.goal_gate_retries \in Nat /\ ckpt.failure_routing_retries \in Nat
BY DEF TypeOK, Checkpoint

\* The two ways the checkpoint can come to hold a later step.
LEMMA SavesAreLater ==
    ASSUME TypeOK, BudgetInv, ReachExit \/ SkipNode \/ FinishNode
    PROVE  /\ ckpt'.steps > ckpt.steps
           /\ \/ ckpt'.iteration_count > ckpt.iteration_count
              \/ /\ ckpt'.iteration_count = ckpt.iteration_count
                 /\ ckpt'.goal_gate_retries >= ckpt.goal_gate_retries
                 /\ ckpt'.failure_routing_retries >= ckpt.failure_routing_retries
           /\ ckpt'.steps = steps' /\ ckpt'.iteration_count = iteration_count'
           /\ ckpt'.goal_gate_retries = goal_gate_retries'
           /\ ckpt'.failure_routing_retries = failure_routing_retries'
<1>1. /\ ckpt'.steps = steps' /\ ckpt'.iteration_count = iteration_count'
      /\ ckpt'.goal_gate_retries = goal_gate_retries'
      /\ ckpt'.failure_routing_retries = failure_routing_retries'
  BY DEF ReachExit, SkipNode, FinishNode, SaveCheckpoint
<1>2. UNCHANGED <<iteration_count, goal_gate_retries, failure_routing_retries>>
  BY DEF ReachExit, SkipNode, FinishNode, counts, retries
<1>3. BudgetsOn
  BY DEF BudgetInv, Walking, ReachExit, SkipNode, FinishNode, Enter
<1>4. CASE FinishNode
  <2>1. phase = "exec" /\ steps' = steps
    BY <1>4 DEF FinishNode
  <2> QED BY <1>1, <1>2, <1>3, <2>1 DEF BudgetsOn
<1>5. CASE ReachExit \/ SkipNode
  <2>1. steps' = steps + 1
    BY <1>5 DEF ReachExit, SkipNode, Enter
  <2> QED BY <1>1, <1>2, <1>3, <2>1, BudgetTypes DEF BudgetsOn
<1> QED BY <1>4, <1>5

\* Every other step leaves the checkpoint as it is, torn, or completed.
LEMMA OtherwiseUnsaved ==
    ASSUME TypeOK, [Next]_vars
    PROVE  \/ ReachExit \/ SkipNode \/ FinishNode
           \/ UNCHANGED ckpt
           \/ ckpt'.run_state \in {"completed", "torn"}
<1>1. CASE \E why : Return(why)
  BY <1>1 DEF Return
<1>2. CASE \/ StepBoundExceeded \/ FuseExpiredBetweenNodes \/ CancelledBetweenNodes
            \/ FinishAtExit \/ CancelledAfterNode \/ FuseExpiredInNode
            \/ ChildGraphMissing \/ NoConvergence \/ NoMatchingEdge
            \/ NoMatchingEdgeFromSkipped
  <2>1. \E why : Return(why)
    BY <1>2 DEF StepBoundExceeded, FuseExpiredBetweenNodes, CancelledBetweenNodes,
                FinishAtExit, CancelledAfterNode, FuseExpiredInNode,
                ChildGraphMissing, NoConvergence, NoMatchingEdge,
                NoMatchingEdgeFromSkipped
  <2> QED BY <2>1, <1>1
<1>3. CASE \/ ResumeHop \/ StartNode \/ GateRetry \/ RouteToFanIn \/ FollowEdge
           \/ RestartLoop \/ FailureRetry \/ FollowEdgeFromSkipped
           \/ FailureRetryFromSkipped
  BY <1>3 DEF ResumeHop, StartNode, GateRetry, RouteToFanIn, FollowEdge, RestartLoop,
              FailureRetry, FollowEdgeFromSkipped, FailureRetryFromSkipped
<1>4. CASE MarkRunCompleted
  <2>1. ckpt' = [ckpt EXCEPT !.run_state = "completed"] \/ ckpt' = ckpt
    BY <1>4 DEF MarkRunCompleted
  <2> QED BY <2>1 DEF TypeOK, Checkpoint
<1>5. CASE CrashWhileSaving
  <2>1. ckpt' = [ckpt EXCEPT !.run_state = "torn"]
    BY <1>5 DEF CrashWhileSaving
  <2> QED BY <2>1 DEF TypeOK, Checkpoint
<1>6. CASE \/ RequestCancel \/ Crash \/ Resume \/ ResumeReturned \/ Stopped
           \/ UNCHANGED vars
  BY <1>6 DEF RequestCancel, Crash, Resume, ResumeReturned, Restore, Stopped, vars
<1> QED BY <1>2, <1>3, <1>4, <1>5, <1>6 DEF Next, Walk

LEMMA BudgetStep == TypeOK /\ BudgetInv /\ [Next]_vars => BudgetInv'
<1> SUFFICES ASSUME TypeOK, BudgetInv, [Next]_vars PROVE BudgetInv'
  OBVIOUS
<1>1. CASE phase' \in {"complete", "done", "crashed"}
  BY <1>1 DEF BudgetInv, Walking
<1>2. CASE ReachExit \/ SkipNode \/ FinishNode
  <2>1. phase' # "exec"
    BY <1>2 DEF ReachExit, SkipNode, FinishNode
  <2>2. /\ ckpt'.steps = steps' /\ ckpt'.iteration_count = iteration_count'
        /\ ckpt'.goal_gate_retries = goal_gate_retries'
        /\ ckpt'.failure_routing_retries = failure_routing_retries'
    BY <1>2, SavesAreLater
  <2>3. /\ steps' \in Nat /\ goal_gate_retries' \in Nat
        /\ failure_routing_retries' \in Nat
    BY <1>2, BudgetTypes
       DEF ReachExit, SkipNode, FinishNode, Enter, retries
  <2> QED BY <2>1, <2>2, <2>3 DEF BudgetInv, BudgetsOn
<1>3. CASE StartNode \/ ResumeHop
  <2>1. /\ steps' = steps + 1 /\ phase = "top"
        /\ UNCHANGED <<ckpt, iteration_count, goal_gate_retries, failure_routing_retries>>
    BY <1>3 DEF StartNode, ResumeHop, Enter, counts, retries
  <2> QED BY <2>1, BudgetTypes DEF BudgetInv, BudgetsOn, Walking
<1>4. CASE \/ RouteToFanIn \/ FollowEdge \/ FollowEdgeFromSkipped
           \/ GateRetry \/ FailureRetry \/ FailureRetryFromSkipped
  <2>1. /\ Walking \/ phase = "gate"
        /\ phase' = "top" /\ UNCHANGED <<ckpt, steps, iteration_count>>
    BY <1>4 DEF RouteToFanIn, FollowEdge, FollowEdgeFromSkipped, GateRetry,
                FailureRetry, FailureRetryFromSkipped, Walking, counts
  <2>2. /\ goal_gate_retries' = goal_gate_retries
           \/ goal_gate_retries' = goal_gate_retries + 1
        /\ failure_routing_retries' = failure_routing_retries
           \/ failure_routing_retries' = failure_routing_retries + 1
    BY <1>4 DEF RouteToFanIn, FollowEdge, FollowEdgeFromSkipped, GateRetry,
                FailureRetry, FailureRetryFromSkipped, retries
  <2> QED BY <2>1, <2>2, BudgetTypes DEF BudgetInv, BudgetsOn
<1>5. CASE RestartLoop
  <2>1. /\ phase = "route" /\ phase' = "top"
        /\ iteration_count' = iteration_count + 1 /\ UNCHANGED <<ckpt, steps>>
    BY <1>5 DEF RestartLoop
  <2> QED BY <2>1, BudgetTypes DEF BudgetInv, BudgetsOn, Walking
<1>6. CASE Resume \/ ResumeReturned
  <2>1. phase' = "top" /\ RestoreBudgets /\ UNCHANGED ckpt
    BY <1>6 DEF Resume, ResumeReturned, Restore
  <2> QED BY <2>1, BudgetTypes DEF RestoreBudgets, BudgetInv, BudgetsOn
<1>7. CASE RequestCancel \/ Stopped \/ UNCHANGED vars
  <2>1. UNCHANGED <<phase, ckpt, steps, iteration_count, retries>>
    BY <1>7 DEF RequestCancel, Stopped, vars, counts
  <2> QED BY <2>1 DEF BudgetInv, BudgetsOn, Walking, retries
<1>8. CASE \/ StepBoundExceeded \/ FuseExpiredBetweenNodes \/ CancelledBetweenNodes
           \/ FinishAtExit \/ CancelledAfterNode \/ FuseExpiredInNode
           \/ ChildGraphMissing \/ NoConvergence \/ NoMatchingEdge
           \/ NoMatchingEdgeFromSkipped \/ MarkRunCompleted
           \/ Crash \/ CrashWhileSaving
  BY <1>1, <1>8
     DEF StepBoundExceeded, FuseExpiredBetweenNodes, CancelledBetweenNodes,
         FinishAtExit, CancelledAfterNode, FuseExpiredInNode, ChildGraphMissing,
         NoConvergence, NoMatchingEdge, NoMatchingEdgeFromSkipped, Return,
         MarkRunCompleted, Crash, CrashWhileSaving, LoseMemory
<1> QED BY <1>2, <1>3, <1>4, <1>5, <1>6, <1>7, <1>8 DEF Next, Walk

\* Between two saves the steps grow and a budget is never refreshed, over any
\* number of kills and resumes, unless a loop_restart began a new iteration.
THEOREM BudgetsAreKept == Spec => BudgetsKept
<1>1. Init => BudgetInv
  <2> SUFFICES ASSUME Init PROVE BudgetInv
    OBVIOUS
  <2>1. /\ phase = "top" /\ steps = 0 /\ iteration_count = 0
        /\ goal_gate_retries = 0 /\ failure_routing_retries = 0
        /\ ckpt.steps = 0 /\ ckpt.iteration_count = 0
        /\ ckpt.goal_gate_retries = 0 /\ ckpt.failure_routing_retries = 0
    BY DEF Init, EmptyCheckpoint
  <2> QED BY <2>1 DEF BudgetInv, BudgetsOn
<1>2. TypeOK /\ BudgetInv /\ [Next]_vars => BudgetInv'
  BY BudgetStep
<1>3. TypeOK /\ BudgetInv /\ [Next]_vars =>
        [ckpt'.run_state = "in_flight" =>
           /\ ckpt'.steps > ckpt.steps
           /\ \/ ckpt'.iteration_count > ckpt.iteration_count
              \/ /\ ckpt'.iteration_count = ckpt.iteration_count
                 /\ ckpt'.goal_gate_retries >= ckpt.goal_gate_retries
                 /\ ckpt'.failure_routing_retries >= ckpt.failure_routing_retries
        ]_ckpt
  BY SavesAreLater, OtherwiseUnsaved
<1> QED BY <1>1, <1>2, <1>3, TypeCorrect, PTL DEF Spec, BudgetsKept

----------------------------------------------------------------------------
(* No success with a failed gate in the last attempt                        *)

\* The outcome tables agree with the last recorded verdict of each gate.
Agrees(completed, outcomes, ledger) ==
    \A i \in DOMAIN completed :
        LET n == completed[i]
        IN  NodeAttrs[n].goal_gate =>
                /\ outcomes[n].status # "none"
                /\ ledger[n] = Verdict(outcomes[n])

GateInv ==
    /\ Walking \/ phase = "gate" => Agrees(completed_nodes, node_outcomes, gate_ledger)
    /\ Agrees(ckpt.completed_nodes, ckpt.node_outcomes, gate_ledger)
    /\ phase # "complete" /\ phase # "done" => verdict = ""
    /\ \A n \in Nodes : ~NodeAttrs[n].goal_gate => gate_ledger[n] # "fail"
    /\ GatesHeldAtSuccess

LEMMA EmptyAgrees == \A outcomes, ledger : Agrees(<<>>, outcomes, ledger)
<1>1. DOMAIN <<>> = {}
  <2>1. <<>> \in Seq({})
    OBVIOUS
  <2> QED BY <2>1
<1> QED BY <1>1 DEF Agrees

\* Recording cur with outcome o keeps the live table in agreement.
LEMMA RecordAgrees ==
    ASSUME TypeOK, Agrees(completed_nodes, node_outcomes, gate_ledger), NEW o \in Outcome,
           completed_nodes' = Append(completed_nodes, cur),
           node_outcomes' = [node_outcomes EXCEPT ![cur] = o],
           RecordGate(cur, o)
    PROVE  Agrees(completed_nodes', node_outcomes', gate_ledger')
<1>1. /\ cur \in Nodes /\ completed_nodes \in Seq(Nodes)
      /\ node_outcomes \in [Nodes -> Recorded]
      /\ gate_ledger \in [Nodes -> Marks]
  BY DEF TypeOK
<1>2. o.status # "none"
  BY DEF Outcome, Statuses
<1>3. SUFFICES ASSUME NEW i \in DOMAIN completed_nodes',
                      NodeAttrs[completed_nodes'[i]].goal_gate
               PROVE  /\ node_outcomes'[completed_nodes'[i]].status # "none"
                      /\ gate_ledger'[completed_nodes'[i]]
                            = Verdict(node_outcomes'[completed_nodes'[i]])
  BY DEF Agrees
<1>4. completed_nodes'[i] = cur \/ (i \in DOMAIN completed_nodes
                                    /\ completed_nodes'[i] = completed_nodes[i])
  BY <1>1
<1>5. completed_nodes'[i] \in Nodes
  BY <1>1, <1>4
<1>6. CASE completed_nodes'[i] = cur
  <2>1. node_outcomes'[cur] = o
    BY <1>1
  <2>2. gate_ledger'[cur] = Verdict(o)
    BY <1>1, <1>3, <1>6 DEF RecordGate
  <2> QED BY <2>1, <2>2, <1>2, <1>6
<1>7. CASE completed_nodes'[i] # cur
  <2> DEFINE m == completed_nodes[i]
  <2>1. i \in DOMAIN completed_nodes /\ m # cur /\ m = completed_nodes'[i]
    BY <1>4, <1>7
  <2>2. node_outcomes[m].status # "none" /\ gate_ledger[m] = Verdict(node_outcomes[m])
    BY <1>3, <2>1 DEF Agrees
  <2>3. node_outcomes'[m] = node_outcomes[m]
    BY <1>1, <1>5, <2>1
  <2>4. gate_ledger'[m] = gate_ledger[m]
    BY <1>1, <1>5, <2>1 DEF RecordGate
  <2> QED BY <2>1, <2>2, <2>3, <2>4
<1> QED BY <1>6, <1>7

\* A save copies the tables.
LEMMA SaveAgrees ==
    ASSUME NEW n, SaveCheckpoint(n), node_outcomes' \in [Nodes -> Recorded],
           Agrees(completed_nodes', node_outcomes', gate_ledger')
    PROVE  Agrees(ckpt'.completed_nodes, ckpt'.node_outcomes, gate_ledger')
<1>1. [m \in Nodes |-> OutcomeRecord(node_outcomes'[m])] = node_outcomes'
  BY RecordedType
<1>2. ckpt'.completed_nodes = completed_nodes' /\ ckpt'.node_outcomes = node_outcomes'
  BY <1>1 DEF SaveCheckpoint
<1> QED BY <1>2

LEMMA GateStep == TypeOK /\ TypeOK' /\ GateInv /\ [Next]_vars => GateInv'
<1> SUFFICES ASSUME TypeOK, TypeOK', GateInv, [Next]_vars PROVE GateInv'
  OBVIOUS
<1>1. ASSUME NEW why \in Verdicts, Return(why),
             why \in {"success", "partial_success"} =>
                 /\ phase = "gate" /\ Unsatisfied(node_outcomes) = {}
      PROVE  GateInv'
  <2>1. /\ phase' = "complete" /\ verdict' = why
        /\ UNCHANGED <<completed_nodes, ckpt, gate_ledger>>
    BY <1>1 DEF Return
  <2>2. ASSUME verdict' \in {"success", "partial_success"}, NEW i \in DOMAIN completed_nodes
        PROVE  gate_ledger[completed_nodes[i]] # "fail" \/ ~NodeAttrs[completed_nodes[i]].goal_gate
    <3> DEFINE n == completed_nodes[i]
    <3>1. phase = "gate" /\ Unsatisfied(node_outcomes) = {} /\ n \in Nodes
      BY <1>1, <2>1, <2>2 DEF TypeOK
    <3>2. CASE NodeAttrs[n].goal_gate
      <4>1. node_outcomes[n].status # "none" /\ gate_ledger[n] = Verdict(node_outcomes[n])
        BY <3>1, <3>2, <2>2 DEF GateInv, Agrees
      <4>2. GateSatisfied(node_outcomes[n])
        BY <3>1, <3>2, <4>1 DEF Unsatisfied
      <4> QED BY <4>1, <4>2 DEF Verdict
    <3> QED BY <3>2
  <2>3. \A n \in Nodes : ~NodeAttrs[n].goal_gate => gate_ledger[n] # "fail"
    BY DEF GateInv
  <2>4. GatesHeldAtSuccess'
    BY <2>1, <2>2, <2>3 DEF GatesHeldAtSuccess
  <2> QED BY <2>1, <2>3, <2>4 DEF GateInv, Walking
<1>2. ASSUME verdict' = "" PROVE GatesHeldAtSuccess'
  BY <1>2 DEF GatesHeldAtSuccess
<1>3. CASE \/ StepBoundExceeded \/ FuseExpiredBetweenNodes \/ CancelledBetweenNodes
           \/ CancelledAfterNode \/ FuseExpiredInNode
           \/ ChildGraphMissing \/ NoConvergence \/ NoMatchingEdge
           \/ NoMatchingEdgeFromSkipped
  <2>1. \E why \in Verdicts \ {"success", "partial_success"} : Return(why)
    BY <1>3, VerdictsHave
       DEF StepBoundExceeded, FuseExpiredBetweenNodes, CancelledBetweenNodes,
           CancelledAfterNode, FuseExpiredInNode, ChildGraphMissing,
           NoConvergence, NoMatchingEdge, NoMatchingEdgeFromSkipped
  <2> QED BY <2>1, <1>1
<1>4. CASE FinishAtExit
  <2>1. phase = "gate" /\ Return(IF Unsatisfied(node_outcomes) # {}
                                 THEN "unsatisfied_gate"
                                 ELSE GateResult(completed_nodes, node_outcomes).status)
    BY <1>4 DEF FinishAtExit
  <2>2. CASE Unsatisfied(node_outcomes) # {}
    <3>1. Return("unsatisfied_gate")
      BY <2>1, <2>2
    <3> QED BY <3>1, <1>1, VerdictsHave
  <2>3. CASE Unsatisfied(node_outcomes) = {}
    <3> DEFINE why == GateResult(completed_nodes, node_outcomes).status
    <3>1. Return(why)
      BY <2>1, <2>3
    <3>2. why \in Verdicts
      BY <3>1 DEF Return, TypeOK
    <3> QED BY <2>1, <2>3, <3>1, <3>2, <1>1
  <2> QED BY <2>2, <2>3
<1>5. CASE \/ ResumeHop \/ StartNode \/ RouteToFanIn \/ FollowEdge
           \/ FollowEdgeFromSkipped \/ FailureRetryFromSkipped
  <2>1. /\ Walking /\ phase' \in {"top", "route", "exec"}
        /\ UNCHANGED <<attempt, verdict, ckpt, gate_ledger>>
    BY <1>5 DEF ResumeHop, StartNode, Enter, RouteToFanIn, FollowEdge,
                FollowEdgeFromSkipped, FailureRetryFromSkipped, Walking, ghosts
  <2>2. verdict' = ""
    BY <2>1 DEF GateInv, Walking
  <2> QED BY <2>1, <2>2, <1>2 DEF GateInv, attempt
<1>6. CASE GateRetry \/ RestartLoop \/ FailureRetry
  <2>1. /\ phase \in {"gate", "route"} /\ phase' = "top"
        /\ completed_nodes' = <<>>
        /\ UNCHANGED <<verdict, ckpt, gate_ledger>>
    BY <1>6 DEF GateRetry, RestartLoop, FailureRetry, ClearAttempt, ghosts
  <2>2. verdict' = ""
    BY <2>1 DEF GateInv
  <2> QED BY <2>1, <2>2, <1>2, EmptyAgrees DEF GateInv
<1>7. ASSUME phase \in {"top", "exec"}, phase' \in {"route", "skip_route"},
             UNCHANGED verdict, SaveCheckpoint(cur), NEW o \in Outcome,
             completed_nodes' = Append(completed_nodes, cur),
             node_outcomes' = [node_outcomes EXCEPT ![cur] = o],
             RecordGate(cur, o)
      PROVE  GateInv'
  <2>1. Agrees(completed_nodes', node_outcomes', gate_ledger')
    BY <1>7, RecordAgrees DEF GateInv, Walking
  <2>2. Agrees(ckpt'.completed_nodes, ckpt'.node_outcomes, gate_ledger')
    BY <1>7, <2>1, SaveAgrees DEF TypeOK
  <2>3. verdict' = ""
    BY <1>7 DEF GateInv
  <2>4. ASSUME NEW n \in Nodes, ~NodeAttrs[n].goal_gate PROVE gate_ledger'[n] # "fail"
    <3>1. gate_ledger'[n] = gate_ledger[n]
      BY <1>7, <2>4 DEF RecordGate, TypeOK
    <3> QED BY <2>4, <3>1 DEF GateInv
  <2> QED BY <2>1, <2>2, <2>3, <2>4, <1>2 DEF GateInv
<1>8. CASE SkipNode
  <2>1. PlainOutcome("skipped") \in Outcome
    BY PlainOutcomeType DEF Statuses
  <2> QED BY <1>8, <2>1, <1>7 DEF SkipNode, Enter
<1>9. CASE FinishNode
  <2>1. PICK r \in Results(cur) :
          /\ completed_nodes' = Append(completed_nodes, cur)
          /\ node_outcomes' = [node_outcomes EXCEPT ![cur] = r.outcome]
          /\ RecordGate(cur, r.outcome)
    BY <1>9 DEF FinishNode
  <2>2. r.outcome \in Outcome
    BY ResultsType DEF TypeOK, Result
  <2> QED BY <1>9, <2>1, <2>2, <1>7 DEF FinishNode
<1>10. CASE ReachExit
  <2>1. /\ phase = "top" /\ phase' = "gate" /\ SaveCheckpoint(cur)
        /\ UNCHANGED <<attempt, verdict, gate_ledger>>
    BY <1>10 DEF ReachExit, Enter, ghosts
  <2>2. Agrees(completed_nodes', node_outcomes', gate_ledger')
    BY <2>1 DEF GateInv, Walking, attempt
  <2>3. Agrees(ckpt'.completed_nodes, ckpt'.node_outcomes, gate_ledger')
    BY <2>1, <2>2, SaveAgrees DEF TypeOK
  <2>4. verdict' = ""
    BY <2>1 DEF GateInv
  <2> QED BY <2>1, <2>2, <2>3, <2>4, <1>2 DEF GateInv
<1>11. CASE MarkRunCompleted
  <2>1. /\ phase' = "done"
        /\ UNCHANGED <<completed_nodes, verdict, gate_ledger>>
    BY <1>11 DEF MarkRunCompleted, attempt, ghosts
  <2>2. UNCHANGED <<ckpt.completed_nodes, ckpt.node_outcomes>>
    BY <1>11 DEF MarkRunCompleted, TypeOK, Checkpoint
  <2> QED BY <2>1, <2>2 DEF GateInv, Walking, GatesHeldAtSuccess
<1>12. CASE RequestCancel \/ Stopped \/ UNCHANGED vars
  <2>1. UNCHANGED <<phase, attempt, verdict, ckpt, gate_ledger>>
    BY <1>12 DEF RequestCancel, Stopped, vars, ghosts
  <2> QED BY <2>1 DEF GateInv, Walking, attempt, GatesHeldAtSuccess
<1>13. CASE Crash \/ CrashWhileSaving
  <2>1. phase' = "crashed" /\ verdict' = "" /\ UNCHANGED gate_ledger
    BY <1>13 DEF Crash, CrashWhileSaving, LoseMemory
  <2>2. UNCHANGED <<ckpt.completed_nodes, ckpt.node_outcomes>>
    BY <1>13 DEF Crash, CrashWhileSaving, TypeOK, Checkpoint
  <2> QED BY <2>1, <2>2, <1>2 DEF GateInv, Walking
<1>14. CASE Resume \/ ResumeReturned
  <2>1. /\ phase' = "top" /\ verdict' = ""
        /\ completed_nodes' = ckpt.completed_nodes
        /\ node_outcomes' = ckpt.node_outcomes
        /\ UNCHANGED <<ckpt, gate_ledger>>
    BY <1>14 DEF Resume, ResumeReturned, Restore
  <2> QED BY <2>1, <1>2 DEF GateInv
<1> QED BY <1>3, <1>4, <1>5, <1>6, <1>8, <1>9, <1>10, <1>11, <1>12, <1>13, <1>14
        DEF Next, Walk

\* A run that reports success has no goal gate in its last attempt whose last
\* recorded verdict, in whichever process it was recorded, was not an explicit
\* success.
THEOREM GatesHold == Spec => []GatesHeldAtSuccess
<1>1. Init => GateInv
  <2> SUFFICES ASSUME Init PROVE GateInv
    OBVIOUS
  <2>1. /\ completed_nodes = <<>> /\ ckpt.completed_nodes = <<>> /\ verdict = ""
        /\ gate_ledger = [n \in Nodes |-> "none"]
    BY DEF Init, EmptyCheckpoint
  <2> QED BY <2>1, EmptyAgrees DEF GateInv, GatesHeldAtSuccess
<1>2. TypeOK /\ TypeOK' /\ GateInv /\ [Next]_vars => GateInv'
  BY GateStep
<1>3. GateInv => GatesHeldAtSuccess
  BY DEF GateInv
<1> QED BY <1>1, <1>2, <1>3, TypeCorrect, PTL DEF Spec

----------------------------------------------------------------------------
(* A reported success stands                                                *)

Succeeds(completed, outcomes) ==
    /\ Unsatisfied(outcomes) = {}
    /\ GateResult(completed, outcomes).status \in Success

\* At a gate the checkpoint holds the exit node and what the gates are checked on.
AtSavedExit ==
    /\ IsExit(ckpt.current_node) /\ cur = ckpt.current_node
    /\ completed_nodes = ckpt.completed_nodes /\ node_outcomes = ckpt.node_outcomes

\* Once success is on record the checkpoint is that of an exit node whose gates
\* hold, and no process leaves it but through the same gates.
SuccessInv ==
    /\ phase = "gate" => AtSavedExit
    /\ reported \cap Success # {} =>
          /\ IsExit(ckpt.current_node)
          /\ Succeeds(ckpt.completed_nodes, ckpt.node_outcomes)
          /\ \/ phase \in {"complete", "done", "crashed"}
             \/ phase \in {"top", "gate"} /\ AtSavedExit

\* A verdict announced is success only at an exit node that succeeds, and no
\* dead end where success was announced before.
LEMMA WhatReturns ==
    ASSUME TypeOK, SuccessInv, NEW why \in Verdicts, Return(why), phase # "complete",
           why \in Success => phase = "gate" /\ Succeeds(completed_nodes, node_outcomes)
    PROVE  SuccessInv'
<1>1. /\ phase' = "complete" /\ reported' = reported \cup {why} /\ UNCHANGED ckpt
  BY DEF Return
<1>2. CASE why \in Success
  BY <1>1, <1>2 DEF SuccessInv, AtSavedExit
<1>3. CASE why \notin Success
  BY <1>1, <1>3 DEF SuccessInv
<1> QED BY <1>2, <1>3

\* A gate result of success jumps nowhere.
LEMMA SuccessStays ==
    ASSUME NEW completed, NEW outcomes, Succeeds(completed, outcomes)
    PROVE  JumpTarget(completed, outcomes) = ""
<1>1. GateResult(completed, outcomes).status # "fail"
  BY DEF Succeeds, Success
<1> QED BY <1>1, Zenon DEF JumpTarget

LEMMA SuccessStep ==
    TypeOK /\ TypeOK' /\ SuccessInv /\ [Next]_vars =>
        /\ SuccessInv'
        /\ reported \cap Success # {} => (reported' \ reported) \cap DeadEnd = {}
<1> SUFFICES ASSUME TypeOK, TypeOK', SuccessInv, [Next]_vars
             PROVE  /\ SuccessInv'
                    /\ reported \cap Success # {} => (reported' \ reported) \cap DeadEnd = {}
  OBVIOUS
<1>1. CASE StepBoundExceeded \/ FuseExpiredBetweenNodes \/ CancelledBetweenNodes
           \/ CancelledAfterNode \/ FuseExpiredInNode \/ ChildGraphMissing
  <2>1. PICK why \in {"step_bound", "fuse", "cancelled", "child_dot_resolution"} :
            Return(why) /\ phase \in {"top", "exec"}
    BY <1>1 DEF StepBoundExceeded, FuseExpiredBetweenNodes, CancelledBetweenNodes,
                CancelledAfterNode, FuseExpiredInNode, ChildGraphMissing
  <2>2. SuccessInv'
    BY <2>1, WhatReturns, VerdictsHave DEF Success
  <2> QED BY <2>1, <2>2 DEF Return, DeadEnd
<1>2. CASE NoConvergence \/ NoMatchingEdge \/ NoMatchingEdgeFromSkipped
  <2>1. PICK why \in {"no_fan_in", "no_matching_edge"} :
            Return(why) /\ phase \in {"route", "skip_route"}
    BY <1>2 DEF NoConvergence, NoMatchingEdge, NoMatchingEdgeFromSkipped
  <2>2. SuccessInv'
    BY <2>1, WhatReturns, VerdictsHave DEF Success
  <2>3. reported \cap Success = {}
    BY <2>1 DEF SuccessInv
  <2> QED BY <2>2, <2>3
<1>3. CASE FinishAtExit
  <2> DEFINE why == IF Unsatisfied(node_outcomes) # {} THEN "unsatisfied_gate"
                    ELSE GateResult(completed_nodes, node_outcomes).status
  <2>1. phase = "gate" /\ Return(why)
    BY <1>3 DEF FinishAtExit
  <2>2. why \in Verdicts
    BY <2>1 DEF Return, TypeOK
  <2>3. why \in Success => Succeeds(completed_nodes, node_outcomes)
    BY DEF Success, Succeeds
  <2>4. ASSUME reported \cap Success # {} PROVE why \in Success
    <3>1. Succeeds(completed_nodes, node_outcomes)
      BY <2>1, <2>4 DEF SuccessInv, AtSavedExit
    <3> QED BY <3>1 DEF Succeeds
  <2> HIDE DEF why
  <2>5. SuccessInv'
    BY <2>1, <2>2, <2>3, WhatReturns
  <2>6. reported' = reported \cup {why}
    BY <2>1 DEF Return
  <2> QED BY <2>4, <2>5, <2>6 DEF Success, DeadEnd
<1>4. CASE ReachExit
  <2>1. /\ phase = "top" /\ IsExit(cur) /\ phase' = "gate" /\ SaveCheckpoint(cur)
        /\ UNCHANGED <<cur, completed_nodes, node_outcomes, reported>>
    BY <1>4 DEF ReachExit, Enter, attempt, ghosts
  <2>2. [m \in Nodes |-> OutcomeRecord(node_outcomes'[m])] = node_outcomes'
    BY RecordedType DEF TypeOK
  <2>3. /\ ckpt'.current_node = cur /\ ckpt'.completed_nodes = completed_nodes
        /\ ckpt'.node_outcomes = node_outcomes
    BY <2>1, <2>2 DEF SaveCheckpoint
  <2>4. AtSavedExit'
    BY <2>1, <2>3 DEF AtSavedExit, IsExit
  <2>5. reported \cap Success # {} => Succeeds(ckpt'.completed_nodes, ckpt'.node_outcomes)
    BY <2>1, <2>3 DEF SuccessInv, AtSavedExit
  <2> QED BY <2>1, <2>4, <2>5 DEF SuccessInv, AtSavedExit
<1>5. CASE \/ ResumeHop \/ SkipNode \/ StartNode \/ FinishNode \/ RouteToFanIn \/ FollowEdge
           \/ RestartLoop \/ FailureRetry \/ FollowEdgeFromSkipped \/ FailureRetryFromSkipped
  <2>1. /\ \/ phase \in {"exec", "route", "skip_route"}
           \/ phase = "top" /\ ~IsExit(cur)
        /\ phase' # "gate" /\ reported' = reported
    BY <1>5 DEF ResumeHop, SkipNode, StartNode, FinishNode, RouteToFanIn, FollowEdge,
                RestartLoop, FailureRetry, FollowEdgeFromSkipped, FailureRetryFromSkipped,
                Enter, ghosts
  <2>2. reported \cap Success = {}
    BY <2>1 DEF SuccessInv, AtSavedExit
  <2> QED BY <2>1, <2>2 DEF SuccessInv
<1>6. CASE GateRetry
  <2>1. /\ phase = "gate" /\ Jump # "" /\ phase' = "top" /\ reported' = reported
    BY <1>6 DEF GateRetry, ghosts
  <2>2. reported \cap Success = {}
    BY <2>1, SuccessStays DEF SuccessInv, AtSavedExit, Jump
  <2> QED BY <2>1, <2>2 DEF SuccessInv
<1>7. CASE MarkRunCompleted \/ Crash \/ CrashWhileSaving
  <2>1. phase' \in {"done", "crashed"} /\ reported' = reported
    BY <1>7 DEF MarkRunCompleted, Crash, CrashWhileSaving, LoseMemory, ghosts
  <2>2. UNCHANGED <<ckpt.current_node, ckpt.completed_nodes, ckpt.node_outcomes>>
    BY <1>7 DEF MarkRunCompleted, Crash, CrashWhileSaving, TypeOK, Checkpoint
  <2> QED BY <2>1, <2>2 DEF SuccessInv
<1>8. CASE Resume \/ ResumeReturned
  <2>1. Restore
    BY <1>8 DEF Resume, ResumeReturned
  <2>2. /\ phase' = "top" /\ cur' = ckpt.current_node
        /\ completed_nodes' = ckpt.completed_nodes /\ node_outcomes' = ckpt.node_outcomes
        /\ UNCHANGED <<ckpt, reported>>
    BY <2>1 DEF Restore
  <2> QED BY <2>2 DEF SuccessInv, AtSavedExit
<1>9. CASE RequestCancel \/ Stopped \/ UNCHANGED vars
  <2>1. UNCHANGED <<phase, cur, completed_nodes, node_outcomes, ckpt, reported>>
    BY <1>9 DEF RequestCancel, Stopped, vars, attempt, ghosts
  <2> QED BY <2>1 DEF SuccessInv, AtSavedExit
<1> QED BY <1>1, <1>2, <1>3, <1>4, <1>5, <1>6, <1>7, <1>8, <1>9 DEF Next, Walk

\* A success that was announced is followed by no failed gate and no missing edge,
\* in whichever process, over any number of crashes and resumes (resume()).
THEOREM SuccessStands == Spec => ReportedSuccessStands
<1>1. Init => SuccessInv
  BY DEF Init, SuccessInv
<1>2. TypeOK /\ TypeOK' /\ SuccessInv /\ [Next]_vars => SuccessInv'
  BY SuccessStep
<1>3. TypeOK /\ TypeOK' /\ SuccessInv /\ [Next]_vars =>
        [reported \cap Success # {} => (reported' \ reported) \cap DeadEnd = {}]_reported
  BY SuccessStep
<1> QED BY <1>1, <1>2, <1>3, TypeCorrect, PTL DEF Spec, ReportedSuccessStands

----------------------------------------------------------------------------
(* The checkpoint is a walk of the graph                                    *)

\* The instance names the operators of the graph anew; each is the same.
LEMMA SameEdges ==
    ASSUME NEW n, NEW ctx
    PROVE  /\ \A o : Record!SelectEdge(Edges, n, o, ctx) = SelectEdge(Edges, n, o, ctx)
           /\ Record!SelectFromSkipped(n, ctx) = SelectFromSkipped(n, ctx)
BY Zenon
   DEF Record!SelectEdge, Record!SelectFromSkipped, Record!ConditionMatched,
       Record!EvaluateCondition, Record!EvaluateClause, Record!ResolveKey, Record!Missing,
       Record!Outgoing, Record!Unconditional, Record!Better, Record!BestByWeightThenLexical,
       Record!FirstInList, Record!LabelMatched, Record!CoercibleTo, Record!SuggestedBy,
       Record!SuggestionsThatMatch, Record!NoEdge, Record!PlainOutcome,
       SelectEdge, SelectFromSkipped, ConditionMatched, EvaluateCondition, EvaluateClause,
       ResolveKey, Missing, Outgoing, Unconditional, Better, BestByWeightThenLexical,
       FirstInList, LabelMatched, CoercibleTo, SuggestedBy, SuggestionsThatMatch, NoEdge,
       PlainOutcome

LEMMA SameTargets ==
    /\ \A n : /\ Record!FailureRetryTarget(n) = FailureRetryTarget(n)
              /\ Record!IsExit(n) = IsExit(n) /\ Record!IsFanOut(n) = IsFanOut(n)
    /\ \A completed, outcomes :
          Record!JumpTarget(completed, outcomes) = JumpTarget(completed, outcomes)
    /\ Record!FanInNodes = FanInNodes
    /\ Record!NoEdge = NoEdge /\ Record!Missing = Missing
<1>1. ASSUME NEW n
      PROVE  /\ Record!FailureRetryTarget(n) = FailureRetryTarget(n)
             /\ Record!IsExit(n) = IsExit(n) /\ Record!IsFanOut(n) = IsFanOut(n)
  BY Zenon DEF Record!FailureRetryTarget, Record!IsExit, Record!IsFanOut, Record!Outgoing,
               Record!Cardinality, FailureRetryTarget, IsExit, IsFanOut, Outgoing, Cardinality
<1>2. ASSUME NEW completed, NEW outcomes
      PROVE  Record!JumpTarget(completed, outcomes) = JumpTarget(completed, outcomes)
  BY Zenon
     DEF Record!JumpTarget, Record!GateResult, Record!Unsatisfied, Record!GateSatisfied,
         Record!IsSuccess, Record!PlainOutcome, Record!GateRetryTarget,
         Record!FailureRetryTarget, Record!FirstUnsatisfied, Record!SuggestedNode,
         JumpTarget, GateResult, Unsatisfied, GateSatisfied, IsSuccess, PlainOutcome,
         GateRetryTarget, FailureRetryTarget, FirstUnsatisfied, SuggestedNode
<1>3. Record!FanInNodes = FanInNodes
  BY Zenon
     DEF Record!FanInNodes, Record!IsFanOut, Record!Outgoing, Record!Targets,
         Record!ConvergenceDepth, Record!Depth, Record!Unreached, Record!Within,
         Record!Cardinality, Cardinality,
         FanInNodes, IsFanOut, Outgoing, Targets, ConvergenceDepth, Depth, Unreached, Within
<1>4. Record!NoEdge = NoEdge /\ Record!Missing = Missing
  BY DEF Record!NoEdge, NoEdge, Record!Missing, Missing
<1> QED BY <1>1, <1>2, <1>3, <1>4

LEMMA SameResults ==
    /\ \A n : Record!Results(n) = Results(n)
    /\ \A ctx, r : Record!ContextAfter(ctx, r) = ContextAfter(ctx, r)
    /\ \A s : Record!PlainOutcome(s) = PlainOutcome(s)
    /\ Record!NoOutcomes = NoOutcomes /\ Record!InitialContext = InitialContext
<1>1. ASSUME NEW n PROVE Record!Results(n) = Results(n)
  BY Zenon DEF Record!Results, Record!PlainOutcome, Record!NoUpdates, Record!Kept,
               Record!IsSuccess, Results, PlainOutcome, NoUpdates, Kept, IsSuccess
<1>2. ASSUME NEW ctx, NEW r PROVE Record!ContextAfter(ctx, r) = ContextAfter(ctx, r)
  BY Zenon DEF Record!ContextAfter, Record!Kept, ContextAfter, Kept
<1>3. /\ \A s : Record!PlainOutcome(s) = PlainOutcome(s)
      /\ Record!NoOutcomes = NoOutcomes /\ Record!InitialContext = InitialContext
  BY Zenon DEF Record!PlainOutcome, PlainOutcome, Record!NoOutcomes, NoOutcomes,
               Record!NoOutcome, NoOutcome, Record!InitialContext, InitialContext,
               Record!Missing, Missing
<1> QED BY <1>1, <1>2, <1>3

Written == ckpt.steps # 0

Live == [node |-> cur, trail |-> completed_nodes, outcomes |-> node_outcomes, ctx |-> context]

AtSaved ==
    /\ Written /\ cur = ckpt.current_node
    /\ completed_nodes = ckpt.completed_nodes /\ node_outcomes = ckpt.node_outcomes
    /\ context = ckpt.context

\* Where the walk may go on to from the node just recorded, in the engine's own state.
On(n) == [node |-> n, trail |-> completed_nodes, outcomes |-> node_outcomes, ctx |-> context]

Afresh(n) == [node |-> n, trail |-> <<>>, outcomes |-> NoOutcomes, ctx |-> context]

\* Every hop the engine can take after a save is one of the walk's.
LEMMA HopsAtSaved ==
    ASSUME TypeOK, AtSaved
    PROVE  /\ IsExit(cur) /\ Jump # Missing => Afresh(Jump) \in Record!Hops
           /\ ~IsExit(cur) /\ IsFanOut(cur) =>
                \A n \in FanInNodes[cur] : On(n) \in Record!Hops
           /\ ~IsExit(cur) /\ ~IsFanOut(cur) /\ Selected # NoEdge =>
                Record!AlongEdge(Selected) \in Record!Hops
           /\ (/\ ~IsExit(cur) /\ ~IsFanOut(cur) /\ Selected = NoEdge
               /\ FailureRetryTarget(cur) # Missing) =>
                Afresh(FailureRetryTarget(cur)) \in Record!Hops
           /\ ~IsExit(cur) /\ node_outcomes[cur].status = "skipped" =>
                /\ SkipSelected # NoEdge => On(Edges[SkipSelected].to) \in Record!Hops
                /\ SkipSelected = NoEdge /\ FailureRetryTarget(cur) # Missing =>
                     On(FailureRetryTarget(cur)) \in Record!Hops
<1> DEFINE at == IF ckpt.steps = 0 THEN "" ELSE ckpt.current_node
<1>1. /\ completed_nodes = ckpt.completed_nodes
      /\ node_outcomes = ckpt.node_outcomes /\ context = ckpt.context
  BY Zenon DEF AtSaved
<1>2. at = cur /\ at # ""
  BY NodesAssumption, Zenon DEF AtSaved, Written, TypeOK
<1>3. /\ \A n : Record!Onward(n) = On(n) /\ Record!Afresh(n) = Afresh(n)
  BY <1>1, SameResults, Zenon DEF Record!Onward, Record!Afresh, On, Afresh
<1>4. Record!Hops = IF IsExit(cur) THEN Record!FromExit
                    ELSE Record!FromNode \cup
                         (IF node_outcomes[cur].status = "skipped"
                          THEN Record!FromSkipped ELSE {})
  BY <1>1, <1>2, SameTargets, Zenon DEF Record!Hops
<1>5. Record!FromExit = IF Jump # Missing THEN {Afresh(Jump)} ELSE {}
  BY <1>1, <1>3, SameTargets, Zenon DEF Record!FromExit, Jump, Missing
<1>6. /\ Record!SelectEdge(Edges, at, ckpt.node_outcomes[at], ckpt.context) = Selected
      /\ Record!SelectFromSkipped(at, ckpt.context) = SkipSelected
      /\ Record!FailureRetryTarget(at) = FailureRetryTarget(cur)
      /\ Record!NoEdge = NoEdge
  BY <1>1, <1>2, SameEdges, SameTargets, Zenon DEF Selected, SkipSelected
<1>7. IsFanOut(cur) => Record!FromNode = {Record!Onward(n) : n \in FanInNodes[cur]}
  BY <1>2, SameTargets, Zenon DEF Record!FromNode
<1>8. ~IsFanOut(cur) /\ Selected # NoEdge => Record!FromNode = {Record!AlongEdge(Selected)}
  BY <1>2, <1>6, SameTargets, Zenon DEF Record!FromNode
<1>9. ~IsFanOut(cur) /\ Selected = NoEdge /\ FailureRetryTarget(cur) # Missing =>
        Record!FromNode = {Record!Afresh(FailureRetryTarget(cur))}
  BY <1>2, <1>6, SameTargets, Zenon DEF Record!FromNode, Missing
<1>10. SkipSelected # NoEdge =>
         Record!FromSkipped = {Record!Onward(Edges[SkipSelected].to)}
  BY <1>2, <1>6, SameTargets, Zenon DEF Record!FromSkipped
<1>11. SkipSelected = NoEdge /\ FailureRetryTarget(cur) # Missing =>
         Record!FromSkipped = {Record!Onward(FailureRetryTarget(cur))}
  BY <1>2, <1>6, SameTargets, Zenon DEF Record!FromSkipped, Missing
<1> HIDE DEF at
<1> QED BY <1>3, <1>4, <1>5, <1>7, <1>8, <1>9, <1>10, <1>11

\* The walk's hops depend on the checkpoint alone.
LEMMA HopsStay ==
    ASSUME UNCHANGED ckpt
    PROVE  Record!Hops' = Record!Hops
BY Zenon DEF Record!Hops, Record!FromExit, Record!FromNode, Record!FromSkipped,
             Record!Onward, Record!Afresh, Record!AlongEdge

LEMMA AlongSelected ==
    ASSUME TypeOK, AtSaved, Selected # NoEdge
    PROVE  Record!AlongEdge(Selected) =
             IF Edges[Selected].restart
             THEN [node |-> Edges[Selected].to, trail |-> <<>>, outcomes |-> NoOutcomes,
                   ctx |-> [context EXCEPT !["preferred_label"] = Missing]]
             ELSE On(Edges[Selected].to)
<1>1. context = ckpt.context /\ Record!Onward(Edges[Selected].to) = On(Edges[Selected].to)
      /\ Record!Afresh(Edges[Selected].to) = Afresh(Edges[Selected].to)
  BY SameResults, Zenon DEF AtSaved, Record!Onward, Record!Afresh, On, Afresh
<1>2. CASE Edges[Selected].restart
  <2>1. Record!AlongEdge(Selected) =
          [Afresh(Edges[Selected].to) EXCEPT !.ctx =
              [context EXCEPT !["preferred_label"] = Missing]]
    BY <1>1, <1>2, SameTargets, Zenon DEF Record!AlongEdge
  <2> QED BY <1>2, <2>1 DEF Afresh
<1>3. CASE ~Edges[Selected].restart
  BY <1>1, <1>3, SameTargets, Zenon DEF Record!AlongEdge
<1> QED BY <1>2, <1>3

\* What the walk of the record asks of the engine: an iteration begins either
\* where the record leads, or, just resumed, where the record stands; and the
\* node in hand is recorded before its edge is chosen.
WalkInv ==
    /\ Resumable => Written
    /\ Written /\ ~IsExit(ckpt.current_node) => AlreadyRan(ckpt)
    /\ \A n \in Nodes : IsExit(n) => /\ node_outcomes[n].status = "none"
                                     /\ ckpt.node_outcomes[n].status = "none"
    /\ phase = "top" => \/ ~hop /\ Live \in Record!Hops
                        \/ AtSaved /\ hop = AlreadyRan(ckpt)
    /\ phase = "exec" => ~hop /\ steps # 0 /\ Live \in Record!Hops /\ ~IsExit(cur)
    /\ phase \in {"route", "skip_route"} => ~hop /\ AtSaved /\ ~IsExit(cur)
    /\ phase = "skip_route" => node_outcomes[cur].status = "skipped"
    /\ phase = "gate" => ~hop /\ AtSaved /\ IsExit(cur)

RecordStays == UNCHANGED Record!walkVars

LEMMA RecordStaysPut ==
    /\ UNCHANGED ckpt => RecordStays
    /\ (UNCHANGED <<ckpt.steps, ckpt.current_node, ckpt.completed_nodes,
                    ckpt.node_outcomes, ckpt.context>>) => RecordStays
BY Zenon DEF RecordStays, Record!walkVars

LEMMA NoneRan == \A n \in Nodes : NoOutcomes[n].status = "none"
BY Zenon DEF NoOutcomes, NoOutcome, PlainOutcome

\* What a save leaves.
LEMMA SaveIsWritten ==
    ASSUME TypeOK', SaveCheckpoint(cur), UNCHANGED cur, steps' # 0
    PROVE  /\ AtSaved' /\ Written' /\ ckpt'.run_state = "in_flight"
           /\ ckpt'.steps # 0 /\ ckpt'.current_node = cur
           /\ ckpt'.completed_nodes = completed_nodes'
           /\ ckpt'.node_outcomes = node_outcomes' /\ ckpt'.context = context'
<1>1. [m \in Nodes |-> OutcomeRecord(node_outcomes'[m])] = node_outcomes'
  BY RecordedType DEF TypeOK
<1> QED BY <1>1 DEF SaveCheckpoint, AtSaved, Written

\* A save of the node in hand, which the record leads to, is a step of the walk.
LEMMA SaveIsAStep ==
    ASSUME Live \in Record!Hops,
           ckpt'.steps # 0, ckpt'.current_node = cur,
           \/ /\ IsExit(cur)
              /\ ckpt'.completed_nodes = completed_nodes
              /\ ckpt'.node_outcomes = node_outcomes /\ ckpt'.context = context
           \/ /\ ~IsExit(cur) /\ NodeAttrs[cur].refs # {}
              /\ ckpt'.completed_nodes = Append(completed_nodes, cur)
              /\ ckpt'.node_outcomes = [node_outcomes EXCEPT ![cur] = PlainOutcome("skipped")]
              /\ ckpt'.context = context
           \/ /\ ~IsExit(cur)
              /\ ckpt'.completed_nodes = Append(completed_nodes, cur)
              /\ \E r \in Results(cur) :
                    /\ ckpt'.node_outcomes = [node_outcomes EXCEPT ![cur] = r.outcome]
                    /\ ckpt'.context = ContextAfter(context, r)
    PROVE  Record!WalkNext
<1>1. /\ Live.node = cur /\ Live.trail = completed_nodes
      /\ Live.outcomes = node_outcomes /\ Live.ctx = context
  BY DEF Live
<1>2. Record!RecordExit(Live) \/ Record!RecordSkip(Live) \/ Record!RecordExecution(Live)
  <2>1. CASE /\ IsExit(cur)
             /\ ckpt'.completed_nodes = completed_nodes
             /\ ckpt'.node_outcomes = node_outcomes /\ ckpt'.context = context
    BY <1>1, <2>1, SameTargets, Zenon DEF Record!RecordExit
  <2>2. CASE /\ ~IsExit(cur) /\ NodeAttrs[cur].refs # {}
             /\ ckpt'.completed_nodes = Append(completed_nodes, cur)
             /\ ckpt'.node_outcomes = [node_outcomes EXCEPT ![cur] = PlainOutcome("skipped")]
             /\ ckpt'.context = context
    BY <1>1, <2>2, SameTargets, SameResults, Zenon DEF Record!RecordSkip
  <2>3. CASE /\ ~IsExit(cur)
             /\ ckpt'.completed_nodes = Append(completed_nodes, cur)
             /\ \E r \in Results(cur) :
                   /\ ckpt'.node_outcomes = [node_outcomes EXCEPT ![cur] = r.outcome]
                   /\ ckpt'.context = ContextAfter(context, r)
    BY <1>1, <2>3, SameTargets, SameResults, Zenon DEF Record!RecordExecution
  <2> QED BY <2>1, <2>2, <2>3
<1>3. (IF ckpt'.steps = 0 THEN "" ELSE ckpt'.current_node) = Live.node
  BY <1>1, Zenon
<1> QED BY <1>2, <1>3, Zenon DEF Record!WalkNext

\* Going on from a recorded node to where the record leads.
LEMMA GoesOn ==
    ASSUME WalkInv, phase' = "top", ~hop', UNCHANGED ckpt,
           UNCHANGED node_outcomes \/ node_outcomes' = NoOutcomes,
           Live' \in Record!Hops
    PROVE  WalkInv' /\ RecordStays
<1>1. Live' \in Record!Hops'
  BY HopsStay
<1>2. \A n \in Nodes : IsExit(n) => /\ node_outcomes'[n].status = "none"
                                    /\ ckpt'.node_outcomes[n].status = "none"
  BY NoneRan DEF WalkInv
<1>3. (Resumable => Written)'
      /\ (Written /\ ~IsExit(ckpt.current_node) => AlreadyRan(ckpt))'
  BY DEF WalkInv, Resumable, Written, AlreadyRan
<1>4. phase' \notin {"exec", "route", "skip_route", "gate"}
  OBVIOUS
<1> QED BY <1>1, <1>2, <1>3, <1>4, RecordStaysPut DEF WalkInv

\* The process stops walking.
LEMMA WalkEnds ==
    ASSUME WalkInv, phase' \in {"complete", "done", "crashed"},
           UNCHANGED <<ckpt.steps, ckpt.current_node, ckpt.completed_nodes,
                       ckpt.node_outcomes, ckpt.context>>,
           Resumable' => Resumable,
           \A n \in Nodes : IsExit(n) => node_outcomes'[n].status = "none"
    PROVE  WalkInv' /\ RecordStays
<1>1. (Resumable => Written)'
      /\ (Written /\ ~IsExit(ckpt.current_node) => AlreadyRan(ckpt))'
  BY DEF WalkInv, Written, AlreadyRan
<1>2. phase' \notin {"top", "exec", "route", "skip_route", "gate"}
  OBVIOUS
<1>3. \A n \in Nodes : IsExit(n) => /\ node_outcomes'[n].status = "none"
                                    /\ ckpt'.node_outcomes[n].status = "none"
  BY DEF WalkInv
<1> QED BY <1>1, <1>2, <1>3, RecordStaysPut DEF WalkInv

\* Between a save and the next iteration, the engine goes where the record leads.
LEMMA RouteStep ==
    ASSUME TypeOK, WalkInv,
           \/ GateRetry \/ RouteToFanIn \/ FollowEdge \/ RestartLoop \/ FailureRetry
           \/ FollowEdgeFromSkipped \/ FailureRetryFromSkipped
    PROVE  WalkInv' /\ RecordStays
<1> USE DEF Live
<1>1. CASE GateRetry
  <2>1. /\ phase = "gate" /\ phase' = "top" /\ cur' = Jump /\ Jump # Missing
        /\ completed_nodes' = <<>> /\ node_outcomes' = NoOutcomes
        /\ UNCHANGED <<hop, context, ckpt>>
    BY <1>1, Zenon DEF GateRetry, ClearAttempt, Missing
  <2>2. Live' = Afresh(Jump)
    BY <2>1 DEF Afresh
  <2> QED BY <2>1, <2>2, HopsAtSaved, GoesOn DEF WalkInv
<1>2. CASE RouteToFanIn
  <2>1. PICK n \in FanInNodes[cur] : cur' = n
    BY <1>2 DEF RouteToFanIn
  <2>2. /\ phase = "route" /\ IsFanOut(cur) /\ phase' = "top"
        /\ UNCHANGED <<hop, completed_nodes, node_outcomes, context, ckpt>>
    BY <1>2 DEF RouteToFanIn, attempt
  <2>3. Live' = On(n)
    BY <2>1, <2>2 DEF On
  <2> QED BY <2>2, <2>3, HopsAtSaved, GoesOn DEF WalkInv
<1>3. CASE FollowEdge \/ RestartLoop
  <2>1. /\ phase = "route" /\ ~IsFanOut(cur) /\ Selected # NoEdge /\ phase' = "top"
        /\ UNCHANGED <<hop, ckpt>> /\ cur' = Edges[Selected].to
        /\ UNCHANGED node_outcomes \/ node_outcomes' = NoOutcomes
    BY <1>3 DEF FollowEdge, RestartLoop, attempt, ClearAttempt
  <2>2. Live' = Record!AlongEdge(Selected)
    <3>1. CASE FollowEdge
      BY <2>1, <3>1, AlongSelected DEF FollowEdge, attempt, On, WalkInv
    <3>2. CASE RestartLoop
      BY <2>1, <3>2, AlongSelected DEF RestartLoop, ClearAttempt, WalkInv
    <3> QED BY <1>3, <3>1, <3>2
  <2> QED BY <2>1, <2>2, HopsAtSaved, GoesOn DEF WalkInv
<1>4. CASE FailureRetry
  <2>1. /\ phase = "route" /\ ~IsFanOut(cur) /\ Selected = NoEdge /\ phase' = "top"
        /\ cur' = FailureRetryTarget(cur) /\ FailureRetryTarget(cur) # Missing
        /\ completed_nodes' = <<>> /\ node_outcomes' = NoOutcomes
        /\ UNCHANGED <<hop, context, ckpt>>
    BY <1>4, Zenon DEF FailureRetry, CanRetryFailure, ClearAttempt, Missing
  <2>2. Live' = Afresh(FailureRetryTarget(cur))
    BY <2>1 DEF Afresh
  <2> QED BY <2>1, <2>2, HopsAtSaved, GoesOn DEF WalkInv
<1>5. CASE FollowEdgeFromSkipped
  <2>1. /\ phase = "skip_route" /\ SkipSelected # NoEdge /\ phase' = "top"
        /\ cur' = Edges[SkipSelected].to
        /\ UNCHANGED <<hop, completed_nodes, node_outcomes, context, ckpt>>
    BY <1>5 DEF FollowEdgeFromSkipped, attempt
  <2>2. Live' = On(Edges[SkipSelected].to)
    BY <2>1 DEF On
  <2> QED BY <2>1, <2>2, HopsAtSaved, GoesOn DEF WalkInv
<1>6. CASE FailureRetryFromSkipped
  <2>1. /\ phase = "skip_route" /\ SkipSelected = NoEdge /\ phase' = "top"
        /\ cur' = FailureRetryTarget(cur) /\ FailureRetryTarget(cur) # Missing
        /\ UNCHANGED <<hop, completed_nodes, node_outcomes, context, ckpt>>
    BY <1>6, Zenon DEF FailureRetryFromSkipped, CanRetryFailure, attempt, Missing
  <2>2. Live' = On(FailureRetryTarget(cur))
    BY <2>1 DEF On
  <2> QED BY <2>1, <2>2, HopsAtSaved, GoesOn DEF WalkInv
<1> QED BY <1>1, <1>2, <1>3, <1>4, <1>5, <1>6

\* A node taken up afresh is one the record leads to.
LEMMA EntersAhead ==
    ASSUME TypeOK, WalkInv, phase = "top", ~hop, ~IsExit(cur)
    PROVE  Live \in Record!Hops
BY DEF WalkInv, AtSaved

LEMMA WalkStep ==
    TypeOK /\ TypeOK' /\ WalkInv /\ [Next]_vars =>
        WalkInv' /\ (Record!WalkNext \/ RecordStays)
<1> SUFFICES ASSUME TypeOK, TypeOK', WalkInv, [Next]_vars
             PROVE  WalkInv' /\ (Record!WalkNext \/ RecordStays)
  OBVIOUS
<1>1. CASE \/ StepBoundExceeded \/ FuseExpiredBetweenNodes \/ CancelledBetweenNodes
           \/ FinishAtExit \/ CancelledAfterNode \/ FuseExpiredInNode
           \/ ChildGraphMissing \/ NoConvergence \/ NoMatchingEdge
           \/ NoMatchingEdgeFromSkipped
  <2>1. \E why : Return(why)
    <3>1. FinishAtExit => \E why : Return(why)
      BY Zenon DEF FinishAtExit
    <3> QED BY <1>1, <3>1
            DEF StepBoundExceeded, FuseExpiredBetweenNodes, CancelledBetweenNodes,
                CancelledAfterNode, FuseExpiredInNode, ChildGraphMissing,
                NoConvergence, NoMatchingEdge, NoMatchingEdgeFromSkipped
  <2>2. phase' = "complete" /\ UNCHANGED ckpt
    BY <2>1 DEF Return
  <2>3. \/ UNCHANGED node_outcomes
        \/ ~IsExit(cur) /\ node_outcomes' = [node_outcomes EXCEPT ![cur] = PlainOutcome("fail")]
    <3>1. FinishAtExit => UNCHANGED node_outcomes
      BY Zenon DEF FinishAtExit
    <3>2. ChildGraphMissing =>
            /\ ~IsExit(cur)
            /\ node_outcomes' = [node_outcomes EXCEPT ![cur] = PlainOutcome("fail")]
      BY DEF ChildGraphMissing, WalkInv
    <3> QED BY <1>1, <3>1, <3>2
            DEF StepBoundExceeded, FuseExpiredBetweenNodes, CancelledBetweenNodes,
                CancelledAfterNode, FuseExpiredInNode, NoConvergence, NoMatchingEdge,
                NoMatchingEdgeFromSkipped
  <2>4. \A n \in Nodes : IsExit(n) => node_outcomes'[n].status = "none"
    BY <2>3 DEF WalkInv, TypeOK
  <2> QED BY <2>2, <2>4, WalkEnds DEF Resumable
<1>2. CASE ReachExit
  <2>1. /\ phase = "top" /\ phase' = "gate" /\ IsExit(cur) /\ SaveCheckpoint(cur)
        /\ steps' = steps + 1
        /\ UNCHANGED <<cur, hop, completed_nodes, node_outcomes, context>>
    BY <1>2 DEF ReachExit, Enter, attempt
  <2>2. steps' # 0
    BY <2>1 DEF TypeOK
  <2>3. /\ AtSaved' /\ Written' /\ ckpt'.run_state = "in_flight"
        /\ ckpt'.steps # 0 /\ ckpt'.current_node = cur
        /\ ckpt'.completed_nodes = completed_nodes
        /\ ckpt'.node_outcomes = node_outcomes /\ ckpt'.context = context
    BY <2>1, <2>2, SaveIsWritten
  <2>4. ~hop
    BY <2>1 DEF WalkInv, AlreadyRan, AtSaved, TypeOK
  <2>5. WalkInv'
    BY <2>1, <2>3, <2>4 DEF WalkInv
  <2>6. CASE Live \in Record!Hops
    BY <2>1, <2>3, <2>5, <2>6, SaveIsAStep
  <2>7. CASE AtSaved
    <3>1. /\ ckpt.steps # 0 /\ ckpt.current_node = cur
          /\ ckpt.completed_nodes = completed_nodes
          /\ ckpt.node_outcomes = node_outcomes /\ ckpt.context = context
      BY <2>7 DEF AtSaved, Written
    <3>2. RecordStays
      BY <2>3, <3>1, Zenon DEF RecordStays, Record!walkVars
    <3> QED BY <2>5, <3>2
  <2> QED BY <2>1, <2>6, <2>7 DEF WalkInv
<1>3. CASE ResumeHop
  <2>1. /\ phase = "top" /\ hop /\ ~hop' /\ ~IsExit(cur) /\ phase' = "route"
        /\ UNCHANGED <<cur, completed_nodes, node_outcomes, context, ckpt>>
    BY <1>3 DEF ResumeHop, Enter, attempt
  <2>2. AtSaved
    BY <2>1 DEF WalkInv
  <2>3. AtSaved' /\ UNCHANGED <<Written, Resumable, AlreadyRan(ckpt)>>
    BY <2>1, <2>2 DEF AtSaved, Written, Resumable, AlreadyRan
  <2> QED BY <2>1, <2>3, RecordStaysPut DEF WalkInv
<1>4. CASE SkipNode
  <2>1. /\ phase = "top" /\ phase' = "skip_route" /\ ~IsExit(cur) /\ ~hop
        /\ MustSkip(cur) /\ SaveCheckpoint(cur) /\ steps' = steps + 1
        /\ completed_nodes' = Append(completed_nodes, cur)
        /\ node_outcomes' = [node_outcomes EXCEPT ![cur] = PlainOutcome("skipped")]
        /\ UNCHANGED <<cur, hop, context>>
    BY <1>4 DEF SkipNode, Enter
  <2>2. steps' # 0
    BY <2>1 DEF TypeOK
  <2>3. /\ AtSaved' /\ Written' /\ ckpt'.run_state = "in_flight"
        /\ ckpt'.steps # 0 /\ ckpt'.current_node = cur
        /\ ckpt'.completed_nodes = completed_nodes'
        /\ ckpt'.node_outcomes = node_outcomes' /\ ckpt'.context = context'
    BY <2>1, <2>2, SaveIsWritten
  <2>4. PlainOutcome("skipped").status = "skipped"
    BY DEF PlainOutcome
  <2>5. /\ node_outcomes'[cur].status = "skipped"
        /\ \A n \in Nodes : IsExit(n) => node_outcomes'[n].status = "none"
    BY <2>1, <2>4 DEF WalkInv, TypeOK
  <2>6. WalkInv'
    BY <2>1, <2>3, <2>5 DEF WalkInv, AlreadyRan
  <2>7. NodeAttrs[cur].refs # {}
    BY <2>1 DEF MustSkip
  <2> QED BY <2>1, <2>3, <2>6, <2>7, EntersAhead, SaveIsAStep
<1>5. CASE StartNode
  <2>1. /\ phase = "top" /\ phase' = "exec" /\ ~IsExit(cur) /\ ~hop
        /\ steps' = steps + 1
        /\ UNCHANGED <<cur, hop, completed_nodes, node_outcomes, context, ckpt>>
    BY <1>5 DEF StartNode, Enter, attempt
  <2>2. steps' # 0
    BY <2>1 DEF TypeOK
  <2>4. Live' \in Record!Hops'
    <3>1. Live' = Live
      BY <2>1 DEF Live
    <3>2. Live \in Record!Hops /\ Record!Hops' = Record!Hops
      BY <2>1, EntersAhead, HopsStay
    <3> QED BY <3>1, <3>2
  <2>3. UNCHANGED <<Written, Resumable, AlreadyRan(ckpt)>>
    BY <2>1 DEF Written, Resumable, AlreadyRan
  <2> QED BY <2>1, <2>2, <2>3, <2>4, RecordStaysPut DEF WalkInv
<1>6. CASE FinishNode
  <2>1. PICK r \in Results(cur) :
          /\ completed_nodes' = Append(completed_nodes, cur)
          /\ node_outcomes' = [node_outcomes EXCEPT ![cur] = r.outcome]
          /\ context' = ContextAfter(context, r)
    BY <1>6 DEF FinishNode
  <2>2. /\ phase = "exec" /\ phase' = "route" /\ SaveCheckpoint(cur)
        /\ UNCHANGED <<cur, hop, steps>>
    BY <1>6 DEF FinishNode
  <2>3. /\ AtSaved' /\ Written' /\ ckpt'.run_state = "in_flight"
        /\ ckpt'.steps # 0 /\ ckpt'.current_node = cur
        /\ ckpt'.completed_nodes = completed_nodes'
        /\ ckpt'.node_outcomes = node_outcomes' /\ ckpt'.context = context'
    BY <2>2, SaveIsWritten DEF WalkInv
  <2>4. r.outcome.status \in Statuses
    BY ResultsType DEF TypeOK, Result, Outcome
  <2>5. /\ node_outcomes'[cur].status # "none"
        /\ \A n \in Nodes : IsExit(n) => node_outcomes'[n].status = "none"
    BY <2>1, <2>2, <2>4 DEF WalkInv, TypeOK, Statuses
  <2>6. WalkInv'
    BY <2>2, <2>3, <2>5 DEF WalkInv, AlreadyRan
  <2> QED BY <2>1, <2>2, <2>3, <2>6, SaveIsAStep DEF WalkInv
<1>7. CASE \/ GateRetry \/ RouteToFanIn \/ FollowEdge \/ RestartLoop \/ FailureRetry
           \/ FollowEdgeFromSkipped \/ FailureRetryFromSkipped
  BY <1>7, RouteStep
<1>8. CASE MarkRunCompleted \/ Crash \/ CrashWhileSaving
  <2>1. /\ phase' \in {"done", "crashed"}
        /\ UNCHANGED node_outcomes \/ node_outcomes' = NoOutcomes
    BY <1>8, Zenon
       DEF MarkRunCompleted, Crash, CrashWhileSaving, LoseMemory, ClearAttempt, attempt
  <2>2. /\ UNCHANGED <<ckpt.steps, ckpt.current_node, ckpt.completed_nodes,
                       ckpt.node_outcomes, ckpt.context>>
        /\ Resumable' => Resumable
    BY <1>8 DEF MarkRunCompleted, Crash, CrashWhileSaving, TypeOK, Checkpoint, Resumable
  <2>3. \A n \in Nodes : IsExit(n) => node_outcomes'[n].status = "none"
    BY <2>1, NoneRan DEF WalkInv
  <2> QED BY <2>1, <2>2, <2>3, WalkEnds
<1>9. CASE Resume \/ ResumeReturned
  <2>1. Restore
    BY <1>9 DEF Resume, ResumeReturned
  <2>2. /\ phase' = "top" /\ cur' = ckpt.current_node /\ hop' = AlreadyRan(ckpt)
        /\ completed_nodes' = ckpt.completed_nodes
        /\ node_outcomes' = ckpt.node_outcomes /\ context' = ckpt.context
        /\ UNCHANGED ckpt /\ Resumable
    BY <2>1, Zenon DEF Restore
  <2>3. AtSaved' /\ UNCHANGED <<Written, Resumable, AlreadyRan(ckpt)>>
    BY <2>2 DEF AtSaved, Written, Resumable, AlreadyRan, WalkInv
  <2> QED BY <2>2, <2>3, RecordStaysPut DEF WalkInv
<1>10. CASE RequestCancel \/ Stopped \/ UNCHANGED vars
  <2>1. UNCHANGED <<phase, cur, hop, completed_nodes, node_outcomes, context, steps, ckpt>>
    BY <1>10 DEF RequestCancel, Stopped, vars, attempt
  <2>2. UNCHANGED <<Written, Resumable, AlreadyRan(ckpt), AtSaved, Live, Record!Hops>>
    BY <2>1, HopsStay DEF Written, Resumable, AlreadyRan, AtSaved, Live
  <2> QED BY <2>1, <2>2, RecordStaysPut DEF WalkInv
<1> QED BY <1>1, <1>2, <1>3, <1>4, <1>5, <1>6, <1>7, <1>8, <1>9, <1>10 DEF Next, Walk

\* Whatever the crashes and resumes, checkpoint.json moves as an uninterrupted
\* walk of the graph does: no node is lost, repeated or invented (checkpoint.py).
THEOREM CheckpointRefines == Spec => CheckpointIsAWalk
<1>1. Init => Record!WalkInit /\ WalkInv
  <2> SUFFICES ASSUME Init PROVE Record!WalkInit /\ WalkInv
    OBVIOUS
  <2>1. /\ ckpt.steps = 0 /\ ckpt.completed_nodes = <<>>
        /\ ckpt.node_outcomes = NoOutcomes /\ ckpt.context = InitialContext
        /\ ckpt.run_state = "absent"
    <3>1. ckpt = EmptyCheckpoint
      BY Zenon DEF Init
    <3> QED BY <3>1 DEF EmptyCheckpoint
  <2>2. /\ phase = "top" /\ cur = Start /\ ~hop /\ completed_nodes = <<>>
        /\ node_outcomes = NoOutcomes /\ context = InitialContext
    BY Zenon DEF Init
  <2>3. Record!WalkInit
    BY <2>1, SameResults, Zenon DEF Record!WalkInit
  <2>4. Live \in Record!Hops
    <3>1. Record!Hops = {Record!Onward(Start)}
      BY <2>1, Zenon DEF Record!Hops
    <3>2. Record!Onward(Start) = Live
      BY <2>1, <2>2, Zenon DEF Record!Onward, Live
    <3> QED BY <3>1, <3>2
  <2> QED BY <2>1, <2>2, <2>3, <2>4, NoneRan DEF WalkInv, Resumable, Written
<1>2. TypeOK /\ TypeOK' /\ WalkInv /\ [Next]_vars => WalkInv'
  BY WalkStep
<1>3. TypeOK /\ TypeOK' /\ WalkInv /\ [Next]_vars => [Record!WalkNext]_(Record!walkVars)
  BY WalkStep DEF RecordStays
<1> QED BY <1>1, <1>2, <1>3, TypeCorrect, PTL DEF Spec, CheckpointIsAWalk, Record!WalkSpec
=============================================================================

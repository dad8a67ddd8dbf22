----------------------------- MODULE GraphLint -----------------------------
(***************************************************************************)
(* The rules lint() adds to validate(): the topological rules TOPO-001 to  *)
(* TOPO-010, the two rules about shell commands, the inert spellings and   *)
(* the removed attributes.                                                 *)
(*                                                                         *)
(* A tool_command is the sequence of its ;-separated statements.  A        *)
(* statement is [pipefail, stages, echo, or_else]: whether it is a         *)
(* "set -o pipefail", the programs of its pipeline ("check" for the        *)
(* command that has something to say, "filter" for tail and its like,      *)
(* "emit" for echo and its like), whether "&& echo TOKEN" follows, and     *)
(* whether "|| echo OTHER" follows that.                                   *)
(***************************************************************************)
EXTENDS GraphValidation

----------------------------------------------------------------------------
(* Clauses the rules look for *)

Clause(key, op, value) == [key |-> key, op |-> op, value |-> value]

LastLineKey == "context.tool.last_line"

FailClauses == {Clause("outcome", "=", "fail"), Clause("outcome", "=", "error"),
                Clause("outcome", "!=", "success")}

\* _condition_matches_fail, and what TOPO-001 calls dead behind a diamond.
MatchesFail(e) == e.cond \cap FailClauses # {}

ReadsLastLine(e) == \E c \in e.cond : c.key \in {LastLineKey, "tool.last_line"}

Inner(g) == {n \in Ids(g) : ~IsStart(g, n) /\ ~IsExit(g, n)}

EdgesOut(g, n) == {g.edges[i] : i \in Outgoing(g.edges, n)}

----------------------------------------------------------------------------
(* TOPO-001 and TOPO-002 *)

DeadConditionalEdge(g) ==
    {Diag("dead_conditional_edge", "ERROR", g.edges[i].from, i) :
        i \in {j \in DOMAIN g.edges :
            /\ g.edges[j].from \in Inner(g) /\ IsDiamond(g.at[g.edges[j].from])
            /\ MatchesFail(g.edges[j])}}

\* Wrong: the clause on outcome=success is looked for on any of the edges.
StaleLabelCollisionAnySuccess(g) ==
    {Diag("stale_label_collision", "WARNING", g.edges[i].from, i) :
        i \in {j \in DOMAIN g.edges :
            LET n == g.edges[j].from
            IN  /\ n \in Inner(g) /\ IsTool(g.at[n]) /\ ReadsLastLine(g.edges[j])
                /\ \A e \in EdgesOut(g, n) : Clause("outcome", "=", "success") \notin e.cond}}

\* Here "outcome=error" is not looked for.
StaleLabelCollision(g) ==
    LET fails(e) == e.cond \cap {Clause("outcome", "=", "fail"),
                                 Clause("outcome", "!=", "success")} # {}
    IN  {Diag("stale_label_collision", "WARNING", g.edges[i].from, i) :
            i \in {j \in DOMAIN g.edges :
                LET n == g.edges[j].from
                IN  /\ n \in Inner(g) /\ IsTool(g.at[n])
                    /\ ReadsLastLine(g.edges[j])
                    /\ Clause("outcome", "=", "success") \notin g.edges[j].cond
                    /\ \E e \in EdgesOut(g, n) : fails(e)}}

----------------------------------------------------------------------------
(* TOPO-003 to TOPO-005: the cycles, each named by the nodes on it *)

AcyclicGraph(g) == IF BackEdges(g) = {} THEN {Warning("acyclic_graph", "")} ELSE {}

Leaving(g, c) ==
    {i \in DOMAIN g.edges : g.edges[i].from \in c /\ g.edges[i].to \in Ids(g) \ c}

CycleNoConditionalExit(g) ==
    LET gated(i) == \/ g.edges[i].conditional
                    \/ IsHumanGate(g.at[g.edges[i].from]) /\ g.edges[i].label # ""
    IN  {Warning("cycle_no_conditional_exit", n) :
            n \in UNION {c \in Components(g) : \A i \in Leaving(g, c) : ~gated(i)}}

\* _node_runs_on: the attribute still counts here, the engine no longer reads it.
Unmarked(g, n) == g.at[n].runs_on = "success"

\* _tool_evidence_gates_flow: a plain edge counts, for the edge selection is
\* held not to follow it on FAIL.
EvidenceGatesFlow(g, n) ==
    \E e \in EdgesOut(g, n) :
        \/ ~e.conditional /\ (e.to \in Ids(g) => Unmarked(g, e.to))
        \/ \E c \in e.cond : c.key \in {"outcome", LastLineKey, "tool.last_line"}

CycleNoDeterministicExit(g) ==
    {Warning("cycle_no_deterministic_exit", n) : n \in UNION {c \in Components(g) :
        /\ \A m \in c : ~IsHumanGate(g.at[m])
        /\ \A m \in c : IsTool(g.at[m]) => ~EvidenceGatesFlow(g, m)}}

----------------------------------------------------------------------------
(* TOPO-006: a failure that leaves by the exit *)

\* _node_regates.
\* Wrong: one conditional edge among others is enough.
RegatesSomewhere(g, n) ==
    IsHumanGate(g.at[n]) \/ \E e \in EdgesOut(g, n) : e.conditional

Regates(g, n) ==
    \/ IsHumanGate(g.at[n])
    \/ EdgesOut(g, n) # {} /\ \A e \in EdgesOut(g, n) : e.conditional

\* _unmarked_passthrough_path_to_exit: the states of its search are a node and
\* whether an unmarked node has been passed on the way.
PassesSilently(g, first) ==
    LET plain(n) == {e.to : e \in {f \in EdgesOut(g, n) : ~f.conditional}}
        onward == [s \in Ids(g) \X BOOLEAN |->
                      IF Regates(g, s[1]) THEN {}
                      ELSE {<<m, s[2] \/ Unmarked(g, m)>> :
                                m \in (plain(s[1]) \cap Ids(g)) \ Exits(g)}]
        seen == Reach(onward, {<<first, Unmarked(g, first)>>})
    IN  \E s \in seen : s[2] /\ ~Regates(g, s[1]) /\ plain(s[1]) \cap Exits(g) # {}

FailRoutedToExit(g) ==
    {Diag("fail_routed_to_exit", "WARNING", g.edges[i].from, i) :
        i \in {j \in DOMAIN g.edges :
            LET e == g.edges[j]
            IN  /\ e.from \in Ids(g) \ Exits(g) /\ MatchesFail(e)
                /\ \/ e.to \in Exits(g)
                   \/ e.to \in Ids(g) \ Exits(g) /\ PassesSilently(g, e.to)}}

----------------------------------------------------------------------------
(* TOPO-007: a retry budget that a loop_restart resets every time round *)

\* _effective_gate_retry_target: the first that is set, if it names a node.
EffectiveRetryTarget(g, n) ==
    LET set == SelectSeq(<<g.at[n].retry_target, g.at[n].fallback_retry_target,
                           g.retry_target, g.fallback_retry_target>>,
                         LAMBDA t : t # "")
    IN  IF set # <<>> /\ Head(set) \in Ids(g) THEN Head(set) ELSE ""

\* Wrong: every conditional edge is left out.
ProjectedUnconditional(g) ==
    [n \in Ids(g) |-> {e.to : e \in {f \in EdgesOut(g, n) : ~f.restart /\ ~f.conditional}}
                         \cap Ids(g)]

Projected(g) ==
    [n \in Ids(g) |->
        {e.to : e \in {f \in EdgesOut(g, n) : ~f.restart /\ ~MatchesFail(f)}} \cap Ids(g)]

GateRetryBudgetDead(g) ==
    {Warning("gate_retry_budget_dead", n) : n \in {m \in Ids(g) :
        LET target == EffectiveRetryTarget(g, m)
        IN  /\ g.at[m].goal_gate /\ target # "" /\ Exits(g) # {}
            /\ LET walked == Reach(Projected(g), {target})
               IN  /\ walked \cap Exits(g) = {}
                   /\ \E n2 \in walked : \E e \in EdgesOut(g, n2) : e.restart}}

----------------------------------------------------------------------------
(* TOPO-008 to TOPO-010 *)

\* _runs_a_substantive_command.
Substantive(command) ==
    \E k \in DOMAIN command : \E j \in DOMAIN command[k].stages :
        command[k].stages[j] # "emit"

IsEvidenceGate(g, n) ==
    /\ n \in Reach(Succ(g), Starts(g))
    /\ Substantive(g.at[n].command)
    /\ Cardinality(Outgoing(g.edges, n)) > 1
    /\ \E e \in EdgesOut(g, n) : e.conditional

RoutedTokens(e) ==
    {c.value : c \in {d \in e.cond : d.key = LastLineKey /\ d.op = "="}}

\* _relay_forward_edge: the one node a pure relay leads to, {} for any other.
\* ("point" is a relay shape too; no registered handler serves it.)
RelaysTo(g, n) ==
    IF /\ n \in Inner(g) /\ g.at[n].shape = "diamond"
       /\ Cardinality(Outgoing(g.edges, n)) = 1
       /\ \A e \in EdgesOut(g, n) : ~e.conditional
    THEN {e.to : e \in EdgesOut(g, n)} \cap Ids(g) ELSE {}

\* _token_landing: the chase stops at a node it has seen.
Landing(g, e) ==
    LET chase[k \in 0..Len(g.nodes)] ==
            IF k = 0 THEN [at |-> e.to, seen |-> {e.from}]
            ELSE LET s == chase[k - 1]
                 IN  IF s.at \in s.seen \/ s.at \notin Ids(g) \/ RelaysTo(g, s.at) = {} THEN s
                     ELSE [at |-> CHOOSE m \in RelaysTo(g, s.at) : TRUE,
                           seen |-> s.seen \cup {s.at}]
    IN  chase[Len(g.nodes)].at

\* The answers of gate n that put the run at the exit x.
AnswersInto(g, n, x) ==
    UNION {RoutedTokens(e) : e \in {f \in EdgesOut(g, n) : Landing(g, f) = x}}

InertEvidenceGate(g) ==
    {Warning("inert_evidence_gate", n) : n \in {m \in Ids(g) :
        IsEvidenceGate(g, m) /\ \E x \in Exits(g) : Cardinality(AnswersInto(g, m, x)) > 1}}

StatusWordEdges(g, n) ==
    {e \in EdgesOut(g, n) :
        \E c \in e.cond : c.key = "outcome" /\ c.op \in {"=", "!="} /\ c.value \in Statuses}

StatusWordLabels(g, n) ==
    {e \in EdgesOut(g, n) : ~e.conditional /\ e.label # "" /\ Norm[e.label] \in Statuses}

OutcomeLabelShadowing(g) ==
    {Warning("outcome_label_shadowing", n) : n \in {m \in Ids(g) :
        StatusWordEdges(g, m) # {} /\ StatusWordLabels(g, m) # {}}}

FolderDotFileAbsent(g) ==
    {Warning("folder_dot_file_absent", n) : n \in {m \in Ids(g) :
        /\ g.stored /\ (g.at[m].shape = "folder" \/ g.at[m].type = "pipeline")
        /\ g.at[m].dot_file = "absent"}}

----------------------------------------------------------------------------
(* CMD-001 and CMD-002 *)

HasPipefail(command) == \E k \in DOMAIN command : command[k].pipefail

\* The final ;-separated statement decides the exit code.
Final(command) == command[Len(command)]

PipeMasked(command) ==
    /\ command # <<>> /\ ~HasPipefail(command)
    /\ Len(Final(command).stages) > 1
    /\ Final(command).stages[Len(Final(command).stages)] = "filter"

PipeMaskedExitCode(g) ==
    {Warning("CMD-001", n) :
        n \in {m \in Ids(g) : IsTool(g.at[m]) /\ PipeMasked(g.at[m].command)}}

AlwaysTrueSentinel(g) ==
    LET sentinel(command) ==
            /\ command # <<>> /\ ~HasPipefail(command)
            /\ \E k \in 2..Len(Final(command).stages) : Final(command).stages[k] = "filter"
            /\ Final(command).echo /\ ~Final(command).or_else
    IN  {Warning("CMD-002", n) :
            n \in {m \in Ids(g) : IsTool(g.at[m]) /\ sentinel(g.at[m].command)}}

----------------------------------------------------------------------------
(* Attributes nobody reads *)

InertPromptVocabulary(g) ==
    {Warning("VOCAB-001", n) : n \in {m \in Inner(g) :
        LET a == g.at[m]
        IN  /\ a.type = "codergen" \/ (a.type = "" /\ a.shape = "box")
            /\ ~a.prompt /\ a.inert}}

\* "outputs" on a folder is another attribute of the same name.
RemovedExtensionAttrs(g) ==
    {Error("ATTR-LINT-001", n) : n \in {m \in Ids(g) :
        LET a == g.at[m]
            folder == a.shape = "folder" \/ a.type = "pipeline"
        IN  a.runs_on # "success" \/ (a.removed \ (IF folder THEN {"outputs"} ELSE {})) # {}}}

Lint(g) ==
    UNION {Validate(g), DeadConditionalEdge(g), StaleLabelCollision(g), AcyclicGraph(g),
           CycleNoConditionalExit(g), CycleNoDeterministicExit(g), FailRoutedToExit(g),
           GateRetryBudgetDead(g), InertEvidenceGate(g), OutcomeLabelShadowing(g),
           FolderDotFileAbsent(g), PipeMaskedExitCode(g), AlwaysTrueSentinel(g),
           InertPromptVocabulary(g), RemovedExtensionAttrs(g)}
============================================================================

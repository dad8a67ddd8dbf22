--------------------------- MODULE EdgeSelection ---------------------------
(***************************************************************************)
(* Single-edge selection of the pipeline engine: the condition language    *)
(* (conditions.py) and the five-step ladder of select_edge                 *)
(* (edge_selection.py).  Both are pure, so they are operators.             *)
(*                                                                         *)
(* An edge is [from, to, conditional, cond, label, weight, restart]: cond  *)
(* is the set of clauses parse_condition returns for its condition string, *)
(* and conditional says whether that string is non-empty (a condition that *)
(* parses to no clause is always true, and still conditional).  Edges      *)
(* stand in a sequence, the order of the DOT file.  An outcome is          *)
(* [status, label, suggested, explicit]; the label "" is the absent one.   *)
(***************************************************************************)
EXTENDS Integers, Sequences

CONSTANTS
    Lex,        \* node id -> its place in the lexical order of the ids
    Norm        \* label -> _normalize_label(label): lower case, accelerator cut

----------------------------------------------------------------------------
(* conditions.py *)

\* The text a key absent from the context resolves to.
Missing == ""

Statuses == {"success", "partial_success", "retry", "fail", "skipped"}

\* _resolve_key: "outcome" is the custom label when the node gave one.
ResolveKey(key, o, ctx) ==
    CASE key = "outcome" -> IF o.label # "" THEN o.label ELSE o.status
      [] key = "preferred_label" -> o.label
      [] OTHER -> IF key \in DOMAIN ctx THEN ctx[key] ELSE Missing

EvaluateClause(c, o, ctx) ==
    LET resolved == ResolveKey(c.key, o, ctx)
    IN  CASE c.op = "!=" -> resolved # c.value
          [] c.op = "="  -> resolved = c.value
          [] OTHER       -> resolved # Missing

EvaluateCondition(cond, o, ctx) == \A c \in cond : EvaluateClause(c, o, ctx)

----------------------------------------------------------------------------
(* edge_selection.py *)

Outgoing(edges, n) == {i \in DOMAIN edges : edges[i].from = n}

Unconditional(edges, n) == {i \in Outgoing(edges, n) : ~edges[i].conditional}

\* The key sorted() compares, made total by the position in the list.
Better(edges, i, j) ==
    \/ edges[i].weight > edges[j].weight
    \/ /\ edges[i].weight = edges[j].weight
       /\ \/ Lex[edges[i].to] < Lex[edges[j].to]
          \/ /\ Lex[edges[i].to] = Lex[edges[j].to]
             /\ i <= j

BestByWeightThenLexical(edges, S) ==
    CHOOSE i \in S : \A j \in S : Better(edges, i, j)

FirstInList(S) == CHOOSE i \in S : \A j \in S : i <= j

ConditionMatched(edges, n, o, ctx) ==
    {i \in Outgoing(edges, n) :
        edges[i].conditional /\ EvaluateCondition(edges[i].cond, o, ctx)}

LabelMatched(edges, n, o) ==
    {i \in Unconditional(edges, n) :
        /\ o.label # ""
        /\ edges[i].label # ""
        /\ Norm[edges[i].label] = Norm[o.label]}

\* A raw suggested id is [kind, id]: a string and an integer name a node, any
\* other JSON shape ("bad") is rejected.
CoercibleTo(raw, n) == raw.kind \in {"str", "int"} /\ raw.id = n

SuggestedBy(edges, n, raw) ==
    {i \in Unconditional(edges, n) : CoercibleTo(raw, edges[i].to)}

SuggestionsThatMatch(edges, n, o) ==
    {k \in DOMAIN o.suggested : SuggestedBy(edges, n, o.suggested[k]) # {}}

NoEdge == 0

\* select_edge: the index of the edge to follow, or NoEdge.
SelectEdge(edges, n, o, ctx) ==
    LET matched   == ConditionMatched(edges, n, o, ctx)
        labelled  == LabelMatched(edges, n, o)
        suggested == SuggestionsThatMatch(edges, n, o)
        plain     == Unconditional(edges, n)
    IN  CASE matched # {}   -> BestByWeightThenLexical(edges, matched)
          [] matched = {} /\ labelled # {} -> FirstInList(labelled)
          [] matched = {} /\ labelled = {} /\ suggested # {} ->
                 FirstInList(SuggestedBy(edges, n,
                                         o.suggested[FirstInList(suggested)]))
          [] matched = {} /\ labelled = {} /\ suggested = {} /\ plain # {} ->
                 BestByWeightThenLexical(edges, plain)
          [] OTHER -> NoEdge
============================================================================

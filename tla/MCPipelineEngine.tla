-------------------------- MODULE MCPipelineEngine --------------------------
(***************************************************************************)
(* Small pipelines for TLC.                                                *)
(***************************************************************************)
EXTENDS PipelineEngine, TLC

----------------------------------------------------------------------------
(* Building blocks *)

Strings == STRING

Ok(label)  == [PlainOutcome("success") EXCEPT !.label = label, !.explicit = TRUE]
Bad        == [PlainOutcome("fail") EXCEPT !.explicit = TRUE]
Vague      == PlainOutcome("success")
Partial    == PlainOutcome("partial_success")
Skip       == PlainOutcome("skipped")

Bare(S)    == {[outcome |-> o, updates |-> NoUpdates] : o \in S}

Box == [kind |-> "plain", goal_gate |-> FALSE, auto_status |-> FALSE,
        allow_partial |-> FALSE, must_write |-> FALSE, timeout |-> FALSE,
        retry_target |-> "", refs |-> {}, outputs |-> {},
        outcomes |-> Bare({Ok("")})]

ExitNode == [Box EXCEPT !.kind = "exit", !.outcomes = {}]

E(from, to) == [from |-> from, to |-> to, conditional |-> FALSE, cond |-> {},
                label |-> "", weight |-> 0, restart |-> FALSE]

Clause(key, op, value) == [key |-> key, op |-> op, value |-> value]

When(key, op, value, edge) ==
    [edge EXCEPT !.conditional = TRUE, !.cond = {Clause(key, op, value)}]

----------------------------------------------------------------------------
(* A convergence loop: draft, judge, exit.  The judge is a goal gate that    *)
(* may pass, pass without an explicit verdict, fail, or ask for another      *)
(* round; draft is a folder node whose child graph may be missing, and whose *)
(* retry_target names no node.                                               *)

LoopNodes == {"start", "draft", "judge", "exit"}
LoopLex   == ("start" :> 4) @@ ("draft" :> 1) @@ ("judge" :> 3) @@ ("exit" :> 2)
LoopNorm  == ("" :> "") @@ ("again" :> "again") @@ ("[A] Again" :> "again")
LoopAttrs ==
    ("start" :> Box) @@ ("exit" :> ExitNode) @@
    ("draft" :> [Box EXCEPT !.kind = "folder", !.retry_target = "nowhere", !.outcomes =
        {[outcome |-> Ok(""), updates |-> [NoUpdates EXCEPT !["mode"] = "full"]],
         [outcome |-> Vague, updates |-> NoUpdates]}]) @@
    ("judge" :> [Box EXCEPT !.goal_gate = TRUE, !.retry_target = "draft",
                            !.outcomes = Bare({Ok(""), Vague, Bad, Ok("again")})])
LoopEdges ==
    <<E("start", "draft"),
      When("mode", "=", "full", E("draft", "judge")),
      When("context.absent", "truthy", "", E("draft", "exit")),
      [When("outcome", "=", "again", E("judge", "draft")) EXCEPT !.restart = TRUE],
      E("judge", "exit")>>

LoopCtx == {"outcome", "preferred_label", "mode"}

----------------------------------------------------------------------------
(* Skip propagation: build produces a key that audit and report refer to.    *)
(* report leads on only when it succeeds, and failing that back to build.    *)
(* build is a goal gate with nowhere to go back to.                          *)
SkipNodes == {"start", "build", "audit", "report", "exit"}
SkipNorm  == ("" :> "")
SkipAttrs ==
    ("start" :> Box) @@ ("exit" :> ExitNode) @@
    ("build" :> [Box EXCEPT !.outputs = {"out"}, !.goal_gate = TRUE,
                            !.outcomes = Bare({Ok(""), Bad, Skip})]) @@
    ("audit" :> [Box EXCEPT !.refs = {"out"}, !.auto_status = TRUE,
                            !.must_write = TRUE,
                            !.outcomes = Bare({Ok(""), Skip})]) @@
    ("report" :> [Box EXCEPT !.refs = {"out"}, !.retry_target = "build",
                             !.goal_gate = TRUE,
                             !.outcomes = Bare({Ok(""), Bad})])
SkipCtx == {"outcome", "preferred_label"}

----------------------------------------------------------------------------
(* The same, and then fan-outs: the branches of split meet at join and at    *)
(* merge, equally far; those of scatter never meet.                          *)

FanNodes == {"split", "left", "right", "join", "merge", "scatter", "lost"}
WideNodes == SkipNodes \cup FanNodes
WideLex  == ("start" :> 12) @@ ("build" :> 2) @@ ("audit" :> 1) @@
            ("report" :> 9) @@ ("exit" :> 3) @@
            ("split" :> 11) @@ ("left" :> 5) @@ ("right" :> 8) @@ ("join" :> 4) @@
            ("merge" :> 7) @@ ("scatter" :> 10) @@ ("lost" :> 6)
FanAttrs ==
    [n \in FanNodes |->
        CASE n = "split"   -> [Box EXCEPT !.kind = "component", !.timeout = TRUE,
                                          !.allow_partial = TRUE,
                                          !.outcomes = Bare({Ok(""), Partial})]
          [] n = "scatter" -> [Box EXCEPT !.kind = "component"]
          [] n = "join"    -> [Box EXCEPT !.outcomes = Bare({Ok(""), Bad})]
          [] n = "merge"   -> [Box EXCEPT !.timeout = TRUE]
          [] OTHER         -> Box]
WideAttrs == SkipAttrs @@ FanAttrs
WideEdges ==
    <<E("start", "build"), E("build", "audit"), E("audit", "report"),
      When("outcome", "=", "success", E("report", "split")),
      E("split", "left"), E("split", "right"),
      E("left", "join"), E("left", "merge"), E("right", "join"), E("right", "merge"),
      When("outcome", "!=", "fail", E("join", "exit")),
      When("outcome", "=", "fail", E("join", "scatter")),
      E("merge", "exit"), E("scatter", "lost"), E("scatter", "exit")>>
=============================================================================

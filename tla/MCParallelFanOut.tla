-------------------------- MODULE MCParallelFanOut --------------------------
(***************************************************************************)
(* Small fan-outs for TLC.                                                 *)
(***************************************************************************)
EXTENDS ParallelFanOut, TLC

Strings == STRING

Good       == [PlainOutcome("success") EXCEPT !.explicit = TRUE]
Bad        == [PlainOutcome("fail") EXCEPT !.explicit = TRUE]
Retry      == PlainOutcome("retry")

Bare(S)    == {[outcome |-> o, updates |-> NoUpdates] : o \in S}

Box == [kind |-> "plain", goal_gate |-> FALSE, auto_status |-> FALSE,
        allow_partial |-> FALSE, must_write |-> FALSE, timeout |-> FALSE,
        retry_target |-> "", refs |-> {}, outputs |-> {},
        outcomes |-> Bare({Good})]

E(from, to) == [from |-> from, to |-> to, conditional |-> FALSE, cond |-> {},
                label |-> "", weight |-> 0, restart |-> FALSE]

When(value, edge) ==
    [edge EXCEPT !.conditional = TRUE,
                 !.cond = {[key |-> "outcome", op |-> "=", value |-> value]}]

Ctx == {"outcome", "preferred_label"}

----------------------------------------------------------------------------
(* Three branches that meet at join: a may fail and goes on, b may run into a *)
(* dead end, c repeats itself as long as it asks for a retry.                 *)

ForkNodes == {"split", "a", "b", "c", "join"}
ForkLex   == ("split" :> 5) @@ ("a" :> 1) @@ ("b" :> 2) @@ ("c" :> 3) @@ ("join" :> 4)
ForkNorm  == ("" :> "")
ForkAttrs ==
    [n \in ForkNodes |->
        CASE n = "split" -> [Box EXCEPT !.kind = "component"]
          [] n = "join"  -> [Box EXCEPT !.kind = "fan_in"]
          [] n = "a"     -> [Box EXCEPT !.outcomes = Bare({Good, Bad})]
          [] n = "b"     -> [Box EXCEPT !.outcomes = Bare({Good, Bad})]
          [] OTHER       -> [Box EXCEPT !.outcomes = Bare({Good, Retry})]]
ForkEdges ==
    <<E("split", "a"), E("split", "b"), E("split", "c"),
      E("a", "join"), When("success", E("b", "join")),
      When("retry", E("c", "c")), E("c", "join")>>

----------------------------------------------------------------------------
(* A fan-out inside a branch of another.                                      *)

NestNodes == {"split", "inner", "a", "b", "c", "meet", "join"}
NestLex   == ("split" :> 7) @@ ("inner" :> 4) @@ ("a" :> 1) @@ ("b" :> 2) @@
             ("c" :> 3) @@ ("meet" :> 6) @@ ("join" :> 5)
NestAttrs ==
    [n \in NestNodes |->
        CASE n \in {"split", "inner"} -> [Box EXCEPT !.kind = "component"]
          [] n \in {"meet", "join"}   -> [Box EXCEPT !.kind = "fan_in"]
          [] OTHER                    -> Box]
NestEdges ==
    <<E("split", "inner"), E("split", "c"), E("inner", "a"), E("inner", "b"),
      E("a", "meet"), E("b", "meet"), E("meet", "join"), E("c", "join")>>

----------------------------------------------------------------------------
(* The attributes of the component node.                                     *)

P(slots, join, error) ==
    [slots |-> slots, join |-> join, error |-> error, prompt |-> FALSE]

PlainPolicies == {P(2, "wait_all", "continue")}
FastPolicies  == {P(2, "first_success", "fail_fast")}
ForkPolicies  ==
    FastPolicies \cup
    {[P(2, "wait_all", "continue") EXCEPT !.prompt = b] : b \in BOOLEAN} \cup
    {P(1, "wait_all", "fail_fast"), P(2, "wait_all", "fail_fast"),
     P(2, "first_success", "continue"), P(1, "wait_all", "ignore"),
     P(1, "first_success", "ignore")}
=============================================================================

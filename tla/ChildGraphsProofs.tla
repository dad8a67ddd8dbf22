-------------------------- MODULE ChildGraphsProofs --------------------------
(***************************************************************************)
(* What holds of pipelines that run pipelines, for any graphs at all.      *)
(***************************************************************************)
EXTENDS ChildGraphs, TLAPS
----------------------------------------------------------------------------
(* The invariant                                                           *)

FrameFields == {"kind", "file", "run", "at", "pc", "ctx", "by", "completed", "outcomes",
                "last", "made", "steps", "gate_retries", "routing_retries", "tries",
                "cycle", "children", "ran"}

\* The run the node of f has started last.
Child(f) == Append(f.run, f.children)

Composite(f, n) == Graphs[f.file].nodes[n].kind \in {"folder", "manager"}

\* An explicit verdict was asserted in run, or below it.
Sourced(run, o, S) == o.explicit => \E s \in S : IsPrefix(run, s[1]) /\ s[2] = o.status

\* What run w wrote at k may stand in a context of run.
Escapes(w, k, run, A) ==
    \A n \in DOMAIN w : IsPrefix(SubSeq(w, 1, n), run) \/ <<SubSeq(w, 1, n), k>> \in A

\* The updates and the label of a result are the doing of the run it comes from.
Carries(r, k) == r.updates[k] # Kept \/ (k = "preferred_label" /\ r.outcome.label # "")

GoodResult(r, run, S, A) ==
    /\ r.from \in Seq(Nat) /\ IsPrefix(run, r.from)
    /\ Sourced(run, r.outcome, S)
    /\ \A k \in CtxKeys : Carries(r, k) => Escapes(r.from, k, run, A)

Shape(f) ==
    /\ DOMAIN f = FrameFields
    /\ f.run \in Seq(Nat) /\ {f.children, f.tries} \subseteq Nat
    /\ f.by \in [CtxKeys -> Seq(Nat)]
    /\ DOMAIN f.ran = DOMAIN Graphs[f.file].nodes
    /\ DOMAIN f.outcomes = DOMAIN f.ran

\* What is recorded of a node is the doing of the last run it started, and so is
\* what its handler has returned.
Verdicts(f, S) ==
    /\ f.pc = "leaf" => ~Composite(f, f.at)
    /\ \A n \in DOMAIN f.ran : Composite(f, n) =>
          /\ ~Visiting(f, n) => Sourced(f.ran[n], f.outcomes[n], S)
          /\ n = f.at /\ f.pc = "made" => Sourced(f.ran[n], f.made.outcome, S)
          /\ n = f.at /\ f.pc = "child" => f.ran[n] = Child(f)

FrameInv(f, S, A) ==
    /\ Shape(f)
    /\ GoodResult(f.last, f.run, S, A) /\ GoodResult(f.made, f.run, S, A)
    /\ \A k \in CtxKeys : Escapes(f.by[k], k, f.run, A)
    /\ Verdicts(f, S)

\* The label in the context of the i-th frame is its run's, or the node above
\* injects it.
LabelAt(s, i, f) ==
    \A k \in CtxKeys : k = "preferred_label" /\ ~IsPrefix(f.run, f.by[k]) =>
        /\ i > 1 /\ Injects(s[i - 1], k)
        /\ IsPrefix(s[i - 1].run, f.by[k])

\* What a run hands to the handler that awaits it.
Handed(c, run, S, A) ==
    /\ GoodResult(c.result, Child(run), S, A)
    /\ c.run = Child(run) /\ c.by \in [CtxKeys -> Seq(Nat)]
    /\ \A k \in CtxKeys : Escapes(c.by[k], k, c.run, A)
    /\ \A k \in CtxKeys : k = "preferred_label" => IsPrefix(run.run, c.by[k])

IsSeq(s) == \E S : s \in Seq(S)

Linked(s) ==
    /\ IsSeq(s)
    /\ s # <<>> => s[1].kind = "engine" /\ s[1].run = <<>>
    /\ \A i \in 1 .. Len(s) - 1 : s[i].pc = "child" /\ s[i + 1].run = Child(s[i])

StackInv ==
    /\ Linked(stack)
    /\ \A s \in said : s[1] \in Seq(Nat)
    /\ \A i \in 1 .. Len(stack) :
          FrameInv(stack[i], said, allowed) /\ LabelAt(stack, i, stack[i])
    /\ Standing("child") => Handed(returned, Here, said, allowed)

\* After the cancel at most the node that had been entered begins.
LateInv ==
    /\ late \in {0, 1}
    /\ late = 1 => cancelled /\ ~(Standing("run") /\ Here.tries = 0)

----------------------------------------------------------------------------
(* Prefixes *)

LEMMA PrefixIs ==
    ASSUME NEW S, NEW v \in Seq(S), NEW T, NEW w \in Seq(T)
    PROVE  IsPrefix(v, w) <=> Len(v) <= Len(w) /\ \A i \in 1 .. Len(v) : v[i] = w[i]
<1>1. Len(v) \in Nat /\ Len(w) \in Nat
  OBVIOUS
<1>2. SubSeq(v, 1, Len(v)) = [i \in 1 .. Len(v) |-> v[i]]
  OBVIOUS
<1>3. ASSUME Len(v) <= Len(w)
      PROVE  SubSeq(w, 1, Len(v)) = [i \in 1 .. Len(v) |-> w[i]]
  BY <1>1, <1>3
<1>. QED BY <1>1, <1>2, <1>3 DEF IsPrefix

LEMMA PrefixSelf ==
    ASSUME NEW S, NEW v \in Seq(S)
    PROVE  IsPrefix(v, v)
BY PrefixIs

LEMMA PrefixTransitive ==
    ASSUME NEW S, NEW u \in Seq(S), NEW v \in Seq(S), NEW w \in Seq(S),
           IsPrefix(u, v), IsPrefix(v, w)
    PROVE  IsPrefix(u, w)
<1>1. Len(u) <= Len(v) /\ \A i \in 1 .. Len(u) : u[i] = v[i]
  BY PrefixIs
<1>2. Len(v) <= Len(w) /\ \A i \in 1 .. Len(v) : v[i] = w[i]
  BY PrefixIs
<1>3. Len(u) \in Nat /\ Len(v) \in Nat /\ Len(w) \in Nat
  OBVIOUS
<1>4. Len(u) <= Len(w) /\ \A i \in 1 .. Len(u) : u[i] = w[i]
  BY <1>1, <1>2, <1>3
<1>. QED BY <1>4, PrefixIs

LEMMA PrefixAppend ==
    ASSUME NEW S, NEW v \in Seq(S), NEW x \in S
    PROVE  /\ Append(v, x) \in Seq(S)
           /\ IsPrefix(v, Append(v, x))
           /\ ~IsPrefix(Append(v, x), v)
<1>1. /\ Append(v, x) \in Seq(S) /\ Len(v) \in Nat /\ Len(Append(v, x)) = Len(v) + 1
      /\ \A i \in 1 .. Len(v) : Append(v, x)[i] = v[i]
  OBVIOUS
<1>2. \A t, u \in Seq(S) :
         IsPrefix(t, u) <=> Len(t) <= Len(u) /\ \A i \in 1 .. Len(t) : t[i] = u[i]
  BY PrefixIs
<1>3. ~(Len(v) + 1 <= Len(v)) /\ Len(v) <= Len(v) + 1
  BY <1>1
<1>. QED BY <1>1, <1>2, <1>3

\* A prefix of a run is that run or a prefix of the run above it.
LEMMA PrefixOfChild ==
    ASSUME NEW S, NEW v \in Seq(S), NEW x \in S, NEW w \in Seq(S), IsPrefix(w, Append(v, x))
    PROVE  IsPrefix(w, v) \/ w = Append(v, x)
<1>1. /\ Append(v, x) \in Seq(S) /\ Len(v) \in Nat /\ Len(w) \in Nat
      /\ Len(Append(v, x)) = Len(v) + 1
      /\ \A i \in 1 .. Len(v) : Append(v, x)[i] = v[i]
  OBVIOUS
<1>2. Len(w) <= Len(v) + 1 /\ \A i \in 1 .. Len(w) : w[i] = Append(v, x)[i]
  BY <1>1, PrefixIs
<1>3. CASE Len(w) <= Len(v)
  <2>1. \A i \in 1 .. Len(w) : w[i] = v[i]
    BY <1>1, <1>2, <1>3
  <2>. QED BY <2>1, <1>3, PrefixIs
<1>4. CASE Len(w) = Len(v) + 1
  <2>1. w = [i \in 1 .. Len(w) |-> w[i]]
    OBVIOUS
  <2>2. \A u \in Seq(S) : u = [i \in 1 .. Len(u) |-> u[i]]
    OBVIOUS
  <2>3. Append(v, x) = [i \in 1 .. Len(w) |-> Append(v, x)[i]]
    BY <1>1, <1>4, <2>2
  <2>. QED BY <2>1, <2>3, <1>2
<1>. QED BY <1>1, <1>2, <1>3, <1>4

LEMMA Cuts ==
    ASSUME NEW S, NEW w \in Seq(S), NEW n \in DOMAIN w
    PROVE  SubSeq(w, 1, n) \in Seq(S) /\ IsPrefix(SubSeq(w, 1, n), w)
<1>1. Len(w) \in Nat /\ n \in 1 .. Len(w) /\ n <= Len(w)
  OBVIOUS
<1>2. SubSeq(w, 1, n) = [i \in 1 .. n |-> w[i]]
  BY <1>1
<1>3. SubSeq(w, 1, n) \in Seq(S) /\ Len(SubSeq(w, 1, n)) = n
  BY <1>1
<1>. QED BY <1>1, <1>2, <1>3, PrefixIs

LEMMA ChildRun ==
    ASSUME NEW f, Shape(f)
    PROVE  /\ Child(f) \in Seq(Nat) /\ f.run \in Seq(Nat)
           /\ IsPrefix(f.run, Child(f)) /\ ~IsPrefix(Child(f), f.run)
BY PrefixAppend DEF Shape, Child

----------------------------------------------------------------------------
(* Verdicts, writers and contexts along the chain of runs *)

LEMMA SourcedAbove ==
    ASSUME NEW v \in Seq(Nat), NEW w \in Seq(Nat), IsPrefix(v, w),
           NEW S, \A s \in S : s[1] \in Seq(Nat), NEW o, Sourced(w, o, S)
    PROVE  Sourced(v, o, S)
BY PrefixTransitive DEF Sourced

\* What stands in a context may stand in the context of a run below.
LEMMA EscapesBelow ==
    ASSUME NEW v \in Seq(Nat), NEW x \in Nat, NEW w \in Seq(Nat), NEW k, NEW A,
           Escapes(w, k, v, A)
    PROVE  Escapes(w, k, Append(v, x), A)
<1>. SUFFICES ASSUME NEW n \in DOMAIN w, IsPrefix(SubSeq(w, 1, n), v)
              PROVE  IsPrefix(SubSeq(w, 1, n), Append(v, x))
  BY DEF Escapes
<1>. QED BY Cuts, PrefixAppend, PrefixTransitive

\* What a run lets out may stand in the context of the run above.
LEMMA EscapesAbove ==
    ASSUME NEW v \in Seq(Nat), NEW x \in Nat, NEW w \in Seq(Nat), NEW k, NEW A,
           Escapes(w, k, Append(v, x), A), <<Append(v, x), k>> \in A
    PROVE  Escapes(w, k, v, A)
<1>. SUFFICES ASSUME NEW n \in DOMAIN w, IsPrefix(SubSeq(w, 1, n), Append(v, x))
              PROVE  IsPrefix(SubSeq(w, 1, n), v) \/ <<SubSeq(w, 1, n), k>> \in A
  BY DEF Escapes
<1>. QED BY Cuts, PrefixOfChild

\* A run may write what it likes in its own context.
LEMMA EscapesSelf ==
    ASSUME NEW v \in Seq(Nat), NEW k, NEW A
    PROVE  Escapes(v, k, v, A)
BY Cuts DEF Escapes

LEMMA EscapesMore ==
    ASSUME NEW w, NEW k, NEW v, NEW A, NEW B, A \subseteq B, Escapes(w, k, v, A)
    PROVE  Escapes(w, k, v, B)
BY DEF Escapes

LEMMA GoodMore ==
    ASSUME NEW r, NEW v, NEW S, NEW T, S \subseteq T, NEW A, NEW B, A \subseteq B,
           GoodResult(r, v, S, A)
    PROVE  GoodResult(r, v, T, B)
BY EscapesMore DEF GoodResult, Sourced

----------------------------------------------------------------------------
(* The stack: what the ways to change it leave of it                       *)

LEMMA Popped ==
    ASSUME NEW s, IsSeq(s), s # <<>>, NEW t, t = Front(s)
    PROVE  /\ IsSeq(t) /\ Len(s) \in Nat \ {0} /\ Len(t) = Len(s) - 1
           /\ \A i \in 1 .. Len(t) : t[i] = s[i]
<1>1. PICK S : s \in Seq(S)
  BY DEF IsSeq
<1>2. Len(s) \in Nat \ {0}
  BY <1>1
<1>3. t = [i \in 1 .. Len(s) - 1 |-> s[i]]
  BY <1>1, <1>2 DEF Front
<1>4. t \in Seq(S) /\ Len(t) = Len(s) - 1
  BY <1>1, <1>2, <1>3
<1>. QED BY <1>2, <1>3, <1>4 DEF IsSeq

Push(s, f, g) == Append(Front(s), f) \o <<g>>

LEMMA Pushed ==
    ASSUME NEW s, IsSeq(s), s # <<>>, NEW f, NEW g, NEW t, t = Push(s, f, g)
    PROVE  /\ IsSeq(t) /\ Len(s) \in Nat \ {0} /\ Len(t) = Len(s) + 1
           /\ t[Len(s)] = f /\ t[Len(t)] = g
           /\ \A i \in 1 .. Len(s) : i # Len(s) => t[i] = s[i]
<1>1. /\ IsSeq(Front(s)) /\ Len(s) \in Nat \ {0} /\ Len(Front(s)) = Len(s) - 1
      /\ \A i \in 1 .. Len(Front(s)) : Front(s)[i] = s[i]
  BY Popped
<1>2. PICK S : Front(s) \in Seq(S)
  BY <1>1 DEF IsSeq
<1>. DEFINE u == Append(Front(s), f)
<1>3. Front(s) \in Seq(S \cup {f, g})
  BY <1>2
<1>4. /\ u \in Seq(S \cup {f, g}) /\ Len(u) = Len(s) /\ u[Len(s)] = f
      /\ \A i \in 1 .. Len(s) - 1 : u[i] = s[i]
  BY <1>1, <1>3
<1>. HIDE DEF u
<1>5. <<g>> \in Seq(S \cup {f, g}) /\ Len(<<g>>) = 1 /\ <<g>>[1] = g
  OBVIOUS
<1>6. /\ u \o <<g>> \in Seq(S \cup {f, g}) /\ Len(u \o <<g>>) = Len(s) + 1
      /\ (u \o <<g>>)[Len(s) + 1] = g
      /\ \A i \in 1 .. Len(s) : (u \o <<g>>)[i] = u[i]
  BY <1>1, <1>4, <1>5
<1>7. t = u \o <<g>>
  BY DEF u, Push
<1>8. \A i \in 1 .. Len(s) : i # Len(s) => i \in 1 .. Len(s) - 1
  BY <1>1
<1>9. IsSeq(t) /\ Len(t) = Len(s) + 1 /\ t[Len(t)] = g
  BY <1>6, <1>7 DEF IsSeq
<1>10. ASSUME NEW i \in 1 .. Len(s) PROVE t[i] = u[i]
  BY <1>6, <1>7
<1>11. Len(s) \in 1 .. Len(s)
  BY <1>1
<1>. QED BY <1>1, <1>4, <1>8, <1>9, <1>10, <1>11

LEMMA CutOff ==
    ASSUME NEW s, IsSeq(s), NEW i \in DOMAIN s, NEW t, t = SubSeq(s, 1, i)
    PROVE  /\ IsSeq(t) /\ i \in Nat \ {0} /\ Len(s) \in Nat /\ i <= Len(s) /\ Len(t) = i
           /\ t # <<>> /\ \A j \in 1 .. i : t[j] = s[j]
<1>1. PICK S : s \in Seq(S)
  BY DEF IsSeq
<1>2. i \in Nat \ {0} /\ Len(s) \in Nat /\ i <= Len(s) /\ DOMAIN s = 1 .. Len(s)
  BY <1>1
<1>3. t = [j \in 1 .. i |-> s[j]]
  BY <1>1, <1>2
<1>4. t \in Seq(S) /\ Len(t) = i
  BY <1>1, <1>2, <1>3
<1>. QED BY <1>2, <1>3, <1>4 DEF IsSeq

----------------------------------------------------------------------------
(* Frames                                                                  *)

LEMMA BareIsGood ==
    ASSUME NEW status, NEW run \in Seq(Nat), NEW S, NEW A
    PROVE  /\ GoodResult(Bare(status, run), run, S, A)
           /\ Bare(status, run).outcome.explicit = FALSE
<1>1. /\ Bare(status, run).from = run
      /\ Bare(status, run).outcome.explicit = FALSE
      /\ \A k : ~Carries(Bare(status, run), k) \/ k \notin CtxKeys
  BY DEF Bare, Plain, NoUpdates, Carries
<1>2. IsPrefix(run, run)
  BY PrefixSelf
<1>. QED BY <1>1, <1>2 DEF GoodResult, Sourced

\* The frame of a node that waits for the child it has started.
Awaiting(p) == [p EXCEPT !.pc = "child", !.children = @ + 1,
                         !.ran[p.at] = Append(p.run, p.children + 1)]

LEMMA AwaitingFrame ==
    ASSUME NEW p, NEW S, NEW A, FrameInv(p, S, A), NEW f, f = Awaiting(p)
    PROVE  /\ FrameInv(f, S, A) /\ f.pc = "child" /\ f.run = p.run /\ f.kind = p.kind
           /\ f.by = p.by /\ f.at = p.at /\ f.file = p.file
           /\ Child(f) = Append(p.run, p.children + 1)
<1>. DEFINE run == Append(p.run, p.children + 1)
<1>0. DOMAIN p = FrameFields
  BY DEF FrameInv, Shape
<1>1. /\ DOMAIN f = FrameFields /\ f.pc = "child" /\ f.run = p.run /\ f.kind = p.kind
      /\ f.by = p.by /\ f.at = p.at /\ f.file = p.file /\ f.children = p.children + 1
      /\ f.last = p.last /\ f.made = p.made /\ f.outcomes = p.outcomes /\ f.tries = p.tries
      /\ f.ran = [p.ran EXCEPT ![p.at] = run]
  BY <1>0 DEF Awaiting, FrameFields
<1>2. /\ DOMAIN f.ran = DOMAIN p.ran
      /\ \A n \in DOMAIN f.ran : n # p.at => f.ran[n] = p.ran[n]
      /\ p.at \in DOMAIN f.ran => f.ran[p.at] = run
  BY <1>0, <1>1
<1>. HIDE DEF run
<1>3. Shape(f)
  BY <1>1, <1>2 DEF FrameInv, Shape
<1>4. Child(f) = run
  BY <1>1 DEF Child, run
<1>5. Verdicts(f, S)
  BY <1>1, <1>2, <1>4 DEF Verdicts, Composite, Visiting, FrameInv
<1>. QED BY <1>1, <1>3, <1>4, <1>5 DEF FrameInv, run

\* The frame of a child.
Started(p, kind, file, start) ==
    LET run == Append(p.run, p.children + 1)
        c   == ChildContext(p, run)
    IN  Frame(kind, file, start, run, c.ctx, c.by)

LEMMA ChildFrame ==
    ASSUME NEW p, NEW S, NEW A, FrameInv(p, S, A), NEW kind, NEW file, NEW start,
           NEW g, g = Started(p, kind, file, start)
    PROVE  /\ FrameInv(g, S, A) /\ g.run = Append(p.run, p.children + 1)
           /\ g.kind = kind /\ g.pc = "top"
           /\ \A k \in CtxKeys : k = "preferred_label" /\ ~IsPrefix(g.run, g.by[k]) =>
                 Injects(p, k) /\ IsPrefix(p.run, g.by[k])
<1>. DEFINE run == Append(p.run, p.children + 1)  c == ChildContext(p, run)
<1>1. /\ p.run \in Seq(Nat) /\ p.children + 1 \in Nat /\ p.by \in [CtxKeys -> Seq(Nat)]
      /\ \A k \in CtxKeys : Escapes(p.by[k], k, p.run, A)
  BY DEF FrameInv, Shape
<1>2. run \in Seq(Nat) /\ IsPrefix(p.run, p.run) /\ IsPrefix(run, run)
  BY <1>1, PrefixAppend, PrefixSelf
<1>3. /\ DOMAIN g = FrameFields /\ g.run = run /\ g.kind = kind /\ g.pc = "top"
      /\ g.file = file
      /\ g.by = c.by /\ g.children = 0 /\ g.tries = 0
      /\ g.last = Bare("none", run) /\ g.made = Bare("none", run)
      /\ g.outcomes = NoOutcomes(file) /\ g.ran = [n \in DOMAIN Graphs[file].nodes |-> <<>>]
  BY DEF Started, Frame, FrameFields
<1>4. c.by = [k \in CtxKeys |->
                 CASE Injects(p, k) -> p.run
                   [] k = "preferred_label" /\ ~Injects(p, k) -> run
                   [] OTHER -> p.by[k]]
  BY DEF ChildContext, Injects
<1>. HIDE DEF c, run
<1>5. ASSUME NEW k \in CtxKeys
      PROVE  /\ c.by[k] \in Seq(Nat) /\ Escapes(c.by[k], k, run, A)
             /\ k = "preferred_label" => c.by[k] = run \/ (Injects(p, k) /\ c.by[k] = p.run)
  <2>1. CASE Injects(p, k)
    <3>1. c.by[k] = p.run
      BY <1>4, <2>1
    <3>2. Escapes(p.run, k, run, A)
      BY <1>1, EscapesSelf, EscapesBelow DEF run
    <3>. QED BY <1>1, <2>1, <3>1, <3>2
  <2>2. CASE k = "preferred_label" /\ ~Injects(p, k)
    <3>1. c.by[k] = run
      BY <1>4, <2>2
    <3>. QED BY <1>2, <3>1, EscapesSelf
  <2>3. CASE k # "preferred_label" /\ ~Injects(p, k)
    <3>1. c.by[k] = p.by[k]
      BY <1>4, <2>3
    <3>2. Escapes(p.by[k], k, run, A)
      BY <1>1, EscapesBelow DEF run
    <3>. QED BY <1>1, <2>3, <3>1, <3>2
  <2>. QED BY <2>1, <2>2, <2>3
<1>6. g.by \in [CtxKeys -> Seq(Nat)]
  BY <1>3, <1>4, <1>5
<1>7. /\ DOMAIN g.outcomes = DOMAIN g.ran
      /\ \A n \in DOMAIN g.ran : g.outcomes[n].explicit = FALSE
  <2>1. Plain("none").explicit = FALSE
    BY DEF Plain
  <2>2. g.outcomes = [n \in DOMAIN Graphs[file].nodes |-> Plain("none")]
    BY <1>3 DEF NoOutcomes
  <2>. QED BY <1>3, <2>1, <2>2
<1>8. Shape(g)
  <2>1. {g.children, g.tries} \subseteq Nat
    BY <1>3
  <2>2. g.run \in Seq(Nat) /\ DOMAIN g = FrameFields
    BY <1>2, <1>3
  <2>3. DOMAIN g.outcomes = DOMAIN g.ran /\ DOMAIN g.ran = DOMAIN Graphs[g.file].nodes
    BY <1>3, <1>7
  <2>. QED BY <1>6, <2>1, <2>2, <2>3, Zenon DEF Shape
<1>9. GoodResult(g.last, g.run, S, A) /\ GoodResult(g.made, g.run, S, A)
  BY <1>2, <1>3, BareIsGood
<1>10. Verdicts(g, S)
  BY <1>3, <1>7 DEF Verdicts, Sourced
<1>. QED BY <1>2, <1>3, <1>5, <1>8, <1>9, <1>10 DEF FrameInv, run

----------------------------------------------------------------------------
(* Steps by what they do to the stack                                      *)

LEMMA FrameMore ==
    ASSUME NEW f, NEW S, NEW T, S \subseteq T, NEW A, NEW B, A \subseteq B,
           FrameInv(f, S, A)
    PROVE  FrameInv(f, T, B)
<1>1. GoodResult(f.last, f.run, T, B) /\ GoodResult(f.made, f.run, T, B)
  BY GoodMore DEF FrameInv
<1>2. \A k \in CtxKeys : Escapes(f.by[k], k, f.run, B)
  BY EscapesMore DEF FrameInv
<1>3. \A v, o : Sourced(v, o, S) => Sourced(v, o, T)
  BY DEF Sourced
<1>4. Verdicts(f, T)
  BY <1>3 DEF FrameInv, Verdicts
<1>. QED BY <1>1, <1>2, <1>4 DEF FrameInv

\* The innermost run goes on.
LEMMA BecomesKeeps ==
    ASSUME StackInv, stack # <<>>, NEW f, Becomes(f),
           FrameInv(f, said', allowed'), LabelAt(stack, Len(stack), f),
           f.run = Here.run, f.kind = Here.kind, f.pc # "child",
           said \subseteq said', allowed \subseteq allowed', \A s \in said' : s[1] \in Seq(Nat)
    PROVE  StackInv'
<1>. DEFINE s == stack  t == stack'
<1>1. /\ IsSeq(t) /\ Len(t) = Len(s) /\ Len(s) \in Nat \ {0} /\ t # <<>>
      /\ t[Len(t)] = f /\ \A i \in 1 .. Len(s) : i # Len(s) => t[i] = s[i]
  <2>1. PICK S : s \in Seq(S)
    BY DEF StackInv, Linked, IsSeq
  <2>. HIDE DEF s, t
  <2>2. s \in Seq(S \cup {f}) /\ Len(s) \in Nat \ {0} /\ Len(s) \in 1 .. Len(s)
        /\ DOMAIN s = 1 .. Len(s)
    <3>1. s # <<>>
      BY DEF s
    <3>. QED BY <2>1, <3>1
  <2>3. t = [s EXCEPT ![Len(s)] = f]
    BY DEF Becomes, s, t
  <2>4. t \in Seq(S \cup {f}) /\ Len(t) = Len(s)
    BY <2>2, <2>3
  <2>5. t[Len(s)] = f /\ \A i \in 1 .. Len(s) : i # Len(s) => t[i] = s[i]
    BY <2>2, <2>3
  <2>6. IsSeq(t)
    BY <2>4 DEF IsSeq
  <2>7. t # <<>>
    BY <2>2, <2>4
  <2>. QED BY <2>2, <2>4, <2>5, <2>6, <2>7
<1>2. /\ s[1].kind = "engine" /\ s[1].run = <<>>
      /\ \A i \in 1 .. Len(s) - 1 : s[i].pc = "child" /\ s[i + 1].run = Child(s[i])
      /\ \A i \in 1 .. Len(s) : FrameInv(s[i], said, allowed) /\ LabelAt(s, i, s[i])
  BY DEF StackInv, Linked
<1>3. Linked(t)
  <2>1. t[1].kind = "engine" /\ t[1].run = <<>>
    BY <1>1, <1>2 DEF Here
  <2>2. ASSUME NEW i \in 1 .. Len(t) - 1 PROVE t[i].pc = "child" /\ t[i + 1].run = Child(t[i])
    <3>1. t[i] = s[i] /\ s[i].pc = "child" /\ s[i + 1].run = Child(s[i])
      BY <1>1, <1>2
    <3>2. t[i + 1].run = s[i + 1].run
      BY <1>1 DEF Here
    <3>. QED BY <3>1, <3>2
  <2>. QED BY <1>1, <2>1, <2>2 DEF Linked
<1>4. ASSUME NEW i \in 1 .. Len(t)
      PROVE  FrameInv(t[i], said', allowed') /\ LabelAt(t, i, t[i])
  <2>1. i > 1 => t[i - 1] = s[i - 1]
    BY <1>1
  <2>2. \A g : LabelAt(t, i, g) <=> LabelAt(s, i, g)
    BY <2>1 DEF LabelAt
  <2>3. CASE i = Len(t)
    BY <1>1, <2>2, <2>3
  <2>4. CASE i # Len(t)
    BY <1>1, <1>2, <2>2, <2>4, FrameMore
  <2>. QED BY <2>3, <2>4
<1>5. ~Standing("child")'
  BY <1>1 DEF Standing, Here
<1>. QED BY <1>3, <1>4, <1>5 DEF StackInv

\* The innermost run ends.
LEMMA ReturnKeeps ==
    ASSUME StackInv, stack # <<>>, NEW r, Return(r),
           GoodResult(r, Here.run, said, allowed)
    PROVE  StackInv'
<1>. DEFINE s == stack  t == stack'
<1>1. /\ IsSeq(t) /\ Len(s) \in Nat \ {0} /\ Len(t) = Len(s) - 1
      /\ \A i \in 1 .. Len(t) : t[i] = s[i]
  BY Popped DEF Return, StackInv, Linked
<1>2. /\ s[1].kind = "engine" /\ s[1].run = <<>>
      /\ \A i \in 1 .. Len(s) - 1 : s[i].pc = "child" /\ s[i + 1].run = Child(s[i])
      /\ \A i \in 1 .. Len(s) : FrameInv(s[i], said, allowed) /\ LabelAt(s, i, s[i])
  BY DEF StackInv, Linked
<1>3. UNCHANGED <<said, allowed>>
  BY DEF Return, history
<1>4. Linked(t)
  <2>1. t # <<>> => Len(t) \in Nat \ {0}
    BY <1>1 DEF IsSeq
  <2>2. t # <<>> => t[1].kind = "engine" /\ t[1].run = <<>>
    BY <1>1, <1>2, <2>1
  <2>3. \A i \in 1 .. Len(t) - 1 : t[i].pc = "child" /\ t[i + 1].run = Child(t[i])
    BY <1>1, <1>2
  <2>. QED BY <1>1, <2>2, <2>3 DEF Linked
<1>5. ASSUME NEW i \in 1 .. Len(t)
      PROVE  FrameInv(t[i], said, allowed) /\ LabelAt(t, i, t[i])
  <2>1. t[i] = s[i] /\ (i > 1 => t[i - 1] = s[i - 1]) /\ i \in 1 .. Len(s)
    BY <1>1
  <2>2. LabelAt(t, i, t[i]) <=> LabelAt(s, i, s[i])
    BY <2>1 DEF LabelAt
  <2>. QED BY <1>2, <2>1, <2>2
<1>6. ASSUME t # <<>> PROVE Handed(returned', t[Len(t)], said, allowed)
  <2>. DEFINE p == s[Len(s) - 1]
  <2>1. Len(s) > 1 /\ Len(s) # 1 /\ Len(s) \in 1 .. Len(s) /\ Len(s) - 1 \in 1 .. Len(s)
        /\ t[Len(t)] = p
    <3>1. Len(t) # 0
      BY <1>1, <1>6 DEF IsSeq
    <3>. QED BY <1>1, <3>1
  <2>2. Here.run = Child(p)
    <3>1. Len(s) - 1 \in 1 .. Len(s) - 1 /\ (Len(s) - 1) + 1 = Len(s)
      BY <1>1, <2>1
    <3>. QED BY <3>1, <1>2 DEF Here
  <2>3. returned' = [result |-> r, run |-> Here.run, ctx |-> Here.ctx, by |-> Here.by]
    BY <2>1 DEF Return
  <2>4. FrameInv(Here, said, allowed) /\ LabelAt(s, Len(s), Here)
    BY <1>2, <2>1 DEF Here
  <2>5. Shape(p) /\ Child(p) \in Seq(Nat) /\ p.run \in Seq(Nat) /\ IsPrefix(p.run, Child(p))
    BY <1>2, <2>1, ChildRun DEF FrameInv
  <2>6. \A k \in CtxKeys : k = "preferred_label" => IsPrefix(p.run, Here.by[k])
    <3>1. Here.by \in [CtxKeys -> Seq(Nat)]
      BY <2>4 DEF FrameInv, Shape
    <3>2. SUFFICES ASSUME NEW k \in CtxKeys, k = "preferred_label" PROVE IsPrefix(p.run, Here.by[k])
      OBVIOUS
    <3>3. CASE IsPrefix(Child(p), Here.by[k])
      BY <2>5, <3>1, <3>3, PrefixTransitive
    <3>4. CASE ~IsPrefix(Child(p), Here.by[k])
      BY <2>2, <2>4, <3>2, <3>4 DEF LabelAt
    <3>. QED BY <3>3, <3>4
  <2>7. Here.by \in [CtxKeys -> Seq(Nat)] /\ \A k \in CtxKeys : Escapes(Here.by[k], k, Here.run, allowed)
    BY <2>4 DEF FrameInv, Shape
  <2>8. GoodResult(r, Child(p), said, allowed)
    BY <2>2
  <2>. QED BY <2>1, <2>2, <2>3, <2>6, <2>7, <2>8 DEF Handed
<1>. QED BY <1>3, <1>4, <1>5, <1>6 DEF StackInv, Standing, Here

\* The node of the innermost run starts a child.
LEMMA StartKeeps ==
    ASSUME StackInv, stack # <<>>, NEW p, FrameInv(p, said, allowed),
           LabelAt(stack, Len(stack), p), p.run = Here.run, p.kind = Here.kind,
           NEW kind, NEW file, NEW start, StartChild(p, kind, file, start),
           UNCHANGED <<said, allowed>>
    PROVE  StackInv'
<1>. DEFINE s == stack  t == stack'
            run == Append(p.run, p.children + 1)
            f == Awaiting(p)
            g == Started(p, kind, file, start)
<1>1. IsSeq(s) /\ s # <<>>
  BY DEF StackInv, Linked
<1>2. t = Push(s, f, g)
  BY DEF StartChild, Push, Awaiting, Started
<1>3. /\ FrameInv(f, said, allowed) /\ f.pc = "child" /\ f.run = p.run /\ f.kind = p.kind
      /\ f.by = p.by /\ f.at = p.at /\ f.file = p.file
      /\ Child(f) = run
  BY AwaitingFrame
<1>4. /\ FrameInv(g, said, allowed) /\ g.run = run /\ g.kind = kind /\ g.pc = "top"
      /\ \A k \in CtxKeys : k = "preferred_label" /\ ~IsPrefix(g.run, g.by[k]) =>
            Injects(p, k) /\ IsPrefix(p.run, g.by[k])
  BY ChildFrame
<1>. HIDE DEF s, t, run, f, g
<1>5. /\ IsSeq(t) /\ Len(s) \in Nat \ {0} /\ Len(t) = Len(s) + 1
      /\ t[Len(s)] = f /\ t[Len(t)] = g
      /\ \A i \in 1 .. Len(s) : i # Len(s) => t[i] = s[i]
  BY <1>1, <1>2, Pushed
<1>6. /\ s[1].kind = "engine" /\ s[1].run = <<>>
      /\ \A i \in 1 .. Len(s) - 1 : s[i].pc = "child" /\ s[i + 1].run = Child(s[i])
      /\ \A i \in 1 .. Len(s) : FrameInv(s[i], said, allowed) /\ LabelAt(s, i, s[i])
      /\ s[Len(s)].run = f.run /\ s[Len(s)].kind = f.kind
  BY <1>1, <1>3 DEF StackInv, Linked, s, Here
<1>7. Linked(t)
  <2>1. t # <<>> /\ t[1].kind = "engine" /\ t[1].run = <<>>
    BY <1>5, <1>6
  <2>2. ASSUME NEW i \in 1 .. Len(t) - 1 PROVE t[i].pc = "child" /\ t[i + 1].run = Child(t[i])
    <3>1. CASE i = Len(s)
      BY <1>3, <1>4, <1>5, <3>1
    <3>2. CASE i # Len(s)
      <4>1. t[i] = s[i] /\ s[i].pc = "child" /\ s[i + 1].run = Child(s[i])
        BY <1>5, <1>6, <3>2
      <4>2. t[i + 1].run = s[i + 1].run
        BY <1>5, <1>6, <3>2
      <4>. QED BY <4>1, <4>2
    <3>. QED BY <3>1, <3>2
  <2>. QED BY <1>5, <2>1, <2>2 DEF Linked
<1>8. ASSUME NEW i \in 1 .. Len(t)
      PROVE  FrameInv(t[i], said, allowed) /\ LabelAt(t, i, t[i])
  <2>1. CASE i = Len(t)
    <3>1. i > 1 /\ i - 1 = Len(s) /\ t[i] = g /\ t[i - 1] = f
      BY <1>5, <2>1
    <3>2. \A k : Injects(f, k) <=> Injects(p, k)
      BY <1>3 DEF Injects
    <3>3. LabelAt(t, i, g)
      BY <1>3, <1>4, <3>1, <3>2 DEF LabelAt
    <3>. QED BY <1>4, <3>1, <3>3
  <2>2. CASE i = Len(s)
    <3>1. t[i] = f /\ (i > 1 => t[i - 1] = s[i - 1])
      BY <1>5, <2>2
    <3>2. LabelAt(s, i, p)
      BY <2>2 DEF s
    <3>3. LabelAt(t, i, f)
      BY <1>3, <3>1, <3>2 DEF LabelAt
    <3>. QED BY <1>3, <3>1, <3>3
  <2>3. CASE i # Len(t) /\ i # Len(s)
    <3>1. i \in 1 .. Len(s) /\ t[i] = s[i] /\ (i > 1 => t[i - 1] = s[i - 1])
      BY <1>5, <2>3
    <3>2. LabelAt(t, i, t[i]) <=> LabelAt(s, i, s[i])
      BY <3>1 DEF LabelAt
    <3>. QED BY <1>6, <3>1, <3>2
  <2>. QED BY <2>1, <2>2, <2>3
<1>9. stack' = t
  BY DEF t
<1>10. ~Standing("child")'
  BY <1>4, <1>5, <1>9 DEF Standing, Here
<1>. QED BY <1>7, <1>8, <1>9, <1>10 DEF StackInv

\* A node on the stack times out, with all that runs below it.
LEMMA TimeOutKeeps ==
    ASSUME StackInv, TimeOut
    PROVE  StackInv'
<1>1. PICK i \in DOMAIN stack :
        LET f == stack[i]
        IN  stack' = [SubSeq(stack, 1, i) EXCEPT ![i].pc = "made",
                  ![i].made = Bare(IF Graphs[f.file].nodes[f.at].allow_partial
                                   THEN "partial_success" ELSE "fail", f.run)]
  BY DEF TimeOut
<1>2. UNCHANGED <<said, allowed>>
  BY DEF TimeOut, history
<1>. DEFINE s == stack  t == stack'  u == SubSeq(s, 1, i)  f == stack[i]
            verd == IF Graphs[f.file].nodes[f.at].allow_partial
                    THEN "partial_success" ELSE "fail"
            g == [f EXCEPT !.pc = "made", !.made = Bare(verd, f.run)]
<1>3. t = [[u EXCEPT ![i].pc = "made"] EXCEPT ![i].made = Bare(verd, f.run)]
  BY <1>1
<1>. HIDE DEF verd
<1>4. /\ IsSeq(u) /\ i \in Nat \ {0} /\ Len(s) \in Nat /\ i <= Len(s) /\ Len(u) = i
      /\ u # <<>> /\ \A j \in 1 .. i : u[j] = s[j]
  <2>1. IsSeq(s) /\ i \in DOMAIN s /\ u = SubSeq(s, 1, i)
    BY DEF StackInv, Linked
  <2>. HIDE DEF s, u
  <2>. QED BY <2>1, CutOff, Zenon
<1>5. FrameInv(f, said, allowed) /\ LabelAt(s, i, f)
  BY <1>4 DEF StackInv
<1>6. FrameInv(g, said, allowed) /\ g.run = f.run /\ g.kind = f.kind /\ g.by = f.by
      /\ g.pc = "made"
  <2>0. DOMAIN f = FrameFields /\ f.run \in Seq(Nat)
    BY <1>5 DEF FrameInv, Shape
  <2>. HIDE DEF f
  <2>1. /\ DOMAIN g = FrameFields /\ g.run = f.run /\ g.kind = f.kind /\ g.by = f.by
        /\ g.pc = "made" /\ g.made = Bare(verd, f.run) /\ g.last = f.last /\ g.ran = f.ran
        /\ g.outcomes = f.outcomes /\ g.at = f.at /\ g.children = f.children
        /\ g.tries = f.tries /\ g.file = f.file
    BY <2>0 DEF FrameFields
  <2>2. GoodResult(g.made, g.run, said, allowed) /\ g.made.outcome.explicit = FALSE
    BY <2>0, <2>1, BareIsGood
  <2>. HIDE DEF g
  <2>3. Verdicts(g, said)
    BY <1>5, <2>1, <2>2 DEF FrameInv, Verdicts, Composite, Visiting, Sourced
  <2>4. Shape(g)
    BY <1>5, <2>1 DEF FrameInv, Shape
  <2>. QED BY <1>5, <2>1, <2>2, <2>3, <2>4 DEF FrameInv
<1>7. /\ IsSeq(t) /\ Len(t) = i /\ t # <<>> /\ t[i] = g
      /\ \A j \in 1 .. i : j # i => t[j] = s[j]
  <2>1. PICK S : u \in Seq(S)
    BY <1>4 DEF IsSeq
  <2>2. u[i] = f
    BY <1>4
  <2>3. t = [u EXCEPT ![i] = g]
    BY <1>3, <1>4, <2>1, <2>2
  <2>. HIDE DEF t, u, g
  <2>4. u \in Seq(S \cup {g}) /\ DOMAIN u = 1 .. i /\ i \in 1 .. i
    BY <1>4, <2>1
  <2>5. t \in Seq(S \cup {g}) /\ Len(t) = i
    BY <1>4, <2>3, <2>4
  <2>6. t[i] = g /\ \A j \in 1 .. i : j # i => t[j] = u[j]
    BY <2>3, <2>4
  <2>7. IsSeq(t) /\ t # <<>>
    BY <1>4, <2>5 DEF IsSeq
  <2>. QED BY <1>4, <2>5, <2>6, <2>7
<1>8. /\ s[1].kind = "engine" /\ s[1].run = <<>>
      /\ \A j \in 1 .. Len(s) - 1 : s[j].pc = "child" /\ s[j + 1].run = Child(s[j])
      /\ \A j \in 1 .. Len(s) : FrameInv(s[j], said, allowed) /\ LabelAt(s, j, s[j])
  <2>1. s # <<>>
    BY <1>4
  <2>. QED BY <2>1 DEF StackInv, Linked
<1>9. f = s[i]
  OBVIOUS
<1>. HIDE DEF s, t, u, f, g
<1>10. Linked(t)
  <2>1. t[1].kind = "engine" /\ t[1].run = <<>>
    BY <1>4, <1>6, <1>7, <1>8, <1>9
  <2>2. ASSUME NEW j \in 1 .. Len(t) - 1 PROVE t[j].pc = "child" /\ t[j + 1].run = Child(t[j])
    <3>1. t[j] = s[j] /\ s[j].pc = "child" /\ s[j + 1].run = Child(s[j])
      BY <1>4, <1>7, <1>8
    <3>2. t[j + 1].run = s[j + 1].run
      BY <1>4, <1>6, <1>7, <1>9
    <3>. QED BY <3>1, <3>2
  <2>. QED BY <1>7, <2>1, <2>2 DEF Linked
<1>11. ASSUME NEW j \in 1 .. Len(t)
       PROVE  FrameInv(t[j], said, allowed) /\ LabelAt(t, j, t[j])
  <2>1. j > 1 => t[j - 1] = s[j - 1]
    BY <1>4, <1>7
  <2>2. CASE j = i
    <3>1. LabelAt(t, i, g)
      BY <1>5, <1>6, <2>1, <2>2 DEF LabelAt
    <3>. QED BY <1>6, <1>7, <2>2, <3>1
  <2>3. CASE j # i
    <3>1. t[j] = s[j] /\ j \in 1 .. Len(s)
      BY <1>4, <1>7, <2>3
    <3>2. LabelAt(t, j, t[j]) <=> LabelAt(s, j, s[j])
      BY <2>1, <3>1 DEF LabelAt
    <3>. QED BY <1>8, <3>1, <3>2
  <2>. QED BY <2>2, <2>3
<1>12. ~Standing("child")'
  <2>1. stack' = t
    BY DEF t
  <2>. QED BY <1>6, <1>7, <2>1 DEF Standing, Here
<1>13. stack' = t
  BY DEF t
<1>14. \A x \in said : x[1] \in Seq(Nat)
  BY DEF StackInv
<1>. QED BY <1>2, <1>10, <1>11, <1>12, <1>13, <1>14 DEF StackInv

----------------------------------------------------------------------------
(* The innermost frame, step by step                                       *)

LEMMA HereInv ==
    ASSUME StackInv, stack # <<>>
    PROVE  /\ FrameInv(Here, said, allowed) /\ LabelAt(stack, Len(stack), Here)
           /\ DOMAIN Here = FrameFields /\ Here.run \in Seq(Nat)
           /\ \A s \in said : s[1] \in Seq(Nat)
           /\ Len(stack) \in Nat \ {0}
<1>1. Len(stack) \in Nat \ {0}
  BY DEF StackInv, Linked, IsSeq
<1>2. FrameInv(Here, said, allowed) /\ LabelAt(stack, Len(stack), Here)
  BY <1>1 DEF StackInv, Here
<1>3. DOMAIN Here = FrameFields /\ Here.run \in Seq(Nat)
  BY <1>2 DEF FrameInv, Shape
<1>. QED BY <1>1, <1>2, <1>3 DEF StackInv

\* The fields that the invariant reads and no handler touches.
Alike(f, h) ==
    /\ DOMAIN f = FrameFields
    /\ f.kind = h.kind /\ f.file = h.file /\ f.run = h.run /\ f.at = h.at
    /\ f.outcomes = h.outcomes /\ f.last = h.last
    /\ f.children = h.children /\ f.ran = h.ran
    /\ f.tries \in Nat

LEMMA QuietFrame ==
    ASSUME NEW h, NEW S, NEW A, FrameInv(h, S, A),
           NEW f, Alike(f, h), f.by = h.by, f.made = h.made,
           f.pc \in {"leaving", "run", "leaf", "cycle"}, f.pc = "leaving" => h.pc = "top",
           f.pc = "leaf" => ~Composite(h, h.at)
    PROVE  FrameInv(f, S, A)
<1>1. Shape(f)
  BY DEF Alike, FrameInv, Shape
<1>2. Verdicts(f, S)
  BY DEF Alike, FrameInv, Verdicts, Composite, Visiting
<1>. QED BY <1>1, <1>2 DEF Alike, FrameInv

LEMMA MadeFrame ==
    ASSUME NEW h, NEW S, NEW A, FrameInv(h, S, A),
           NEW f, Alike(f, h), f.pc = "made", GoodResult(f.made, h.run, S, A),
           f.by \in [CtxKeys -> Seq(Nat)],
           \A k \in CtxKeys : Escapes(f.by[k], k, h.run, A),
           \A n \in DOMAIN h.ran :
               Composite(h, n) /\ n = h.at => Sourced(h.ran[n], f.made.outcome, S)
    PROVE  FrameInv(f, S, A)
<1>1. Shape(f)
  BY DEF Alike, FrameInv, Shape
<1>2. Verdicts(f, S)
  BY DEF Alike, FrameInv, Verdicts, Composite, Visiting
<1>. QED BY <1>1, <1>2 DEF Alike, FrameInv

\* A step inside the node, and the step into it.
LEMMA QuietStep ==
    ASSUME StackInv, stack # <<>>, NEW f, Becomes(f), Alike(f, Here),
           f.by = Here.by, f.made = Here.made,
           f.pc \in {"leaving", "run", "leaf", "cycle"}, f.pc = "leaving" => Here.pc = "top",
           f.pc = "leaf" => ~Composite(Here, Here.at), UNCHANGED <<said, allowed>>
    PROVE  StackInv'
<1>1. FrameInv(f, said', allowed')
  BY HereInv, QuietFrame
<1>2. LabelAt(stack, Len(stack), f) /\ f.run = Here.run /\ f.kind = Here.kind /\ f.pc # "child"
  BY HereInv DEF LabelAt, Alike
<1>. QED BY <1>1, <1>2, HereInv, BecomesKeeps

\* The handler returns a result of its own making.
LEMMA BareMade ==
    ASSUME StackInv, stack # <<>>, NEW f, Becomes(f), Alike(f, Here), f.by = Here.by,
           f.pc = "made", NEW status, f.made = Bare(status, Here.run),
           UNCHANGED <<said, allowed>>
    PROVE  StackInv'
<1>1. /\ GoodResult(f.made, Here.run, said, allowed)
      /\ f.made.outcome.explicit = FALSE
  BY HereInv, BareIsGood
<1>2. \A n : Sourced(Here.ran[n], f.made.outcome, said)
  BY <1>1 DEF Sourced
<1>3. /\ f.by \in [CtxKeys -> Seq(Nat)]
      /\ \A k \in CtxKeys : Escapes(f.by[k], k, Here.run, allowed)
  BY HereInv DEF FrameInv, Shape
<1>4. FrameInv(f, said', allowed')
  BY <1>1, <1>2, <1>3, HereInv, MadeFrame
<1>5. LabelAt(stack, Len(stack), f) /\ f.run = Here.run /\ f.kind = Here.kind /\ f.pc # "child"
  BY HereInv DEF LabelAt, Alike
<1>. QED BY <1>4, <1>5, HereInv, BecomesKeeps

LEMMA QuietActions ==
    ASSUME StackInv,
           ReachExit \/ EnterNode \/ BeginLeaf \/ Again
    PROVE  StackInv'
<1>1. stack # <<>> /\ UNCHANGED <<said, allowed>>
  BY DEF ReachExit, EnterNode, BeginLeaf, Again, Begin, Standing, history
<1>2. DOMAIN Here = FrameFields /\ Here.tries \in Nat
  BY <1>1, HereInv DEF FrameInv, Shape
<1>3. ASSUME NEW f, Becomes(f), Alike(f, Here), f.by = Here.by, f.made = Here.made,
             f.pc \in {"leaving", "run", "leaf", "cycle"}, f.pc = "leaving" => Here.pc = "top",
             f.pc = "leaf" => ~Composite(Here, Here.at)
      PROVE  StackInv'
  BY <1>1, <1>3, QuietStep
<1>4. CASE ReachExit
  <2>. DEFINE f == [Here EXCEPT !.pc = "leaving", !.steps = @ + 1]
  <2>1. Becomes(f) /\ Here.pc = "top"
    BY <1>4 DEF ReachExit, Begin, Standing
  <2>2. Alike(f, Here) /\ f.by = Here.by /\ f.made = Here.made /\ f.pc = "leaving"
    BY <1>2 DEF Alike, FrameFields
  <2>. HIDE DEF f
  <2>. QED BY <1>3, <2>1, <2>2
<1>5. CASE EnterNode
  <2>. DEFINE f == [Here EXCEPT !.pc = "run", !.steps = @ + 1, !.tries = 0]
  <2>1. Becomes(f)
    BY <1>5 DEF EnterNode
  <2>2. Alike(f, Here) /\ f.by = Here.by /\ f.made = Here.made /\ f.pc = "run"
    BY <1>2 DEF Alike, FrameFields
  <2>. HIDE DEF f
  <2>. QED BY <1>3, <2>1, <2>2
<1>6. CASE BeginLeaf
  <2>. DEFINE f == [Here EXCEPT !.pc = "leaf"]
  <2>1. Becomes(f) /\ ~Composite(Here, Here.at)
    BY <1>6 DEF BeginLeaf, Composite, Node
  <2>2. Alike(f, Here) /\ f.by = Here.by /\ f.made = Here.made /\ f.pc = "leaf"
    BY <1>2 DEF Alike, FrameFields
  <2>. HIDE DEF f
  <2>. QED BY <1>3, <2>1, <2>2
<1>7. CASE Again
  <2>. DEFINE f == [Here EXCEPT !.pc = "run", !.tries = @ + 1]
  <2>1. Becomes(f)
    BY <1>7 DEF Again
  <2>2. Alike(f, Here) /\ f.by = Here.by /\ f.made = Here.made /\ f.pc = "run"
    BY <1>2 DEF Alike, FrameFields
  <2>. HIDE DEF f
  <2>. QED BY <1>3, <2>1, <2>2
<1>. QED BY <1>4, <1>5, <1>6, <1>7

LEMMA MadeIs ==
    ASSUME NEW r, DOMAIN Here = FrameFields, Here.tries \in Nat
    PROVE  /\ Alike(Made(r), Here) /\ Made(r).by = Here.by /\ Made(r).pc = "made"
           /\ Made(r).made = r
BY DEF Made, Alike, FrameFields

LEMMA RefusedActions ==
    ASSUME StackInv, FolderRefuses \/ CyclesExhausted \/ BeginManager
    PROVE  StackInv'
<1>1. stack # <<>> /\ UNCHANGED <<said, allowed>>
  BY DEF FolderRefuses, CyclesExhausted, BeginManager, FolderOf, Standing, history
<1>2. DOMAIN Here = FrameFields /\ Here.tries \in Nat
  BY <1>1, HereInv DEF FrameInv, Shape
<1>3. CASE Becomes(Made(Bare("fail", Here.run)))
  BY <1>1, <1>2, <1>3, MadeIs, BareMade
<1>4. CASE Becomes([Here EXCEPT !.pc = "cycle", !.cycle = 0])
  <2>. DEFINE f == [Here EXCEPT !.pc = "cycle", !.cycle = 0]
  <2>1. Becomes(f)
    BY <1>4
  <2>2. Alike(f, Here) /\ f.by = Here.by /\ f.made = Here.made /\ f.pc = "cycle"
    BY <1>2 DEF Alike, FrameFields
  <2>. HIDE DEF f
  <2>. QED BY <1>1, <2>1, <2>2, QuietStep
<1>. QED BY <1>3, <1>4 DEF FolderRefuses, CyclesExhausted, BeginManager

\* A node without children speaks for the run it belongs to.
LEMMA LeafActions ==
    ASSUME StackInv, LeafReturns
    PROVE  StackInv'
<1>1. stack # <<>> /\ Here.pc = "leaf" /\ allowed' = allowed
  BY DEF LeafReturns, Standing
<1>2. /\ DOMAIN Here = FrameFields /\ Here.tries \in Nat /\ Here.run \in Seq(Nat)
      /\ Here.by \in [CtxKeys -> Seq(Nat)] /\ ~Composite(Here, Here.at)
      /\ \A k \in CtxKeys : Escapes(Here.by[k], k, Here.run, allowed)
  BY <1>1, HereInv DEF FrameInv, Shape, Verdicts
<1>3. PICK o \in Node.results :
        /\ Becomes(Made([outcome |-> o.outcome, updates |-> o.updates, from |-> Here.run]))
        /\ said' = IF o.outcome.explicit THEN said \cup {<<Here.run, o.outcome.status>>}
                   ELSE said
  BY DEF LeafReturns
<1>. DEFINE r == [outcome |-> o.outcome, updates |-> o.updates, from |-> Here.run]
            f == Made(r)
<1>4. Alike(f, Here) /\ f.by = Here.by /\ f.pc = "made" /\ f.made = r
  BY <1>2, MadeIs
<1>5. IsPrefix(Here.run, Here.run)
  BY <1>2, PrefixSelf
<1>6. Sourced(Here.run, r.outcome, said')
  <2>1. CASE o.outcome.explicit
    <3>. DEFINE e == <<Here.run, o.outcome.status>>
    <3>1. e \in said' /\ e[1] = Here.run /\ e[2] = r.outcome.status
      BY <1>3, <2>1
    <3>. HIDE DEF e, r
    <3>. QED BY <1>5, <3>1 DEF Sourced
  <2>2. CASE ~o.outcome.explicit
    BY <2>2 DEF Sourced
  <2>. QED BY <2>1, <2>2
<1>7. GoodResult(r, Here.run, said', allowed)
  BY <1>2, <1>5, <1>6, EscapesSelf DEF GoodResult
<1>8. said \subseteq said' /\ \A s \in said' : s[1] \in Seq(Nat)
  BY <1>1, <1>2, <1>3, HereInv
<1>9. Becomes(f)
  BY <1>3
<1>. HIDE DEF r, f
<1>10. FrameInv(Here, said', allowed)
  BY <1>1, <1>8, HereInv, FrameMore
<1>11. FrameInv(f, said', allowed')
  BY <1>1, <1>2, <1>4, <1>7, <1>10, MadeFrame
<1>12. LabelAt(stack, Len(stack), f) /\ f.run = Here.run /\ f.kind = Here.kind /\ f.pc # "child"
  BY <1>1, <1>4, HereInv DEF LabelAt, Alike
<1>. QED BY <1>1, <1>8, <1>9, <1>11, <1>12, BecomesKeeps

\* What an exit reports is the last node's outcome, or nothing that was asserted.
LEMMA GateResultIsGood ==
    ASSUME StackInv, stack # <<>>
    PROVE  GoodResult(GateResult, Here.run, said, allowed)
<1>. DEFINE o == Of(Here.file)!GateResult(Here.completed, Here.outcomes)
            bare == Bare("none", Here.run)
            made == [bare EXCEPT !.outcome = o]
            satisfied == Of(Here.file)!Unsatisfied(Here.outcomes) = {}
                         /\ Here.completed # <<>>
<1>1. GateResult = IF satisfied THEN Here.last ELSE made
  BY Zenon DEF GateResult
<1>2. CASE satisfied
  BY <1>1, <1>2, HereInv DEF FrameInv
<1>3. CASE ~satisfied
  <2>1. o.explicit = FALSE /\ o.label = ""
    BY <1>3, Zenon DEF Of!GateResult, Of!PlainOutcome
  <2>2. /\ made.outcome = o /\ made.from = Here.run
        /\ made.updates = bare.updates
    BY DEF Bare
  <2>3. GoodResult(bare, Here.run, said, allowed)
    BY HereInv, BareIsGood
  <2>4. bare.from = Here.run /\ \A k \in CtxKeys : bare.updates[k] = Kept
    BY DEF Bare, NoUpdates
  <2>. HIDE DEF o, made, bare
  <2>. QED BY <1>1, <1>3, <2>1, <2>2, <2>3, <2>4 DEF GoodResult, Sourced, Carries
<1>. QED BY <1>2, <1>3

LEMMA EndingActions ==
    ASSUME StackInv,
           ExceedStepBound \/ StopOnCancel \/ SubgraphArrives \/ Leave \/ FolderMissing
           \/ StopAfterNode
    PROVE  StackInv'
<1>1. stack # <<>>
  BY DEF ExceedStepBound, StopOnCancel, SubgraphArrives, Leave, FolderMissing, StopAfterNode,
         Begin, FolderOf, Settled, Standing
<1>2. ASSUME NEW status, Return(Bare(status, Here.run)) PROVE StackInv'
  BY <1>1, <1>2, HereInv, BareIsGood, ReturnKeeps
<1>3. ASSUME Return(Here.last) PROVE StackInv'
  BY <1>1, <1>3, HereInv, ReturnKeeps DEF FrameInv
<1>4. ASSUME Return(GateResult) PROVE StackInv'
  BY <1>1, <1>4, GateResultIsGood, ReturnKeeps
<1>. QED BY <1>2, <1>3, <1>4 DEF ExceedStepBound, StopOnCancel, SubgraphArrives, Leave,
                                 FolderMissing, StopAfterNode

LEMMA StartingActions ==
    ASSUME StackInv, EnterFolder \/ StartCycle
    PROVE  StackInv'
<1>1. stack # <<>> /\ UNCHANGED <<said, allowed>>
  BY DEF EnterFolder, StartCycle, FolderOf, Standing, history
<1>2. FrameInv(Here, said, allowed) /\ LabelAt(stack, Len(stack), Here)
  BY <1>1, HereInv
<1>3. CASE EnterFolder
  <2>1. StartChild(Here, "engine", Node.file, Graphs[Node.file].start)
    BY <1>3 DEF EnterFolder
  <2>. QED BY <1>1, <1>2, <2>1, StartKeeps
<1>4. CASE StartCycle
  <2>. DEFINE p == [Here EXCEPT !.cycle = @ + 1]
  <2>0. DOMAIN Here = FrameFields /\ Here.tries \in Nat /\ Here.pc = "cycle"
    BY <1>1, <1>2, <1>4 DEF FrameInv, Shape, StartCycle, Standing
  <2>1. Alike(p, Here) /\ p.by = Here.by /\ p.made = Here.made /\ p.pc = "cycle"
    BY <2>0 DEF Alike, FrameFields
  <2>2. \E kind, file, start : StartChild(p, kind, file, start)
    BY <1>4, Zenon DEF StartCycle
  <2>. HIDE DEF p
  <2>3. PICK kind, file, start : StartChild(p, kind, file, start)
    BY <2>2
  <2>4. FrameInv(p, said, allowed)
    BY <1>2, <2>1, QuietFrame
  <2>5. LabelAt(stack, Len(stack), p) /\ p.run = Here.run /\ p.kind = Here.kind
    BY <1>2, <2>1 DEF LabelAt, Alike
  <2>. QED BY <1>1, <2>3, <2>4, <2>5, StartKeeps
<1>. QED BY <1>3, <1>4

----------------------------------------------------------------------------
(* A child ends                                                            *)

LEMMA HandedHere ==
    ASSUME StackInv, Standing("child")
    PROVE  /\ stack # <<>> /\ Here.pc = "child" /\ Handed(returned, Here, said, allowed)
           /\ Shape(Here) /\ Child(Here) \in Seq(Nat) /\ Here.run \in Seq(Nat)
           /\ Here.children \in Nat /\ IsPrefix(Here.run, Child(Here))
           /\ \A n \in DOMAIN Here.ran :
                 Composite(Here, n) /\ n = Here.at => Here.ran[n] = Child(Here)
<1>1. stack # <<>> /\ Here.pc = "child"
  BY DEF Standing
<1>2. Shape(Here) /\ Verdicts(Here, said)
  BY <1>1, HereInv DEF FrameInv
<1>. QED BY <1>1, <1>2, ChildRun DEF StackInv, Shape, Verdicts

\* The result of a child, seen from the run of the node that awaited it.
LEMMA ResultAbove ==
    ASSUME StackInv, Standing("child"), NEW A, allowed \subseteq A,
           \A k \in CtxKeys :
               Carries(returned.result, k) => <<Child(Here), k>> \in A
    PROVE  GoodResult(returned.result, Here.run, said, A)
<1>. DEFINE r == returned.result  run == Here.run
<1>1. GoodResult(r, Child(Here), said, allowed)
  BY HandedHere DEF Handed
<1>2. r.from \in Seq(Nat) /\ IsPrefix(Child(Here), r.from)
  BY <1>1 DEF GoodResult
<1>3. IsPrefix(run, r.from)
  BY <1>2, HandedHere, PrefixTransitive
<1>4. Sourced(run, r.outcome, said)
  <2>1. \A s \in said : s[1] \in Seq(Nat)
    BY DEF StackInv
  <2>. QED BY <1>1, <2>1, HandedHere, SourcedAbove DEF GoodResult
<1>5. ASSUME NEW k \in CtxKeys, Carries(r, k) PROVE Escapes(r.from, k, run, A)
  <2>1. Escapes(r.from, k, Child(Here), A)
    BY <1>1, <1>5, EscapesMore DEF GoodResult
  <2>2. <<Child(Here), k>> \in A
    BY <1>5
  <2>. QED BY <1>2, <2>1, <2>2, HandedHere, EscapesAbove DEF Child
<1>. QED BY <1>2, <1>3, <1>4, <1>5 DEF GoodResult

LEMMA FolderAction ==
    ASSUME StackInv, FolderReturns
    PROVE  StackInv'
<1>. DEFINE c == returned  r == returned.result  K == Merged(c)  A == allowed'
            f == [Made(r) EXCEPT
                    !.ctx = [k \in CtxKeys |-> IF k \in K THEN c.ctx[k] ELSE Here.ctx[k]],
                    !.by = [k \in CtxKeys |-> IF k \in K THEN c.by[k] ELSE Here.by[k]]]
<1>1. /\ Standing("child") /\ stack # <<>> /\ said' = said /\ Becomes(f)
      /\ A = allowed \cup ({c.run} \X Exports(r))
  BY DEF FolderReturns, Standing
<1>2. Handed(c, Here, said, allowed) /\ c.run = Child(Here) /\ c.by \in [CtxKeys -> Seq(Nat)]
  BY <1>1, HandedHere DEF Handed
<1>3. \A k \in Exports(r) : <<Child(Here), k>> \in A
  BY <1>1, <1>2
<1>4. \A k \in CtxKeys : Carries(r, k) => k \in Exports(r)
  BY DEF Carries, Exports
<1>5. K \subseteq Exports(r)
  BY DEF Merged, Exports
<1>6. GoodResult(r, Here.run, said, A)
  BY <1>1, <1>3, <1>4, ResultAbove
<1>7. /\ DOMAIN Here = FrameFields /\ Here.tries \in Nat /\ Here.run \in Seq(Nat)
      /\ Here.by \in [CtxKeys -> Seq(Nat)]
      /\ \A k \in CtxKeys : Escapes(Here.by[k], k, Here.run, allowed)
  BY <1>1, HereInv DEF FrameInv, Shape
<1>8. /\ Alike(f, Here) /\ f.pc = "made" /\ f.made = r
      /\ f.by = [k \in CtxKeys |-> IF k \in K THEN c.by[k] ELSE Here.by[k]]
  BY <1>7 DEF Made, Alike, FrameFields
<1>. HIDE DEF c, r, K, A, f
<1>9. f.by \in [CtxKeys -> Seq(Nat)]
  BY <1>2, <1>7, <1>8
<1>10. ASSUME NEW k \in CtxKeys PROVE Escapes(f.by[k], k, Here.run, A)
  <2>1. CASE k \in K
    <3>1. Escapes(c.by[k], k, Child(Here), A) /\ c.by[k] \in Seq(Nat)
      BY <1>1, <1>2, EscapesMore DEF Handed
    <3>2. <<Child(Here), k>> \in A
      BY <1>3, <1>5, <2>1
    <3>. QED BY <1>1, <1>8, <2>1, <3>1, <3>2, HandedHere, EscapesAbove DEF Child
  <2>2. CASE k \notin K
    BY <1>1, <1>7, <1>8, <2>2, EscapesMore
  <2>. QED BY <2>1, <2>2
<1>11. ASSUME NEW n \in DOMAIN Here.ran, Composite(Here, n), n = Here.at
       PROVE  Sourced(Here.ran[n], f.made.outcome, said)
  BY <1>1, <1>2, <1>8, <1>11, HandedHere DEF Handed, GoodResult, r, c
<1>12. FrameInv(Here, said, A)
  BY <1>1, HereInv, FrameMore
<1>13. FrameInv(f, said, A)
  BY <1>6, <1>8, <1>9, <1>10, <1>11, <1>12, MadeFrame
<1>14. LabelAt(stack, Len(stack), f)
  <2>1. \A k \in CtxKeys : k = "preferred_label" /\ k \in K => IsPrefix(Here.run, f.by[k])
    BY <1>2, <1>8 DEF Handed
  <2>2. \A k \in CtxKeys : k \notin K => f.by[k] = Here.by[k]
    BY <1>8
  <2>. QED BY <1>1, <1>8, <2>1, <2>2, HereInv DEF LabelAt, Alike
<1>15. A = allowed' /\ \A s \in said : s[1] \in Seq(Nat)
  BY DEF A, StackInv
<1>16. f.run = Here.run /\ f.kind = Here.kind /\ f.pc # "child" /\ allowed \subseteq A
  BY <1>1, <1>8 DEF Alike
<1>. QED BY <1>1, <1>13, <1>14, <1>15, <1>16, BecomesKeeps

\* A manager looks at the verdict of a cycle and at nothing else.
LEMMA AfterCycleKeeps ==
    ASSUME StackInv, stack # <<>>, NEW h, Alike(h, Here), h.by = Here.by, h.made = Here.made,
           NEW r, r.from \in Seq(Nat), IsPrefix(Here.run, r.from),
           Sourced(Here.run, r.outcome, said),
           \A n \in DOMAIN Here.ran :
               Composite(Here, n) /\ n = Here.at => Sourced(Here.ran[n], r.outcome, said),
           Becomes(AfterCycle(h, r)), UNCHANGED <<said, allowed>>
    PROVE  StackInv'
<1>. DEFINE g == Telemetry(h, r.outcome.status)
            status == "manager.last_child_status"
<1>1. /\ DOMAIN Here = FrameFields /\ Here.run \in Seq(Nat)
      /\ Here.by \in [CtxKeys -> Seq(Nat)]
      /\ \A k \in CtxKeys : Escapes(Here.by[k], k, Here.run, allowed)
  BY HereInv DEF FrameInv, Shape
<1>2. /\ Alike(g, Here) /\ g.made = Here.made
      /\ g.by = [Here.by EXCEPT ![status] = Here.run]
  BY <1>1 DEF Telemetry, Alike, FrameFields
<1>3. g.by \in [CtxKeys -> Seq(Nat)]
  BY <1>1, <1>2
<1>4. ASSUME NEW k \in CtxKeys PROVE Escapes(g.by[k], k, Here.run, allowed)
  <2>1. g.by[k] = Here.by[k] \/ g.by[k] = Here.run
    BY <1>1, <1>2
  <2>. QED BY <1>1, <2>1, EscapesSelf
<1>5. \A k \in CtxKeys : k = "preferred_label" => g.by[k] = Here.by[k]
  BY <1>1, <1>2
<1>. HIDE DEF g
<1>6. ASSUME NEW f, Becomes(f), Alike(f, Here), f.by = g.by, FrameInv(f, said, allowed),
             f.pc # "child"
      PROVE  StackInv'
  <2>1. LabelAt(stack, Len(stack), f) /\ f.run = Here.run /\ f.kind = Here.kind
    BY <1>5, <1>6, HereInv DEF LabelAt, Alike
  <2>. QED BY <1>6, <2>1, HereInv, BecomesKeeps
<1>7. CASE Stops(g, r.outcome)
  <2>. DEFINE f == [g EXCEPT !.pc = "made", !.made = VerdictOf(r)]
  <2>1. Becomes(f)
    BY <1>7 DEF AfterCycle, g
  <2>2. Alike(f, Here) /\ f.by = g.by /\ f.pc = "made" /\ f.made = VerdictOf(r)
    BY <1>2 DEF Alike, FrameFields
  <2>3. /\ VerdictOf(r).from = r.from
        /\ VerdictOf(r).outcome.status = r.outcome.status
        /\ VerdictOf(r).outcome.explicit = r.outcome.explicit
        /\ VerdictOf(r).outcome.label = ""
        /\ \A k \in CtxKeys : VerdictOf(r).updates[k] = Kept
    BY DEF VerdictOf, Bare, Plain, NoUpdates
  <2>. HIDE DEF f
  <2>4. GoodResult(f.made, Here.run, said, allowed)
    BY <2>2, <2>3 DEF GoodResult, Sourced, Carries
  <2>5. \A n \in DOMAIN Here.ran :
           Composite(Here, n) /\ n = Here.at => Sourced(Here.ran[n], f.made.outcome, said)
    BY <2>2, <2>3 DEF Sourced
  <2>6. FrameInv(f, said, allowed)
    BY <1>3, <1>4, <2>2, <2>4, <2>5, HereInv, MadeFrame
  <2>. QED BY <1>6, <2>1, <2>2, <2>6
<1>8. CASE ~Stops(g, r.outcome)
  <2>. DEFINE f == [g EXCEPT !.pc = "cycle"]
  <2>1. Becomes(f)
    BY <1>8 DEF AfterCycle, g
  <2>2. Alike(f, Here) /\ f.by = g.by /\ f.pc = "cycle" /\ f.made = Here.made
    BY <1>2 DEF Alike, FrameFields
  <2>. HIDE DEF f
  <2>3. FrameInv(f, said, allowed)
    <3>1. Shape(f)
      BY <1>3, <2>2, HereInv DEF Alike, FrameInv, Shape
    <3>2. Verdicts(f, said)
      BY <2>2, HereInv DEF Alike, FrameInv, Verdicts, Composite, Visiting
    <3>. QED BY <1>4, <2>2, <3>1, <3>2, HereInv DEF Alike, FrameInv
  <2>. QED BY <1>6, <2>1, <2>2, <2>3
<1>. QED BY <1>7, <1>8

LEMMA CycleActions ==
    ASSUME StackInv, CycleWithoutChild \/ CycleEnds
    PROVE  StackInv'
<1>1. stack # <<>> /\ UNCHANGED <<said, allowed>>
  BY DEF CycleWithoutChild, CycleEnds, Standing, history
<1>2. DOMAIN Here = FrameFields /\ Here.tries \in Nat /\ Here.run \in Seq(Nat)
  BY <1>1, HereInv DEF FrameInv, Shape
<1>3. CASE CycleWithoutChild
  <2>. DEFINE h == [Here EXCEPT !.cycle = @ + 1]  r == Bare("fail", Here.run)
  <2>1. Becomes(AfterCycle(h, r))
    BY <1>3 DEF CycleWithoutChild
  <2>2. Alike(h, Here) /\ h.by = Here.by /\ h.made = Here.made
    BY <1>2 DEF Alike, FrameFields
  <2>3. GoodResult(r, Here.run, said, allowed) /\ r.outcome.explicit = FALSE
    BY <1>2, BareIsGood
  <2>. HIDE DEF h, r
  <2>4. \A run : Sourced(run, r.outcome, said)
    BY <2>3 DEF Sourced
  <2>. QED BY <1>1, <2>1, <2>2, <2>3, <2>4, AfterCycleKeeps DEF GoodResult
<1>4. CASE CycleEnds
  <2>. DEFINE r == returned.result
  <2>1. Becomes(AfterCycle(Here, r)) /\ Standing("child")
    BY <1>4 DEF CycleEnds
  <2>2. Alike(Here, Here)
    BY <1>2 DEF Alike
  <2>3. GoodResult(r, Child(Here), said, allowed)
    BY <2>1, HandedHere DEF Handed
  <2>4. r.from \in Seq(Nat) /\ IsPrefix(Here.run, r.from)
    BY <2>1, <2>3, HandedHere, PrefixTransitive DEF GoodResult
  <2>5. Sourced(Here.run, r.outcome, said)
    BY <1>1, <2>1, <2>3, HereInv, HandedHere, SourcedAbove DEF GoodResult
  <2>6. \A n \in DOMAIN Here.ran :
           Composite(Here, n) /\ n = Here.at => Sourced(Here.ran[n], r.outcome, said)
    BY <2>1, <2>3, HandedHere DEF GoodResult
  <2>. HIDE DEF r
  <2>. QED BY <1>1, <2>1, <2>2, <2>4, <2>5, <2>6, AfterCycleKeeps
<1>. QED BY <1>3, <1>4

----------------------------------------------------------------------------
(* The head of the loop again                                              *)

\* Nothing an engine does between two nodes disturbs a frame whose records are
\* right: it goes elsewhere, forgets what it recorded, or takes the label back.
LEMMA TopFrame ==
    ASSUME NEW f, NEW S, NEW A, FrameInv(f, S, A), f.pc \in {"top", "leaving"},
           NEW g, DOMAIN g = FrameFields, g.pc = "top",
           g.file = f.file, g.run = f.run, g.children = f.children, g.tries = f.tries,
           g.ran = f.ran, g.last = f.last, g.made = f.made,
           g.outcomes = f.outcomes \/ g.outcomes = NoOutcomes(f.file),
           g.by \in [CtxKeys -> Seq(Nat)],
           \A k \in CtxKeys : g.by[k] \in {f.by[k], f.run}
    PROVE  FrameInv(g, S, A)
<1>1. \A n : Plain("none").explicit = FALSE
  BY DEF Plain
<1>2. CASE g.outcomes = f.outcomes
  <2>1. Shape(g)
    BY <1>2 DEF FrameInv, Shape
  <2>2. Verdicts(g, S)
    BY <1>2 DEF FrameInv, Verdicts, Composite, Visiting
  <2>3. \A k \in CtxKeys : Escapes(g.by[k], k, g.run, A)
    BY EscapesSelf DEF FrameInv, Shape
  <2>. QED BY <2>1, <2>2, <2>3 DEF FrameInv
<1>3. CASE g.outcomes = NoOutcomes(f.file)
  <2>1. DOMAIN g.outcomes = DOMAIN g.ran /\ \A n \in DOMAIN g.ran : g.outcomes[n] = Plain("none")
    <3>1. DOMAIN g.ran = DOMAIN Graphs[f.file].nodes
      BY DEF FrameInv, Shape
    <3>. QED BY <1>3, <3>1 DEF NoOutcomes
  <2>2. Shape(g)
    BY <2>1 DEF FrameInv, Shape
  <2>3. Verdicts(g, S)
    BY <1>1, <2>1 DEF Verdicts, Sourced
  <2>4. \A k \in CtxKeys : Escapes(g.by[k], k, g.run, A)
    BY EscapesSelf DEF FrameInv, Shape
  <2>. QED BY <2>2, <2>3, <2>4 DEF FrameInv
<1>. QED BY <1>2, <1>3

LEMMA GateRetryKeeps ==
    ASSUME StackInv, GateRetry
    PROVE  StackInv'
<1>. DEFINE f == [Cleared(Here) EXCEPT !.pc = "top", !.at = Jump, !.gate_retries = @ + 1]
<1>1. /\ stack # <<>> /\ Here.pc = "leaving" /\ Becomes(f)
      /\ UNCHANGED <<said, allowed>>
  BY DEF GateRetry, Standing, history
<1>2. FrameInv(Here, said, allowed) /\ DOMAIN Here = FrameFields
      /\ Here.by \in [CtxKeys -> Seq(Nat)]
  BY <1>1, HereInv DEF FrameInv, Shape
<1>3. /\ DOMAIN f = FrameFields /\ f.pc = "top" /\ f.kind = Here.kind
      /\ f.file = Here.file /\ f.run = Here.run /\ f.children = Here.children
      /\ f.tries = Here.tries /\ f.ran = Here.ran /\ f.last = Here.last
      /\ f.made = Here.made /\ f.outcomes = NoOutcomes(Here.file) /\ f.by = Here.by
  BY <1>2 DEF Cleared, FrameFields
<1>. HIDE DEF f
<1>4. FrameInv(f, said, allowed)
  BY <1>1, <1>2, <1>3, TopFrame
<1>5. LabelAt(stack, Len(stack), f)
  BY <1>1, <1>3, HereInv DEF LabelAt
<1>. QED BY <1>1, <1>3, <1>4, <1>5, HereInv, BecomesKeeps

\* What the engine records of a node is the doing of the last run it started, and
\* the context it leaves was written by the runs it names.
LEMMA RecordedFrame ==
    ASSUME StackInv, stack # <<>>, Here.pc = "made",
           NEW r, r = Settlement, NEW f, f = Recorded(r)
    PROVE  /\ GoodResult(r, Here.run, said, allowed)
           /\ FrameInv(f, said, allowed) /\ LabelAt(stack, Len(stack), f)
           /\ DOMAIN f = FrameFields /\ f.pc = "top" /\ f.run = Here.run /\ f.kind = Here.kind
<1>1. /\ FrameInv(Here, said, allowed) /\ DOMAIN Here = FrameFields
      /\ Here.run \in Seq(Nat) /\ Here.by \in [CtxKeys -> Seq(Nat)]
      /\ DOMAIN Here.outcomes = DOMAIN Here.ran
      /\ \A k \in CtxKeys : Escapes(Here.by[k], k, Here.run, allowed)
  BY HereInv DEF FrameInv, Shape
<1>2. /\ GoodResult(r, Here.run, said, allowed)
      /\ \A n \in DOMAIN Here.ran :
            Composite(Here, n) /\ n = Here.at => Sourced(Here.ran[n], r.outcome, said)
  <2>1. CASE r = Here.made
    BY <1>1, <2>1 DEF FrameInv, Verdicts
  <2>2. CASE \E status : r = Bare(status, Here.run)
    BY <1>1, <2>2, BareIsGood DEF Sourced
  <2>. QED BY <2>1, <2>2 DEF Settlement
<1>3. /\ DOMAIN f = FrameFields /\ f.pc = "top" /\ f.run = Here.run /\ f.kind = Here.kind
      /\ f.file = Here.file /\ f.at = Here.at /\ f.children = Here.children
      /\ f.tries = Here.tries /\ f.ran = Here.ran /\ f.last = r /\ f.made = Here.made
  BY <1>1, Zenon DEF Recorded, FrameFields
<1>w. /\ f.outcomes = [Here.outcomes EXCEPT ![Here.at] = r.outcome]
      /\ f.by = [k \in CtxKeys |->
                    CASE k = "outcome" -> Here.run
                      [] k = "preferred_label" /\ r.outcome.label # "" -> r.from
                      [] k # "outcome" /\ ~(k = "preferred_label" /\ r.outcome.label # "")
                         /\ r.updates[k] # Kept -> r.from
                      [] OTHER -> Here.by[k]]
  BY <1>1, Zenon DEF Recorded, FrameFields
<1>4. r.from \in Seq(Nat) /\ IsPrefix(Here.run, r.from)
  BY <1>2 DEF GoodResult
<1>5. ASSUME NEW k \in CtxKeys
      PROVE  \/ f.by[k] = Here.run
             \/ f.by[k] = r.from /\ Carries(r, k)
             \/ f.by[k] = Here.by[k]
  BY <1>w DEF Carries
<1>6. f.by \in [CtxKeys -> Seq(Nat)]
  <2>1. f.by = [k \in CtxKeys |-> f.by[k]]
    BY <1>w
  <2>2. \A k \in CtxKeys : f.by[k] \in Seq(Nat)
    BY <1>1, <1>4, <1>5
  <2>. QED BY <2>1, <2>2
<1>7. \A k \in CtxKeys : Escapes(f.by[k], k, Here.run, allowed)
  BY <1>1, <1>2, <1>5, EscapesSelf DEF GoodResult
<1>8. Shape(f)
  <2>1. DOMAIN f.outcomes = DOMAIN Here.outcomes
    BY <1>w
  <2>2. Shape(Here)
    BY <1>1 DEF FrameInv
  <2>3. /\ DOMAIN f.ran = DOMAIN Graphs[f.file].nodes /\ DOMAIN f.outcomes = DOMAIN f.ran
        /\ f.run \in Seq(Nat) /\ {f.children, f.tries} \subseteq Nat
    BY <1>3, <2>1, <2>2 DEF Shape
  <2>. QED BY <1>3, <1>6, <2>3 DEF Shape
<1>9. Verdicts(f, said)
  <2>1. ASSUME NEW n \in DOMAIN f.ran, Composite(f, n)
        PROVE  Sourced(f.ran[n], f.outcomes[n], said)
    <3>1. Composite(Here, n) /\ n \in DOMAIN Here.ran /\ f.ran[n] = Here.ran[n]
      BY <1>3, <2>1 DEF Composite
    <3>2. CASE n = Here.at
      BY <1>1, <1>2, <1>3, <1>w, <3>1, <3>2
    <3>3. CASE n # Here.at
      <4>1. f.outcomes[n] = Here.outcomes[n]
        BY <1>1, <1>w, <3>1, <3>3
      <4>. QED BY <1>1, <3>1, <3>3, <4>1 DEF FrameInv, Verdicts, Visiting
    <3>. QED BY <3>2, <3>3
  <2>. QED BY <1>3, <2>1 DEF Verdicts
<1>10. GoodResult(f.made, f.run, said, allowed)
  BY <1>1, <1>3 DEF FrameInv
<1>11. FrameInv(f, said, allowed)
  BY <1>2, <1>3, <1>7, <1>8, <1>9, <1>10 DEF FrameInv
<1>12. LabelAt(stack, Len(stack), f)
  <2>1. IsPrefix(Here.run, Here.run)
    BY <1>1, PrefixSelf
  <2>2. LabelAt(stack, Len(stack), Here)
    BY HereInv
  <2>3. ASSUME NEW k \in CtxKeys, ~IsPrefix(f.run, f.by[k]) PROVE f.by[k] = Here.by[k]
    BY <1>3, <1>4, <1>5, <2>1, <2>3
  <2>. QED BY <1>3, <2>2, <2>3 DEF LabelAt
<1>. QED BY <1>2, <1>3, <1>11, <1>12

LEMMA RecordNodeKeeps ==
    ASSUME StackInv, RecordNode
    PROVE  StackInv'
<1>. DEFINE r == Settlement  f == Recorded(r)  e == SelectEdge(Edges, Here.at, r.outcome, f.ctx)
            t == Of(Here.file)!FailureRetryTarget(Here.at)
            cleared == [Cleared(f) EXCEPT !.at = t, !.routing_retries = @ + 1]
<1>1. stack # <<>> /\ Here.pc = "made"
  BY DEF RecordNode, Settled, Standing
<1>2. \/ Becomes(Follow(f, e)) /\ UNCHANGED <<said, allowed>>
      \/ Becomes(cleared) /\ UNCHANGED <<said, allowed>>
      \/ Return(r)
      \/ Return(Bare("fail", Here.run))
  BY Zenon DEF RecordNode, history
<1>3. /\ GoodResult(r, Here.run, said, allowed)
      /\ FrameInv(f, said, allowed) /\ LabelAt(stack, Len(stack), f)
      /\ DOMAIN f = FrameFields /\ f.pc = "top" /\ f.run = Here.run /\ f.kind = Here.kind
  BY <1>1, RecordedFrame
<1>4. f.by \in [CtxKeys -> Seq(Nat)] /\ f.run \in Seq(Nat)
  BY <1>3 DEF FrameInv, Shape
<1>. HIDE DEF r, f, e, t
<1>5. ASSUME NEW g, Becomes(g), UNCHANGED <<said, allowed>>,
             DOMAIN g = FrameFields, g.pc = "top", g.kind = f.kind,
             g.file = f.file, g.run = f.run, g.children = f.children, g.tries = f.tries,
             g.ran = f.ran, g.last = f.last, g.made = f.made,
             g.outcomes = f.outcomes \/ g.outcomes = NoOutcomes(f.file),
             g.by \in [CtxKeys -> Seq(Nat)], \A k \in CtxKeys : g.by[k] \in {f.by[k], f.run}
      PROVE  StackInv'
  <2>1. FrameInv(g, said, allowed)
    BY <1>3, <1>5, TopFrame
  <2>2. LabelAt(stack, Len(stack), g)
    <3>1. IsPrefix(f.run, f.run)
      BY <1>4, PrefixSelf
    <3>. QED BY <1>3, <1>5, <3>1 DEF LabelAt
  <2>3. \A s \in said' : s[1] \in Seq(Nat)
    BY <1>1, <1>5, HereInv
  <2>. QED BY <1>1, <1>3, <1>5, <2>1, <2>2, <2>3, BecomesKeeps
<1>6. CASE Becomes(cleared) /\ UNCHANGED <<said, allowed>>
  <2>1. /\ DOMAIN cleared = FrameFields /\ cleared.pc = "top" /\ cleared.kind = f.kind
        /\ cleared.file = f.file /\ cleared.run = f.run /\ cleared.children = f.children
        /\ cleared.tries = f.tries /\ cleared.ran = f.ran /\ cleared.last = f.last
        /\ cleared.made = f.made /\ cleared.outcomes = NoOutcomes(f.file)
        /\ cleared.by = f.by
    BY <1>3 DEF Cleared, FrameFields
  <2>. HIDE DEF cleared
  <2>. QED BY <1>4, <1>5, <1>6, <2>1
<1>7. CASE Becomes(Follow(f, e)) /\ UNCHANGED <<said, allowed>>
  <2>. DEFINE g == Follow(f, e)
  <2>1. CASE Edges[e].restart /\ Engine
    <3>1. g = [Cleared(f) EXCEPT !.at = Edges[e].to, !.gate_retries = 0, !.routing_retries = 0,
                                 !.ctx["preferred_label"] = Missing,
                                 !.by["preferred_label"] = f.run]
      BY <2>1 DEF Follow
    <3>2. /\ DOMAIN g = FrameFields /\ g.pc = "top" /\ g.kind = f.kind
          /\ g.file = f.file /\ g.run = f.run /\ g.children = f.children
          /\ g.tries = f.tries /\ g.ran = f.ran /\ g.last = f.last
          /\ g.made = f.made /\ g.outcomes = NoOutcomes(f.file)
          /\ g.by = [f.by EXCEPT !["preferred_label"] = f.run]
      BY <1>3, <3>1 DEF Cleared, FrameFields
    <3>. HIDE DEF g
    <3>3. g.by \in [CtxKeys -> Seq(Nat)] /\ \A k \in CtxKeys : g.by[k] \in {f.by[k], f.run}
      BY <1>4, <3>2
    <3>4. Becomes(g)
      BY <1>7 DEF g
    <3>. QED BY <1>5, <1>7, <3>2, <3>3, <3>4
  <2>2. CASE ~(Edges[e].restart /\ Engine)
    <3>1. g = [f EXCEPT !.at = Edges[e].to]
      BY <2>2 DEF Follow
    <3>2. /\ DOMAIN g = FrameFields /\ g.pc = "top" /\ g.kind = f.kind
          /\ g.file = f.file /\ g.run = f.run /\ g.children = f.children
          /\ g.tries = f.tries /\ g.ran = f.ran /\ g.last = f.last
          /\ g.made = f.made /\ g.outcomes = f.outcomes /\ g.by = f.by
      BY <1>3, <3>1 DEF FrameFields
    <3>3. Becomes(g)
      BY <1>7
    <3>. HIDE DEF g
    <3>. QED BY <1>4, <1>5, <1>7, <3>2, <3>3
  <2>. QED BY <2>1, <2>2
<1>8. CASE Return(r)
  BY <1>1, <1>3, <1>8, ReturnKeeps
<1>9. CASE Return(Bare("fail", Here.run))
  BY <1>1, <1>9, HereInv, BareIsGood, ReturnKeeps
<1>. QED BY <1>2, <1>6, <1>7, <1>8, <1>9

----------------------------------------------------------------------------
(* Init, and the invariant of every run                                    *)

LEMMA StackInit == Init => StackInv
<1>. SUFFICES ASSUME Init PROVE StackInv
  OBVIOUS
<1>1. PICK g \in Roots :
        stack = <<Frame("engine", g, Graphs[g].start, <<>>,
                        [k \in CtxKeys |-> Missing], [k \in CtxKeys |-> <<>>])>>
  BY DEF Init
<1>. DEFINE f == Frame("engine", g, Graphs[g].start, <<>>,
                       [k \in CtxKeys |-> Missing], [k \in CtxKeys |-> <<>>])
<1>2. /\ DOMAIN f = FrameFields /\ f.run = <<>> /\ f.kind = "engine" /\ f.pc = "top"
      /\ f.file = g /\ f.by = [k \in CtxKeys |-> <<>>] /\ f.children = 0 /\ f.tries = 0
      /\ f.last = Bare("none", <<>>) /\ f.made = Bare("none", <<>>)
      /\ f.outcomes = NoOutcomes(g) /\ f.ran = [n \in DOMAIN Graphs[g].nodes |-> <<>>]
  BY Zenon DEF Frame, FrameFields
<1>. HIDE DEF f
<1>3. <<>> \in Seq(Nat) /\ IsPrefix(<<>>, <<>>)
  <2>1. <<>> \in Seq(Nat)
    OBVIOUS
  <2>. QED BY <2>1, PrefixSelf
<1>4. f.by \in [CtxKeys -> Seq(Nat)] /\ \A k \in CtxKeys : f.by[k] = <<>>
  BY <1>2, <1>3
<1>5. /\ DOMAIN f.ran = DOMAIN Graphs[f.file].nodes /\ DOMAIN f.outcomes = DOMAIN f.ran
      /\ \A n \in DOMAIN f.ran : f.outcomes[n].explicit = FALSE
  <2>1. Plain("none").explicit = FALSE
    BY DEF Plain
  <2>. QED BY <1>2, <2>1 DEF NoOutcomes
<1>6. {f.children, f.tries} \subseteq Nat
  BY <1>2
<1>7. Shape(f)
  BY <1>2, <1>3, <1>4, <1>5, <1>6, Zenon DEF Shape
<1>8. Verdicts(f, said)
  BY <1>2, <1>5 DEF Verdicts, Sourced
<1>9. FrameInv(f, said, allowed)
  <2>1. GoodResult(f.last, f.run, said, allowed) /\ GoodResult(f.made, f.run, said, allowed)
    <3>1. f.run \in Seq(Nat) /\ f.last = Bare("none", f.run) /\ f.made = Bare("none", f.run)
      BY <1>2, <1>3, Zenon
    <3>. QED BY <3>1, BareIsGood
  <2>2. \A k \in CtxKeys : Escapes(f.by[k], k, f.run, allowed)
    BY <1>2, <1>3, <1>4, EscapesSelf
  <2>. QED BY <1>7, <1>8, <2>1, <2>2 DEF FrameInv
<1>10. Len(stack) = 1 /\ stack[1] = f /\ stack # <<>> /\ IsSeq(stack)
  <2>1. stack = <<f>>
    BY <1>1 DEF f
  <2>2. stack \in Seq({f})
    BY <2>1
  <2>. QED BY <2>1, <2>2 DEF IsSeq
<1>11. LabelAt(stack, 1, f)
  BY <1>2, <1>3, <1>4 DEF LabelAt
<1>12. Linked(stack)
  BY <1>2, <1>10 DEF Linked
<1>13. ~Standing("child") /\ said = {}
  BY <1>2, <1>10 DEF Standing, Here, Init
<1>14. \A i \in 1 .. Len(stack) : i = 1
  BY <1>10
<1>. QED BY <1>9, <1>10, <1>11, <1>12, <1>13, <1>14 DEF StackInv

LEMMA StackStep == StackInv /\ [Next]_vars => StackInv'
<1>. SUFFICES ASSUME StackInv, [Next]_vars PROVE StackInv'
  OBVIOUS
<1>1. CASE UNCHANGED <<stack, returned, said, allowed>>
  BY <1>1 DEF StackInv, Standing, Here
<1>2. CASE Walk
  BY <1>2, QuietActions, RefusedActions, LeafActions, EndingActions, StartingActions,
     FolderAction, CycleActions, GateRetryKeeps, RecordNodeKeeps DEF Walk
<1>3. CASE TimeOut
  BY <1>3, TimeOutKeeps
<1>. QED BY <1>1, <1>2, <1>3 DEF Next, Cancel, vars, history

LEMMA StackAlways == Spec => []StackInv
BY StackInit, StackStep, PTL DEF Spec

\* A goal gate on a node that runs another graph is never satisfied by a verdict no
\* leaf asserted: what passes through pipeline.py and manager_loop.py, however many
\* graphs deep, is the doing of the last run the node started.
THEOREM VerdictsHaveASource == Spec => []NoInventedVerdict
<1>1. StackInv => NoInventedVerdict
  <2>. SUFFICES ASSUME StackInv, NEW i \in DOMAIN stack, NEW n \in DOMAIN stack[i].outcomes,
                       Composite(stack[i], n), ~Visiting(stack[i], n)
                PROVE  Sourced(stack[i].ran[n], stack[i].outcomes[n], said)
    BY DEF NoInventedVerdict, Composite, Sourced
  <2>1. i \in 1 .. Len(stack)
    BY DEF StackInv, Linked, IsSeq
  <2>. QED BY <2>1 DEF StackInv, FrameInv, Shape, Verdicts
<1>. QED BY <1>1, StackAlways, PTL

\* A child run's context is a copy: what fails in it, what an earlier cycle wrote and
\* what a sibling wrote reach no other context, except through the outputs a folder
\* node declares, the updates and the label of the outcome it passes on
\* (pipeline.py, manager_loop.py, subgraph_runner.py).
THEOREM ContextsApart == Spec => []ContextsStayApart
<1>1. StackInv => ContextsStayApart
  <2>. SUFFICES ASSUME StackInv, NEW i \in DOMAIN stack, NEW k \in CtxKeys
                PROVE  LET f == stack[i]  w == f.by[k]
                       IN  /\ k = "preferred_label" /\ ~IsPrefix(f.run, w) =>
                                  i > 1 /\ Injects(stack[i - 1], k)
                           /\ \A n \in DOMAIN w : IsPrefix(SubSeq(w, 1, n), f.run)
                                                  \/ <<SubSeq(w, 1, n), k>> \in allowed
    BY DEF ContextsStayApart
  <2>1. i \in 1 .. Len(stack)
    BY DEF StackInv, Linked, IsSeq
  <2>2. FrameInv(stack[i], said, allowed) /\ LabelAt(stack, i, stack[i])
    BY <2>1 DEF StackInv
  <2>. QED BY <2>2 DEF FrameInv, Escapes, LabelAt
<1>. QED BY <1>1, StackAlways, PTL

----------------------------------------------------------------------------
(* After the cancel                                                        *)

LEMMA TopAfter ==
    ASSUME StackInv, stack # <<>>
    PROVE  /\ \A f : Becomes(f) => Here' = f
           /\ \A r : Return(r) => ~Standing("run")'
           /\ \A p, kind, file, start : StartChild(p, kind, file, start) => ~Standing("run")'
<1>1. IsSeq(stack) /\ Len(stack) \in Nat \ {0}
  BY HereInv DEF StackInv, Linked
<1>2. ASSUME NEW f, Becomes(f) PROVE Here' = f
  <2>1. PICK S : stack \in Seq(S)
    BY <1>1 DEF IsSeq
  <2>2. Len(stack) \in 1 .. Len(stack) /\ stack \in Seq(S \cup {f})
    BY <1>1, <2>1
  <2>3. stack' = [stack EXCEPT ![Len(stack)] = f]
    BY <1>2 DEF Becomes
  <2>4. Len(stack') = Len(stack) /\ stack'[Len(stack)] = f
    BY <2>2, <2>3
  <2>. QED BY <2>4 DEF Here
<1>3. ASSUME NEW r, Return(r) PROVE ~Standing("run")'
  <2>1. stack' = Front(stack)
    BY <1>3 DEF Return
  <2>2. /\ IsSeq(stack') /\ Len(stack') = Len(stack) - 1
        /\ \A i \in 1 .. Len(stack') : stack'[i] = stack[i]
    BY <1>1, <2>1, Popped
  <2>3. stack' # <<>> => Len(stack') \in 1 .. Len(stack) - 1
    BY <1>1, <2>2 DEF IsSeq
  <2>4. stack' # <<>> => stack'[Len(stack')].pc = "child"
    BY <2>2, <2>3 DEF StackInv, Linked
  <2>. QED BY <2>4 DEF Standing, Here
<1>4. ASSUME NEW p, NEW kind, NEW file, NEW start, StartChild(p, kind, file, start)
      PROVE  ~Standing("run")'
  <2>. DEFINE f == Awaiting(p)  g == Started(p, kind, file, start)
  <2>1. stack' = Push(stack, f, g)
    BY <1>4 DEF StartChild, Push, Awaiting, Started
  <2>2. g.pc = "top"
    BY DEF Started, Frame
  <2>. HIDE DEF f, g
  <2>3. stack'[Len(stack')] = g
    BY <1>1, <2>1, Pushed
  <2>. QED BY <2>2, <2>3 DEF Standing, Here
<1>. QED BY <1>2, <1>3, <1>4

\* A node is begun afresh by EnterNode and by nothing else.
LEMMA OnlyEntered ==
    ASSUME StackInv, Walk, ~EnterNode
    PROVE  ~(Standing("run") /\ Here.tries = 0)'
<1>1. stack # <<>>
  BY DEF Walk, ExceedStepBound, StopOnCancel, ReachExit, SubgraphArrives, EnterNode, GateRetry,
         Leave, BeginLeaf, LeafReturns, FolderRefuses, FolderMissing, EnterFolder,
         FolderReturns, BeginManager, CyclesExhausted, StartCycle, CycleWithoutChild,
         CycleEnds, Again, StopAfterNode, RecordNode, Begin, Settled, FolderOf, Standing
<1>2. DOMAIN Here = FrameFields /\ Here.tries \in Nat
  BY <1>1, HereInv DEF FrameInv, Shape
<1>3. ASSUME NEW f, Becomes(f), f.pc # "run" \/ f.tries # 0
      PROVE  ~(Standing("run") /\ Here.tries = 0)'
  BY <1>1, <1>3, TopAfter DEF Standing
<1>4. CASE ReachExit
  BY <1>2, <1>3, <1>4 DEF ReachExit, FrameFields
<1>5. CASE GateRetry
  <2>. DEFINE f == [Cleared(Here) EXCEPT !.pc = "top", !.at = Jump, !.gate_retries = @ + 1]
  <2>1. Becomes(f)
    BY <1>5 DEF GateRetry
  <2>2. f.pc = "top"
    BY <1>2 DEF Cleared, FrameFields
  <2>. HIDE DEF f
  <2>. QED BY <1>3, <2>1, <2>2
<1>6. CASE BeginLeaf
  BY <1>2, <1>3, <1>6 DEF BeginLeaf, FrameFields
<1>7. ASSUME NEW r, Becomes(Made(r)) PROVE ~(Standing("run") /\ Here.tries = 0)'
  BY <1>2, <1>3, <1>7, MadeIs
<1>8. CASE LeafReturns \/ FolderRefuses \/ CyclesExhausted
  BY <1>7, <1>8 DEF LeafReturns, FolderRefuses, CyclesExhausted
<1>9. CASE BeginManager
  <2>1. [Here EXCEPT !.pc = "cycle", !.cycle = 0].pc = "cycle"
    BY <1>2 DEF FrameFields
  <2>. QED BY <1>3, <1>7, <1>9, <2>1 DEF BeginManager
<1>10. CASE FolderReturns
  <2>1. PICK ctx, by : Becomes([Made(returned.result) EXCEPT !.ctx = ctx, !.by = by])
    BY <1>10 DEF FolderReturns
  <2>2. [Made(returned.result) EXCEPT !.ctx = ctx, !.by = by].pc = "made"
    BY <1>2 DEF Made, FrameFields
  <2>. QED BY <1>3, <2>1, <2>2
<1>11. CASE CycleWithoutChild \/ CycleEnds
  <2>1. PICK h, r : /\ Becomes(AfterCycle(h, r)) /\ DOMAIN h = FrameFields
    <3>1. DOMAIN [Here EXCEPT !.cycle = @ + 1] = FrameFields
      BY <1>2
    <3>. QED BY <1>2, <1>11, <3>1 DEF CycleWithoutChild, CycleEnds
  <2>2. AfterCycle(h, r).pc \in {"made", "cycle"}
    BY <2>1 DEF AfterCycle, Telemetry, FrameFields
  <2>. QED BY <1>3, <2>1, <2>2
<1>12. CASE Again
  <2>1. [Here EXCEPT !.pc = "run", !.tries = @ + 1].tries # 0
    BY <1>2 DEF FrameFields
  <2>. QED BY <1>3, <1>12, <2>1 DEF Again
<1>13. CASE EnterFolder \/ StartCycle
  BY <1>1, <1>13, TopAfter, Zenon DEF EnterFolder, StartCycle
<1>14. CASE ExceedStepBound \/ StopOnCancel \/ SubgraphArrives \/ Leave \/ FolderMissing
            \/ StopAfterNode
  BY <1>1, <1>14, TopAfter, Zenon DEF ExceedStepBound, StopOnCancel, SubgraphArrives, Leave,
                                      FolderMissing, StopAfterNode
<1>15. CASE RecordNode
  <2>. DEFINE f == Recorded(Settlement)
  <2>0. DOMAIN f = FrameFields /\ f.pc = "top"
    BY <1>2, Zenon DEF Recorded, FrameFields
  <2>. HIDE DEF f
  <2>1. \/ \E e : Becomes(Follow(f, e))
        \/ \E t : Becomes([Cleared(f) EXCEPT !.at = t, !.routing_retries = @ + 1])
        \/ \E r : Return(r)
    BY <1>15, Zenon DEF RecordNode, f
  <2>2. \A e : Follow(f, e).pc = "top"
    BY <2>0 DEF Follow, Cleared, FrameFields
  <2>3. \A t : [Cleared(f) EXCEPT !.at = t, !.routing_retries = @ + 1].pc = "top"
    BY <2>0 DEF Cleared, FrameFields
  <2>. QED BY <1>1, <1>3, <2>1, <2>2, <2>3, TopAfter
<1>. QED BY <1>4, <1>5, <1>6, <1>8, <1>9, <1>10, <1>11, <1>12, <1>13, <1>14, <1>15 DEF Walk

LEMMA LateInit == Init => LateInv
<1>. SUFFICES ASSUME Init PROVE LateInv
  OBVIOUS
<1>1. late = 0
  BY DEF Init
<1>. QED BY <1>1 DEF LateInv

\* Only BeginLeaf counts, and only a step from outside cancels.
LEMMA LateFrame ==
    ASSUME Walk \/ TimeOut
    PROVE  cancelled' = cancelled /\ (late' = late \/ BeginLeaf)
<1>1. ASSUME NEW r, Return(r) PROVE cancelled' = cancelled /\ late' = late
  BY <1>1 DEF Return, history
<1>2. CASE TimeOut
  BY <1>2 DEF TimeOut, Same, history
<1>3. CASE RecordNode
  BY <1>1, <1>3, Zenon DEF RecordNode, Same, history
<1>4. CASE ExceedStepBound \/ StopOnCancel \/ SubgraphArrives \/ Leave \/ FolderMissing
           \/ StopAfterNode
  BY <1>1, <1>4, Zenon DEF ExceedStepBound, StopOnCancel, SubgraphArrives, Leave, FolderMissing,
                           StopAfterNode
<1>5. CASE \/ ReachExit \/ EnterNode \/ GateRetry \/ BeginLeaf \/ LeafReturns
           \/ FolderRefuses \/ EnterFolder \/ FolderReturns \/ BeginManager
           \/ CyclesExhausted \/ StartCycle \/ CycleWithoutChild \/ CycleEnds \/ Again
  BY <1>5 DEF ReachExit, EnterNode, GateRetry, BeginLeaf, LeafReturns, FolderRefuses,
              EnterFolder, FolderReturns, BeginManager, CyclesExhausted, StartCycle,
              CycleWithoutChild, CycleEnds, Again, Same, history
<1>. QED BY <1>2, <1>3, <1>4, <1>5 DEF Walk

LEMMA LateStep == StackInv /\ LateInv /\ [Next]_vars => LateInv'
<1>. SUFFICES ASSUME StackInv, LateInv, [Next]_vars PROVE LateInv'
  OBVIOUS
<1>1. CASE UNCHANGED vars
  BY <1>1 DEF LateInv, Standing, Here, vars, history
<1>2. CASE Cancel
  BY <1>2 DEF Cancel, LateInv, history
<1>3. CASE TimeOut
  <2>1. ~Standing("run")'
    <3>1. PICK i \in DOMAIN stack :
            LET f == stack[i]
            IN  stack' = [SubSeq(stack, 1, i) EXCEPT ![i].pc = "made",
                      ![i].made = Bare(IF Graphs[f.file].nodes[f.at].allow_partial
                                       THEN "partial_success" ELSE "fail", f.run)]
      BY <1>3 DEF TimeOut
    <3>. DEFINE u == SubSeq(stack, 1, i)  f == stack[i]
                made == Bare(IF Graphs[f.file].nodes[f.at].allow_partial
                             THEN "partial_success" ELSE "fail", f.run)
    <3>2. stack' = [[u EXCEPT ![i].pc = "made"] EXCEPT ![i].made = made]
      BY <3>1
    <3>3. IsSeq(stack)
      BY DEF StackInv, Linked
    <3>4. IsSeq(u) /\ i \in Nat \ {0} /\ Len(u) = i /\ i \in 1 .. Len(stack) /\ u[i] = stack[i]
      <4>1. u = SubSeq(stack, 1, i)
        OBVIOUS
      <4>. HIDE DEF u
      <4>2. /\ IsSeq(u) /\ i \in Nat \ {0} /\ Len(stack) \in Nat /\ i <= Len(stack)
            /\ Len(u) = i /\ \A j \in 1 .. i : u[j] = stack[j]
        BY <3>3, <4>1, CutOff
      <4>. QED BY <4>2
    <3>5. DOMAIN u[i] = FrameFields
      BY <3>4 DEF StackInv, FrameInv, Shape
    <3>6. PICK S : u \in Seq(S)
      BY <3>4 DEF IsSeq
    <3>. HIDE DEF u, made
    <3>. DEFINE g == [u[i] EXCEPT !.pc = "made", !.made = made]
    <3>7. stack' = [u EXCEPT ![i] = g]
      BY <3>2, <3>4, <3>6
    <3>8. g.pc = "made"
      BY <3>5 DEF FrameFields
    <3>. HIDE DEF g
    <3>9. u \in Seq(S \cup {g}) /\ DOMAIN u = 1 .. i /\ i \in 1 .. i
      BY <3>4, <3>6
    <3>10. Len(stack') = i /\ stack'[i] = g
      BY <3>4, <3>7, <3>9
    <3>. QED BY <3>8, <3>10 DEF Standing, Here
  <2>2. cancelled' = cancelled /\ late' = late
    BY <1>3 DEF TimeOut, Same, history
  <2>. QED BY <2>1, <2>2 DEF LateInv
<1>4. CASE EnterNode
  <2>1. cancelled' = cancelled /\ late' = late /\ ~cancelled
    BY <1>4 DEF EnterNode, CancelSeen, Same, history
  <2>. QED BY <2>1 DEF LateInv
<1>5. CASE Walk /\ ~EnterNode
  <2>1. ~(Standing("run") /\ Here.tries = 0)'
    BY <1>5, OnlyEntered
  <2>2. cancelled' = cancelled
    BY <1>5, LateFrame
  <2>3. CASE late' = late
    BY <2>1, <2>2, <2>3 DEF LateInv
  <2>4. CASE BeginLeaf
    <3>1. Standing("run") /\ late' = IF cancelled /\ Here.tries = 0 THEN late + 1 ELSE late
      BY <2>4 DEF BeginLeaf
    <3>. QED BY <2>1, <2>2, <3>1 DEF LateInv
  <2>. QED BY <1>5, <2>3, <2>4, LateFrame
<1>. QED BY <1>1, <1>2, <1>3, <1>4, <1>5 DEF Next

\* The user's run ends at an exit, or without a success.
LEMMA VerdictOfCancelled ==
    ASSUME StackInv, Next, verdict' # verdict, IsSuccess([status |-> verdict'])
    PROVE  stack[1].pc = "leaving"
<1>0. IsSuccess([status |-> verdict']) => verdict' # "fail"
  BY DEF IsSuccess
<1>1. ASSUME stack # <<>>, NEW r, Return(r)
      PROVE  verdict' = r.outcome.status /\ Here = stack[1] /\ Here.kind = "engine"
  <2>1. Len(stack) = 1 /\ verdict' = r.outcome.status
    BY <1>1 DEF Return
  <2>. QED BY <1>1, <2>1 DEF Here, StackInv, Linked
<1>2. ASSUME stack # <<>>, NEW status, Return(Bare(status, Here.run))
      PROVE  verdict' = status /\ Here.kind = "engine"
  <2>1. verdict' = Bare(status, Here.run).outcome.status /\ Here.kind = "engine"
    BY <1>1, <1>2
  <2>2. Bare(status, Here.run).outcome.status = status
    BY DEF Bare, Plain
  <2>. QED BY <2>1, <2>2
<1>3. CASE RecordNode
  <2>1. stack # <<>>
    BY <1>3 DEF RecordNode, Settled, Standing
  <2>2. \/ verdict' = verdict
        \/ ~Engine /\ Return(Settlement)
        \/ Return(Bare("fail", Here.run))
    BY <1>3, Zenon DEF RecordNode, Same
  <2>3. ~Engine => Here.kind # "engine"
    BY DEF Engine
  <2>. QED BY <1>0, <1>1, <1>2, <2>1, <2>2, <2>3
<1>4. CASE ExceedStepBound \/ StopOnCancel \/ FolderMissing \/ StopAfterNode
  <2>1. stack # <<>>
    BY <1>4 DEF ExceedStepBound, StopOnCancel, FolderMissing, StopAfterNode, Begin, FolderOf,
                Settled, Standing
  <2>2. Return(Bare("fail", Here.run))
    BY <1>4 DEF ExceedStepBound, StopOnCancel, FolderMissing, StopAfterNode
  <2>. QED BY <1>0, <1>2, <2>1, <2>2
<1>5. CASE SubgraphArrives
  <2>1. stack # <<>> /\ Here.kind = "subgraph" /\ \E r : Return(r)
    BY <1>5 DEF SubgraphArrives, Begin, Standing
  <2>. QED BY <1>1, <2>1
<1>6. CASE Leave
  <2>1. stack # <<>> /\ Here.pc = "leaving" /\ Return(GateResult)
    BY <1>6 DEF Leave, Standing
  <2>. QED BY <1>1, <2>1
<1>7. CASE Cancel \/ TimeOut
  BY <1>7 DEF Cancel, TimeOut, Same
<1>8. CASE \/ ReachExit \/ EnterNode \/ GateRetry \/ BeginLeaf \/ LeafReturns
           \/ FolderRefuses \/ EnterFolder \/ FolderReturns \/ BeginManager
           \/ CyclesExhausted \/ StartCycle \/ CycleWithoutChild \/ CycleEnds \/ Again
  BY <1>8 DEF ReachExit, EnterNode, GateRetry, BeginLeaf, LeafReturns, FolderRefuses,
              EnterFolder, FolderReturns, BeginManager, CyclesExhausted, StartCycle,
              CycleWithoutChild, CycleEnds, Again, Same
<1>. QED BY <1>3, <1>4, <1>5, <1>6, <1>7, <1>8 DEF Next, Walk

\* Setting cancel_event stops every run on the stack: at most the node that was
\* already entered is still begun, whatever retries and cycles its engines have
\* left, and the user's run reports no success unless it stood at its exit
\* (engine.py, pipeline.py, manager_loop.py, subgraph_runner.py).
THEOREM CancelIsHeard == Spec => CancelReachesDown
<1>1. StackInv /\ LateInv /\ LateInv' /\ [Next]_vars =>
         [/\ late' <= 1
          /\ cancelled /\ verdict' # verdict /\ IsSuccess([status |-> verdict'])
                 => stack[1].pc = "leaving"]_vars
  BY VerdictOfCancelled DEF LateInv
<1>. QED BY <1>1, StackAlways, LateInit, LateStep, PTL DEF Spec, CancelReachesDown
=============================================================================

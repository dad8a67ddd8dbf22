------------------------ MODULE GraphAdmissionProofs ------------------------
(***************************************************************************)
(* What the rules say of a graph is true of every walk of it, for all      *)
(* graphs: the searches of validation.py, the routes a run may take, the   *)
(* failures and the budgets it may hide.                                   *)
(***************************************************************************)
EXTENDS GraphAdmission, FiniteSetTheorems, SequenceTheorems, WellFoundedInduction, TLAPS

----------------------------------------------------------------------------
(* Numbers                                                                 *)

\* Every non-empty set of naturals has a least element.
LEMMA LeastNat ==
    ASSUME NEW S, S \subseteq Nat, S # {}
    PROVE  \E i \in S : \A j \in S : i <= j
<1>. DEFINE R == OpToRel(<, Nat)
<1>1. IsWellFoundedOn(R, Nat)
  BY NatLessThanWellFounded
<1>2. R = {ss \in Nat \X Nat : ss[1] < ss[2]}
  BY Zenon DEF OpToRel
<1>. HIDE DEF R
<1>3. PICK x \in S : \A y \in S : ~ (<<y, x>> \in R)
  BY <1>1, WFMin
<1>4. ASSUME NEW y \in S PROVE x <= y
  <2>1. <<y, x>> \notin R
    BY <1>3
  <2>2. ~ (y < x)
    BY <2>1, <1>2
  <2>. QED BY <2>2
<1>. QED BY <1>4

LEMMA FirstInListIn ==
    ASSUME NEW S, S \subseteq Nat, S # {}
    PROVE  FirstInList(S) \in S
BY LeastNat DEF FirstInList

\* Induction, on a set of numbers.
LEMMA CountUp ==
    ASSUME NEW S, 0 \in S, \A n \in Nat : n \in S => n + 1 \in S
    PROVE  Nat \subseteq S
<1>. DEFINE Rest == {n \in Nat : n \notin S}
<1>1. SUFFICES ASSUME Rest # {} PROVE FALSE
  OBVIOUS
<1>2. PICK n \in Rest : \A m \in Rest : n <= m
  BY <1>1, LeastNat
<1>3. n \in Nat /\ n # 0 /\ n - 1 \in Nat /\ (n - 1) + 1 = n
  BY <1>2
<1>4. n - 1 \notin Rest
  BY <1>2, <1>3
<1>. QED BY <1>2, <1>3, <1>4

----------------------------------------------------------------------------
(* Reachability                                                            *)

\* A graph on a finite set of nodes.
IsSucc(succ) ==
    IsFiniteSet(DOMAIN succ) /\ \A x \in DOMAIN succ : succ[x] \subseteq DOMAIN succ

Onward(succ, T) == T \cup UNION {succ[x] : x \in T}

Closed(succ, T) == \A x \in T : succ[x] \subseteq T

IsHops(f, succ, S, most) ==
    f = [i \in 0..most |-> IF i = 0 THEN S ELSE Onward(succ, f[i - 1])]

LEMMA HopsExist ==
    ASSUME NEW succ, NEW S, NEW most \in Nat
    PROVE  \E f : IsHops(f, succ, S, most)
<1>. DEFINE N == {n \in Nat : \E f : IsHops(f, succ, S, n)}
<1>1. 0 \in N
  <2>. DEFINE f == [i \in 0..0 |-> S]
  <2>1. IsHops(f, succ, S, 0)
    BY DEF IsHops
  <2>. QED BY <2>1
<1>2. ASSUME NEW n \in Nat, n \in N PROVE n + 1 \in N
  <2>1. PICK f : IsHops(f, succ, S, n)
    BY <1>2
  <2>. DEFINE h == [i \in 0..(n + 1) |-> IF i = n + 1 THEN Onward(succ, f[n]) ELSE f[i]]
  <2>2. \A i \in 0..n : f[i] = IF i = 0 THEN S ELSE Onward(succ, f[i - 1])
    BY <2>1, Zenon DEF IsHops
  <2>3. \A i \in 0..n : i \in 0..(n + 1) /\ i # n + 1 /\ h[i] = f[i]
    OBVIOUS
  <2>4. ASSUME NEW i \in 0..(n + 1)
        PROVE  h[i] = IF i = 0 THEN S ELSE Onward(succ, h[i - 1])
    <3>1. CASE i = n + 1
      <4>1. i # 0 /\ i - 1 = n /\ n \in 0..n /\ h[i] = Onward(succ, f[n])
        BY <3>1
      <4>. HIDE DEF h
      <4>. QED BY <2>3, <4>1
    <3>2. CASE i # n + 1
      <4>1. i \in 0..n /\ (i # 0 => i - 1 \in 0..n)
        BY <3>2
      <4>. HIDE DEF h
      <4>. QED BY <2>2, <2>3, <4>1
    <3>. QED BY <3>1, <3>2
  <2>5. IsHops(h, succ, S, n + 1)
    <3>1. h = [i \in 0..(n + 1) |-> h[i]]
      OBVIOUS
    <3>. HIDE DEF h
    <3>. QED BY <2>4, <3>1, Zenon DEF IsHops
  <2>. QED BY <2>5
<1>. HIDE DEF N
<1>3. most \in N
  BY <1>1, <1>2, CountUp
<1>. QED BY <1>3 DEF N

LEMMA HopsAre ==
    ASSUME NEW succ, NEW S, NEW most \in Nat
    PROVE  LET f == Hops(succ, S, most)
           IN  /\ f[0] = S
               /\ \A i \in 0..most : i # 0 => f[i] = Onward(succ, f[i - 1])
<1>. DEFINE f == Hops(succ, S, most)
<1>1. f = CHOOSE h : h = [i \in 0..most |-> IF i = 0 THEN S
                            ELSE h[i - 1] \cup UNION {succ[x] : x \in h[i - 1]}]
  BY Zenon DEF Hops
<1>2. \A h : IsHops(h, succ, S, most)
        <=> h = [i \in 0..most |-> IF i = 0 THEN S
                   ELSE h[i - 1] \cup UNION {succ[x] : x \in h[i - 1]}]
  BY Zenon DEF IsHops, Onward
<1>3. IsHops(f, succ, S, most)
  BY <1>1, <1>2, HopsExist, Zenon
<1>. HIDE DEF f
<1>4. \A i \in 0..most : f[i] = IF i = 0 THEN S ELSE Onward(succ, f[i - 1])
  BY <1>3, Zenon DEF IsHops
<1>5. 0 \in 0..most
  OBVIOUS
<1>. QED BY <1>4, <1>5 DEF f

LEMMA OnwardWithin ==
    ASSUME NEW succ, IsSucc(succ), NEW T, T \subseteq DOMAIN succ
    PROVE  T \subseteq Onward(succ, T) /\ Onward(succ, T) \subseteq DOMAIN succ
BY DEF IsSucc, Onward

\* As long as a hop finds something, it finds one node more at least.
LEMMA HopsGrow ==
    ASSUME NEW succ, IsSucc(succ), NEW S, S \subseteq DOMAIN succ, NEW most \in Nat,
           NEW n \in 0..most
    PROVE  LET f == Hops(succ, S, most)
           IN  /\ S \subseteq f[n] /\ f[n] \subseteq DOMAIN succ
               /\ Closed(succ, f[n]) \/ Cardinality(f[n]) >= n
<1>. DEFINE f == Hops(succ, S, most)
            Good(k) == /\ S \subseteq f[k] /\ f[k] \subseteq DOMAIN succ
                       /\ Closed(succ, f[k]) \/ Cardinality(f[k]) >= k
            N == {k \in Nat : k <= most => Good(k)}
<1>1. f[0] = S /\ \A i \in 0..most : i # 0 => f[i] = Onward(succ, f[i - 1])
  BY HopsAre
<1>. HIDE DEF f
<1>2. IsFiniteSet(DOMAIN succ)
  BY DEF IsSucc
<1>3. 0 \in N
  <2>1. IsFiniteSet(S)
    BY <1>2, FS_Subset
  <2>2. Cardinality(S) \in Nat
    BY <2>1, FS_CardinalityType
  <2>. QED BY <1>1, <2>2
<1>4. ASSUME NEW k \in Nat, k \in N, k + 1 <= most PROVE Good(k + 1)
  <2>1. Good(k)
    BY <1>4
  <2>2. f[k + 1] = Onward(succ, f[k])
    <3>1. k + 1 \in 0..most /\ k + 1 # 0 /\ (k + 1) - 1 = k
      BY <1>4
    <3>. QED BY <1>1, <3>1
  <2>3. f[k] \subseteq f[k + 1] /\ f[k + 1] \subseteq DOMAIN succ
    BY <2>1, <2>2, OnwardWithin
  <2>4. CASE Closed(succ, f[k])
    <3>1. f[k + 1] = f[k]
      BY <2>2, <2>4 DEF Closed, Onward
    <3>. QED BY <2>1, <2>4, <3>1
  <2>5. CASE ~Closed(succ, f[k])
    <3>1. PICK x \in f[k] : ~ (succ[x] \subseteq f[k])
      BY <2>5 DEF Closed
    <3>2. f[k + 1] # f[k]
      BY <2>2, <3>1 DEF Onward
    <3>3. IsFiniteSet(f[k]) /\ IsFiniteSet(f[k + 1])
      BY <1>2, <2>1, <2>3, FS_Subset
    <3>4. Cardinality(f[k]) \in Nat /\ Cardinality(f[k + 1]) \in Nat
      BY <3>3, FS_CardinalityType
    <3>5. Cardinality(f[k]) < Cardinality(f[k + 1])
      BY <2>3, <3>2, <3>3, <3>4, FS_Subset
    <3>6. Cardinality(f[k]) >= k
      BY <2>1, <2>5
    <3>7. Cardinality(f[k + 1]) >= k + 1
      BY <3>4, <3>5, <3>6
    <3>. QED BY <2>1, <2>3, <3>7
  <2>. QED BY <2>4, <2>5
<1>. HIDE DEF Good
<1>5. \A k \in Nat : k \in N => k + 1 \in N
  BY <1>4
<1>. HIDE DEF N
<1>6. n \in N
  BY <1>3, <1>5, CountUp
<1>. QED BY <1>6 DEF N, Good, f

\* It contains where it starts, and is closed.
LEMMA ReachIs ==
    ASSUME NEW succ, IsSucc(succ), NEW S, S \subseteq DOMAIN succ
    PROVE  /\ S \subseteq Reach(succ, S) /\ Reach(succ, S) \subseteq DOMAIN succ
           /\ Closed(succ, Reach(succ, S))
<1>. DEFINE U == DOMAIN succ
            most == Cardinality(U)
            f == Hops(succ, S, most)
<1>1. IsFiniteSet(U) /\ most \in Nat
  BY FS_CardinalityType DEF IsSucc
<1>2. /\ S \subseteq f[most] /\ f[most] \subseteq U
      /\ Closed(succ, f[most]) \/ Cardinality(f[most]) >= most
  <2>1. most \in 0..most
    BY <1>1
  <2>. HIDE DEF most
  <2>. QED BY <1>1, <2>1, HopsGrow
<1>3. Reach(succ, S) = f[most]
  BY DEF Reach
<1>. HIDE DEF f
<1>4. f[most] # U => Cardinality(f[most]) < most /\ Cardinality(f[most]) \in Nat
  BY <1>1, <1>2, FS_Subset, FS_CardinalityType
<1>5. Closed(succ, U)
  BY DEF IsSucc, Closed
<1>. HIDE DEF most
<1>. QED BY <1>1, <1>2, <1>3, <1>4, <1>5

\* It is the least such set.
LEMMA ReachLeast ==
    ASSUME NEW succ, IsSucc(succ), NEW S, S \subseteq DOMAIN succ,
           NEW T, S \subseteq T, \A x \in T \cap DOMAIN succ : succ[x] \subseteq T
    PROVE  Reach(succ, S) \subseteq T
<1>. DEFINE most == Cardinality(DOMAIN succ)
            f == Hops(succ, S, most)
            N == {k \in Nat : k <= most => f[k] \subseteq T}
<1>1. most \in Nat
  BY FS_CardinalityType DEF IsSucc
<1>2. Reach(succ, S) = f[most]
  BY DEF Reach
<1>. HIDE DEF most
<1>3. f[0] = S /\ \A i \in 0..most : i # 0 => f[i] = Onward(succ, f[i - 1])
  BY <1>1, HopsAre
<1>4. \A k \in 0..most : f[k] \subseteq DOMAIN succ
  BY <1>1, HopsGrow
<1>. HIDE DEF f
<1>5. 0 \in N
  BY <1>3
<1>6. ASSUME NEW k \in Nat, k \in N PROVE k + 1 \in N
  <2>1. SUFFICES ASSUME k + 1 <= most PROVE f[k + 1] \subseteq T
    OBVIOUS
  <2>2. k + 1 \in 0..most /\ k \in 0..most /\ k + 1 # 0 /\ (k + 1) - 1 = k
    BY <1>1, <2>1
  <2>3. f[k + 1] = Onward(succ, f[k]) /\ f[k] \subseteq T /\ f[k] \subseteq DOMAIN succ
    BY <1>3, <1>4, <1>6, <2>1, <2>2
  <2>. QED BY <2>3 DEF Onward
<1>. HIDE DEF N
<1>7. most \in N
  BY <1>1, <1>5, <1>6, CountUp
<1>. QED BY <1>1, <1>2, <1>7 DEF N

LEMMA ReachTransitive ==
    ASSUME NEW succ, IsSucc(succ), NEW x \in DOMAIN succ, NEW y \in Reach(succ, {x})
    PROVE  Reach(succ, {y}) \subseteq Reach(succ, {x}) /\ y \in DOMAIN succ
<1>1. y \in DOMAIN succ /\ Closed(succ, Reach(succ, {x}))
  BY ReachIs
<1>. QED BY <1>1, ReachLeast, Zenon DEF Closed

\* What is reached is reached from one of the nodes it is reached from.
LEMMA ReachFromOne ==
    ASSUME NEW succ, IsSucc(succ), NEW S, S \subseteq DOMAIN succ, NEW y \in Reach(succ, S)
    PROVE  \E x \in S : y \in Reach(succ, {x})
<1>. DEFINE T == UNION {Reach(succ, {x}) : x \in S}
<1>1. \A x \in S : /\ x \in Reach(succ, {x}) /\ Closed(succ, Reach(succ, {x}))
                   /\ Reach(succ, {x}) \subseteq DOMAIN succ
  BY ReachIs
<1>2. S \subseteq T
  BY <1>1
<1>3. \A z \in T \cap DOMAIN succ : succ[z] \subseteq T
  BY <1>1 DEF Closed
<1>. HIDE DEF T
<1>4. y \in T
  BY <1>2, <1>3, ReachLeast
<1>. QED BY <1>4 DEF T

\* What can reach itself does so behind a successor.
LEMMA ReachOnward ==
    ASSUME NEW succ, IsSucc(succ), NEW x \in DOMAIN succ
    PROVE  /\ Reach(succ, succ[x]) \subseteq Reach(succ, {x})
           /\ Reach(succ, {x}) \subseteq {x} \cup Reach(succ, succ[x])
           /\ \A y \in succ[x] : Reach(succ, {y}) \subseteq Reach(succ, succ[x])
<1>. DEFINE R == Reach(succ, succ[x])
<1>1. succ[x] \subseteq DOMAIN succ
  BY DEF IsSucc
<1>2. succ[x] \subseteq R /\ Closed(succ, R)
  BY <1>1, ReachIs
<1>3. /\ {x} \subseteq Reach(succ, {x}) /\ Closed(succ, Reach(succ, {x}))
  BY ReachIs
<1>4. R \subseteq Reach(succ, {x})
  BY <1>1, <1>3, ReachLeast DEF Closed
<1>. HIDE DEF R
<1>5. Reach(succ, {x}) \subseteq {x} \cup R
  <2>. DEFINE T == {x} \cup R
  <2>1. {x} \subseteq T /\ \A z \in T \cap DOMAIN succ : succ[z] \subseteq T
    BY <1>2 DEF Closed
  <2>. HIDE DEF T
  <2>2. Reach(succ, {x}) \subseteq T
    BY <2>1, ReachLeast
  <2>. QED BY <2>2 DEF T
<1>6. ASSUME NEW y \in succ[x] PROVE Reach(succ, {y}) \subseteq R
  BY <1>1, <1>2, ReachLeast DEF Closed
<1>. QED BY <1>4, <1>5, <1>6 DEF R

----------------------------------------------------------------------------
(* Graphs and the selection of an edge                                     *)

LEMMA SeqIs ==
    ASSUME NEW S, NEW s \in Seq(S)
    PROVE  Len(s) \in Nat /\ DOMAIN s = 1..Len(s) /\ \A i \in 1..Len(s) : s[i] \in S
OBVIOUS

\* A graph none of whose edges leads out of it.
Complete(g) == g \in Graphs /\ Inside(g) = DOMAIN g.edges

LEMMA GraphIs ==
    ASSUME NEW g \in Graphs
    PROVE  /\ Len(g.nodes) \in Nat /\ DOMAIN g.nodes = 1..Len(g.nodes)
           /\ Len(g.edges) \in Nat /\ DOMAIN g.edges = 1..Len(g.edges)
           /\ Ids(g) = {g.nodes[i] : i \in 1..Len(g.nodes)}
           /\ IsFiniteSet(Ids(g)) /\ Cardinality(Ids(g)) <= Len(g.nodes)
           /\ IsSucc(Succ(g)) /\ DOMAIN Succ(g) = Ids(g)
           /\ \A i \in DOMAIN g.edges :
                /\ {g.edges[i].conditional, g.edges[i].restart} \subseteq BOOLEAN
                /\ g.edges[i].weight \in Int
                /\ ~g.edges[i].conditional => g.edges[i].cond = {}
                /\ g.edges[i].to \in Ids(g) => Lex[g.edges[i].to] \in Int
                /\ \A c \in g.edges[i].cond : c.op \in {"=", "!="} \/ c.value = ""
<1>1. /\ g.nodes \in Seq(Ids(g)) /\ g.edges \in Seq(ToSet(g.edges))
      /\ \A e \in ToSet(g.edges) :
              /\ {e.conditional, e.restart} \subseteq BOOLEAN /\ e.weight \in Int
              /\ ~e.conditional => e.cond = {}
              /\ e.to \in Ids(g) => Lex[e.to] \in Int
              /\ \A c \in e.cond : c.op \in {"=", "!="} \/ c.value = ""
  BY GraphsAssumption
<1>2. /\ Len(g.nodes) \in Nat /\ DOMAIN g.nodes = 1..Len(g.nodes)
      /\ Len(g.edges) \in Nat /\ DOMAIN g.edges = 1..Len(g.edges)
  BY <1>1, SeqIs
<1>3. Ids(g) = {g.nodes[i] : i \in 1..Len(g.nodes)}
  BY <1>2, Zenon DEF Ids, ToSet
<1>4. IsFiniteSet(Ids(g)) /\ Cardinality(Ids(g)) <= Len(g.nodes)
  <2>1. IsFiniteSet(1..Len(g.nodes)) /\ Cardinality(1..Len(g.nodes)) = Len(g.nodes)
    BY <1>2, FS_Interval
  <2>. DEFINE f == [i \in 1..Len(g.nodes) |-> g.nodes[i]]
  <2>2. f \in Surjection(1..Len(g.nodes), Ids(g))
    BY <1>3 DEF Surjection
  <2>. HIDE DEF f
  <2>. QED BY <2>1, <2>2, FS_Surjection
<1>5. IsSucc(Succ(g)) /\ DOMAIN Succ(g) = Ids(g)
  BY <1>4 DEF Succ, IsSucc
<1>6. \A i \in DOMAIN g.edges : g.edges[i] \in ToSet(g.edges)
  BY Zenon DEF ToSet
<1>. HIDE DEF Ids
<1>. QED BY <1>1, <1>2, <1>3, <1>4, <1>5, <1>6

\* sorted() has a first element: among any edges one is better than all.
LEMMA BestExists ==
    ASSUME NEW g, Complete(g), NEW S, S \subseteq DOMAIN g.edges, S # {}
    PROVE  \E i \in S : \A j \in S : Better(g.edges, i, j)
<1>. DEFINE E == g.edges
            Upto(k) == {i \in S : i <= k}
            HasBest(k) == \E i \in Upto(k) : \A j \in Upto(k) : Better(E, i, j)
            Stuck == {k \in Nat : Upto(k) # {} /\ ~HasBest(k)}
<1>1. /\ S \subseteq Nat /\ S \subseteq 1..Len(E) /\ Len(E) \in Nat
      /\ \A i \in S : E[i].weight \in Int /\ Lex[E[i].to] \in Int
  <2>1. \A i \in DOMAIN E : E[i].to \in Ids(g)
    BY DEF Complete, Inside
  <2>2. g \in Graphs
    BY DEF Complete
  <2>3. /\ Len(E) \in Nat /\ DOMAIN E = 1..Len(E)
        /\ \A i \in DOMAIN E : E[i].weight \in Int /\ (E[i].to \in Ids(g) => Lex[E[i].to] \in Int)
    BY <2>2, GraphIs
  <2>. HIDE DEF E
  <2>4. S \subseteq DOMAIN E
    BY DEF E
  <2>. QED BY <2>1, <2>3, <2>4
<1>. HIDE DEF E
<1>3. ASSUME NEW i \in S PROVE Better(E, i, i)
  BY <1>1, <1>3 DEF Better
<1>4. ASSUME NEW i \in S, NEW j \in S PROVE Better(E, i, j) \/ Better(E, j, i)
  BY <1>1, <1>4 DEF Better
<1>5. ASSUME NEW i \in S, NEW j \in S, NEW k \in S, Better(E, i, j), Better(E, j, k)
      PROVE  Better(E, i, k)
  BY <1>1, <1>5 DEF Better
<1>6. Stuck = {}
  <2> SUFFICES ASSUME Stuck # {} PROVE FALSE
    OBVIOUS
  <2>1. PICK k \in Stuck : \A h \in Stuck : k <= h
    BY LeastNat
  <2>2. k \in Nat /\ Upto(k) # {} /\ ~HasBest(k)
    OBVIOUS
  <2>3. k # 0
    BY <1>1, <2>2
  <2>4. (k - 1) \in Nat /\ ~ (k <= k - 1)
    BY <2>2, <2>3
  <2>5. k - 1 \notin Stuck
    BY <2>1, <2>4
  <2>6. ASSUME NEW i \in Upto(k) PROVE i \in Upto(k-1) \/ i = k
    <3>1. i \in S /\ i \in Nat /\ i <= k
      BY <1>1
    <3>2. i <= k - 1 \/ i = k
      BY <3>1, <2>2
    <3>. QED BY <3>1, <3>2
  <2>7. Upto(k-1) \subseteq Upto(k)
    BY <1>1, <2>2, <2>4
  <2>8. CASE Upto(k-1) = {}
    <3>1. Upto(k) = {k} /\ k \in S
      BY <2>8, <2>6, <2>2
    <3>2. Better(E, k, k)
      BY <3>1, <1>3
    <3>. QED BY <3>1, <3>2, <2>2
  <2>9. CASE Upto(k-1) # {}
    <3>1. PICK b \in Upto(k-1) : \A j \in Upto(k-1) : Better(E, b, j)
      BY <2>9, <2>5, <2>4
    <3>2. b \in S /\ b \in Upto(k)
      BY <2>7
    <3>3. CASE k \notin S
      BY <3>1, <3>2, <3>3, <2>2, <2>6
    <3>4. CASE k \in S /\ Better(E, b, k)
      BY <3>1, <3>2, <3>4, <2>2, <2>6
    <3>5. CASE k \in S /\ Better(E, k, b)
      <4>1. k \in Upto(k)
        BY <3>5, <2>2
      <4>2. ASSUME NEW j \in Upto(k) PROVE Better(E, k, j)
        BY <1>3, <1>5, <2>6, <3>1, <3>2, <3>5
      <4>. QED BY <4>1, <4>2, <2>2
    <3>. QED BY <3>3, <3>4, <3>5, <3>2, <1>4
  <2>. QED BY <2>8, <2>9
<1>7. Upto(Len(E)) = S
  BY <1>1
<1>. QED BY <1>1, <1>6, <1>7 DEF E

LEMMA BestIn ==
    ASSUME NEW g, Complete(g), NEW S, S \subseteq DOMAIN g.edges, S # {}
    PROVE  BestByWeightThenLexical(g.edges, S) \in S
BY BestExists DEF BestByWeightThenLexical

\* The edge select_edge returns is one whose condition holds, or there is none
\* such and it is a plain one.
LEMMA SelectEdgeIs ==
    ASSUME NEW g, Complete(g), NEW n, NEW o, NEW ctx, DOMAIN o.suggested \subseteq Nat,
           SelectEdge(g.edges, n, o, ctx) # NoEdge
    PROVE  LET i == SelectEdge(g.edges, n, o, ctx)
           IN  /\ i \in Outgoing(g.edges, n)
               /\ \/ i \in ConditionMatched(g.edges, n, o, ctx)
                  \/ /\ ConditionMatched(g.edges, n, o, ctx) = {}
                     /\ i \in Unconditional(g.edges, n)
<1>. DEFINE E         == g.edges
            matched   == ConditionMatched(E, n, o, ctx)
            labelled  == LabelMatched(E, n, o)
            suggested == SuggestionsThatMatch(E, n, o)
            plain     == Unconditional(E, n)
            first     == SuggestedBy(E, n, o.suggested[FirstInList(suggested)])
<1>1. /\ matched \subseteq Outgoing(E, n) /\ labelled \subseteq plain
      /\ plain \subseteq Outgoing(E, n) /\ first \subseteq plain
  BY DEF ConditionMatched, LabelMatched, Unconditional, SuggestedBy
<1>2. Outgoing(E, n) \subseteq DOMAIN E /\ DOMAIN E \subseteq Nat
  <2>1. Len(E) \in Nat /\ DOMAIN E = 1..Len(E)
    BY GraphIs DEF Complete
  <2>. HIDE DEF E
  <2>. QED BY <2>1 DEF Outgoing
<1>3. suggested # {} => first # {}
  <2> SUFFICES ASSUME suggested # {} PROVE first # {}
    OBVIOUS
  <2>1. suggested \subseteq Nat
    BY DEF SuggestionsThatMatch
  <2>2. FirstInList(suggested) \in suggested
    BY <2>1, FirstInListIn
  <2>. QED BY <2>2 DEF SuggestionsThatMatch
<1>4. matched # {} => BestByWeightThenLexical(E, matched) \in matched
  BY <1>1, <1>2, BestIn
<1>5. plain # {} => BestByWeightThenLexical(E, plain) \in plain
  BY <1>1, <1>2, BestIn
<1>6. labelled # {} => FirstInList(labelled) \in labelled
  BY <1>1, <1>2, FirstInListIn
<1>7. first # {} => FirstInList(first) \in first
  BY <1>1, <1>2, FirstInListIn
<1>. HIDE DEF E, matched, labelled, suggested, plain, first
<1>8. SelectEdge(E, n, o, ctx) =
        (CASE matched # {} -> BestByWeightThenLexical(E, matched)
          [] matched = {} /\ labelled # {} -> FirstInList(labelled)
          [] matched = {} /\ labelled = {} /\ suggested # {} -> FirstInList(first)
          [] matched = {} /\ labelled = {} /\ suggested = {} /\ plain # {} ->
                 BestByWeightThenLexical(E, plain)
          [] OTHER -> NoEdge)
  BY Zenon DEF SelectEdge, matched, labelled, suggested, plain, first
<1>9. SelectEdge(E, n, o, ctx) # NoEdge
  BY DEF E
<1>10. LET i == SelectEdge(E, n, o, ctx)
       IN  /\ i \in Outgoing(E, n)
           /\ i \in matched \/ (matched = {} /\ i \in plain)
  BY <1>1, <1>3, <1>4, <1>5, <1>6, <1>7, <1>8, <1>9
<1>. QED BY <1>10 DEF E, matched, plain

----------------------------------------------------------------------------
(* The walk                                                                *)

Walking == phase \in {"top", "route", "raised", "end"}

\* What is walked passed validate(), and the walk is at one of its nodes.
WalkInv ==
    /\ graph \in Graphs /\ gate_retries \in Nat /\ DOMAIN outcome.suggested \subseteq Nat
    /\ phase \in {"loaded", "refused", "top", "route", "raised", "end"}
    /\ phase # "loaded" => diags = Lint(graph)
    /\ Walking => Errors(Validate(graph)) = {} /\ node \in Ids(graph)
    /\ phase \in {"route", "raised"} => node \notin Exits(graph)
    /\ phase = "raised" => Dispatched(graph.at[node]) = "none"
    /\ via # NoEdge => /\ Walking /\ via \in DOMAIN graph.edges
                       /\ graph.edges[via].from \in Ids(graph) \ Exits(graph)

LEMMA DiagIs ==
    /\ \A r, t, n, i : /\ Diag(r, t, n, i).rule = r /\ Diag(r, t, n, i).severity = t
                       /\ Diag(r, t, n, i).node = n /\ Diag(r, t, n, i).edge = i
    /\ \A r, n : /\ Error(r, n).rule = r /\ Error(r, n).severity = "ERROR"
                 /\ Error(r, n).node = n
    /\ \A r, n : /\ Warning(r, n).rule = r /\ Warning(r, n).severity = "WARNING"
                 /\ Warning(r, n).node = n
BY DEF Diag, Error, Warning

\* What validate_or_raise does not raise for.
LEMMA Passed ==
    ASSUME NEW g \in Graphs, Errors(Validate(g)) = {}
    PROVE  Complete(g) /\ FirstStart(g) \in Ids(g) /\ ShapeResolvable(g) = {}
<1>. DEFINE V == Validate(g)
<1>1. StartNode(g) \subseteq V /\ EdgeTargets(g) \subseteq V /\ ShapeResolvable(g) \subseteq V
  BY DEF Validate
<1>. HIDE DEF V
<1>2. \A d \in V : d.severity # "ERROR"
  BY DEF Errors, V
<1>3. StartNode(g) = {} /\ EdgeTargets(g) = {} /\ ShapeResolvable(g) = {}
  <2>1. \A d \in StartNode(g) : \E n : d = Error("start_node", n)
    BY Zenon DEF StartNode
  <2>2. \A d \in EdgeTargets(g) : \E i : d = Diag("edge_target_exists", "ERROR", "", i)
    BY Zenon DEF EdgeTargets
  <2>3. \A d \in ShapeResolvable(g) : \E n : d = Error("shape_resolvable", n)
    BY Zenon DEF ShapeResolvable
  <2>4. ASSUME NEW d \in StartNode(g) PROVE d.severity = "ERROR"
    <3>1. PICK n : d = Error("start_node", n)
      BY <2>1
    <3>. QED BY <3>1 DEF Diag, Error
  <2>5. ASSUME NEW d \in EdgeTargets(g) PROVE d.severity = "ERROR"
    <3>1. PICK n : d = Diag("edge_target_exists", "ERROR", "", n)
      BY <2>2
    <3>. QED BY <3>1 DEF Diag, Error
  <2>6. ASSUME NEW d \in ShapeResolvable(g) PROVE d.severity = "ERROR"
    <3>1. PICK n : d = Error("shape_resolvable", n)
      BY <2>3
    <3>. QED BY <3>1 DEF Diag, Error
  <2>. QED BY <1>1, <1>2, <2>4, <2>5, <2>6
<1>4. Complete(g)
  <2>1. \A j \in DOMAIN g.edges : {g.edges[j].from, g.edges[j].to} \subseteq Ids(g)
    BY <1>3, Zenon DEF EdgeTargets
  <2>. QED BY <2>1 DEF Complete, Inside
<1>5. PICK n \in Ids(g) : Starts(g) = {n}
  BY <1>3 DEF StartNode
<1>6. FirstStart(g) \in Ids(g)
  <2>. DEFINE P == {i \in DOMAIN g.nodes : g.nodes[i] \in Starts(g)}
  <2>1. DOMAIN g.nodes = 1..Len(g.nodes) /\ Len(g.nodes) \in Nat
        /\ Ids(g) = {g.nodes[i] : i \in 1..Len(g.nodes)}
    BY GraphIs
  <2>2. P # {} /\ P \subseteq Nat
    BY <1>5, <2>1
  <2>3. PICK i \in P : \A j \in P : i <= j
    BY <2>2, LeastNat
  <2>4. \A j \in 1..(i - 1) : j \in DOMAIN g.nodes /\ ~ (i <= j)
    BY <2>1, <2>3
  <2>5. /\ i \in DOMAIN g.nodes /\ g.nodes[i] \in Starts(g)
        /\ \A j \in 1..(i - 1) : g.nodes[j] \notin Starts(g)
    BY <2>3, <2>4
  <2>6. \E k \in DOMAIN g.nodes : FirstStart(g) = g.nodes[k]
    BY <2>5, Zenon DEF FirstStart
  <2>. QED BY <2>1, <2>6
<1>. QED BY <1>3, <1>4, <1>6

LEMMA WalkInit == Init => WalkInv
<1>. SUFFICES ASSUME Init PROVE WalkInv
  OBVIOUS
<1>1. DOMAIN <<>> \subseteq Nat
  <2>1. <<>> \in Seq(Nat)
    OBVIOUS
  <2>. QED BY <2>1, SeqIs
<1>. QED BY <1>1 DEF Init, WalkInv, Walking, Plain

\* An outcome suggests the targets of a choice, or nothing.
LEMMA HandleIs ==
    ASSUME WalkInv, phase = "top", NEW type, Handle(type)
    PROVE  /\ DOMAIN outcome'.suggested \subseteq Nat
           /\ type \in {"tool", "conditional"} => outcome'.label = ""
           /\ type = "conditional" => outcome'.status = "success"
           /\ type # "tool" => UNCHANGED <<last_line, masked>>
<1>1. DOMAIN <<>> \subseteq Nat
  <2>1. <<>> \in Seq(Nat)
    OBVIOUS
  <2>. QED BY <2>1, SeqIs
<1>2. \A s, x : LET o == Plain(s, x)
                IN  DOMAIN o.suggested \subseteq Nat /\ o.label = "" /\ o.status = s
  BY <1>1 DEF Plain
<1>3. CASE type = "tool" /\ NoVerdict
  BY <1>2, <1>3, Zenon DEF NoVerdict
<1>4. CASE type = "tool" /\ \E passes \in BOOLEAN : RunTool(passes)
  <2>1. \E s : outcome' = Plain(s, TRUE)
    BY <1>4, Zenon DEF RunTool
  <2>. QED BY <1>2, <1>4, <2>1, Zenon
<1>5. CASE type = "codergen" /\ outcome' \in LlmOutcomes /\ UNCHANGED <<last_line, masked>>
  <2>1. \A o \in LlmOutcomes : o.suggested = <<>>
    BY DEF LlmOutcomes
  <2>2. outcome'.suggested = <<>>
    BY <1>5, <2>1
  <2>. QED BY <1>1, <1>5, <2>2
<1>6. CASE /\ type = "wait.human" /\ UNCHANGED <<last_line, masked>>
           /\ \E e \in EdgesOut(graph, node) : outcome' = Answered(Choice(e))
  <2>1. PICK c : outcome' = Answered(c)
    BY <1>6, Zenon
  <2>. DEFINE chosen == {i \in Outgoing(graph.edges, node) : Choice(graph.edges[i]) = c}
  <2>2. IsFiniteSet(chosen)
    <3>0. DOMAIN graph.edges = 1..Len(graph.edges) /\ Len(graph.edges) \in Nat
      BY GraphIs DEF WalkInv
    <3>1. IsFiniteSet(DOMAIN graph.edges)
      BY <3>0, FS_Interval
    <3>2. chosen \subseteq DOMAIN graph.edges
      BY DEF Outgoing
    <3>. HIDE DEF chosen
    <3>. QED BY <3>1, <3>2, FS_Subset
  <2>3. DOMAIN outcome'.suggested = 1..Cardinality(chosen)
    BY <2>1 DEF Answered
  <2>. HIDE DEF chosen
  <2>4. 1..Cardinality(chosen) \subseteq Nat
    BY <2>2, FS_CardinalityType
  <2>. QED BY <1>6, <2>3, <2>4
<1>7. CASE /\ type \in {"start", "conditional"} /\ outcome' = Plain("success", TRUE)
           /\ UNCHANGED <<last_line, masked>>
  BY <1>2, <1>7
<1>. QED BY <1>3, <1>4, <1>5, <1>6, <1>7, Zenon DEF Handle

\* The target of a gate is a node.
LEMMA RetryIs ==
    ASSUME NEW g, NEW n, EffectiveRetryTarget(g, n) # ""
    PROVE  EffectiveRetryTarget(g, n) \in Ids(g)
BY Zenon DEF EffectiveRetryTarget

LEMMA RetryFromIs ==
    RetryFrom # "" => /\ RetryFrom \in Ids(graph)
                      /\ \E n : RetryFrom = EffectiveRetryTarget(graph, n)
<1>1. RetryFrom # "" => \E n : RetryFrom = EffectiveRetryTarget(graph, n)
  BY Zenon DEF RetryFrom
<1>. QED BY <1>1, RetryIs, Zenon

\* The edge that is followed, between two nodes of the graph.
LEMMA FollowedIs ==
    ASSUME WalkInv, phase = "route", Selected # NoEdge
    PROVE  /\ Complete(graph)
           /\ Selected \in Outgoing(graph.edges, node) /\ Selected \in DOMAIN graph.edges
           /\ graph.edges[Selected].from = node /\ graph.edges[Selected].to \in Ids(graph)
           /\ \/ Selected \in ConditionMatched(graph.edges, node, outcome, Context)
              \/ /\ ConditionMatched(graph.edges, node, outcome, Context) = {}
                 /\ Selected \in Unconditional(graph.edges, node)
<1>1. Complete(graph)
  BY Passed DEF WalkInv, Walking
<1>2. /\ Selected \in Outgoing(graph.edges, node)
      /\ \/ Selected \in ConditionMatched(graph.edges, node, outcome, Context)
         \/ /\ ConditionMatched(graph.edges, node, outcome, Context) = {}
            /\ Selected \in Unconditional(graph.edges, node)
  BY <1>1, SelectEdgeIs DEF WalkInv, Selected
<1>3. Selected \in DOMAIN graph.edges /\ graph.edges[Selected].from = node
  BY <1>2 DEF Outgoing
<1>4. graph.edges[Selected].to \in Ids(graph)
  BY <1>1, <1>3 DEF Complete, Inside
<1>. QED BY <1>1, <1>2, <1>3, <1>4

LEMMA WalkStep == WalkInv /\ [Next]_vars => WalkInv'
<1>. SUFFICES ASSUME WalkInv, [Next]_vars PROVE WalkInv'
  OBVIOUS
<1>1. CASE Admit
  <2>1. Errors(Validate(graph)) = {} => FirstStart(graph) \in Ids(graph)
    BY Passed DEF WalkInv
  <2>. QED BY <1>1, <2>1 DEF Admit, WalkInv, Walking
<1>2. CASE Execute
  <2>1. DOMAIN outcome'.suggested \subseteq Nat
    BY <1>2, HandleIs DEF Execute
  <2>2. /\ phase = "top" /\ phase' = "route" /\ node \notin Exits(graph)
        /\ UNCHANGED <<graph, diags, node, gate_retries, via>>
    BY <1>2 DEF Execute
  <2>. QED BY <2>1, <2>2 DEF WalkInv, Walking
<1>3. CASE Undispatched
  BY <1>3 DEF Undispatched, WalkInv, Walking
<1>4. CASE Follow
  <2>1. /\ phase = "route" /\ phase' = "top" /\ via' = Selected /\ Selected # NoEdge
        /\ node' = graph.edges[Selected].to
        /\ gate_retries' \in {0, gate_retries}
        /\ UNCHANGED <<graph, diags, outcome>>
    BY <1>4 DEF Follow
  <2>2. /\ Selected \in DOMAIN graph.edges
        /\ graph.edges[Selected].from = node /\ graph.edges[Selected].to \in Ids(graph)
    BY <2>1, FollowedIs
  <2>. QED BY <2>1, <2>2 DEF WalkInv, Walking
<1>5. CASE NoMatch
  BY <1>5 DEF NoMatch, WalkInv, Walking
<1>6. CASE RetryGate
  <2>1. RetryFrom \in Ids(graph)
    BY <1>6, RetryFromIs DEF RetryGate
  <2>2. /\ phase = "top" /\ node' = RetryFrom /\ via' = NoEdge
        /\ gate_retries' = gate_retries + 1
        /\ UNCHANGED <<graph, diags, phase, outcome>>
    BY <1>6 DEF RetryGate
  <2>. QED BY <2>1, <2>2 DEF WalkInv, Walking
<1>7. CASE Finish
  BY <1>7 DEF Finish, WalkInv, Walking
<1>8. CASE UNCHANGED vars
  BY <1>8 DEF vars, WalkInv, Walking
<1>. QED BY <1>1, <1>2, <1>3, <1>4, <1>5, <1>6, <1>7, <1>8 DEF Next

LEMMA WalkAlways == Spec => []WalkInv
BY WalkInit, WalkStep, PTL DEF Spec

----------------------------------------------------------------------------
(* What a diagnostic says                                                  *)

\* All of X are diagnostics of one rule.
Speaks(X, rule) == \A d \in X : \E t, n, i : d = Diag(rule, t, n, i)

LEMMA SpeaksIs ==
    ASSUME NEW X, NEW rule, Speaks(X, rule), NEW d \in X
    PROVE  d.rule = rule
<1>1. PICK t, n, i : d = Diag(rule, t, n, i)
  BY DEF Speaks
<1>. QED BY <1>1 DEF Diag

\* A diagnostic of a rule the properties name is one of that rule's operator.
LEMMA RuleIs ==
    ASSUME NEW g, NEW d \in Lint(g)
    PROVE  /\ d.rule = "dead_conditional_edge" => d \in DeadConditionalEdge(g)
           /\ d.rule = "acyclic_graph" => d \in AcyclicGraph(g)
           /\ d.rule = "gate_retry_budget_dead" => d \in GateRetryBudgetDead(g)
<1>1. Speaks(StartNode(g), "start_node")
  BY Zenon DEF Speaks, StartNode, Error, Warning
<1>2. Speaks(TerminalNode(g), "terminal_node")
  BY Zenon DEF Speaks, TerminalNode, Error, Warning
<1>3. Speaks(EdgeTargets(g), "edge_target_exists")
  BY Zenon DEF Speaks, EdgeTargets, Error, Warning
<1>4. Speaks(StartNoIncoming(g), "start_no_incoming")
  BY Zenon DEF Speaks, StartNoIncoming, Error, Warning
<1>5. Speaks(ExitNoOutgoing(g), "exit_no_outgoing")
  BY Zenon DEF Speaks, ExitNoOutgoing, Error, Warning
<1>6. Speaks(Reachability(g), "reachability")
  BY Zenon DEF Speaks, Reachability, Error, Warning
<1>7. Speaks(GoalGateHasRetry(g), "goal_gate_has_retry")
  BY Zenon DEF Speaks, GoalGateHasRetry, Error, Warning
<1>8. Speaks(PromptOnLlmNodes(g), "prompt_on_llm_nodes")
  BY Zenon DEF Speaks, PromptOnLlmNodes, Error, Warning
<1>9. Speaks(ConditionSyntax(g), "condition_syntax")
  BY Zenon DEF Speaks, ConditionSyntax, Error, Warning
<1>10. Speaks(StylesheetSyntax(g), "stylesheet_syntax")
  BY Zenon DEF Speaks, StylesheetSyntax, Error, Warning
<1>11. Speaks(TypeKnown(g), "type_known")
  BY Zenon DEF Speaks, TypeKnown, Error, Warning
<1>12. Speaks(ShapeResolvable(g), "shape_resolvable")
  BY Zenon DEF Speaks, ShapeResolvable, Error, Warning
<1>13. Speaks(RetryTargetExists(g), "retry_target_exists")
  BY Zenon DEF Speaks, RetryTargetExists, Error, Warning
<1>14. Speaks(ToolCommandHandler(g), "tool_command_requires_tool_handler")
  BY Zenon DEF Speaks, ToolCommandHandler, Error, Warning
<1>15. Speaks(ToolEnvIdentifiers(g), "tool_env_posix_identifier")
  BY Zenon DEF Speaks, ToolEnvIdentifiers, Error, Warning
<1>16. Speaks(RetryBudgets(g), "retry_budget_non_negative")
  BY Zenon DEF Speaks, RetryBudgets, Error, Warning
<1>17. Speaks(DeadConditionalEdge(g), "dead_conditional_edge")
  BY Zenon DEF Speaks, DeadConditionalEdge, Error, Warning
<1>18. Speaks(StaleLabelCollision(g), "stale_label_collision")
  BY Zenon DEF Speaks, StaleLabelCollision, Error, Warning
<1>19. Speaks(AcyclicGraph(g), "acyclic_graph")
  BY Zenon DEF Speaks, AcyclicGraph, Error, Warning
<1>20. Speaks(CycleNoConditionalExit(g), "cycle_no_conditional_exit")
  BY Zenon DEF Speaks, CycleNoConditionalExit, Error, Warning
<1>21. Speaks(CycleNoDeterministicExit(g), "cycle_no_deterministic_exit")
  BY Zenon DEF Speaks, CycleNoDeterministicExit, Error, Warning
<1>22. Speaks(FailRoutedToExit(g), "fail_routed_to_exit")
  BY Zenon DEF Speaks, FailRoutedToExit, Error, Warning
<1>23. Speaks(GateRetryBudgetDead(g), "gate_retry_budget_dead")
  BY Zenon DEF Speaks, GateRetryBudgetDead, Error, Warning
<1>24. Speaks(InertEvidenceGate(g), "inert_evidence_gate")
  BY Zenon DEF Speaks, InertEvidenceGate, Error, Warning
<1>25. Speaks(OutcomeLabelShadowing(g), "outcome_label_shadowing")
  BY Zenon DEF Speaks, OutcomeLabelShadowing, Error, Warning
<1>26. Speaks(FolderDotFileAbsent(g), "folder_dot_file_absent")
  BY Zenon DEF Speaks, FolderDotFileAbsent, Error, Warning
<1>27. Speaks(PipeMaskedExitCode(g), "CMD-001")
  BY Zenon DEF Speaks, PipeMaskedExitCode, Error, Warning
<1>28. Speaks(AlwaysTrueSentinel(g), "CMD-002")
  BY Zenon DEF Speaks, AlwaysTrueSentinel, Error, Warning
<1>29. Speaks(InertPromptVocabulary(g), "VOCAB-001")
  BY Zenon DEF Speaks, InertPromptVocabulary, Error, Warning
<1>30. Speaks(RemovedExtensionAttrs(g), "ATTR-LINT-001")
  BY Zenon DEF Speaks, RemovedExtensionAttrs, Error, Warning
<1>31. \/ d \in DeadConditionalEdge(g) \/ d \in AcyclicGraph(g) \/ d \in GateRetryBudgetDead(g)
       \/ d \in StartNode(g)
       \/ d \in TerminalNode(g)
       \/ d \in EdgeTargets(g)
       \/ d \in StartNoIncoming(g)
       \/ d \in ExitNoOutgoing(g)
       \/ d \in Reachability(g)
       \/ d \in GoalGateHasRetry(g)
       \/ d \in PromptOnLlmNodes(g)
       \/ d \in ConditionSyntax(g)
       \/ d \in StylesheetSyntax(g)
       \/ d \in TypeKnown(g)
       \/ d \in ShapeResolvable(g)
       \/ d \in RetryTargetExists(g)
       \/ d \in ToolCommandHandler(g)
       \/ d \in ToolEnvIdentifiers(g)
       \/ d \in RetryBudgets(g)
       \/ d \in StaleLabelCollision(g)
       \/ d \in CycleNoConditionalExit(g)
       \/ d \in CycleNoDeterministicExit(g)
       \/ d \in FailRoutedToExit(g)
       \/ d \in InertEvidenceGate(g)
       \/ d \in OutcomeLabelShadowing(g)
       \/ d \in FolderDotFileAbsent(g)
       \/ d \in PipeMaskedExitCode(g)
       \/ d \in AlwaysTrueSentinel(g)
       \/ d \in InertPromptVocabulary(g)
       \/ d \in RemovedExtensionAttrs(g)
  BY DEF Lint, Validate
<1>. DEFINE Others == {"start_node",
                       "terminal_node",
                       "edge_target_exists",
                       "start_no_incoming",
                       "exit_no_outgoing",
                       "reachability",
                       "goal_gate_has_retry",
                       "prompt_on_llm_nodes",
                       "condition_syntax",
                       "stylesheet_syntax",
                       "type_known",
                       "shape_resolvable",
                       "retry_target_exists",
                       "tool_command_requires_tool_handler",
                       "tool_env_posix_identifier",
                       "retry_budget_non_negative",
                       "stale_label_collision",
                       "cycle_no_conditional_exit",
                       "cycle_no_deterministic_exit",
                       "fail_routed_to_exit",
                       "inert_evidence_gate",
                       "outcome_label_shadowing",
                       "folder_dot_file_absent",
                       "CMD-001",
                       "CMD-002",
                       "VOCAB-001",
                       "ATTR-LINT-001"}
<1>32. d.rule \in Others \/ d \in DeadConditionalEdge(g) \/ d \in AcyclicGraph(g)
        \/ d \in GateRetryBudgetDead(g)
  BY <1>31, SpeaksIs,
     <1>1, <1>2, <1>3, <1>4, <1>5, <1>6, <1>7, <1>8, <1>9, <1>10, <1>11, <1>12, <1>13,
     <1>14, <1>15, <1>16, <1>18, <1>20, <1>21, <1>22, <1>24, <1>25, <1>26, <1>27, <1>28,
     <1>29, <1>30
<1>33. /\ d \in DeadConditionalEdge(g) => d.rule = "dead_conditional_edge"
       /\ d \in AcyclicGraph(g) => d.rule = "acyclic_graph"
       /\ d \in GateRetryBudgetDead(g) => d.rule = "gate_retry_budget_dead"
  BY <1>17, <1>19, <1>23, SpeaksIs
<1>34. {"dead_conditional_edge", "acyclic_graph", "gate_retry_budget_dead"} \cap Others = {}
  OBVIOUS
<1>. HIDE DEF Others
<1>. QED BY <1>32, <1>33, <1>34

LEMMA LintHas ==
    ASSUME NEW g
    PROVE  /\ DeadConditionalEdge(g) \subseteq Lint(g) /\ StaleLabelCollision(g) \subseteq Lint(g)
           /\ OutcomeLabelShadowing(g) \subseteq Lint(g) /\ FailRoutedToExit(g) \subseteq Lint(g)
           /\ PipeMaskedExitCode(g) \subseteq Lint(g) /\ AlwaysTrueSentinel(g) \subseteq Lint(g)
           /\ RemovedExtensionAttrs(g) \subseteq Lint(g) /\ TypeKnown(g) \subseteq Lint(g)
           /\ AcyclicGraph(g) \subseteq Lint(g)
BY DEF Lint, Validate

----------------------------------------------------------------------------
(* The routes                                                              *)

\* What serves a tool or a diamond prefers no label, and a diamond succeeds.
ServedInv ==
    phase = "route" =>
        /\ Dispatched(graph.at[node]) \in {"tool", "conditional"} => outcome.label = ""
        /\ Dispatched(graph.at[node]) = "conditional" => outcome.status = "success"

\* So that no failure clause holds behind a diamond.
DeadInv ==
    via # NoEdge => ~ /\ MatchesFail(graph.edges[via])
                      /\ Dispatched(graph.at[graph.edges[via].from]) = "conditional"

RoutesInv ==
    WalkInv /\ ServedInv /\ DeadInv /\ StaleRoutesWereFlagged /\ ShadowedLabelsWereFlagged

LEMMA ServedStep == WalkInv /\ ServedInv /\ [Next]_vars => ServedInv'
<1>. SUFFICES ASSUME WalkInv, ServedInv, [Next]_vars PROVE ServedInv'
  OBVIOUS
<1>1. CASE Execute
  <2>1. LET type == Dispatched(graph.at[node])
        IN  /\ type \in {"tool", "conditional"} => outcome'.label = ""
            /\ type = "conditional" => outcome'.status = "success"
    BY <1>1, HandleIs DEF Execute
  <2>2. UNCHANGED <<graph, node>>
    BY <1>1 DEF Execute
  <2>. QED BY <2>1, <2>2 DEF ServedInv
<1>2. CASE Admit \/ Undispatched \/ Follow \/ NoMatch \/ RetryGate \/ Finish
  <2>1. phase' # "route"
    BY <1>2 DEF Admit, Undispatched, Follow, NoMatch, RetryGate, Finish
  <2>. QED BY <2>1 DEF ServedInv
<1>3. CASE UNCHANGED vars
  BY <1>3 DEF vars, ServedInv
<1>. QED BY <1>1, <1>2, <1>3 DEF Next

\* The status a clause on the outcome is compared with, when there is no label.
LEMMA ClauseIs ==
    ASSUME NEW cond, NEW o, NEW ctx, EvaluateCondition(cond, o, ctx), o.label = ""
    PROVE  /\ \A v : Clause("outcome", "=", v) \in cond => o.status = v
           /\ \A v : Clause("outcome", "!=", v) \in cond => o.status # v
<1>1. \A c \in cond : EvaluateClause(c, o, ctx)
  BY DEF EvaluateCondition
<1>2. ASSUME NEW v, Clause("outcome", "=", v) \in cond PROVE o.status = v
  <2>1. EvaluateClause(Clause("outcome", "=", v), o, ctx)
    BY <1>1, <1>2
  <2>. QED BY <2>1 DEF EvaluateClause, ResolveKey, Clause
<1>3. ASSUME NEW v, Clause("outcome", "!=", v) \in cond PROVE o.status # v
  <2>1. EvaluateClause(Clause("outcome", "!=", v), o, ctx)
    BY <1>1, <1>3
  <2>. QED BY <2>1 DEF EvaluateClause, ResolveKey, Clause
<1>. QED BY <1>2, <1>3

\* The condition of the edge that is followed holds, or is none.
LEMMA TakenIs ==
    ASSUME WalkInv, phase = "route", Selected # NoEdge
    PROVE  LET cond == graph.edges[Selected].cond
           IN  EvaluateCondition(cond, outcome, Context) \/ cond = {}
<1>1. /\ Complete(graph) /\ Selected \in DOMAIN graph.edges
      /\ \/ Selected \in ConditionMatched(graph.edges, node, outcome, Context)
         \/ Selected \in Unconditional(graph.edges, node)
  BY FollowedIs
<1>2. ~graph.edges[Selected].conditional => graph.edges[Selected].cond = {}
  BY <1>1, GraphIs DEF Complete
<1>. QED BY <1>1, <1>2 DEF ConditionMatched, Unconditional

LEMMA DeadStep ==
    WalkInv /\ ServedInv /\ DeadInv /\ [Next]_vars => DeadInv'
<1>. SUFFICES ASSUME WalkInv, ServedInv, DeadInv, [Next]_vars PROVE DeadInv'
  OBVIOUS
<1>1. CASE Follow
  <2>1. phase = "route" /\ Selected # NoEdge /\ via' = Selected /\ graph' = graph
    BY <1>1 DEF Follow
  <2>2. graph.edges[Selected].from = node
    BY <2>1, FollowedIs
  <2>3. SUFFICES ASSUME Dispatched(graph.at[node]) = "conditional",
                        MatchesFail(graph.edges[Selected])
                 PROVE  FALSE
    BY <2>1, <2>2 DEF DeadInv
  <2>4. outcome.label = "" /\ outcome.status = "success"
    BY <2>1, <2>3 DEF ServedInv
  <2>. DEFINE cond == graph.edges[Selected].cond
  <2>5. \/ Clause("outcome", "=", "fail") \in cond
        \/ Clause("outcome", "=", "error") \in cond
        \/ Clause("outcome", "!=", "success") \in cond
    BY <2>3, Zenon DEF MatchesFail, FailClauses
  <2>6. EvaluateCondition(cond, outcome, Context)
    BY <2>1, <2>5, TakenIs
  <2>. HIDE DEF cond
  <2>. QED BY <2>4, <2>5, <2>6, ClauseIs
<1>2. CASE RetryGate
  BY <1>2 DEF RetryGate, DeadInv
<1>3. CASE Admit \/ Execute \/ Undispatched \/ NoMatch \/ Finish \/ UNCHANGED vars
  <2>1. UNCHANGED <<graph, via>>
    BY <1>3 DEF Admit, Execute, Undispatched, NoMatch, Finish, vars
  <2>. QED BY <2>1 DEF DeadInv
<1>. QED BY <1>1, <1>2, <1>3 DEF Next

LEMMA DeadEdges == WalkInv /\ DeadInv => DeadEdgesStayDead
<1>. SUFFICES ASSUME WalkInv, DeadInv, via # NoEdge,
                     FlaggedEdge("dead_conditional_edge", via)
              PROVE  Dispatched(graph.at[graph.edges[via].from]) # "conditional"
  BY DEF DeadEdgesStayDead
<1>1. PICK d \in diags : d.rule = "dead_conditional_edge" /\ d.edge = via
  BY DEF FlaggedEdge
<1>2. diags = Lint(graph)
  BY DEF WalkInv, Walking
<1>3. d \in DeadConditionalEdge(graph)
  BY <1>1, <1>2, RuleIs
<1>4. \E i \in DOMAIN graph.edges :
        /\ d = Diag("dead_conditional_edge", "ERROR", graph.edges[i].from, i)
        /\ MatchesFail(graph.edges[i])
  BY <1>3, Zenon DEF DeadConditionalEdge
<1>5. MatchesFail(graph.edges[via])
  BY <1>1, <1>4 DEF Diag
<1>. QED BY <1>5 DEF DeadInv

\* The edge that is followed is one of the node's.
LEMMA FollowStep ==
    ASSUME WalkInv, Follow
    PROVE  /\ phase = "route" /\ Selected # NoEdge /\ via' = Selected
           /\ Selected \in DOMAIN graph.edges /\ Selected \in Outgoing(graph.edges, node)
           /\ graph.edges[Selected].from = node
           /\ node \in Ids(graph) \ Exits(graph) /\ diags = Lint(graph)
           /\ UNCHANGED <<graph, diags, outcome, last_line, masked>>
<1>1. /\ phase = "route" /\ Selected # NoEdge /\ via' = Selected
      /\ UNCHANGED <<graph, diags, outcome, last_line, masked>>
  BY DEF Follow
<1>. QED BY <1>1, FollowedIs DEF WalkInv, Walking

LEMMA StaleStep ==
    /\ WalkInv /\ ServedInv /\ [Next]_vars /\ StaleRoutesWereFlagged
    => StaleRoutesWereFlagged'
<1>. SUFFICES ASSUME WalkInv, ServedInv, [Next]_vars, StaleRoutesWereFlagged
              PROVE  StaleRoutesWereFlagged'
  OBVIOUS
<1>1. CASE Follow
  <2>. DEFINE e == graph.edges[Selected]
              fails == {Clause("outcome", "=", "fail"), Clause("outcome", "!=", "success")}
  <2>1. /\ phase = "route" /\ Selected # NoEdge /\ via' = Selected
        /\ Selected \in DOMAIN graph.edges /\ e.from = node
        /\ node \in Ids(graph) \ Exits(graph) /\ diags = Lint(graph)
        /\ UNCHANGED <<graph, diags, outcome>>
    BY <1>1, FollowStep
  <2>2. SUFFICES ASSUME Dispatched(graph.at[node]) = "tool", outcome.status = "fail",
                        IsTool(graph.at[node]), ~IsStart(graph, node), ReadsLastLine(e),
                        \E f \in EdgesOut(graph, node) : f.cond \cap fails # {}
                 PROVE  FlaggedEdge("stale_label_collision", Selected)
    BY <2>1 DEF StaleRoutesWereFlagged, FlaggedEdge
  <2>3. outcome.label = ""
    BY <2>1, <2>2 DEF ServedInv
  <2>4. EvaluateCondition(e.cond, outcome, Context)
    BY <2>1, <2>2, TakenIs DEF ReadsLastLine
  <2>5. Clause("outcome", "=", "success") \notin e.cond
    BY <2>2, <2>3, <2>4, ClauseIs
  <2>6. node \in Inner(graph)
    BY <2>1, <2>2 DEF Inner, Exits
  <2>7. Diag("stale_label_collision", "WARNING", e.from, Selected)
            \in StaleLabelCollision(graph)
    BY <2>1, <2>2, <2>5, <2>6, Zenon DEF StaleLabelCollision
  <2>8. Diag("stale_label_collision", "WARNING", e.from, Selected) \in diags
    BY <2>1, <2>7, LintHas
  <2>. QED BY <2>8, DiagIs DEF FlaggedEdge
<1>2. CASE RetryGate
  BY <1>2 DEF RetryGate, StaleRoutesWereFlagged
<1>3. CASE Execute \/ Undispatched \/ NoMatch \/ Finish
  <2>1. phase' # "top"
    BY <1>3 DEF Execute, Undispatched, NoMatch, Finish
  <2>. QED BY <2>1 DEF StaleRoutesWereFlagged
<1>4. CASE Admit
  <2>1. via' = NoEdge
    BY <1>4 DEF Admit, WalkInv, Walking
  <2>. QED BY <2>1 DEF StaleRoutesWereFlagged
<1>5. CASE UNCHANGED vars
  BY <1>5 DEF vars, StaleRoutesWereFlagged, FlaggedEdge
<1>. QED BY <1>1, <1>2, <1>3, <1>4, <1>5 DEF Next

LEMMA ShadowedStep ==
    /\ WalkInv /\ [Next]_vars /\ ShadowedLabelsWereFlagged => ShadowedLabelsWereFlagged'
<1>. SUFFICES ASSUME WalkInv, [Next]_vars, ShadowedLabelsWereFlagged
              PROVE  ShadowedLabelsWereFlagged'
  OBVIOUS
<1>1. CASE Follow
  <2>. DEFINE e == graph.edges[Selected]
  <2>1. /\ phase = "route" /\ Selected # NoEdge /\ via' = Selected
        /\ Selected \in DOMAIN graph.edges /\ Selected \in Outgoing(graph.edges, node)
        /\ e.from = node /\ node \in Ids(graph) /\ diags = Lint(graph)
        /\ UNCHANGED <<graph, diags, outcome>>
    BY <1>1, FollowStep
  <2>2. SUFFICES ASSUME outcome.label \in Statuses,
                        NEW c \in e.cond, c.key = "outcome", c.value \in Statuses,
                        NEW f \in EdgesOut(graph, node),
                        ~f.conditional, f.label # "", Norm[f.label] = Norm[outcome.label]
                 PROVE  Flagged("outcome_label_shadowing", node)
    BY <2>1 DEF ShadowedLabelsWereFlagged, Flagged
  <2>3. c.op \in {"=", "!="}
    <3>1. c.op \in {"=", "!="} \/ c.value = ""
      BY <2>1, GraphIs DEF WalkInv
    <3>2. c.value # ""
      BY <2>2 DEF Statuses
    <3>. QED BY <3>1, <3>2
  <2>4. e \in StatusWordEdges(graph, node)
    BY <2>1, <2>2, <2>3 DEF StatusWordEdges, EdgesOut
  <2>5. f \in StatusWordLabels(graph, node)
    BY <2>2, NormAssumption DEF StatusWordLabels
  <2>6. Warning("outcome_label_shadowing", node) \in OutcomeLabelShadowing(graph)
    BY <2>1, <2>4, <2>5, Zenon DEF OutcomeLabelShadowing
  <2>7. Warning("outcome_label_shadowing", node) \in diags
    BY <2>1, <2>6, LintHas
  <2>. QED BY <2>7, DiagIs DEF Flagged
<1>2. CASE RetryGate
  BY <1>2 DEF RetryGate, ShadowedLabelsWereFlagged
<1>3. CASE Execute \/ Undispatched \/ NoMatch \/ Finish
  <2>1. phase' # "top"
    BY <1>3 DEF Execute, Undispatched, NoMatch, Finish
  <2>. QED BY <2>1 DEF ShadowedLabelsWereFlagged
<1>4. CASE Admit
  <2>1. via' = NoEdge
    BY <1>4 DEF Admit, WalkInv, Walking
  <2>. QED BY <2>1 DEF ShadowedLabelsWereFlagged
<1>5. CASE UNCHANGED vars
  BY <1>5 DEF vars, ShadowedLabelsWereFlagged, Flagged
<1>. QED BY <1>1, <1>2, <1>3, <1>4, <1>5 DEF Next

LEMMA RoutesInit == Init => RoutesInv
<1>. SUFFICES ASSUME Init PROVE RoutesInv
  OBVIOUS
<1>1. via = NoEdge /\ phase = "loaded"
  BY DEF Init
<1>. QED BY <1>1, WalkInit
         DEF RoutesInv, ServedInv, DeadInv, StaleRoutesWereFlagged, ShadowedLabelsWereFlagged

LEMMA RoutesStep == RoutesInv /\ [Next]_vars => RoutesInv'
BY WalkStep, ServedStep, DeadStep, StaleStep, ShadowedStep DEF RoutesInv

\* TOPO-001, TOPO-002 and TOPO-009 keep their word on every walk of every graph:
\* a dead edge is never followed, a failed tool is left by a stale line and a
\* shadowed label stepped over only where the rule spoke.
THEOREM RoutesFlagged == Spec => []RoutesWereFlagged
<1>1. RoutesInv => RoutesWereFlagged
  BY DeadEdges DEF RoutesInv, RoutesWereFlagged
<1>. QED BY <1>1, RoutesInit, RoutesStep, PTL DEF Spec

----------------------------------------------------------------------------
(* The failures                                                            *)

LEMMA Refused == WalkInv => RefusedNodesWereFlagged
<1>. SUFFICES ASSUME WalkInv, phase = "raised", ~IsStart(graph, node)
              PROVE  Flagged("type_known", node)
  BY DEF RefusedNodesWereFlagged
<1>. DEFINE a == graph.at[node]
<1>1. /\ graph \in Graphs /\ Errors(Validate(graph)) = {} /\ diags = Lint(graph)
      /\ node \in Ids(graph) \ Exits(graph) /\ Dispatched(a) = "none"
  BY DEF WalkInv, Walking
<1>2. "none" \notin KnownTypes
  BY DEF KnownTypes, Shapes, HandlerOf
<1>3. a.type \notin KnownTypes /\ a.node_type \notin KnownTypes
  BY <1>1, <1>2 DEF Dispatched
<1>4. a.shape \notin Shapes
  <2>1. \A s \in Shapes : HandlerOf[s] # "none"
    BY DEF Shapes, HandlerOf
  <2>. QED BY <1>1, <1>3, <2>1 DEF Dispatched
<1>5. ~IsExit(graph, node)
  BY <1>1 DEF Exits
<1>6. a.type # ""
  <2>1. ShapeResolvable(graph) = {}
    BY <1>1, Passed
  <2>. QED BY <1>1, <1>4, <1>5, <2>1, Zenon DEF ShapeResolvable
<1>7. Warning("type_known", node) \in TypeKnown(graph)
  BY <1>1, <1>3, <1>6 DEF TypeKnown
<1>8. Warning("type_known", node) \in diags
  BY <1>1, <1>7, LintHas
<1>. QED BY <1>8, DiagIs DEF Flagged

\* What a tool reported is what sh made of its command.
MaskInv ==
    /\ phase = "route" /\ Dispatched(graph.at[node]) = "tool" /\ outcome.status = "success"
    => /\ graph.at[node].command # <<>>
       /\ \E passes \in BOOLEAN :
             LET r == Shell(graph.at[node].command, passes)
             IN  r.ok /\ masked = r.failed /\ last_line = r.line

LEMMA MaskStep == WalkInv /\ MaskInv /\ [Next]_vars => MaskInv'
<1>. SUFFICES ASSUME WalkInv, MaskInv, [Next]_vars PROVE MaskInv'
  OBVIOUS
<1>1. CASE Execute
  <2>1. /\ Handle(Dispatched(graph.at[node])) /\ UNCHANGED <<graph, node>>
    BY <1>1 DEF Execute
  <2>2. SUFFICES ASSUME Dispatched(graph.at[node]) = "tool", outcome'.status = "success"
                 PROVE  /\ graph.at[node].command # <<>>
                        /\ \E passes \in BOOLEAN :
                              LET r == Shell(graph.at[node].command, passes)
                              IN  r.ok /\ masked' = r.failed /\ last_line' = r.line
    BY <2>1 DEF MaskInv
  <2>3. ~NoVerdict
    <3>1. NoVerdict => outcome' = Plain("fail", FALSE)
      BY Zenon DEF NoVerdict
    <3>2. Plain("fail", FALSE).status = "fail"
      BY DEF Plain
    <3>. QED BY <2>2, <3>1, <3>2
  <2>4. graph.at[node].command # <<>> /\ \E passes \in BOOLEAN : RunTool(passes)
    <3>1. Handle("tool")
      BY <2>1, <2>2
    <3>2. "tool" \notin {"codergen", "wait.human", "start", "conditional"}
      OBVIOUS
    <3>. QED BY <3>1, <3>2, <2>3, Zenon DEF Handle
  <2>5. PICK passes \in BOOLEAN : RunTool(passes)
    BY <2>4
  <2>. DEFINE r == Shell(graph.at[node].command, passes)
  <2>6. /\ outcome' = Plain(IF r.ok THEN "success" ELSE "fail", TRUE)
        /\ last_line' = (IF r.ok THEN r.line ELSE last_line)
        /\ masked' = r.failed
    BY <2>5, Zenon DEF RunTool
  <2>. HIDE DEF r
  <2>7. r.ok
    BY <2>2, <2>6 DEF Plain
  <2>. QED BY <2>4, <2>6, <2>7 DEF r
<1>2. CASE Admit \/ Undispatched \/ Follow \/ NoMatch \/ RetryGate \/ Finish
  <2>1. phase' # "route"
    BY <1>2 DEF Admit, Undispatched, Follow, NoMatch, RetryGate, Finish
  <2>. QED BY <2>1 DEF MaskInv
<1>3. CASE UNCHANGED vars
  BY <1>3 DEF vars, MaskInv
<1>. QED BY <1>1, <1>2, <1>3 DEF Next

LEMMA Masked == WalkInv /\ MaskInv => MaskedChecksWereFlagged
<1>. SUFFICES ASSUME WalkInv, MaskInv, phase = "route",
                     Dispatched(graph.at[node]) = "tool", IsTool(graph.at[node]),
                     outcome.status = "success", masked, last_line # "no",
                     Last(Final(graph.at[node].command).stages) # "emit"
              PROVE  Flagged("CMD-001", node)
  BY DEF MaskedChecksWereFlagged
<1>. DEFINE command == graph.at[node].command
            last    == Final(command)
            stages  == last.stages
<1>1. graph \in Graphs /\ node \in Ids(graph) /\ diags = Lint(graph)
  BY DEF WalkInv, Walking
<1>2. command # <<>>
  BY DEF MaskInv
<1>3. stages \in Seq({"check", "filter", "emit"}) \ {<<>>}
  BY <1>1, <1>2, GraphsAssumption
<1>. DEFINE failed(passes) == {k \in DOMAIN stages : stages[k] = "check" /\ ~passes}
            ok(passes) == IF HasPipefail(command) THEN failed(passes) = {}
                          ELSE Len(stages) \notin failed(passes)
            line(passes) == CASE ok(passes) /\ last.echo -> "yes"
                              [] ~ok(passes) /\ last.or_else -> "no"
                              [] OTHER -> "text"
<1>4. PICK passes \in BOOLEAN :
        /\ Shell(command, passes).ok /\ masked = Shell(command, passes).failed
        /\ last_line = Shell(command, passes).line
  BY DEF MaskInv
<1>5. Shell(command, passes) = [ok |-> ok(passes) \/ last.or_else,
                                failed |-> failed(passes) # {}, line |-> line(passes)]
  BY Zenon DEF Shell
<1>. HIDE DEF ok, failed, command, last, stages, line
<1>6. (ok(passes) \/ last.or_else) /\ failed(passes) # {} /\ last_line = line(passes)
  <2>1. /\ Shell(command, passes).ok = (ok(passes) \/ last.or_else)
        /\ Shell(command, passes).failed = (failed(passes) # {})
        /\ Shell(command, passes).line = line(passes)
    <3>. DEFINE a == ok(passes) \/ last.or_else
                b == failed(passes) # {}
    <3>. HIDE DEF a, b
    <3>1. Shell(command, passes) = [ok |-> a, failed |-> b, line |-> line(passes)]
      BY <1>5 DEF a, b
    <3>2. /\ Shell(command, passes).ok = a
          /\ Shell(command, passes).failed = b
          /\ Shell(command, passes).line = line(passes)
      BY <3>1
    <3>. QED BY <3>2, Zenon DEF a, b
  <2>2. Shell(command, passes).failed
    BY <1>4, Zenon
  <2>. QED BY <1>4, <2>1, <2>2
<1>7. ok(passes)
  BY <1>6 DEF line
<1>8. ~HasPipefail(command) /\ Len(stages) \notin failed(passes)
  BY <1>6, <1>7 DEF ok
<1>9. PICK k \in DOMAIN stages : stages[k] = "check" /\ ~passes
  BY <1>6 DEF failed
<1>10. /\ Len(stages) \in Nat /\ DOMAIN stages = 1..Len(stages)
       /\ \A j \in 1..Len(stages) : stages[j] \in {"check", "filter", "emit"}
  BY <1>3, SeqIs
<1>11. Len(stages) \in DOMAIN stages /\ Len(stages) > 1 /\ stages[Len(stages)] # "check"
  BY <1>8, <1>9, <1>10 DEF failed
<1>12. stages[Len(stages)] = "filter"
  BY <1>10, <1>11 DEF Last, stages, last, command
<1>13. PipeMasked(command)
  BY <1>2, <1>8, <1>11, <1>12 DEF PipeMasked, stages, last
<1>14. Warning("CMD-001", node) \in PipeMaskedExitCode(graph)
  BY <1>1, <1>13, Zenon DEF PipeMaskedExitCode, command
<1>15. Warning("CMD-001", node) \in diags
  BY <1>1, <1>14, LintHas
<1>. QED BY <1>15, DiagIs DEF Flagged

\* The search of TOPO-006, behind an edge into first.
Plainly(g, n) == {e.to : e \in {f \in EdgesOut(g, n) : ~f.conditional}}

Silently(g) ==
    [s \in Ids(g) \X BOOLEAN |->
        IF Regates(g, s[1]) THEN {}
        ELSE {<<m, s[2] \/ Unmarked(g, m)>> : m \in (Plainly(g, s[1]) \cap Ids(g)) \ Exits(g)}]

LEMMA PassesIs ==
    ASSUME NEW g, NEW first
    PROVE  PassesSilently(g, first) =
              \E s \in Reach(Silently(g), {<<first, Unmarked(g, first)>>}) :
                 s[2] /\ ~Regates(g, s[1]) /\ Plainly(g, s[1]) \cap Exits(g) # {}
BY Zenon DEF PassesSilently, Silently, Plainly

LEMMA SilentlyIs ==
    ASSUME NEW g \in Graphs
    PROVE  IsSucc(Silently(g)) /\ DOMAIN Silently(g) = Ids(g) \X BOOLEAN
<1>1. DOMAIN Silently(g) = Ids(g) \X BOOLEAN
  BY Zenon DEF Silently
<1>2. IsFiniteSet(Ids(g) \X BOOLEAN)
  <2>1. IsFiniteSet(BOOLEAN)
    <3>1. IsFiniteSet({TRUE}) /\ IsFiniteSet({FALSE})
      BY FS_Singleton
    <3>2. BOOLEAN = {TRUE} \cup {FALSE}
      OBVIOUS
    <3>. QED BY <3>1, <3>2, FS_Union
  <2>. QED BY <2>1, GraphIs, FS_Product
<1>3. ASSUME NEW s \in Ids(g) \X BOOLEAN PROVE Silently(g)[s] \subseteq Ids(g) \X BOOLEAN
  <2>. DEFINE next == {<<m, s[2] \/ Unmarked(g, m)>> :
                          m \in (Plainly(g, s[1]) \cap Ids(g)) \ Exits(g)}
  <2>1. Silently(g)[s] = IF Regates(g, s[1]) THEN {} ELSE next
    BY Zenon DEF Silently
  <2>2. ASSUME NEW x \in next PROVE x \in Ids(g) \X BOOLEAN
    <3>1. PICK m \in Ids(g) : x = <<m, s[2] \/ Unmarked(g, m)>>
      OBVIOUS
    <3>2. (s[2] \/ Unmarked(g, m)) \in BOOLEAN
      OBVIOUS
    <3>. QED BY <3>1, <3>2, Zenon
  <2>. HIDE DEF next
  <2>. QED BY <2>1, <2>2
<1>. QED BY <1>1, <1>2, <1>3 DEF IsSucc

\* The hexagons are human gates, and no node is marked as running on a failure.
Minded(g) ==
    /\ \A n \in Ids(g) : g.at[n].shape = "hexagon" => Dispatched(g.at[n]) = "wait.human"
    /\ \A n \in Ids(g) : Unmarked(g, n)

\* A failure nothing has looked at came along an edge behind which TOPO-006's
\* search is still on the run's heels, or has seen it reach the exit.
Tracked ==
    \E i \in DOMAIN graph.edges :
        LET e == graph.edges[i]
        IN  /\ e.from \in Ids(graph) \ Exits(graph) /\ MatchesFail(e)
            /\ \/ node \in Exits(graph) /\ e.to \in Exits(graph)
               \/ /\ node \in Exits(graph) /\ e.to \in Ids(graph) \ Exits(graph)
                  /\ PassesSilently(graph, e.to)
               \/ /\ node \notin Exits(graph) /\ e.to \in Ids(graph) \ Exits(graph)
                  /\ <<node, TRUE>> \in Reach(Silently(graph), {<<e.to, TRUE>>})

SilentInv ==
    /\ phase \in {"loaded", "refused"} => ~unseen
    /\ phase \in {"top", "route"} /\ unseen /\ Minded(graph) =>
          Tracked /\ (phase = "route" => ~IsHumanGate(graph.at[node]))

LEMMA SilentFollow ==
    ASSUME WalkInv, SilentInv, Follow, unseen', Minded(graph)
    PROVE  Tracked'
<1>. DEFINE e == graph.edges[Selected]
            seen(m) == Reach(Silently(graph), {<<m, TRUE>>})
<1>1. /\ phase = "route" /\ Selected # NoEdge /\ Selected \in DOMAIN graph.edges
      /\ Selected \in Outgoing(graph.edges, node)
      /\ e.from = node /\ e.to \in Ids(graph)
      /\ node \in Ids(graph) \ Exits(graph) /\ graph \in Graphs
  <2>1. phase = "route" /\ Selected # NoEdge
    BY DEF Follow
  <2>. QED BY <2>1, FollowStep, FollowedIs DEF WalkInv
<1>2. /\ node' = e.to /\ graph' = graph
      /\ unseen' = (MatchesFail(e) \/ (unseen /\ ~e.conditional))
  BY Zenon DEF Follow
<1>3. IsSucc(Silently(graph)) /\ DOMAIN Silently(graph) = Ids(graph) \X BOOLEAN
  BY <1>1, SilentlyIs
<1>4. ASSUME NEW m \in Ids(graph)
      PROVE  <<m, TRUE>> \in seen(m) /\ Closed(Silently(graph), seen(m))
             /\ seen(m) \subseteq Ids(graph) \X BOOLEAN
  <2>1. {<<m, TRUE>>} \subseteq DOMAIN Silently(graph)
    BY <1>3
  <2>. QED BY <1>3, <2>1, ReachIs
<1>5. CASE MatchesFail(e)
  <2>1. CASE e.to \in Exits(graph)
    BY <1>1, <1>2, <1>5, <2>1 DEF Tracked
  <2>2. CASE e.to \notin Exits(graph)
    <3>1. <<e.to, TRUE>> \in seen(e.to)
      BY <1>1, <1>4
    <3>. QED BY <1>1, <1>2, <1>5, <2>2, <3>1 DEF Tracked
  <2>. QED BY <2>1, <2>2
<1>6. CASE ~MatchesFail(e)
  <2>1. unseen /\ ~e.conditional
    BY <1>2, <1>6
  <2>2. Tracked /\ ~IsHumanGate(graph.at[node])
    BY <1>1, <2>1 DEF SilentInv
  <2>3. PICK i \in DOMAIN graph.edges :
          /\ graph.edges[i].from \in Ids(graph) \ Exits(graph) /\ MatchesFail(graph.edges[i])
          /\ graph.edges[i].to \in Ids(graph) \ Exits(graph)
          /\ <<node, TRUE>> \in seen(graph.edges[i].to)
    BY <1>1, <2>2 DEF Tracked
  <2>. DEFINE first == graph.edges[i].to
  <2>4. e \in EdgesOut(graph, node)
    BY <1>1 DEF EdgesOut
  <2>5. ~Regates(graph, node) /\ e.to \in Plainly(graph, node)
    BY <2>1, <2>2, <2>4 DEF Regates, Plainly
  <2>6. Unmarked(graph, first)
    BY <2>3 DEF Minded
  <2>7. Unmarked(graph, first) = TRUE
    BY <2>6 DEF Unmarked
  <2>8. CASE e.to \in Exits(graph)
    <3>1. PassesSilently(graph, first)
      <4>1. \E s \in seen(first) :
               s[2] /\ ~Regates(graph, s[1]) /\ Plainly(graph, s[1]) \cap Exits(graph) # {}
        <5>1. <<node, TRUE>>[1] = node /\ <<node, TRUE>>[2] = TRUE
          OBVIOUS
        <5>. QED BY <2>3, <2>5, <2>8, <5>1
      <4>. QED BY <4>1, <2>7, PassesIs
    <3>. QED BY <1>1, <1>2, <2>3, <2>8, <3>1 DEF Tracked
  <2>9. CASE e.to \notin Exits(graph)
    <3>. DEFINE s == <<node, TRUE>>
                next == {<<m, s[2] \/ Unmarked(graph, m)>> :
                            m \in (Plainly(graph, s[1]) \cap Ids(graph)) \ Exits(graph)}
    <3>1. s \in Ids(graph) \X BOOLEAN /\ s[1] = node /\ s[2] = TRUE
      BY <1>1
    <3>2. Silently(graph)[s] = IF Regates(graph, s[1]) THEN {} ELSE next
      BY <3>1, Zenon DEF Silently
    <3>3. <<e.to, TRUE>> \in next
      BY <1>1, <2>5, <2>9, <3>1
    <3>. HIDE DEF next
    <3>4. <<e.to, TRUE>> \in Silently(graph)[s]
      BY <2>5, <3>1, <3>2, <3>3
    <3>5. <<e.to, TRUE>> \in seen(first)
      BY <1>4, <2>3, <3>4 DEF Closed
    <3>. QED BY <1>1, <1>2, <2>3, <2>9, <3>5 DEF Tracked
  <2>. QED BY <2>8, <2>9
<1>. QED BY <1>5, <1>6

\* What passes for a human gate is served by one.
LEMMA GateIs ==
    ASSUME NEW g, NEW n \in Ids(g), Minded(g), IsHumanGate(g.at[n])
    PROVE  Dispatched(g.at[n]) = "wait.human"
<1>1. CASE g.at[n].shape = "hexagon"
  BY <1>1 DEF Minded
<1>2. CASE g.at[n].type = "wait.human"
  <2>1. "wait.human" \in KnownTypes
    BY DEF KnownTypes, Shapes, HandlerOf
  <2>. QED BY <1>2, <2>1 DEF Dispatched
<1>. QED BY <1>1, <1>2 DEF IsHumanGate

LEMMA SilentStep == WalkInv /\ SilentInv /\ [Next]_vars => SilentInv'
<1>. SUFFICES ASSUME WalkInv, SilentInv, [Next]_vars PROVE SilentInv'
  OBVIOUS
<1>1. CASE Follow
  <2>1. phase' = "top" /\ graph' = graph
    BY <1>1 DEF Follow
  <2>2. Minded(graph)' => Minded(graph)
    BY <2>1 DEF Minded
  <2>. QED BY <1>1, <2>1, <2>2, SilentFollow DEF SilentInv
<1>2. CASE Execute
  <2>1. /\ phase = "top" /\ phase' = "route" /\ node \notin Exits(graph)
        /\ unseen' = (unseen /\ Dispatched(graph.at[node]) # "wait.human")
        /\ UNCHANGED <<graph, node>>
    BY <1>2 DEF Execute
  <2>2. SUFFICES ASSUME unseen', Minded(graph)
                 PROVE  Tracked' /\ ~IsHumanGate(graph.at[node])
    BY <2>1 DEF SilentInv, Minded
  <2>3. unseen /\ Dispatched(graph.at[node]) # "wait.human"
    BY <2>1, <2>2
  <2>4. Tracked
    BY <2>1, <2>2, <2>3 DEF SilentInv
  <2>5. ~IsHumanGate(graph.at[node])
    BY <2>1, <2>2, <2>3, GateIs DEF WalkInv, Walking
  <2>. QED BY <2>1, <2>4, <2>5 DEF Tracked
<1>3. CASE RetryGate
  <2>1. unseen' = FALSE
    BY <1>3 DEF RetryGate
  <2>. QED BY <2>1 DEF SilentInv
<1>4. CASE Admit
  <2>1. ~unseen'
    BY <1>4 DEF Admit, SilentInv
  <2>. QED BY <2>1 DEF SilentInv
<1>5. CASE Undispatched \/ NoMatch \/ Finish
  <2>1. phase' \in {"raised", "end"}
    BY <1>5 DEF Undispatched, NoMatch, Finish
  <2>. QED BY <2>1 DEF SilentInv
<1>6. CASE UNCHANGED vars
  BY <1>6 DEF vars, SilentInv, Tracked, Minded
<1>. QED BY <1>1, <1>2, <1>3, <1>4, <1>5, <1>6 DEF Next

LEMMA Silent == WalkInv /\ SilentInv => SilentFailuresWereFlagged
<1>. SUFFICES ASSUME WalkInv, SilentInv, phase = "top", node \in Exits(graph), unseen,
                     \A n \in Ids(graph) : graph.at[n].shape = "hexagon"
                                             => Dispatched(graph.at[n]) = "wait.human",
                     \A d \in diags : d.rule # "ATTR-LINT-001"
              PROVE  \E d \in diags : d.rule = "fail_routed_to_exit"
  BY DEF SilentFailuresWereFlagged
<1>1. diags = Lint(graph)
  BY DEF WalkInv, Walking
<1>2. ASSUME NEW n \in Ids(graph) PROVE Unmarked(graph, n)
  <2>1. Error("ATTR-LINT-001", n) \notin diags
    BY DiagIs
  <2>2. Error("ATTR-LINT-001", n) \notin RemovedExtensionAttrs(graph)
    BY <1>1, <2>1, LintHas
  <2>3. graph.at[n].runs_on # "success"
          => Error("ATTR-LINT-001", n) \in RemovedExtensionAttrs(graph)
    BY Zenon DEF RemovedExtensionAttrs
  <2>. QED BY <2>2, <2>3 DEF Unmarked
<1>3. Tracked
  BY <1>2 DEF SilentInv, Minded
<1>4. PICK i \in DOMAIN graph.edges :
        LET e == graph.edges[i]
        IN  /\ e.from \in Ids(graph) \ Exits(graph) /\ MatchesFail(e)
            /\ \/ e.to \in Exits(graph)
               \/ e.to \in Ids(graph) \ Exits(graph) /\ PassesSilently(graph, e.to)
  BY <1>3 DEF Tracked
<1>5. Diag("fail_routed_to_exit", "WARNING", graph.edges[i].from, i)
        \in FailRoutedToExit(graph)
  BY <1>4, Zenon DEF FailRoutedToExit
<1>6. Diag("fail_routed_to_exit", "WARNING", graph.edges[i].from, i) \in diags
  BY <1>1, <1>5, LintHas
<1>. QED BY <1>6, DiagIs

FailuresInv == WalkInv /\ MaskInv /\ SilentInv

LEMMA FailuresInit == Init => FailuresInv
<1>. SUFFICES ASSUME Init PROVE FailuresInv
  OBVIOUS
<1>1. phase = "loaded" /\ unseen = FALSE
  BY DEF Init
<1>. QED BY <1>1, WalkInit DEF FailuresInv, MaskInv, SilentInv

LEMMA FailuresStep == FailuresInv /\ [Next]_vars => FailuresInv'
BY WalkStep, MaskStep, SilentStep DEF FailuresInv

\* SHAPE-001, type_known, TOPO-006 and CMD-001 keep their word on every walk of
\* every graph: a refused node, a failure that leaves by the exit, and a failed
\* check a tool does not report, were spoken of.
THEOREM FailuresFlagged == Spec => []FailuresWereFlagged
<1>1. FailuresInv => FailuresWereFlagged
  BY Refused, Masked, Silent DEF FailuresInv, FailuresWereFlagged
<1>. QED BY <1>1, FailuresInit, FailuresStep, PTL DEF Spec

----------------------------------------------------------------------------
(* The budget of a gate                                                    *)

LEMMA ProjectedIs ==
    ASSUME NEW g \in Graphs
    PROVE  IsSucc(Projected(g)) /\ DOMAIN Projected(g) = Ids(g)
BY GraphIs DEF Projected, IsSucc

\* Short of a restart and of a failure, a run that went back walks what TOPO-007
\* searches.
BudgetInv ==
    /\ phase = "loaded" => gate_retries = 0
    /\ phase \in {"top", "route"} /\ gate_retries > 0 /\ ~routed =>
          retried \in Ids(graph) /\ node \in Reach(Projected(graph), {retried})

LEMMA BudgetStep == WalkInv /\ BudgetInv /\ [Next]_vars => BudgetInv'
<1>. SUFFICES ASSUME WalkInv, BudgetInv, [Next]_vars PROVE BudgetInv'
  OBVIOUS
<1>1. CASE Follow
  <2>. DEFINE e == graph.edges[Selected]
  <2>1. /\ phase = "route" /\ phase' = "top" /\ node' = e.to
        /\ gate_retries' = (IF e.restart THEN 0 ELSE gate_retries)
        /\ routed' = (routed \/ MatchesFail(e))
        /\ UNCHANGED <<graph, retried>> /\ Selected # NoEdge
    BY <1>1, Zenon DEF Follow
  <2>2. SUFFICES ASSUME gate_retries' > 0, ~routed'
                 PROVE  retried \in Ids(graph)
                        /\ e.to \in Reach(Projected(graph), {retried})
    BY <2>1 DEF BudgetInv
  <2>3. ~e.restart /\ gate_retries > 0 /\ ~routed /\ ~MatchesFail(e)
    <3>1. ~routed /\ ~MatchesFail(e)
      BY <2>1, <2>2, Zenon
    <3>2. ~e.restart /\ gate_retries' = gate_retries
      BY <2>1, <2>2
    <3>. QED BY <2>2, <3>1, <3>2
  <2>4. retried \in Ids(graph) /\ node \in Reach(Projected(graph), {retried})
    BY <2>1, <2>3 DEF BudgetInv
  <2>5. /\ e \in EdgesOut(graph, node) /\ e.to \in Ids(graph) /\ node \in Ids(graph)
        /\ graph \in Graphs
    BY <2>1, FollowedIs DEF EdgesOut, WalkInv, Walking
  <2>6. e.to \in Projected(graph)[node]
    BY <2>3, <2>5 DEF Projected
  <2>7. Closed(Projected(graph), Reach(Projected(graph), {retried}))
    BY <2>4, <2>5, ProjectedIs, ReachIs
  <2>. QED BY <2>4, <2>6, <2>7 DEF Closed
<1>2. CASE RetryGate
  <2>1. /\ graph' = graph /\ retried' = RetryFrom /\ node' = RetryFrom /\ RetryFrom # ""
        /\ phase' = "top"
    BY <1>2 DEF RetryGate
  <2>2. RetryFrom \in Ids(graph)
    BY <2>1, RetryFromIs
  <2>3. {RetryFrom} \subseteq Reach(Projected(graph), {RetryFrom})
    BY <2>2, ProjectedIs, ReachIs DEF WalkInv
  <2>. QED BY <2>1, <2>2, <2>3 DEF BudgetInv
<1>3. CASE Execute
  BY <1>3 DEF Execute, BudgetInv
<1>4. CASE Admit
  <2>1. gate_retries' = gate_retries /\ gate_retries = 0 /\ phase' # "loaded"
    BY <1>4 DEF Admit, BudgetInv
  <2>. QED BY <2>1 DEF BudgetInv
<1>5. CASE Undispatched \/ NoMatch \/ Finish
  <2>1. phase' \in {"raised", "end"}
    BY <1>5 DEF Undispatched, NoMatch, Finish
  <2>. QED BY <2>1 DEF BudgetInv
<1>6. CASE UNCHANGED vars
  BY <1>6 DEF vars, BudgetInv
<1>. QED BY <1>1, <1>2, <1>3, <1>4, <1>5, <1>6 DEF Next

BudgetsInv == WalkInv /\ BudgetInv

LEMMA BudgetsInit == Init => BudgetsInv
<1>. SUFFICES ASSUME Init PROVE BudgetsInv
  OBVIOUS
<1>1. gate_retries = 0
  BY DEF Init
<1>. QED BY <1>1, WalkInit DEF BudgetsInv, BudgetInv

LEMMA BudgetsStep == BudgetsInv /\ [Next]_vars => BudgetsInv'
BY WalkStep, BudgetStep DEF BudgetsInv

\* What a step that counts a retry finds: the walk is at an exit.
LEMMA RetriesOnly ==
    ASSUME WalkInv, [Next]_vars, gate_retries' > gate_retries
    PROVE  RetryGate
<1>1. CASE Follow
  <2>1. gate_retries' = 0 \/ gate_retries' = gate_retries
    BY <1>1 DEF Follow
  <2>. QED BY <2>1 DEF WalkInv
<1>2. CASE Admit \/ Execute \/ Undispatched \/ NoMatch \/ Finish \/ UNCHANGED vars
  <2>1. gate_retries' = gate_retries
    BY <1>2 DEF Admit, Execute, Undispatched, NoMatch, Finish, vars
  <2>. QED BY <2>1 DEF WalkInv
<1>. QED BY <1>1, <1>2 DEF Next

LEMMA BudgetDead ==
    ASSUME BudgetsInv, [Next]_vars, gate_retries' > gate_retries, gate_retries > 0, ~routed,
           NEW n \in Gates(graph), EffectiveRetryTarget(graph, n) = retried
    PROVE  ~Flagged("gate_retry_budget_dead", n)
<1>1. RetryGate
  BY RetriesOnly DEF BudgetsInv
<1>2. phase = "top" /\ node \in Exits(graph)
  BY <1>1 DEF RetryGate
<1>3. node \in Reach(Projected(graph), {retried}) /\ diags = Lint(graph)
  BY <1>2 DEF BudgetsInv, BudgetInv, WalkInv, Walking
<1>4. SUFFICES ASSUME NEW d \in diags, d.rule = "gate_retry_budget_dead", d.node = n
               PROVE  FALSE
  BY DEF Flagged
<1>5. d \in GateRetryBudgetDead(graph)
  BY <1>3, <1>4, RuleIs
<1>6. \E m \in Ids(graph) :
        /\ d = Warning("gate_retry_budget_dead", m)
        /\ Reach(Projected(graph), {EffectiveRetryTarget(graph, m)}) \cap Exits(graph) = {}
  BY <1>5, Zenon DEF GateRetryBudgetDead
<1>7. Reach(Projected(graph), {EffectiveRetryTarget(graph, n)}) \cap Exits(graph) = {}
  <2>1. PICK m \in Ids(graph) :
          /\ d = Warning("gate_retry_budget_dead", m)
          /\ Reach(Projected(graph), {EffectiveRetryTarget(graph, m)}) \cap Exits(graph) = {}
    BY <1>6
  <2>2. d.node = m
    BY <2>1, DiagIs
  <2>. QED BY <1>4, <2>1, <2>2
<1>. QED BY <1>2, <1>3, <1>7

\* TOPO-007 keeps its word on every walk of every graph: a budget that is said to
\* be dead is used once, unless a failure is routed on the way.
THEOREM BudgetsStayDead == Spec => DeadBudgetsStayDead
<1>1. BudgetsInv /\ [Next]_vars =>
        [ gate_retries' > gate_retries /\ gate_retries > 0
          => \/ routed
             \/ \A n \in Gates(graph) : EffectiveRetryTarget(graph, n) = retried
                   => ~Flagged("gate_retry_budget_dead", n) ]_vars
  BY BudgetDead
<1>. QED BY <1>1, BudgetsInit, BudgetsStep, PTL DEF Spec, DeadBudgetsStayDead

----------------------------------------------------------------------------
(* The depth-first search                                                  *)

LEMMA ToSetIs ==
    ASSUME NEW S, NEW s \in Seq(S)
    PROVE  ToSet(s) = {s[i] : i \in 1..Len(s)} /\ ToSet(s) \subseteq S
<1>1. DOMAIN s = 1..Len(s) /\ \A i \in 1..Len(s) : s[i] \in S
  BY SeqIs
<1>2. ToSet(s) = {s[i] : i \in 1..Len(s)}
  BY <1>1, Zenon DEF ToSet
<1>. QED BY <1>1, <1>2

LEMMA AppendIs ==
    ASSUME NEW S, NEW s \in Seq(S), NEW x \in S
    PROVE  /\ Append(s, x) \in Seq(S) /\ Len(Append(s, x)) = Len(s) + 1 /\ Len(s) \in Nat
           /\ \A i \in 1..Len(s) : Append(s, x)[i] = s[i]
           /\ Append(s, x)[Len(s) + 1] = x
           /\ ToSet(Append(s, x)) = ToSet(s) \cup {x}
<1>. DEFINE t == Append(s, x)
<1>1. /\ t \in Seq(S) /\ Len(t) = Len(s) + 1 /\ Len(s) \in Nat
      /\ \A i \in 1..Len(s) : t[i] = s[i]
      /\ t[Len(s) + 1] = x
  OBVIOUS
<1>. HIDE DEF t
<1>2. ToSet(t) = {t[i] : i \in 1..Len(t)} /\ ToSet(s) = {s[i] : i \in 1..Len(s)}
  BY <1>1, ToSetIs
<1>3. ToSet(t) = ToSet(s) \cup {x}
  <2>1. 1..Len(t) = 1..Len(s) \cup {Len(s) + 1}
    BY <1>1
  <2>. QED BY <1>1, <1>2, <2>1
<1>. QED BY <1>1, <1>3 DEF t

LEMMA FrontIs ==
    ASSUME NEW S, NEW s \in Seq(S), s # <<>>
    PROVE  /\ Len(s) \in Nat \ {0} /\ Last(s) = s[Len(s)] /\ Last(s) \in S
           /\ Front(s) \in Seq(S) /\ Len(Front(s)) = Len(s) - 1
           /\ \A i \in 1..(Len(s) - 1) : Front(s)[i] = s[i]
           /\ ToSet(s) = ToSet(Front(s)) \cup {Last(s)}
<1>. DEFINE t == Front(s)
<1>1. Len(s) \in Nat \ {0} /\ Last(s) = s[Len(s)] /\ Last(s) \in S
  BY DEF Last
<1>2. t \in Seq(S) /\ Len(t) = Len(s) - 1 /\ \A i \in 1..(Len(s) - 1) : t[i] = s[i]
  <2>1. Len(s) - 1 \in Int /\ \A i \in 1..(Len(s) - 1) : s[i] \in S
    BY <1>1
  <2>2. /\ t \in Seq(S) /\ Len(t) = IF 1 <= Len(s) - 1 THEN (Len(s) - 1) - 1 + 1 ELSE 0
        /\ \A i \in 1..((Len(s) - 1) - 1 + 1) : t[i] = s[1 + i - 1]
    BY <2>1, SubSeqProperties DEF Front
  <2>. HIDE DEF t
  <2>3. Len(t) = Len(s) - 1
    <3>1. \A n \in Nat \ {0} : (IF 1 <= n - 1 THEN (n - 1) - 1 + 1 ELSE 0) = n - 1
      OBVIOUS
    <3>. QED BY <1>1, <2>2, <3>1, Zenon
  <2>4. ASSUME NEW i \in 1..(Len(s) - 1) PROVE t[i] = s[i]
    <3>1. i \in 1..((Len(s) - 1) - 1 + 1) /\ 1 + i - 1 = i
      BY <1>1
    <3>2. t[i] = s[1 + i - 1]
      BY <2>2, <3>1
    <3>. QED BY <3>1, <3>2, Zenon
  <2>. QED BY <2>2, <2>3, <2>4
<1>. HIDE DEF t
<1>3. ToSet(t) = {t[i] : i \in 1..Len(t)} /\ ToSet(s) = {s[i] : i \in 1..Len(s)}
  BY <1>2, ToSetIs
<1>4. ToSet(s) = ToSet(t) \cup {Last(s)}
  <2>1. 1..Len(s) = 1..Len(t) \cup {Len(s)}
    BY <1>1, <1>2
  <2>2. \A i \in 1..Len(t) : t[i] = s[i]
    BY <1>2
  <2>. QED BY <1>1, <1>3, <2>1, <2>2
<1>. QED BY <1>1, <1>2, <1>4 DEF t

Begun(g) ==
    [path |-> <<>>, visited |-> {}, left |-> Inside(g), back |-> {}, order |-> <<>>]

IsDescents(f, g, n) ==
    f = [k \in 0..n |-> IF k = 0 THEN Begun(g) ELSE Descend(g, f[k - 1])]

LEMMA DescentsExist ==
    ASSUME NEW g, NEW most \in Nat
    PROVE  \E f : IsDescents(f, g, most)
<1>. DEFINE N == {n \in Nat : \E f : IsDescents(f, g, n)}
<1>1. 0 \in N
  <2>. DEFINE f == [i \in 0..0 |-> Begun(g)]
  <2>1. IsDescents(f, g, 0)
    BY DEF IsDescents
  <2>. QED BY <2>1
<1>2. ASSUME NEW n \in Nat, n \in N PROVE n + 1 \in N
  <2>1. PICK f : IsDescents(f, g, n)
    BY <1>2
  <2>. DEFINE h == [i \in 0..(n + 1) |-> IF i = n + 1 THEN Descend(g, f[n]) ELSE f[i]]
  <2>2. \A i \in 0..n : f[i] = IF i = 0 THEN Begun(g) ELSE Descend(g, f[i - 1])
    BY <2>1, Zenon DEF IsDescents
  <2>3. \A i \in 0..n : i \in 0..(n + 1) /\ i # n + 1 /\ h[i] = f[i]
    OBVIOUS
  <2>4. ASSUME NEW i \in 0..(n + 1)
        PROVE  h[i] = IF i = 0 THEN Begun(g) ELSE Descend(g, h[i - 1])
    <3>1. CASE i = n + 1
      <4>1. i # 0 /\ i - 1 = n /\ n \in 0..n /\ h[i] = Descend(g, f[n])
        BY <3>1
      <4>. HIDE DEF h
      <4>. QED BY <2>3, <4>1
    <3>2. CASE i # n + 1
      <4>1. i \in 0..n /\ (i # 0 => i - 1 \in 0..n)
        BY <3>2
      <4>. HIDE DEF h
      <4>. QED BY <2>2, <2>3, <4>1
    <3>. QED BY <3>1, <3>2
  <2>5. IsDescents(h, g, n + 1)
    <3>1. h = [i \in 0..(n + 1) |-> h[i]]
      OBVIOUS
    <3>. HIDE DEF h
    <3>. QED BY <2>4, <3>1, Zenon DEF IsDescents
  <2>. QED BY <2>5
<1>. HIDE DEF N
<1>3. most \in N
  BY <1>1, <1>2, CountUp
<1>. QED BY <1>3 DEF N

LEMMA DescentsAre ==
    ASSUME NEW g \in Graphs
    PROVE  /\ Longest(g) \in Nat
           /\ Descents(g)[0] = Begun(g)
           /\ \A k \in 0..Longest(g) :
                 k # 0 => Descents(g)[k] = Descend(g, Descents(g)[k - 1])
<1>0. Longest(g) \in Nat
  <2>1. Len(g.edges) \in Nat /\ Len(g.nodes) \in Nat
    BY GraphIs
  <2>2. \A a, b \in Nat : a + 2 * b \in Nat
    OBVIOUS
  <2>. QED BY <2>1, <2>2, Zenon DEF Longest
<1>. DEFINE f == Descents(g)
<1>1. f = CHOOSE h : h = [k \in 0..Longest(g) |->
                            IF k = 0 THEN Begun(g) ELSE Descend(g, h[k - 1])]
  BY Zenon DEF Descents, Begun
<1>2. \A h : IsDescents(h, g, Longest(g))
        <=> h = [k \in 0..Longest(g) |->
                   IF k = 0 THEN Begun(g) ELSE Descend(g, h[k - 1])]
  BY Zenon DEF IsDescents
<1>3. IsDescents(f, g, Longest(g))
  BY <1>0, <1>1, <1>2, DescentsExist, Zenon
<1>. HIDE DEF f
<1>4. \A i \in 0..Longest(g) : f[i] = IF i = 0 THEN Begun(g) ELSE Descend(g, f[i - 1])
  BY <1>3, Zenon DEF IsDescents
<1>5. 0 \in 0..Longest(g)
  BY <1>0
<1>. QED BY <1>0, <1>4, <1>5 DEF f

Search(g) ==
    [path: Seq(Ids(g)), visited: SUBSET Ids(g), left: SUBSET Inside(g),
     back: SUBSET (Ids(g) \X Ids(g)), order: Seq(Ids(g))]

HasFields(s) ==
    s = [path |-> s.path, visited |-> s.visited, left |-> s.left, back |-> s.back,
         order |-> s.order]

\* The steps of the search: along an edge back to the path, down to a new node,
\* or past one that is left already; off the top of the path; at a new root.
Ahead(g, s, i) ==
    i \in s.left /\ s.path # <<>> /\ g.edges[i].from = Last(s.path)

BackTo(g, s, t, i) ==
    /\ Ahead(g, s, i) /\ g.edges[i].to \in ToSet(s.path)
    /\ t.path = s.path /\ t.visited = s.visited /\ t.left = s.left \ {i}
    /\ t.back = s.back \cup {<<g.edges[i].from, g.edges[i].to>>} /\ t.order = s.order

DownTo(g, s, t, i) ==
    /\ Ahead(g, s, i) /\ g.edges[i].to \notin ToSet(s.path) \cup s.visited
    /\ t.path = Append(s.path, g.edges[i].to)
    /\ t.visited = s.visited \cup {g.edges[i].to} /\ t.left = s.left \ {i}
    /\ t.back = s.back /\ t.order = s.order

PastTo(g, s, t, i) ==
    /\ Ahead(g, s, i) /\ g.edges[i].to \in s.visited \ ToSet(s.path)
    /\ t.path = s.path /\ t.visited = s.visited /\ t.left = s.left \ {i}
    /\ t.back = s.back /\ t.order = s.order

OffTop(g, s, t) ==
    /\ s.path # <<>> /\ \A i \in s.left : g.edges[i].from # Last(s.path)
    /\ t.path = Front(s.path) /\ t.visited = s.visited /\ t.left = s.left
    /\ t.back = s.back /\ t.order = Append(s.order, Last(s.path))

AtRoot(g, s, t, n) ==
    /\ s.path = <<>> /\ n \in Ids(g) \ s.visited
    /\ t.path = Append(s.path, n) /\ t.visited = s.visited \cup {n} /\ t.left = s.left
    /\ t.back = s.back /\ t.order = s.order

AtRest(g, s, t) == s.path = <<>> /\ Ids(g) \subseteq s.visited /\ t = s

StepIs(g, s, t) ==
    \/ \E i \in s.left : BackTo(g, s, t, i) \/ DownTo(g, s, t, i) \/ PastTo(g, s, t, i)
    \/ OffTop(g, s, t)
    \/ \E n \in Ids(g) : AtRoot(g, s, t, n)
    \/ AtRest(g, s, t)

LEMMA InsideIs ==
    ASSUME NEW g \in Graphs
    PROVE  /\ Inside(g) \subseteq DOMAIN g.edges /\ Inside(g) \subseteq Nat
           /\ \A i \in Inside(g) : /\ g.edges[i].from \in Ids(g) /\ g.edges[i].to \in Ids(g)
                                   /\ g.edges[i].to \in Succ(g)[g.edges[i].from]
           /\ \A n \in Ids(g) : \A m \in Succ(g)[n] :
                 \E i \in Inside(g) : g.edges[i].from = n /\ g.edges[i].to = m
<1>1. Inside(g) \subseteq DOMAIN g.edges
      /\ \A i \in Inside(g) : g.edges[i].from \in Ids(g) /\ g.edges[i].to \in Ids(g)
  BY DEF Inside
<1>2. DOMAIN g.edges \subseteq Nat
  <2>1. DOMAIN g.edges = 1..Len(g.edges) /\ Len(g.edges) \in Nat
    BY GraphIs
  <2>. QED BY <2>1
<1>3. \A n \in Ids(g) : Succ(g)[n] = {g.edges[i].to : i \in Outgoing(g.edges, n)} \cap Ids(g)
  BY Zenon DEF Succ
<1>4. ASSUME NEW i \in Inside(g) PROVE g.edges[i].to \in Succ(g)[g.edges[i].from]
  BY <1>1, <1>3 DEF Outgoing
<1>5. ASSUME NEW n \in Ids(g), NEW m \in Succ(g)[n]
      PROVE  \E i \in Inside(g) : g.edges[i].from = n /\ g.edges[i].to = m
  <2>1. PICK i \in DOMAIN g.edges : g.edges[i].from = n /\ g.edges[i].to = m
    BY <1>3 DEF Outgoing
  <2>2. m \in Ids(g)
    BY <1>3
  <2>3. i \in Inside(g)
    BY <2>1, <2>2 DEF Inside
  <2>. QED BY <2>1, <2>3
<1>. QED BY <1>1, <1>2, <1>4, <1>5

LEMMA DescendIs ==
    ASSUME NEW g \in Graphs, NEW s \in Search(g)
    PROVE  StepIs(g, s, Descend(g, s)) /\ HasFields(Descend(g, s))
<1>. DEFINE t   == Descend(g, s)
            out == {i \in s.left : g.edges[i].from = Last(s.path)}
<1>1. /\ s = [path |-> s.path, visited |-> s.visited, left |-> s.left, back |-> s.back,
              order |-> s.order]
      /\ s.left \subseteq Inside(g)
  BY DEF Search
<1>2. t = IF s.path # <<>>
          THEN IF out # {} THEN LookAt(g, s, FirstInList(out))
               ELSE [s EXCEPT !.path = Front(@), !.order = Append(@, Last(s.path))]
          ELSE IF Unvisited(g, s) # {} THEN Push(s, g.nodes[FirstInList(Unvisited(g, s))])
               ELSE s
  BY Zenon DEF Descend
<1>3. CASE s.path # <<>> /\ out # {}
  <2>. DEFINE i == FirstInList(out)
  <2>1. i \in out
    BY <1>1, <1>3, InsideIs, FirstInListIn
  <2>2. t = LookAt(g, s, i)
    BY <1>2, <1>3
  <2>3. Ahead(g, s, i) /\ i \in s.left
    BY <1>3, <2>1 DEF Ahead
  <2>. HIDE DEF i, t
  <2>. DEFINE n == g.edges[i].from
              m == g.edges[i].to
              seen == [s EXCEPT !.left = @ \ {i}]
  <2>4. seen = [path |-> s.path, visited |-> s.visited, left |-> s.left \ {i},
                back |-> s.back, order |-> s.order]
    BY <1>1
  <2>5. LookAt(g, s, i) = IF m \in ToSet(s.path)
                          THEN [seen EXCEPT !.back = @ \cup {<<n, m>>}]
                          ELSE IF m \notin s.visited THEN Push(seen, m) ELSE seen
    BY Zenon DEF LookAt
  <2>. HIDE DEF seen, n, m
  <2>6. CASE m \in ToSet(s.path)
    <3>1. t = [seen EXCEPT !.back = @ \cup {<<n, m>>}]
      BY <2>2, <2>5, <2>6
    <3>2. t = [path |-> s.path, visited |-> s.visited, left |-> s.left \ {i},
              back |-> s.back \cup {<<n, m>>}, order |-> s.order]
      BY <2>4, <3>1
    <3>3. /\ t.path = s.path /\ t.visited = s.visited /\ t.left = s.left \ {i}
          /\ t.back = s.back \cup {<<n, m>>} /\ t.order = s.order /\ HasFields(t)
      BY <3>2 DEF HasFields
    <3>. QED BY <2>3, <2>6, <3>3 DEF StepIs, BackTo, n, m, t
  <2>7. CASE m \notin ToSet(s.path) /\ m \notin s.visited
    <3>1. t = Push(seen, m)
      BY <2>2, <2>5, <2>7
    <3>2. t = [path |-> Append(s.path, m), visited |-> s.visited \cup {m}, left |-> s.left \ {i},
              back |-> s.back, order |-> s.order]
      BY <2>4, <3>1 DEF Push
    <3>3. /\ t.path = Append(s.path, m) /\ t.visited = s.visited \cup {m}
          /\ t.left = s.left \ {i} /\ t.back = s.back /\ t.order = s.order /\ HasFields(t)
      BY <3>2 DEF HasFields
    <3>. QED BY <2>3, <2>7, <3>3 DEF StepIs, DownTo, m, t
  <2>8. CASE m \notin ToSet(s.path) /\ m \in s.visited
    <3>1. t = seen
      BY <2>2, <2>5, <2>8
    <3>2. t = [path |-> s.path, visited |-> s.visited, left |-> s.left \ {i},
              back |-> s.back, order |-> s.order]
      BY <2>4, <3>1
    <3>3. /\ t.path = s.path /\ t.visited = s.visited /\ t.left = s.left \ {i}
          /\ t.back = s.back /\ t.order = s.order /\ HasFields(t)
      BY <3>2 DEF HasFields
    <3>. QED BY <2>3, <2>8, <3>3 DEF StepIs, PastTo, m, t
  <2>. QED BY <2>6, <2>7, <2>8
<1>4. CASE s.path # <<>> /\ out = {}
  <2>1. t = [s EXCEPT !.path = Front(@), !.order = Append(@, Last(s.path))]
    BY <1>2, <1>4, Zenon
  <2>. HIDE DEF t
  <2>2. t = [path |-> Front(s.path), visited |-> s.visited, left |-> s.left,
            back |-> s.back, order |-> Append(s.order, Last(s.path))]
    BY <1>1, <2>1
  <2>3. /\ t.path = Front(s.path) /\ t.visited = s.visited /\ t.left = s.left
        /\ t.back = s.back /\ t.order = Append(s.order, Last(s.path)) /\ HasFields(t)
    BY <2>2 DEF HasFields
  <2>. QED BY <1>4, <2>3 DEF StepIs, OffTop, t
<1>5. CASE s.path = <<>> /\ Unvisited(g, s) # {}
  <2>. DEFINE n == g.nodes[FirstInList(Unvisited(g, s))]
  <2>1. t = Push(s, n)
    BY <1>2, <1>5
  <2>2. n \in Ids(g) \ s.visited
    <3>1. DOMAIN g.nodes = 1..Len(g.nodes) /\ Len(g.nodes) \in Nat
          /\ Ids(g) = {g.nodes[i] : i \in 1..Len(g.nodes)}
      BY GraphIs
    <3>2. Unvisited(g, s) \subseteq Nat
      BY <3>1 DEF Unvisited
    <3>3. FirstInList(Unvisited(g, s)) \in Unvisited(g, s)
      BY <1>5, <3>2, FirstInListIn
    <3>. QED BY <3>1, <3>3 DEF Unvisited
  <2>. HIDE DEF t, n
  <2>3. t = [path |-> Append(s.path, n), visited |-> s.visited \cup {n}, left |-> s.left,
            back |-> s.back, order |-> s.order]
    BY <1>1, <2>1 DEF Push
  <2>4. /\ t.path = Append(s.path, n) /\ t.visited = s.visited \cup {n} /\ t.left = s.left
        /\ t.back = s.back /\ t.order = s.order /\ HasFields(t)
    BY <2>3 DEF HasFields
  <2>. QED BY <1>5, <2>2, <2>4 DEF StepIs, AtRoot, t
<1>6. CASE s.path = <<>> /\ Unvisited(g, s) = {}
  <2>1. Ids(g) \subseteq s.visited
    <3>1. DOMAIN g.nodes = 1..Len(g.nodes)
          /\ Ids(g) = {g.nodes[i] : i \in 1..Len(g.nodes)}
      BY GraphIs
    <3>. QED BY <1>6, <3>1 DEF Unvisited
  <2>2. t = s
    BY <1>2, <1>6
  <2>. QED BY <1>1, <1>6, <2>1, <2>2 DEF StepIs, AtRest, HasFields
<1>. QED BY <1>3, <1>4, <1>5, <1>6

LEMMA SearchIs ==
    ASSUME NEW g, NEW s \in Search(g)
    PROVE  /\ s.path \in Seq(Ids(g)) /\ s.order \in Seq(Ids(g))
           /\ s.visited \subseteq Ids(g) /\ s.left \subseteq Inside(g)
           /\ s.back \subseteq Ids(g) \X Ids(g)
BY DEF Search

LEMMA SearchStep ==
    ASSUME NEW g \in Graphs, NEW s \in Search(g), NEW t, StepIs(g, s, t), HasFields(t)
    PROVE  t \in Search(g)
<1>. HIDE DEF Search
<1>1. /\ s.path \in Seq(Ids(g)) /\ s.order \in Seq(Ids(g))
      /\ s.visited \subseteq Ids(g) /\ s.left \subseteq Inside(g)
      /\ s.back \subseteq Ids(g) \X Ids(g)
  BY SearchIs
<1>2. SUFFICES /\ t.path \in Seq(Ids(g)) /\ t.order \in Seq(Ids(g))
               /\ t.visited \subseteq Ids(g) /\ t.left \subseteq Inside(g)
               /\ t.back \subseteq Ids(g) \X Ids(g)
  BY DEF Search, HasFields
<1>3. \A i \in s.left : g.edges[i].from \in Ids(g) /\ g.edges[i].to \in Ids(g)
  BY <1>1, InsideIs
<1>4. CASE \E i \in s.left : BackTo(g, s, t, i) \/ DownTo(g, s, t, i) \/ PastTo(g, s, t, i)
  <2>1. PICK i \in s.left : BackTo(g, s, t, i) \/ DownTo(g, s, t, i) \/ PastTo(g, s, t, i)
    BY <1>4
  <2>2. CASE BackTo(g, s, t, i)
    BY <1>1, <1>3, <2>2 DEF BackTo
  <2>3. CASE DownTo(g, s, t, i)
    <3>1. Append(s.path, g.edges[i].to) \in Seq(Ids(g))
      BY <1>1, <1>3, AppendIs
    <3>. QED BY <1>1, <1>3, <2>3, <3>1 DEF DownTo
  <2>4. CASE PastTo(g, s, t, i)
    BY <1>1, <2>4 DEF PastTo
  <2>. QED BY <2>1, <2>2, <2>3, <2>4
<1>5. CASE OffTop(g, s, t)
  <2>1. /\ s.path # <<>> /\ t.path = Front(s.path) /\ t.visited = s.visited
        /\ t.left = s.left /\ t.back = s.back /\ t.order = Append(s.order, Last(s.path))
    BY <1>5 DEF OffTop
  <2>2. Front(s.path) \in Seq(Ids(g)) /\ Last(s.path) \in Ids(g)
    BY <1>1, <2>1, FrontIs
  <2>3. Append(s.order, Last(s.path)) \in Seq(Ids(g))
    BY <1>1, <2>2, AppendIs
  <2>. QED BY <1>1, <2>1, <2>2, <2>3
<1>6. CASE \E n \in Ids(g) : AtRoot(g, s, t, n)
  <2>1. PICK n \in Ids(g) : AtRoot(g, s, t, n)
    BY <1>6
  <2>2. Append(s.path, n) \in Seq(Ids(g))
    BY <1>1, AppendIs
  <2>. QED BY <1>1, <2>1, <2>2 DEF AtRoot
<1>7. CASE AtRest(g, s, t)
  BY <1>1, <1>7 DEF AtRest
<1>. QED BY <1>4, <1>5, <1>6, <1>7 DEF StepIs

\* Visited is what is on the path, each node once, and what has been left.
Placed(s) ==
    /\ s.visited = ToSet(s.path) \cup ToSet(s.order)
    /\ ToSet(s.path) \cap ToSet(s.order) = {}
    /\ \A i, j \in 1..Len(s.path) : s.path[i] = s.path[j] => i = j

LEMMA PlacedAppend ==
    ASSUME NEW S, NEW p \in Seq(S), NEW x \in S, x \notin ToSet(p),
           \A i, j \in 1..Len(p) : p[i] = p[j] => i = j
    PROVE  \A i, j \in 1..Len(Append(p, x)) : Append(p, x)[i] = Append(p, x)[j] => i = j
<1>. DEFINE q == Append(p, x)
<1>1. /\ Len(q) = Len(p) + 1 /\ Len(p) \in Nat /\ q[Len(p) + 1] = x
      /\ \A i \in 1..Len(p) : q[i] = p[i]
  BY AppendIs
<1>. HIDE DEF q
<1>2. \A i \in 1..Len(p) : p[i] # x
  BY ToSetIs
<1>3. \A i \in 1..Len(q) : i \in 1..Len(p) \/ i = Len(p) + 1
  BY <1>1
<1>. QED BY <1>1, <1>2, <1>3 DEF q

LEMMA PlacedStep ==
    ASSUME NEW g \in Graphs, NEW s \in Search(g), NEW t, StepIs(g, s, t), Placed(s)
    PROVE  Placed(t)
<1>1. /\ s.path \in Seq(Ids(g)) /\ s.order \in Seq(Ids(g)) /\ s.left \subseteq Inside(g)
  BY SearchIs
<1>2. CASE \E i \in s.left : BackTo(g, s, t, i) \/ PastTo(g, s, t, i)
  BY <1>2 DEF BackTo, PastTo, Placed
<1>3. CASE \E i \in s.left : DownTo(g, s, t, i)
  <2>1. PICK i \in s.left : DownTo(g, s, t, i)
    BY <1>3
  <2>. DEFINE m == g.edges[i].to
  <2>2. m \in Ids(g)
    BY <1>1, InsideIs
  <2>. HIDE DEF m
  <2>3. /\ m \notin ToSet(s.path) \cup s.visited /\ t.path = Append(s.path, m)
        /\ t.visited = s.visited \cup {m} /\ t.order = s.order
    BY <2>1 DEF DownTo, m
  <2>4. ToSet(t.path) = ToSet(s.path) \cup {m}
    BY <1>1, <2>2, <2>3, AppendIs
  <2>5. \A h, j \in 1..Len(t.path) : t.path[h] = t.path[j] => h = j
    BY <1>1, <2>2, <2>3, PlacedAppend DEF Placed
  <2>. QED BY <2>3, <2>4, <2>5 DEF Placed
<1>4. CASE OffTop(g, s, t)
  <2>1. /\ s.path # <<>> /\ t.path = Front(s.path) /\ t.visited = s.visited
        /\ t.order = Append(s.order, Last(s.path))
    BY <1>4 DEF OffTop
  <2>2. /\ Len(s.path) \in Nat \ {0} /\ Last(s.path) = s.path[Len(s.path)]
        /\ Last(s.path) \in Ids(g) /\ t.path \in Seq(Ids(g))
        /\ Len(t.path) = Len(s.path) - 1
        /\ \A i \in 1..(Len(s.path) - 1) : t.path[i] = s.path[i]
        /\ ToSet(s.path) = ToSet(t.path) \cup {Last(s.path)}
    BY <1>1, <2>1, FrontIs
  <2>3. ToSet(t.order) = ToSet(s.order) \cup {Last(s.path)}
    BY <1>1, <2>1, <2>2, AppendIs
  <2>4. Last(s.path) \notin ToSet(t.path)
    <3>1. ToSet(t.path) = {t.path[i] : i \in 1..Len(t.path)}
      BY <2>2, ToSetIs
    <3>2. ASSUME NEW i \in 1..Len(t.path) PROVE t.path[i] # Last(s.path)
      <4>1. i \in 1..Len(s.path) /\ Len(s.path) \in 1..Len(s.path) /\ i # Len(s.path)
            /\ i \in 1..(Len(s.path) - 1)
        BY <2>2
      <4>. QED BY <2>2, <4>1 DEF Placed
    <3>. QED BY <3>1, <3>2
  <2>5. \A i, j \in 1..Len(t.path) : t.path[i] = t.path[j] => i = j
    <3>1. \A i \in 1..Len(t.path) : i \in 1..Len(s.path) /\ t.path[i] = s.path[i]
      BY <2>2
    <3>. QED BY <3>1 DEF Placed
  <2>. QED BY <2>1, <2>2, <2>3, <2>4, <2>5 DEF Placed
<1>5. CASE \E n \in Ids(g) : AtRoot(g, s, t, n)
  <2>1. PICK n \in Ids(g) : AtRoot(g, s, t, n)
    BY <1>5
  <2>2. /\ n \notin s.visited /\ t.path = Append(s.path, n)
        /\ t.visited = s.visited \cup {n} /\ t.order = s.order
    BY <2>1 DEF AtRoot
  <2>3. ToSet(t.path) = ToSet(s.path) \cup {n}
    BY <1>1, <2>2, AppendIs
  <2>4. \A h, j \in 1..Len(t.path) : t.path[h] = t.path[j] => h = j
    BY <1>1, <2>2, PlacedAppend DEF Placed
  <2>. QED BY <2>2, <2>3, <2>4 DEF Placed
<1>6. CASE AtRest(g, s, t)
  BY <1>6 DEF AtRest
<1>. QED BY <1>2, <1>3, <1>4, <1>5, <1>6 DEF StepIs

\* An edge that was looked at joins visited nodes, and no other leaves a node
\* that has been left.
Looked(g, s) ==
    /\ \A i \in Inside(g) \ s.left : {g.edges[i].from, g.edges[i].to} \subseteq s.visited
    /\ \A i \in s.left : g.edges[i].from \notin ToSet(s.order)

LEMMA TopIs ==
    ASSUME NEW g, NEW s \in Search(g), s.path # <<>>, Placed(s)
    PROVE  /\ Last(s.path) \in s.visited /\ Last(s.path) \in ToSet(s.path)
           /\ Last(s.path) \notin ToSet(s.order) /\ Last(s.path) \in Ids(g)
           /\ Last(s.path) = s.path[Len(s.path)] /\ Len(s.path) \in Nat \ {0}
           /\ Len(s.path) \in 1..Len(s.path)
<1>1. s.path \in Seq(Ids(g))
  BY SearchIs
<1>2. /\ Len(s.path) \in Nat \ {0} /\ Last(s.path) = s.path[Len(s.path)]
      /\ Last(s.path) \in Ids(g) /\ Last(s.path) \in ToSet(s.path)
  BY <1>1, FrontIs
<1>. QED BY <1>2 DEF Placed

LEMMA LookedStep ==
    ASSUME NEW g \in Graphs, NEW s \in Search(g), NEW t, StepIs(g, s, t),
           Placed(s), Looked(g, s)
    PROVE  Looked(g, t)
<1>1. s.path \in Seq(Ids(g)) /\ s.order \in Seq(Ids(g)) /\ s.left \subseteq Inside(g)
  BY SearchIs
<1>2. CASE \E i \in s.left : BackTo(g, s, t, i) \/ DownTo(g, s, t, i) \/ PastTo(g, s, t, i)
  <2>1. PICK i \in s.left : BackTo(g, s, t, i) \/ DownTo(g, s, t, i) \/ PastTo(g, s, t, i)
    BY <1>2
  <2>2. Ahead(g, s, i) /\ t.left = s.left \ {i} /\ s.visited \subseteq t.visited
        /\ t.order = s.order
    BY <2>1 DEF BackTo, DownTo, PastTo
  <2>3. g.edges[i].from \in s.visited
    BY <2>2, TopIs DEF Ahead
  <2>4. g.edges[i].to \in t.visited
    BY <2>1 DEF BackTo, DownTo, PastTo, Placed
  <2>. QED BY <2>2, <2>3, <2>4 DEF Looked
<1>3. CASE OffTop(g, s, t)
  <2>1. /\ s.path # <<>> /\ \A i \in s.left : g.edges[i].from # Last(s.path)
        /\ t.visited = s.visited /\ t.left = s.left /\ t.order = Append(s.order, Last(s.path))
    BY <1>3 DEF OffTop
  <2>2. ToSet(t.order) = ToSet(s.order) \cup {Last(s.path)}
    BY <1>1, <2>1, TopIs, AppendIs
  <2>. QED BY <2>1, <2>2 DEF Looked
<1>4. CASE \E n \in Ids(g) : AtRoot(g, s, t, n)
  <2>1. t.left = s.left /\ s.visited \subseteq t.visited /\ t.order = s.order
    BY <1>4 DEF AtRoot
  <2>. QED BY <2>1 DEF Looked
<1>5. CASE AtRest(g, s, t)
  BY <1>5 DEF AtRest
<1>. QED BY <1>2, <1>3, <1>4, <1>5 DEF StepIs

\* The path is one: what stands higher on it is reached from what stands below.
Chained(g, s) ==
    \A i, j \in 1..Len(s.path) : i <= j => s.path[j] \in Reach(Succ(g), {s.path[i]})

LEMMA ChainedStep ==
    ASSUME NEW g \in Graphs, NEW s \in Search(g), NEW t, StepIs(g, s, t),
           Placed(s), Chained(g, s)
    PROVE  Chained(g, t)
<1>1. s.path \in Seq(Ids(g)) /\ s.left \subseteq Inside(g)
  BY SearchIs
<1>2. IsSucc(Succ(g)) /\ DOMAIN Succ(g) = Ids(g)
  BY GraphIs
<1>3. CASE \E i \in s.left : BackTo(g, s, t, i) \/ PastTo(g, s, t, i)
  BY <1>3 DEF BackTo, PastTo, Chained
<1>4. CASE \E i \in s.left : DownTo(g, s, t, i)
  <2>1. PICK e \in s.left : DownTo(g, s, t, e)
    BY <1>4
  <2>. DEFINE m == g.edges[e].to
              L == Len(s.path)
  <2>2. /\ s.path # <<>> /\ g.edges[e].from = Last(s.path) /\ t.path = Append(s.path, m)
    BY <2>1 DEF DownTo, Ahead
  <2>3. m \in Ids(g) /\ m \in Succ(g)[g.edges[e].from]
    BY <1>1, InsideIs
  <2>. HIDE DEF m
  <2>4. /\ L \in Nat \ {0} /\ L \in 1..L /\ Last(s.path) = s.path[L]
    BY <2>2, TopIs
  <2>5. /\ Len(t.path) = L + 1 /\ t.path[L + 1] = m
        /\ \A i \in 1..L : t.path[i] = s.path[i] /\ s.path[i] \in Ids(g)
    BY <1>1, <2>2, <2>3, AppendIs, SeqIs
  <2>. HIDE DEF L
  <2>6. ASSUME NEW i \in 1..L PROVE m \in Reach(Succ(g), {s.path[i]})
    <3>1. s.path[L] \in Reach(Succ(g), {s.path[i]})
      BY <2>4 DEF Chained, L
    <3>2. Closed(Succ(g), Reach(Succ(g), {s.path[i]}))
      BY <1>2, <2>5, ReachIs
    <3>. QED BY <2>2, <2>3, <2>4, <3>1, <3>2 DEF Closed
  <2>7. m \in Reach(Succ(g), {m})
    BY <1>2, <2>3, ReachIs
  <2>8. ASSUME NEW i \in 1..Len(t.path), NEW j \in 1..Len(t.path), i <= j
        PROVE  t.path[j] \in Reach(Succ(g), {t.path[i]})
    <3>1. CASE j \in 1..L
      <4>1. i \in 1..L
        BY <2>4, <2>8, <3>1
      <4>2. s.path[j] \in Reach(Succ(g), {s.path[i]})
        BY <2>8, <3>1, <4>1 DEF Chained, L
      <4>. QED BY <2>5, <3>1, <4>1, <4>2
    <3>2. CASE j = L + 1 /\ i \in 1..L
      BY <2>5, <2>6, <3>2
    <3>3. CASE j = L + 1 /\ i = L + 1
      BY <2>5, <2>7, <3>3
    <3>. QED BY <2>4, <2>5, <3>1, <3>2, <3>3
  <2>. QED BY <2>8 DEF Chained
<1>5. CASE OffTop(g, s, t)
  <2>1. s.path # <<>> /\ t.path = Front(s.path)
    BY <1>5 DEF OffTop
  <2>2. /\ Len(s.path) \in Nat \ {0} /\ Len(t.path) = Len(s.path) - 1
        /\ \A i \in 1..(Len(s.path) - 1) : t.path[i] = s.path[i]
    BY <1>1, <2>1, FrontIs
  <2>3. \A i \in 1..Len(t.path) : i \in 1..Len(s.path) /\ t.path[i] = s.path[i]
    BY <2>2
  <2>. QED BY <2>3 DEF Chained
<1>6. CASE \E n \in Ids(g) : AtRoot(g, s, t, n)
  <2>1. PICK n \in Ids(g) : AtRoot(g, s, t, n)
    BY <1>6
  <2>2. s.path = <<>> /\ t.path = Append(s.path, n)
    BY <2>1 DEF AtRoot
  <2>3. Len(t.path) = 1 /\ t.path[1] = n
    BY <2>2
  <2>4. n \in Reach(Succ(g), {n})
    BY <1>2, ReachIs
  <2>5. \A i \in 1..Len(t.path) : i = 1
    BY <2>3
  <2>. QED BY <2>3, <2>4, <2>5, Zenon DEF Chained
<1>7. CASE AtRest(g, s, t)
  BY <1>7 DEF AtRest
<1>. QED BY <1>3, <1>4, <1>5, <1>6, <1>7 DEF StepIs

\* What can reach itself.
Loops(g) == {n \in Ids(g) : n \in Reach(Succ(g), Succ(g)[n])}

\* A back edge closes a loop.
LEMMA LoopStep ==
    ASSUME NEW g \in Graphs, NEW s \in Search(g), NEW t, StepIs(g, s, t),
           Placed(s), Chained(g, s), s.back # {} => Loops(g) # {}
    PROVE  t.back # {} => Loops(g) # {}
<1>1. s.path \in Seq(Ids(g)) /\ s.left \subseteq Inside(g)
  BY SearchIs
<1>2. IsSucc(Succ(g)) /\ DOMAIN Succ(g) = Ids(g)
  BY GraphIs
<1>3. CASE \E i \in s.left : BackTo(g, s, t, i)
  <2>1. PICK e \in s.left : BackTo(g, s, t, e)
    BY <1>3
  <2>. DEFINE n == g.edges[e].from
              m == g.edges[e].to
  <2>2. s.path # <<>> /\ n = Last(s.path) /\ m \in ToSet(s.path)
    BY <2>1 DEF BackTo, Ahead
  <2>3. n \in Ids(g) /\ m \in Ids(g) /\ m \in Succ(g)[n]
    BY <1>1, InsideIs
  <2>. HIDE DEF n, m
  <2>4. PICK j \in 1..Len(s.path) : m = s.path[j]
    BY <1>1, <2>2, ToSetIs
  <2>5. n = s.path[Len(s.path)] /\ Len(s.path) \in 1..Len(s.path) /\ j <= Len(s.path)
    BY <2>2, TopIs
  <2>6. n \in Reach(Succ(g), {m})
    BY <2>4, <2>5 DEF Chained
  <2>7. n \in Reach(Succ(g), Succ(g)[n])
    BY <1>2, <2>3, <2>6, ReachOnward
  <2>. QED BY <2>3, <2>7 DEF Loops
<1>4. CASE ~ \E i \in s.left : BackTo(g, s, t, i)
  <2>1. t.back = s.back
    BY <1>4 DEF StepIs, DownTo, PastTo, OffTop, AtRoot, AtRest
  <2>. QED BY <2>1
<1>. QED BY <1>3, <1>4

\* While there is no back edge, an edge that was looked at leads to a node that is
\* left before the one it comes from.
Earlier(g, s, i) ==
    /\ \A j \in 1..Len(s.path) : s.path[j] = g.edges[i].from =>
          \/ g.edges[i].to \in ToSet(s.order)
          \/ \E h \in 1..Len(s.path) : h > j /\ s.path[h] = g.edges[i].to
    /\ \A k \in 1..Len(s.order) : s.order[k] = g.edges[i].from =>
          \E h \in 1..(k - 1) : s.order[h] = g.edges[i].to

Ordered(g, s) == s.back = {} => \A i \in Inside(g) \ s.left : Earlier(g, s, i)

\* The path grows by a node no edge that was looked at comes from.
LEMMA OrderedPush ==
    ASSUME NEW g \in Graphs, NEW s \in Search(g), NEW t, Looked(g, s), Ordered(g, s),
           NEW n \in Ids(g) \ s.visited, s.back = {},
           t.path = Append(s.path, n), t.order = s.order, NEW i \in Inside(g) \ s.left
    PROVE  Earlier(g, t, i)
<1>. DEFINE a == g.edges[i].from
            b == g.edges[i].to
            L == Len(s.path)
<1>1. s.path \in Seq(Ids(g))
  BY SearchIs
<1>2. /\ Len(t.path) = L + 1 /\ L \in Nat /\ t.path[L + 1] = n
      /\ \A j \in 1..L : t.path[j] = s.path[j]
  BY <1>1, AppendIs
<1>3. a # n
  BY DEF Looked
<1>4. /\ \A j \in 1..L : s.path[j] = a =>
            b \in ToSet(s.order) \/ \E h \in 1..L : h > j /\ s.path[h] = b
      /\ \A k \in 1..Len(s.order) : s.order[k] = a => \E h \in 1..(k - 1) : s.order[h] = b
  BY DEF Ordered, Earlier
<1>. HIDE DEF a, b, L
<1>5. ASSUME NEW j \in 1..Len(t.path), t.path[j] = a, b \notin ToSet(t.order)
      PROVE  \E h \in 1..Len(t.path) : h > j /\ t.path[h] = b
  <2>1. j \in 1..L
    BY <1>2, <1>3, <1>5
  <2>2. PICK h \in 1..L : h > j /\ s.path[h] = b
    BY <1>2, <1>4, <1>5, <2>1
  <2>3. h \in 1..Len(t.path)
    BY <1>2
  <2>. QED BY <1>2, <2>2, <2>3
<1>. QED BY <1>4, <1>5 DEF a, b, Earlier

LEMMA OrderedStep ==
    ASSUME NEW g \in Graphs, NEW s \in Search(g), NEW t, StepIs(g, s, t),
           Placed(s), Looked(g, s), Ordered(g, s)
    PROVE  Ordered(g, t)
<1>1. s.path \in Seq(Ids(g)) /\ s.order \in Seq(Ids(g)) /\ s.left \subseteq Inside(g)
  BY SearchIs
<1>2. CASE \E i \in s.left : BackTo(g, s, t, i)
  BY <1>2 DEF BackTo, Ordered
<1>3. CASE \E i \in s.left : PastTo(g, s, t, i)
  <2>1. PICK e \in s.left : PastTo(g, s, t, e)
    BY <1>3
  <2>2. /\ Ahead(g, s, e) /\ g.edges[e].to \in s.visited \ ToSet(s.path)
        /\ t.path = s.path /\ t.left = s.left \ {e} /\ t.back = s.back /\ t.order = s.order
    BY <2>1 DEF PastTo
  <2>3. g.edges[e].to \in ToSet(s.order)
    BY <2>2 DEF Placed
  <2>4. g.edges[e].from \notin ToSet(s.order)
    BY <2>2, TopIs DEF Ahead
  <2>5. \A k \in 1..Len(s.order) : s.order[k] # g.edges[e].from
    BY <1>1, <2>4, ToSetIs
  <2>6. \A i \in Inside(g) \ t.left : i \in Inside(g) \ s.left \/ i = e
    BY <2>2
  <2>. QED BY <2>2, <2>3, <2>5, <2>6 DEF Ordered, Earlier
<1>4. CASE \E i \in s.left : DownTo(g, s, t, i)
  <2>1. PICK e \in s.left : DownTo(g, s, t, e)
    BY <1>4
  <2>. DEFINE n == g.edges[e].from
              m == g.edges[e].to
              L == Len(s.path)
  <2>2. /\ Ahead(g, s, e) /\ m \notin ToSet(s.path) \cup s.visited
        /\ t.path = Append(s.path, m) /\ t.left = s.left \ {e} /\ t.back = s.back
        /\ t.order = s.order
    BY <2>1 DEF DownTo
  <2>3. m \in Ids(g) \ s.visited
    BY <1>1, <2>2, InsideIs
  <2>. SUFFICES ASSUME s.back = {}, NEW i \in Inside(g) \ t.left
                PROVE  Earlier(g, t, i)
    BY <2>2 DEF Ordered
  <2>4. CASE i # e
    <3>1. i \in Inside(g) \ s.left
      BY <2>2, <2>4
    <3>. QED BY <2>2, <2>3, <3>1, OrderedPush
  <2>5. CASE i = e
    <3>1. /\ Len(t.path) = L + 1 /\ L \in Nat /\ t.path[L + 1] = m
          /\ \A j \in 1..L : t.path[j] = s.path[j]
      BY <1>1, <2>2, <2>3, AppendIs
    <3>2. n = s.path[L] /\ L \in 1..L /\ n \notin ToSet(s.order) /\ n \in s.visited
      BY <2>2, TopIs DEF Ahead
    <3>3. \A k \in 1..Len(s.order) : s.order[k] # n
      BY <1>1, <3>2, ToSetIs
    <3>4. n # m
      BY <2>2, <3>2
    <3>5. \A j \in 1..L : s.path[j] = n => j = L
      BY <3>2 DEF Placed
    <3>. HIDE DEF n, m, L
    <3>6. ASSUME NEW j \in 1..Len(t.path), t.path[j] = n
          PROVE  \E h \in 1..Len(t.path) : h > j /\ t.path[h] = m
      <4>1. j \in 1..L
        BY <3>1, <3>4, <3>6
      <4>2. j = L
        BY <3>1, <3>5, <3>6, <4>1
      <4>3. L + 1 \in 1..Len(t.path) /\ L + 1 > j
        BY <3>1, <4>2
      <4>. QED BY <3>1, <4>3
    <3>. QED BY <2>2, <2>5, <3>3, <3>6 DEF n, m, Earlier
  <2>. QED BY <2>4, <2>5
<1>5. CASE \E n \in Ids(g) : AtRoot(g, s, t, n)
  <2>1. PICK n \in Ids(g) : AtRoot(g, s, t, n)
    BY <1>5
  <2>2. /\ n \notin s.visited /\ t.path = Append(s.path, n)
        /\ t.order = s.order /\ t.left = s.left /\ t.back = s.back
    BY <2>1 DEF AtRoot
  <2>. SUFFICES ASSUME s.back = {}, NEW i \in Inside(g) \ s.left
                PROVE  Earlier(g, t, i)
    BY <2>2 DEF Ordered
  <2>. QED BY <2>2, OrderedPush
<1>6. CASE OffTop(g, s, t)
  <2>. DEFINE L == Len(s.path)
              K == Len(s.order)
              n == Last(s.path)
  <2>1. /\ s.path # <<>> /\ t.path = Front(s.path) /\ t.left = s.left
        /\ t.back = s.back /\ t.order = Append(s.order, n)
    BY <1>6 DEF OffTop
  <2>2. /\ L \in Nat \ {0} /\ n = s.path[L] /\ n \in Ids(g) /\ Len(t.path) = L - 1
        /\ \A i \in 1..(L - 1) : t.path[i] = s.path[i]
    BY <1>1, <2>1, FrontIs
  <2>3. /\ K \in Nat /\ Len(t.order) = K + 1 /\ t.order[K + 1] = n
        /\ \A k \in 1..K : t.order[k] = s.order[k]
        /\ ToSet(t.order) = ToSet(s.order) \cup {n}
    BY <1>1, <2>1, <2>2, AppendIs
  <2>. SUFFICES ASSUME s.back = {}, NEW i \in Inside(g) \ s.left
                PROVE  Earlier(g, t, i)
    BY <2>1 DEF Ordered
  <2>. DEFINE a == g.edges[i].from
              b == g.edges[i].to
  <2>4. /\ \A j \in 1..L : s.path[j] = a =>
              b \in ToSet(s.order) \/ \E h \in 1..L : h > j /\ s.path[h] = b
        /\ \A k \in 1..K : s.order[k] = a => \E h \in 1..(k - 1) : s.order[h] = b
    BY DEF Ordered, Earlier
  <2>5. ToSet(s.order) = {s.order[k] : k \in 1..K}
    BY <1>1, ToSetIs
  <2>. HIDE DEF L, K, n, a, b
  <2>6. ASSUME NEW j \in 1..Len(t.path), t.path[j] = a, b \notin ToSet(t.order)
        PROVE  \E h \in 1..Len(t.path) : h > j /\ t.path[h] = b
    <3>1. j \in 1..L /\ j \in 1..(L - 1)
      BY <2>2
    <3>2. PICK h \in 1..L : h > j /\ s.path[h] = b
      BY <2>2, <2>3, <2>4, <2>6, <3>1
    <3>3. h # L
      BY <2>2, <2>3, <2>6, <3>2
    <3>4. h \in 1..(L - 1)
      BY <2>2, <3>3
    <3>. QED BY <2>2, <3>2, <3>4
  <2>7. ASSUME NEW k \in 1..Len(t.order), t.order[k] = a
        PROVE  \E h \in 1..(k - 1) : t.order[h] = b
    <3>1. CASE k \in 1..K
      <4>1. PICK h \in 1..(k - 1) : s.order[h] = b
        BY <2>3, <2>4, <2>7, <3>1
      <4>2. h \in 1..K
        BY <2>3, <3>1
      <4>. QED BY <2>3, <4>1, <4>2
    <3>2. CASE k = K + 1
      <4>1. a = s.path[L] /\ L \in 1..L /\ \A h \in 1..L : ~ (h > L)
        BY <2>2, <2>3, <2>7, <3>2
      <4>2. b \in ToSet(s.order)
        BY <2>4, <4>1
      <4>3. PICK h \in 1..K : s.order[h] = b
        BY <2>5, <4>2
      <4>4. h \in 1..(k - 1)
        BY <2>3, <3>2
      <4>. QED BY <2>3, <4>3, <4>4
    <3>3. k \in 1..K \/ k = K + 1
      BY <2>3
    <3>. QED BY <3>1, <3>2, <3>3
  <2>. QED BY <2>6, <2>7 DEF a, b, Earlier
<1>7. CASE AtRest(g, s, t)
  BY <1>7 DEF AtRest
<1>. QED BY <1>2, <1>3, <1>4, <1>5, <1>6, <1>7 DEF StepIs

\* Whatever is reached from a node is left by the time the node is, or the node is
\* on a loop with one that is left later.
LeftBy(order, k) == {order[h] : h \in 1..k}

FinishedAt(g, order, k) ==
    \A w \in Reach(Succ(g), {order[k]}) \ LeftBy(order, k) :
        \E z \in Ids(g) \ LeftBy(order, k) :
            z \in Reach(Succ(g), {order[k]}) /\ order[k] \in Reach(Succ(g), {z})

Finished(g, s) == \A k \in 1..Len(s.order) : FinishedAt(g, s.order, k)

\* The node on top of the path has no edge left: from it the search reaches what is
\* left already, or the path below it.
LEMMA FinishedTop ==
    ASSUME NEW g \in Graphs, NEW s \in Search(g), NEW t, OffTop(g, s, t),
           Placed(s), Looked(g, s), Chained(g, s)
    PROVE  FinishedAt(g, t.order, Len(s.order) + 1)
<1>. DEFINE n == Last(s.path)
            L == Len(s.path)
            K == Len(s.order)
            succ == Succ(g)
            R == Reach(succ, {n})
            B == LeftBy(t.order, K + 1)
<1>1. s.path \in Seq(Ids(g)) /\ s.order \in Seq(Ids(g)) /\ s.left \subseteq Inside(g)
  BY SearchIs
<1>2. /\ s.path # <<>> /\ \A i \in s.left : g.edges[i].from # n
      /\ t.path = Front(s.path) /\ t.order = Append(s.order, n)
  BY DEF OffTop
<1>3. /\ L \in Nat \ {0} /\ L \in 1..L /\ n = s.path[L] /\ n \in Ids(g)
      /\ n \notin ToSet(s.order)
  BY <1>2, TopIs
<1>4. /\ K \in Nat /\ t.order[K + 1] = n /\ Len(t.order) = K + 1 /\ t.order \in Seq(Ids(g))
      /\ ToSet(t.order) = ToSet(s.order) \cup {n}
  BY <1>1, <1>2, <1>3, AppendIs
<1>5. B = ToSet(s.order) \cup {n}
  BY <1>4, ToSetIs DEF LeftBy
<1>6. IsSucc(succ) /\ DOMAIN succ = Ids(g)
  BY GraphIs
<1>7. n \in R /\ R \subseteq Ids(g) /\ Closed(succ, R)
  BY <1>3, <1>6, ReachIs
<1>8. SUFFICES ASSUME NEW w \in R, w \notin B
               PROVE  \E z \in Ids(g) \ B : z \in R /\ n \in Reach(succ, {z})
  BY <1>4 DEF FinishedAt
<1>. HIDE DEF n, L, K, R, B
<1>9. ASSUME NEW x \in B, NEW y \in succ[x] PROVE y \in s.visited
  <2>1. x \in Ids(g)
    BY <1>1, <1>3, <1>5, ToSetIs
  <2>2. PICK i \in Inside(g) : g.edges[i].from = x /\ g.edges[i].to = y
    BY <2>1, InsideIs
  <2>3. i \notin s.left
    BY <1>2, <1>5, <2>2 DEF Looked
  <2>. QED BY <2>2, <2>3 DEF Looked
<1>10. s.visited \subseteq B \cup ToSet(s.path) /\ n \in B
  BY <1>5 DEF Placed
<1>11. \E z \in R : z \in ToSet(s.path) /\ z \notin B
  <2>. SUFFICES ASSUME \A z \in R : z \in ToSet(s.path) => z \in B
                PROVE  FALSE
    OBVIOUS
  <2>. DEFINE T == R \cap B
  <2>1. {n} \subseteq T
    BY <1>7, <1>10
  <2>2. \A x \in T \cap DOMAIN succ : succ[x] \subseteq T
    BY <1>7, <1>9, <1>10 DEF Closed
  <2>. HIDE DEF T
  <2>3. R \subseteq T
    BY <1>3, <1>6, <2>1, <2>2, ReachLeast DEF R
  <2>. QED BY <1>8, <2>3 DEF T
<1>12. PICK z \in R : z \in ToSet(s.path) /\ z \notin B
  BY <1>11
<1>13. PICK j \in 1..L : z = s.path[j]
  BY <1>1, <1>12, ToSetIs DEF L
<1>14. n \in Reach(succ, {z})
  BY <1>3, <1>13 DEF Chained, L
<1>. QED BY <1>7, <1>12, <1>14

LEMMA FinishedStep ==
    ASSUME NEW g \in Graphs, NEW s \in Search(g), NEW t, StepIs(g, s, t),
           Placed(s), Looked(g, s), Chained(g, s), Finished(g, s)
    PROVE  Finished(g, t)
<1>1. CASE OffTop(g, s, t)
  <2>. DEFINE K == Len(s.order)
  <2>1. s.order \in Seq(Ids(g))
    BY SearchIs
  <2>2. s.path # <<>> /\ t.order = Append(s.order, Last(s.path))
    BY <1>1 DEF OffTop
  <2>3. Last(s.path) \in Ids(g)
    BY <2>2, TopIs
  <2>4. /\ K \in Nat /\ Len(t.order) = K + 1 /\ \A k \in 1..K : t.order[k] = s.order[k]
    BY <2>1, <2>2, <2>3, AppendIs
  <2>5. FinishedAt(g, t.order, K + 1)
    BY <1>1, FinishedTop
  <2>. HIDE DEF K
  <2>6. ASSUME NEW k \in 1..K PROVE FinishedAt(g, t.order, k)
    <3>1. FinishedAt(g, s.order, k)
      BY DEF Finished, K
    <3>2. t.order[k] = s.order[k] /\ LeftBy(t.order, k) = LeftBy(s.order, k)
      <4>1. \A h \in 1..k : h \in 1..K
        BY <2>4
      <4>. QED BY <2>4, <4>1 DEF LeftBy
    <3>. QED BY <3>1, <3>2 DEF FinishedAt
  <2>7. \A k \in 1..Len(t.order) : k \in 1..K \/ k = K + 1
    BY <2>4
  <2>. QED BY <2>5, <2>6, <2>7 DEF Finished
<1>2. CASE ~OffTop(g, s, t)
  <2>1. t.order = s.order
    BY <1>2 DEF StepIs, BackTo, DownTo, PastTo, AtRoot, AtRest
  <2>. QED BY <2>1 DEF Finished
<1>. QED BY <1>1, <1>2

\* Each node is left once.
Once(s) == \A i, j \in 1..Len(s.order) : s.order[i] = s.order[j] => i = j

LEMMA OnceStep ==
    ASSUME NEW g \in Graphs, NEW s \in Search(g), NEW t, StepIs(g, s, t), Placed(s), Once(s)
    PROVE  Once(t)
<1>1. CASE OffTop(g, s, t)
  <2>. DEFINE n == Last(s.path)
              K == Len(s.order)
  <2>1. s.path # <<>> /\ t.order = Append(s.order, n)
    BY <1>1 DEF OffTop
  <2>2. s.order \in Seq(Ids(g)) /\ n \in Ids(g) /\ n \notin ToSet(s.order)
    BY <2>1, SearchIs, TopIs
  <2>. HIDE DEF n
  <2>3. /\ K \in Nat /\ Len(t.order) = K + 1 /\ t.order[K + 1] = n
        /\ \A i \in 1..K : t.order[i] = s.order[i] /\ s.order[i] # n
    BY <2>1, <2>2, AppendIs, ToSetIs
  <2>4. \A i, j \in 1..K : s.order[i] = s.order[j] => i = j
    BY DEF Once
  <2>. HIDE DEF K
  <2>. QED BY <2>3, <2>4 DEF Once
<1>2. CASE ~OffTop(g, s, t)
  <2>1. t.order = s.order
    BY <1>2 DEF StepIs, BackTo, DownTo, PastTo, AtRoot, AtRest
  <2>. QED BY <2>1 DEF Once
<1>. QED BY <1>1, <1>2

SearchInv(g, s) ==
    /\ s \in Search(g) /\ Placed(s) /\ Looked(g, s) /\ Chained(g, s)
    /\ s.back # {} => Loops(g) # {}
    /\ Ordered(g, s) /\ Finished(g, s) /\ Once(s)

LEMMA SearchInvStep ==
    ASSUME NEW g \in Graphs, NEW s, SearchInv(g, s)
    PROVE  SearchInv(g, Descend(g, s))
<1>. DEFINE t == Descend(g, s)
<1>1. StepIs(g, s, t) /\ HasFields(t)
  BY DescendIs DEF SearchInv
<1>. HIDE DEF t
<1>2. t \in Search(g)
  BY <1>1, SearchStep DEF SearchInv
<1>3. Placed(t)
  BY <1>1, PlacedStep DEF SearchInv
<1>4. Looked(g, t) /\ Chained(g, t)
  BY <1>1, LookedStep, ChainedStep DEF SearchInv
<1>5. t.back # {} => Loops(g) # {}
  BY <1>1, LoopStep DEF SearchInv
<1>6. Ordered(g, t)
  BY <1>1, OrderedStep DEF SearchInv
<1>7. Finished(g, t)
  BY <1>1, FinishedStep DEF SearchInv
<1>8. Once(t)
  BY <1>1, OnceStep DEF SearchInv
<1>. QED BY <1>2, <1>3, <1>4, <1>5, <1>6, <1>7, <1>8 DEF SearchInv, t

LEMMA SearchInvInit ==
    ASSUME NEW g \in Graphs
    PROVE  SearchInv(g, Begun(g))
<1>. DEFINE s == Begun(g)
<1>1. /\ s.path = <<>> /\ s.visited = {} /\ s.left = Inside(g) /\ s.back = {}
      /\ s.order = <<>> /\ s \in Search(g)
  BY DEF Begun, Search
<1>. HIDE DEF s
<1>2. <<>> \in Seq(Ids(g)) /\ Len(<<>>) = 0 /\ 1..0 = {}
  OBVIOUS
<1>3. ToSet(<<>>) = {}
  BY DEF ToSet
<1>4. Placed(s)
  BY <1>1, <1>2, <1>3 DEF Placed
<1>5. Looked(g, s) /\ Chained(g, s)
  BY <1>1, <1>2, <1>3 DEF Looked, Chained
<1>6. Ordered(g, s) /\ Finished(g, s) /\ Once(s)
  BY <1>1, <1>2 DEF Ordered, Finished, Once
<1>. QED BY <1>1, <1>4, <1>5, <1>6 DEF SearchInv, s

\* Each step that is not at rest makes this less.
ToDo(g, s) == Cardinality(s.left) + 2 * Cardinality(Ids(g) \ s.visited) + Len(s.path)

AllDone(g, s) == s.path = <<>> /\ Ids(g) \subseteq s.visited

LEMMA ToDoIs ==
    ASSUME NEW g \in Graphs, NEW s \in Search(g)
    PROVE  /\ IsFiniteSet(s.left) /\ Cardinality(s.left) \in Nat
           /\ IsFiniteSet(Ids(g) \ s.visited) /\ Cardinality(Ids(g) \ s.visited) \in Nat
           /\ Len(s.path) \in Nat /\ ToDo(g, s) \in Nat
           /\ Cardinality(s.left) <= Len(g.edges)
           /\ Cardinality(Ids(g) \ s.visited) <= Len(g.nodes)
<1>1. s.path \in Seq(Ids(g)) /\ s.left \subseteq Inside(g)
  BY SearchIs
<1>2. /\ Len(g.edges) \in Nat /\ DOMAIN g.edges = 1..Len(g.edges)
      /\ IsFiniteSet(Ids(g)) /\ Cardinality(Ids(g)) <= Len(g.nodes) /\ Len(g.nodes) \in Nat
  BY GraphIs
<1>3. IsFiniteSet(1..Len(g.edges)) /\ Cardinality(1..Len(g.edges)) = Len(g.edges)
  BY <1>2, FS_Interval
<1>4. s.left \subseteq 1..Len(g.edges)
  BY <1>1, <1>2, InsideIs
<1>5. IsFiniteSet(s.left) /\ Cardinality(s.left) <= Len(g.edges)
  BY <1>3, <1>4, FS_Subset
<1>6. IsFiniteSet(Ids(g) \ s.visited) /\ Cardinality(Ids(g) \ s.visited) <= Cardinality(Ids(g))
  BY <1>2, FS_Subset
<1>7. /\ Cardinality(s.left) \in Nat /\ Cardinality(Ids(g) \ s.visited) \in Nat
      /\ Cardinality(Ids(g)) \in Nat
  BY <1>2, <1>5, <1>6, FS_CardinalityType
<1>8. Len(s.path) \in Nat
  BY <1>1, SeqIs
<1>9. \A a, b, c \in Nat : a + 2 * b + c \in Nat
  OBVIOUS
<1>10. ToDo(g, s) \in Nat
  BY <1>7, <1>8, <1>9, Zenon DEF ToDo
<1>11. Cardinality(Ids(g) \ s.visited) <= Len(g.nodes)
  BY <1>2, <1>6, <1>7
<1>. QED BY <1>5, <1>6, <1>7, <1>8, <1>10, <1>11

LEMMA ToDoStep ==
    ASSUME NEW g \in Graphs, NEW s, SearchInv(g, s), NEW t, StepIs(g, s, t), t \in Search(g)
    PROVE  AllDone(g, t) \/ ToDo(g, t) + 1 <= ToDo(g, s)
<1>. DEFINE a == Cardinality(s.left)
            b == Cardinality(Ids(g) \ s.visited)
            c == Len(s.path)
            x == Cardinality(t.left)
            y == Cardinality(Ids(g) \ t.visited)
            z == Len(t.path)
<1>1. /\ IsFiniteSet(s.left) /\ IsFiniteSet(Ids(g) \ s.visited)
      /\ a \in Nat /\ b \in Nat /\ c \in Nat /\ x \in Nat /\ y \in Nat /\ z \in Nat
  BY ToDoIs DEF SearchInv
<1>2. ToDo(g, s) = a + 2 * b + c /\ ToDo(g, t) = x + 2 * y + z
  BY DEF ToDo
<1>3. s.path \in Seq(Ids(g)) /\ s.left \subseteq Inside(g)
  BY SearchIs DEF SearchInv
<1>4. ASSUME NEW i \in s.left, t.left = s.left \ {i} PROVE x = a - 1
  BY <1>1, <1>4, FS_RemoveElement
<1>5. ASSUME NEW n \in Ids(g) \ s.visited, t.visited = s.visited \cup {n} PROVE y = b - 1
  <2>1. Ids(g) \ t.visited = (Ids(g) \ s.visited) \ {n}
    BY <1>5
  <2>. DEFINE D == Ids(g) \ s.visited
  <2>2. IsFiniteSet(D) /\ n \in D
    BY <1>1
  <2>. HIDE DEF D
  <2>3. Cardinality(D \ {n}) = Cardinality(D) - 1
    BY <2>2, FS_RemoveElement
  <2>. QED BY <2>1, <2>3 DEF D
<1>6. CASE \E i \in s.left : BackTo(g, s, t, i) \/ PastTo(g, s, t, i)
  <2>1. PICK i \in s.left : BackTo(g, s, t, i) \/ PastTo(g, s, t, i)
    BY <1>6
  <2>2. t.left = s.left \ {i} /\ t.visited = s.visited /\ t.path = s.path
    BY <2>1 DEF BackTo, PastTo
  <2>3. x = a - 1 /\ y = b /\ z = c
    BY <1>4, <2>2
  <2>. HIDE DEF a, b, c, x, y, z
  <2>. QED BY <1>1, <1>2, <2>3
<1>7. CASE \E i \in s.left : DownTo(g, s, t, i)
  <2>1. PICK i \in s.left : DownTo(g, s, t, i)
    BY <1>7
  <2>. DEFINE m == g.edges[i].to
  <2>2. /\ t.left = s.left \ {i} /\ t.visited = s.visited \cup {m} /\ m \notin s.visited
        /\ t.path = Append(s.path, m)
    BY <2>1 DEF DownTo
  <2>3. m \in Ids(g)
    BY <1>3, InsideIs
  <2>. HIDE DEF m
  <2>4. x = a - 1
    BY <1>4, <2>2
  <2>5. y = b - 1
    BY <1>5, <2>2, <2>3
  <2>6. z = c + 1
    BY <1>3, <2>2, <2>3, AppendIs
  <2>. HIDE DEF a, b, c, x, y, z
  <2>. QED BY <1>1, <1>2, <2>4, <2>5, <2>6
<1>8. CASE OffTop(g, s, t)
  <2>1. s.path # <<>> /\ t.left = s.left /\ t.visited = s.visited /\ t.path = Front(s.path)
    BY <1>8 DEF OffTop
  <2>2. z = c - 1
    BY <1>3, <2>1, FrontIs
  <2>3. x = a /\ y = b
    BY <2>1
  <2>. HIDE DEF a, b, c, x, y, z
  <2>. QED BY <1>1, <1>2, <2>2, <2>3
<1>9. CASE \E n \in Ids(g) : AtRoot(g, s, t, n)
  <2>1. PICK n \in Ids(g) : AtRoot(g, s, t, n)
    BY <1>9
  <2>2. /\ n \notin s.visited /\ t.left = s.left /\ t.visited = s.visited \cup {n}
        /\ t.path = Append(s.path, n)
    BY <2>1 DEF AtRoot
  <2>3. y = b - 1
    BY <1>5, <2>2
  <2>4. x = a /\ z = c + 1
    BY <1>3, <2>2, AppendIs
  <2>. HIDE DEF a, b, c, x, y, z
  <2>. QED BY <1>1, <1>2, <2>3, <2>4
<1>10. CASE AtRest(g, s, t)
  BY <1>10 DEF AtRest, AllDone
<1>. QED BY <1>6, <1>7, <1>8, <1>9, <1>10 DEF StepIs

\* The search ends: every node is left, and every edge was looked at.
LEMMA DepthFirstIs ==
    ASSUME NEW g \in Graphs
    PROVE  /\ SearchInv(g, DepthFirst(g))
           /\ ToSet(DepthFirst(g).order) = Ids(g) /\ DepthFirst(g).left = {}
<1>. DEFINE D == Descents(g)
            most == Longest(g)
            Good(k) == /\ SearchInv(g, D[k])
                       /\ AllDone(g, D[k]) \/ ToDo(g, D[k]) + k <= most
            N == {k \in Nat : k <= most => Good(k)}
<1>1. /\ most \in Nat /\ D[0] = Begun(g)
      /\ \A k \in 0..most : k # 0 => D[k] = Descend(g, D[k - 1])
  BY DescentsAre
<1>2. Good(0)
  <2>. DEFINE s == Begun(g)
  <2>1. SearchInv(g, s)
    BY SearchInvInit
  <2>2. s.path = <<>>
    BY DEF Begun
  <2>. HIDE DEF s
  <2>. DEFINE a == Cardinality(s.left)
              b == Cardinality(Ids(g) \ s.visited)
              c == Len(s.path)
  <2>3. a \in Nat /\ b \in Nat /\ a <= Len(g.edges) /\ b <= Len(g.nodes)
    BY <2>1, ToDoIs DEF SearchInv
  <2>4. c = 0
    BY <2>2
  <2>5. Len(g.edges) \in Nat /\ Len(g.nodes) \in Nat
    BY GraphIs
  <2>6. ToDo(g, s) = a + 2 * b + c
    BY DEF ToDo
  <2>. HIDE DEF a, b, c
  <2>7. ToDo(g, s) + 0 <= Len(g.edges) + 2 * Len(g.nodes)
    <3>1. \A i, j, p, q \in Nat : i <= p /\ j <= q => (i + 2 * j + 0) + 0 <= p + 2 * q
      OBVIOUS
    <3>. QED BY <2>3, <2>4, <2>5, <2>6, <3>1, Zenon
  <2>8. D[0] = s
    BY <1>1 DEF s
  <2>. HIDE DEF D
  <2>. QED BY <2>1, <2>7, <2>8 DEF Longest
<1>3. ASSUME NEW k \in Nat, k + 1 <= most, Good(k) PROVE Good(k + 1)
  <2>. DEFINE s == D[k]
              t == D[k + 1]
  <2>1. k + 1 \in 0..most /\ k + 1 # 0 /\ (k + 1) - 1 = k
    BY <1>1, <1>3
  <2>2. t = Descend(g, s)
    BY <1>1, <2>1
  <2>3. SearchInv(g, s) /\ (AllDone(g, s) \/ ToDo(g, s) + k <= most)
    BY <1>3
  <2>. HIDE DEF s, t
  <2>4. StepIs(g, s, t) /\ SearchInv(g, t)
    BY <2>2, <2>3, DescendIs, SearchInvStep DEF SearchInv
  <2>5. CASE AllDone(g, s)
    <3>1. AllDone(g, t)
      BY <2>4, <2>5 DEF AllDone, StepIs, BackTo, DownTo, PastTo, Ahead, OffTop, AtRoot, AtRest
    <3>. QED BY <2>4, <3>1 DEF t
  <2>6. CASE ToDo(g, s) + k <= most
    <3>1. AllDone(g, t) \/ ToDo(g, t) + 1 <= ToDo(g, s)
      BY <2>3, <2>4, ToDoStep DEF SearchInv
    <3>2. ToDo(g, t) \in Nat /\ ToDo(g, s) \in Nat
      BY <2>3, <2>4, ToDoIs DEF SearchInv
    <3>3. AllDone(g, t) \/ ToDo(g, t) + (k + 1) <= most
      BY <1>1, <2>6, <3>1, <3>2
    <3>. QED BY <2>4, <3>3 DEF t
  <2>. QED BY <2>3, <2>5, <2>6
<1>. HIDE DEF Good
<1>4. 0 \in N /\ \A k \in Nat : k \in N => k + 1 \in N
  <2>1. most \in Nat
    BY <1>1
  <2>. HIDE DEF most
  <2>. QED BY <1>2, <1>3, <2>1
<1>. HIDE DEF N
<1>5. most \in N
  BY <1>1, <1>4, CountUp
<1>6. Good(most)
  BY <1>1, <1>5 DEF N
<1>. DEFINE d == DepthFirst(g)
<1>7. SearchInv(g, d) /\ (AllDone(g, d) \/ ToDo(g, d) + most <= most)
  BY <1>6 DEF Good, DepthFirst
<1>. HIDE DEF d, D, most
<1>8. d \in Search(g)
  BY <1>7 DEF SearchInv
<1>9. AllDone(g, d)
  <2>. DEFINE a == Cardinality(d.left)
              U == Ids(g) \ d.visited
              b == Cardinality(U)
              c == Len(d.path)
  <2>1. a \in Nat /\ b \in Nat /\ c \in Nat /\ IsFiniteSet(U) /\ ToDo(g, d) \in Nat
    BY <1>8, ToDoIs
  <2>2. ToDo(g, d) = a + 2 * b + c
    BY DEF ToDo
  <2>3. d.path \in Seq(Ids(g))
    BY <1>8, SearchIs
  <2>4. SUFFICES ASSUME ToDo(g, d) + most <= most PROVE AllDone(g, d)
    BY <1>7
  <2>. HIDE DEF a, b, c
  <2>5. b = 0 /\ c = 0
    BY <1>1, <2>1, <2>2, <2>4
  <2>6. d.path = <<>>
    BY <2>3, <2>5 DEF c
  <2>. HIDE DEF U
  <2>7. U = {}
    BY <2>1, <2>5, FS_EmptySet DEF b
  <2>. QED BY <2>6, <2>7 DEF AllDone, U
<1>10. ToSet(<<>>) = {}
  BY DEF ToSet
<1>11. d.order \in Seq(Ids(g)) /\ d.left \subseteq Inside(g)
  BY <1>8, SearchIs
<1>12. ToSet(d.order) = Ids(g)
  BY <1>7, <1>9, <1>10, <1>11, ToSetIs DEF SearchInv, Placed, AllDone
<1>13. d.left = {}
  BY <1>7, <1>11, <1>12, InsideIs DEF SearchInv, Looked
<1>. QED BY <1>7, <1>12, <1>13 DEF d

\* TOPO-003 finds no cycle exactly when no node reaches itself.
LEMMA BackEdgesAgree ==
    ASSUME NEW g \in Graphs
    PROVE  BackEdges(g) = {} <=> Loops(g) = {}
<1>. DEFINE d == DepthFirst(g)
            succ == Succ(g)
<1>1. SearchInv(g, d) /\ ToSet(d.order) = Ids(g) /\ d.left = {} /\ BackEdges(g) = d.back
  BY DepthFirstIs DEF BackEdges
<1>. HIDE DEF d
<1>2. Loops(g) = {} => d.back = {}
  BY <1>1 DEF SearchInv
<1>3. ASSUME d.back = {}, NEW n \in Loops(g) PROVE FALSE
  <2>1. d.order \in Seq(Ids(g))
    BY <1>1, SearchIs DEF SearchInv
  <2>2. IsSucc(succ) /\ DOMAIN succ = Ids(g)
    BY GraphIs
  <2>3. n \in Ids(g) /\ n \in Reach(succ, succ[n]) /\ succ[n] \subseteq Ids(g)
    BY <2>2 DEF Loops, IsSucc
  <2>. DEFINE K == {k \in 1..Len(d.order) : d.order[k] = n}
  <2>4. Len(d.order) \in Nat /\ K \subseteq Nat /\ K # {}
    BY <1>1, <2>1, <2>3, ToSetIs
  <2>5. PICK k \in K : \A j \in K : k <= j
    BY <2>4, LeastNat
  <2>6. k \in 1..Len(d.order) /\ d.order[k] = n
    BY <2>5
  <2>. HIDE DEF K
  <2>7. ASSUME NEW j \in 1..k, NEW m \in succ[d.order[j]] PROVE m \in LeftBy(d.order, j - 1)
    <3>1. j \in 1..Len(d.order) /\ d.order[j] \in Ids(g)
      BY <2>1, <2>4, <2>6
    <3>2. PICK i \in Inside(g) : g.edges[i].from = d.order[j] /\ g.edges[i].to = m
      BY <3>1, InsideIs
    <3>3. Earlier(g, d, i)
      BY <1>1, <1>3 DEF SearchInv, Ordered
    <3>. QED BY <3>1, <3>2, <3>3 DEF Earlier, LeftBy
  <2>. DEFINE T == LeftBy(d.order, k - 1)
  <2>8. \A j \in 1..k : LeftBy(d.order, j - 1) \subseteq T
    BY <2>4, <2>6 DEF LeftBy
  <2>9. succ[n] \subseteq T
    BY <2>6, <2>7
  <2>10. ASSUME NEW x \in T PROVE succ[x] \subseteq T
    <3>1. PICK j \in 1..(k - 1) : x = d.order[j]
      BY DEF LeftBy
    <3>2. j \in 1..k
      BY <2>4, <2>6
    <3>. HIDE DEF T
    <3>. QED BY <2>7, <2>8, <3>1, <3>2
  <2>11. n \notin T
    <3>1. ASSUME NEW j \in 1..(k - 1) PROVE d.order[j] # n
      <4>1. j \in 1..Len(d.order) /\ ~(k <= j)
        BY <2>4, <2>6
      <4>. QED BY <2>5, <4>1 DEF K
    <3>. QED BY <3>1 DEF LeftBy
  <2>. HIDE DEF T
  <2>12. Reach(succ, succ[n]) \subseteq T
    BY <2>2, <2>3, <2>9, <2>10, ReachLeast
  <2>. QED BY <2>3, <2>11, <2>12
<1>. QED BY <1>1, <1>2, <1>3

----------------------------------------------------------------------------
(* The components                                                          *)

\* The nodes on a loop with n, and n.
Mutual(g, n) ==
    {m \in Ids(g) : m \in Reach(Succ(g), {n}) /\ n \in Reach(Succ(g), {m})}

LEMMA MutualIs ==
    ASSUME NEW g \in Graphs, NEW n \in Ids(g)
    PROVE  /\ n \in Mutual(g, n) /\ Mutual(g, n) \subseteq Ids(g)
           /\ \A m \in Mutual(g, n) : Mutual(g, m) = Mutual(g, n)
<1>. DEFINE R(x) == Reach(Succ(g), {x})
<1>1. IsSucc(Succ(g)) /\ DOMAIN Succ(g) = Ids(g)
  BY GraphIs
<1>2. \A x \in Ids(g) : x \in R(x)
  BY <1>1, ReachIs
<1>3. \A x \in Ids(g) : \A y \in R(x) : R(y) \subseteq R(x)
  BY <1>1, ReachTransitive
<1>4. \A x : Mutual(g, x) = {m \in Ids(g) : m \in R(x) /\ x \in R(m)}
  BY DEF Mutual
<1>. HIDE DEF R
<1>5. ASSUME NEW m \in Mutual(g, n) PROVE Mutual(g, m) = Mutual(g, n)
  <2>1. m \in Ids(g) /\ m \in R(n) /\ n \in R(m)
    BY <1>4
  <2>2. \A x \in Ids(g) : x \in R(n) <=> x \in R(m)
    BY <1>3, <2>1
  <2>3. \A x \in Ids(g) : n \in R(x) <=> m \in R(x)
    BY <1>3, <2>1
  <2>. QED BY <1>4, <2>2, <2>3
<1>. QED BY <1>2, <1>4, <1>5

\* Two nodes of one component are both on a loop.
LEMMA MutualLoops ==
    ASSUME NEW g \in Graphs, NEW n \in Ids(g), NEW m \in Mutual(g, n), m # n
    PROVE  m \in Loops(g)
<1>. DEFINE succ == Succ(g)
            R == Reach(succ, succ[m])
<1>1. IsSucc(succ) /\ DOMAIN succ = Ids(g)
  BY GraphIs
<1>2. m \in Ids(g) /\ m \in Reach(succ, {n}) /\ n \in Reach(succ, {m})
  BY DEF Mutual
<1>3. n \in R
  BY <1>1, <1>2, ReachOnward
<1>4. succ[m] \subseteq DOMAIN succ
  BY <1>1, <1>2 DEF IsSucc
<1>5. Closed(succ, R)
  BY <1>1, <1>4, ReachIs
<1>. HIDE DEF R
<1>6. Reach(succ, {n}) \subseteq R
  BY <1>1, <1>3, <1>5, ReachLeast DEF Closed
<1>. QED BY <1>2, <1>6 DEF Loops, R

\* Backwards among the nodes outside U, what the second pass gathers.
Open(g, U) == [m \in Ids(g) |-> Preds(g)[m] \ U]

LEMMA OpenIs ==
    ASSUME NEW g \in Graphs, NEW U
    PROVE  /\ IsSucc(Open(g, U)) /\ DOMAIN Open(g, U) = Ids(g)
           /\ \A m \in Ids(g) : Open(g, U)[m] = {x \in Ids(g) \ U : m \in Succ(g)[x]}
<1>1. IsFiniteSet(Ids(g))
  BY GraphIs
<1>2. \A m \in Ids(g) : Preds(g)[m] = {x \in Ids(g) : m \in Succ(g)[x]}
  BY Zenon DEF Preds
<1>3. DOMAIN Open(g, U) = Ids(g) /\ \A m \in Ids(g) : Open(g, U)[m] = Preds(g)[m] \ U
  BY Zenon DEF Open
<1>4. \A m \in Ids(g) : Open(g, U)[m] = {x \in Ids(g) \ U : m \in Succ(g)[x]}
  BY <1>2, <1>3
<1>. QED BY <1>1, <1>3, <1>4 DEF IsSucc

\* What is gathered reaches n, and is outside U.
LEMMA GatheredReach ==
    ASSUME NEW g \in Graphs, NEW U, NEW n \in Ids(g) \ U, NEW x \in Reach(Open(g, U), {n})
    PROVE  x \in Ids(g) \ U /\ n \in Reach(Succ(g), {x})
<1>. DEFINE succ == Succ(g)
            open == Open(g, U)
            T == {y \in Ids(g) \ U : n \in Reach(succ, {y})}
<1>1. IsSucc(succ) /\ DOMAIN succ = Ids(g)
  BY GraphIs
<1>2. /\ IsSucc(open) /\ DOMAIN open = Ids(g)
      /\ \A m \in Ids(g) : open[m] = {y \in Ids(g) \ U : m \in succ[y]}
  BY OpenIs
<1>. HIDE DEF open
<1>3. {n} \subseteq T
  BY <1>1, ReachIs
<1>4. ASSUME NEW y \in T \cap DOMAIN open, NEW z \in open[y] PROVE z \in T
  <2>1. z \in Ids(g) \ U /\ y \in succ[z] /\ y \in Ids(g) /\ n \in Reach(succ, {y})
    BY <1>2
  <2>2. n \in Reach(succ, {z})
    BY <1>1, <2>1, ReachOnward
  <2>. QED BY <2>1, <2>2
<1>. HIDE DEF T
<1>5. Reach(open, {n}) \subseteq T
  BY <1>2, <1>3, <1>4, ReachLeast
<1>. QED BY <1>5 DEF T, open

\* The component of n is gathered, when none of it was before.
LEMMA GatheredAll ==
    ASSUME NEW g \in Graphs, NEW U, NEW n \in Ids(g), Mutual(g, n) \cap U = {}
    PROVE  Mutual(g, n) \subseteq Reach(Open(g, U), {n})
<1>. DEFINE succ == Succ(g)
            open == Open(g, U)
            C == Mutual(g, n)
            R == Reach(open, {n})
            W == (C \ R) \cup {x \in Ids(g) : n \notin Reach(succ, {x})}
<1>1. IsSucc(succ) /\ DOMAIN succ = Ids(g)
  BY GraphIs
<1>2. /\ IsSucc(open) /\ DOMAIN open = Ids(g)
      /\ \A m \in Ids(g) : open[m] = {y \in Ids(g) \ U : m \in succ[y]}
  BY OpenIs
<1>. HIDE DEF open
<1>3. n \in R /\ Closed(open, R) /\ R \subseteq Ids(g)
  BY <1>2, ReachIs
<1>4. n \in Reach(succ, {n})
  BY <1>1, ReachIs
<1>5. \A x \in Ids(g) : x \in C <=> x \in Reach(succ, {n}) /\ n \in Reach(succ, {x})
  BY DEF Mutual
<1>6. C \subseteq Ids(g)
  BY DEF Mutual
<1>. HIDE DEF R, C
<1>7. ASSUME NEW x \in W \cap DOMAIN succ, NEW y \in succ[x] PROVE y \in W
  <2>1. x \in Ids(g) /\ y \in Ids(g)
    BY <1>1 DEF IsSucc
  <2>2. Reach(succ, {y}) \subseteq Reach(succ, {x})
    BY <1>1, <2>1, ReachOnward
  <2>3. CASE n \notin Reach(succ, {y})
    BY <2>1, <2>3
  <2>4. CASE n \in Reach(succ, {y})
    <3>1. x \in C \ R
      BY <2>2, <2>4
    <3>2. x \in Reach(succ, {n})
      BY <1>5, <2>1, <3>1
    <3>3. y \in Reach(succ, {n})
      <4>1. Closed(succ, Reach(succ, {n}))
        BY <1>1, ReachIs
      <4>. QED BY <3>2, <4>1 DEF Closed
    <3>4. y \in C
      BY <1>5, <2>1, <2>4, <3>3
    <3>5. x \in open[y]
      BY <1>2, <2>1, <3>1 DEF C
    <3>6. y \notin R
      BY <1>3, <3>1, <3>5 DEF Closed
    <3>. QED BY <3>4, <3>6
  <2>. QED BY <2>3, <2>4
<1>8. n \notin W
  BY <1>3, <1>4
<1>9. ASSUME NEW m \in C \ R PROVE FALSE
  <2>1. m \in W /\ m \in Ids(g) /\ n \in Reach(succ, {m})
    BY <1>5, <1>6
  <2>. HIDE DEF W
  <2>2. Reach(succ, {m}) \subseteq W
    BY <1>1, <1>7, <2>1, ReachLeast
  <2>. QED BY <1>8, <2>1, <2>2
<1>. QED BY <1>9 DEF C, R, open

\* Every component meets U in nothing or lies in it.
Whole(g, U) == \A x \in U : x \in Ids(g) /\ Mutual(g, x) \subseteq U

\* And nothing else is gathered, when the nodes that were left later are in U.
LEMMA GatheredOnly ==
    ASSUME NEW g \in Graphs, NEW s, SearchInv(g, s), ToSet(s.order) = Ids(g),
           NEW U, Whole(g, U), NEW k \in 1..Len(s.order), s.order[k] \notin U,
           \A j \in 1..Len(s.order) : j > k => s.order[j] \in U
    PROVE  Reach(Open(g, U), {s.order[k]}) \subseteq Mutual(g, s.order[k])
<1>. DEFINE n == s.order[k]
            succ == Succ(g)
            K == Len(s.order)
<1>1. s.order \in Seq(Ids(g))
  BY SearchIs DEF SearchInv
<1>2. K \in Nat /\ \A j \in 1..K : s.order[j] \in Ids(g)
  BY <1>1, SeqIs
<1>3. IsSucc(succ) /\ DOMAIN succ = Ids(g)
  BY GraphIs
<1>4. SUFFICES ASSUME NEW x \in Reach(Open(g, U), {n}), x \notin Mutual(g, n) PROVE FALSE
  OBVIOUS
<1>5. n \in Ids(g) \ U
  BY <1>2
<1>6. x \in Ids(g) \ U /\ n \in Reach(succ, {x})
  <2>. HIDE DEF n
  <2>. QED BY <1>5, GatheredReach, Zenon
<1>. DEFINE C == Mutual(g, x)
            J == {i \in Nat : i <= k /\ k - i \in 1..K /\ s.order[k - i] \in C}
<1>7. x \in C /\ C \subseteq Ids(g) /\ \A y \in C : Mutual(g, y) = C
  BY <1>6, MutualIs
<1>8. C \cap U = {}
  BY <1>6, <1>7 DEF Whole
<1>9. n \notin C
  <2>1. n \in C => Mutual(g, n) = C
    BY <1>7
  <2>. QED BY <1>4, <1>7, <2>1
<1>10. \A j \in 1..K : s.order[j] \in C => j < k
  <2>1. ASSUME NEW j \in 1..K, s.order[j] \in C PROVE j < k
    <3>1. ~(j > k)
      BY <1>8, <2>1
    <3>2. j # k
      BY <1>9, <2>1
    <3>. QED BY <1>2, <3>1, <3>2
  <2>. QED BY <2>1
<1>. HIDE DEF C
<1>11. \A y \in C : \E j \in 1..K : y = s.order[j]
  BY <1>1, <1>7, ToSetIs
<1>12. J # {}
  <2>1. PICK j \in 1..K : x = s.order[j]
    BY <1>7, <1>11
  <2>2. j < k
    BY <1>7, <1>10, <2>1
  <2>3. k - j \in Nat /\ k - j <= k /\ k - (k - j) = j
    BY <1>2, <2>2
  <2>4. k - j \in J
    BY <1>7, <2>1, <2>3
  <2>. QED BY <2>4
<1>13. PICK i \in J : \A h \in J : i <= h
  BY <1>12, LeastNat
<1>. DEFINE l == k - i
            y == s.order[l]
            B == LeftBy(s.order, l)
<1>14. l \in 1..K /\ y \in C
  BY <1>13
<1>15. \A j \in 1..K : s.order[j] \in C => j <= l
  <2>1. ASSUME NEW j \in 1..K, s.order[j] \in C PROVE j <= l
    <3>1. j < k
      BY <1>10, <2>1
    <3>2. k - j \in Nat /\ k - j <= k /\ k - (k - j) = j
      BY <1>2, <3>1
    <3>3. k - j \in J
      BY <2>1, <3>2
    <3>4. i <= k - j
      BY <1>13, <3>3
    <3>. QED BY <1>2, <1>13, <3>4
  <2>. QED BY <2>1
<1>. HIDE DEF J
<1>16. l < k
  BY <1>10, <1>14
<1>. HIDE DEF l
<1>17. n \notin B
  <2>1. \A h \in 1..l : h \in 1..K /\ h # k
    BY <1>2, <1>14, <1>16
  <2>2. \A h \in 1..l : s.order[h] # n
    BY <2>1 DEF SearchInv, Once
  <2>. QED BY <2>2 DEF LeftBy
<1>18. n \in Reach(succ, {y})
  <2>1. x \in Reach(succ, {y}) /\ y \in Ids(g)
    BY <1>7, <1>14 DEF C, Mutual
  <2>2. Reach(succ, {x}) \subseteq Reach(succ, {y})
    BY <1>3, <2>1, ReachTransitive
  <2>. QED BY <1>6, <2>2
<1>19. FinishedAt(g, s.order, l)
  BY <1>14 DEF SearchInv, Finished
<1>20. PICK z \in Ids(g) \ B : z \in Reach(succ, {y}) /\ y \in Reach(succ, {z})
  BY <1>17, <1>18, <1>19 DEF FinishedAt
<1>21. z \in Mutual(g, y)
  BY <1>20 DEF Mutual
<1>22. z \in C
  BY <1>7, <1>14, <1>21
<1>23. PICK j \in 1..K : z = s.order[j]
  BY <1>11, <1>22
<1>24. j <= l
  BY <1>15, <1>22, <1>23
<1>25. j \in 1..l
  BY <1>2, <1>14, <1>24
<1>. QED BY <1>20, <1>23, <1>25 DEF LeftBy

Gather(g, order, k, before) ==
    LET n == order[Len(order) + 1 - k]
    IN  IF n \in UNION before THEN before
        ELSE before \cup {Reach(Open(g, UNION before), {n})}

IsGathered(f, g, order, n) ==
    f = [k \in 0..n |-> IF k = 0 THEN {} ELSE Gather(g, order, k, f[k - 1])]

LEMMA GatheredExist ==
    ASSUME NEW g, NEW order, NEW most \in Nat
    PROVE  \E f : IsGathered(f, g, order, most)
<1>. DEFINE N == {n \in Nat : \E f : IsGathered(f, g, order, n)}
<1>1. 0 \in N
  <2>. DEFINE f == [i \in 0..0 |-> {}]
  <2>1. IsGathered(f, g, order, 0)
    BY DEF IsGathered
  <2>. QED BY <2>1
<1>2. ASSUME NEW n \in Nat, n \in N PROVE n + 1 \in N
  <2>1. PICK f : IsGathered(f, g, order, n)
    BY <1>2
  <2>. DEFINE h == [i \in 0..(n + 1) |->
                       IF i = n + 1 THEN Gather(g, order, n + 1, f[n]) ELSE f[i]]
  <2>2. \A i \in 0..n : f[i] = IF i = 0 THEN {} ELSE Gather(g, order, i, f[i - 1])
    BY <2>1, Zenon DEF IsGathered
  <2>3. \A i \in 0..n : i \in 0..(n + 1) /\ i # n + 1 /\ h[i] = f[i]
    OBVIOUS
  <2>4. ASSUME NEW i \in 0..(n + 1)
        PROVE  h[i] = IF i = 0 THEN {} ELSE Gather(g, order, i, h[i - 1])
    <3>1. CASE i = n + 1
      <4>1. i # 0 /\ i - 1 = n /\ n \in 0..n /\ h[i] = Gather(g, order, n + 1, f[n])
        BY <3>1
      <4>. HIDE DEF h
      <4>. QED BY <2>3, <3>1, <4>1
    <3>2. CASE i # n + 1
      <4>1. i \in 0..n /\ (i # 0 => i - 1 \in 0..n)
        BY <3>2
      <4>. HIDE DEF h
      <4>. QED BY <2>2, <2>3, <4>1
    <3>. QED BY <3>1, <3>2
  <2>5. IsGathered(h, g, order, n + 1)
    <3>1. h = [i \in 0..(n + 1) |-> h[i]]
      OBVIOUS
    <3>. HIDE DEF h
    <3>. QED BY <2>4, <3>1, Zenon DEF IsGathered
  <2>. QED BY <2>5
<1>. HIDE DEF N
<1>3. most \in N
  BY <1>1, <1>2, CountUp
<1>. QED BY <1>3 DEF N

GathersBy(f, g, order) ==
    /\ Gathered(g, order) = f[Len(order)] /\ f[0] = {}
    /\ \A k \in 0..Len(order) : k # 0 => f[k] = Gather(g, order, k, f[k - 1])

LEMMA GatheredAre ==
    ASSUME NEW g, NEW order, Len(order) \in Nat
    PROVE  \E f : GathersBy(f, g, order)
<1>. DEFINE most == Len(order)
            Is(h) == h = [k \in 0..most |->
                            IF k = 0 THEN {} ELSE
                            IF order[most + 1 - k] \in UNION h[k - 1] THEN h[k - 1]
                            ELSE h[k - 1] \cup
                                 {Reach([m \in Ids(g) |-> Preds(g)[m] \ UNION h[k - 1]],
                                        {order[most + 1 - k]})}]
            f == CHOOSE h : Is(h)
<1>1. Gathered(g, order) = f[most]
  BY Zenon DEF Gathered
<1>2. \A h : IsGathered(h, g, order, most) <=> Is(h)
  BY Zenon DEF IsGathered, Gather, Open
<1>. HIDE DEF Is
<1>3. IsGathered(f, g, order, most)
  BY <1>2, GatheredExist, Zenon
<1>. HIDE DEF f
<1>4. \A i \in 0..most : f[i] = IF i = 0 THEN {} ELSE Gather(g, order, i, f[i - 1])
  BY <1>3, Zenon DEF IsGathered
<1>5. 0 \in 0..most
  OBVIOUS
<1>6. GathersBy(f, g, order)
  BY <1>1, <1>4, <1>5 DEF GathersBy
<1>. QED BY <1>6

\* The second pass finds the components.
LEMMA GatheredIs ==
    ASSUME NEW g \in Graphs
    PROVE  Gathered(g, DepthFirst(g).order) = {Mutual(g, n) : n \in Ids(g)}
<1>. DEFINE d == DepthFirst(g)
            order == d.order
            K == Len(order)
            All == {Mutual(g, n) : n \in Ids(g)}
<1>1. SearchInv(g, d) /\ ToSet(order) = Ids(g)
  BY DepthFirstIs
<1>. HIDE DEF d
<1>2. order \in Seq(Ids(g))
  BY <1>1, SearchIs DEF SearchInv
<1>3. K \in Nat /\ \A j \in 1..K : order[j] \in Ids(g)
  BY <1>2, SeqIs
<1>0. PICK f : GathersBy(f, g, order)
  <2>. HIDE DEF order
  <2>. QED BY <1>3, GatheredAre
<1>4. /\ Gathered(g, order) = f[K] /\ f[0] = {}
      /\ \A k \in 0..K : k # 0 => f[k] = Gather(g, order, k, f[k - 1])
  BY <1>0 DEF GathersBy
<1>. DEFINE Good(k) == /\ f[k] \subseteq All
                       /\ \A j \in 1..K : j > K - k => order[j] \in UNION f[k]
            N == {k \in Nat : k <= K => Good(k)}
<1>5. 0 \in N
  BY <1>3, <1>4
<1>6. ASSUME NEW k \in Nat, k + 1 <= K, Good(k) PROVE Good(k + 1)
  <2>. DEFINE U == UNION f[k]
              i == K - k
              n == order[i]
              C == Reach(Open(g, U), {n})
  <2>1. k + 1 \in 0..K /\ k + 1 # 0 /\ (k + 1) - 1 = k /\ K + 1 - (k + 1) = i /\ i \in 1..K
        /\ K - (k + 1) = i - 1
    <3>1. K \in Nat
      BY <1>3
    <3>. HIDE DEF K, Good
    <3>. QED BY <1>6, <3>1
  <2>2. f[k + 1] = IF n \in U THEN f[k] ELSE f[k] \cup {C}
    <3>1. f[k + 1] = Gather(g, order, k + 1, f[k])
      BY <1>4, <2>1
    <3>. QED BY <2>1, <3>1, Zenon DEF Gather
  <2>3. f[k] \subseteq All /\ \A j \in 1..K : j > i => order[j] \in U
    BY <1>6
  <2>4. Whole(g, U)
    <3>1. ASSUME NEW x \in U PROVE x \in Ids(g) /\ Mutual(g, x) \subseteq U
      <4>1. PICK m \in Ids(g) : x \in Mutual(g, m) /\ Mutual(g, m) \in f[k]
        BY <2>3
      <4>2. Mutual(g, x) = Mutual(g, m) /\ Mutual(g, m) \subseteq Ids(g)
        BY <4>1, MutualIs
      <4>. QED BY <4>1, <4>2
    <3>. HIDE DEF U
    <3>. QED BY <3>1 DEF Whole
  <2>5. n \in Ids(g)
    BY <1>3, <2>1
  <2>6. ASSUME n \notin U PROVE C = Mutual(g, n)
    <3>. HIDE DEF U
    <3>1. C \subseteq Mutual(g, n)
      <4>. HIDE DEF i, K
      <4>. QED BY <1>1, <2>1, <2>3, <2>4, <2>6, GatheredOnly DEF K
    <3>. HIDE DEF n
    <3>2. Mutual(g, n) \cap U = {}
      <4>1. ASSUME NEW x \in Mutual(g, n), x \in U PROVE FALSE
        <5>1. Mutual(g, x) = Mutual(g, n) /\ n \in Mutual(g, n)
          BY <2>5, MutualIs
        <5>2. Mutual(g, x) \subseteq U
          BY <2>4, <4>1 DEF Whole
        <5>. QED BY <2>6, <5>1, <5>2
      <4>. QED BY <4>1
    <3>3. Mutual(g, n) \subseteq C
      BY <2>5, <3>2, GatheredAll
    <3>. QED BY <3>1, <3>3
  <2>7. n \in Mutual(g, n) /\ Mutual(g, n) \in All
    BY <2>5, MutualIs
  <2>8. f[k + 1] \subseteq All /\ U \subseteq UNION f[k + 1] /\ n \in UNION f[k + 1]
    <3>. HIDE DEF C, n, All
    <3>. QED BY <2>2, <2>3, <2>6, <2>7
  <2>9. \A j \in 1..K : j > i - 1 => j > i \/ j = i
    BY <1>3, <2>1
  <2>. QED BY <2>1, <2>3, <2>8, <2>9
<1>. HIDE DEF Good
<1>7. \A k \in Nat : k \in N => k + 1 \in N
  <2>. HIDE DEF K
  <2>. QED BY <1>3, <1>6
<1>. HIDE DEF N
<1>8. K \in N
  BY <1>3, <1>5, <1>7, CountUp
<1>9. f[K] \subseteq All /\ \A j \in 1..K : order[j] \in UNION f[K]
  <2>1. Good(K)
    BY <1>3, <1>8 DEF N
  <2>2. \A j \in 1..K : j > K - K
    BY <1>3
  <2>. QED BY <2>1, <2>2 DEF Good
<1>10. ASSUME NEW n \in Ids(g) PROVE Mutual(g, n) \in f[K]
  <2>1. n \in UNION f[K]
    BY <1>1, <1>2, <1>9, ToSetIs
  <2>2. PICK m \in Ids(g) : n \in Mutual(g, m) /\ Mutual(g, m) \in f[K]
    BY <1>9, <2>1
  <2>3. Mutual(g, n) = Mutual(g, m)
    BY <2>2, MutualIs
  <2>. QED BY <2>2, <2>3
<1>. QED BY <1>4, <1>9, <1>10 DEF d

\* TOPO-004 and TOPO-005 look at the components of the nodes on a loop.
LEMMA ComponentsAgree ==
    ASSUME NEW g \in Graphs
    PROVE  Components(g) = {Mutual(g, n) : n \in Loops(g)}
<1>. DEFINE succ == Succ(g)
<1>1. IsSucc(succ) /\ DOMAIN succ = Ids(g) /\ IsFiniteSet(Ids(g))
  BY GraphIs
<1>2. Gathered(g, DepthFirst(g).order) = {Mutual(g, n) : n \in Ids(g)}
  BY GatheredIs
<1>3. ASSUME NEW n \in Ids(g)
      PROVE  n \in Loops(g) <=> \/ Cardinality(Mutual(g, n)) > 1
                                \/ \E m \in Mutual(g, n) : Mutual(g, n) = {m} /\ m \in succ[m]
  <2>. DEFINE C == Mutual(g, n)
  <2>1. n \in C /\ C \subseteq Ids(g)
    BY MutualIs
  <2>2. ASSUME NEW m \in C, m # n PROVE n \in Loops(g)
    <3>1. n \in Mutual(g, m) /\ m \in Ids(g)
      BY <2>1, MutualIs
    <3>. QED BY <2>2, <3>1, MutualLoops
  <2>. HIDE DEF C
  <2>3. ASSUME C # {n} PROVE n \in Loops(g) /\ Cardinality(C) > 1
    <3>1. PICK m \in C : m # n
      BY <2>1, <2>3
    <3>2. IsFiniteSet(C)
      BY <1>1, <2>1, FS_Subset
    <3>3. Cardinality({n}) = 1
      BY FS_Singleton
    <3>4. {n} \subseteq C /\ {n} # C
      BY <2>1, <2>3
    <3>5. Cardinality({n}) < Cardinality(C) /\ Cardinality(C) \in Nat
      BY <3>2, <3>4, FS_Subset, FS_CardinalityType
    <3>. QED BY <2>2, <3>1, <3>3, <3>5
  <2>4. ASSUME C = {n} PROVE n \in succ[n] <=> n \in Loops(g)
    <3>1. succ[n] \subseteq Reach(succ, succ[n]) /\ succ[n] \subseteq Ids(g)
      BY <1>1, ReachIs DEF IsSucc
    <3>2. ASSUME n \in Reach(succ, succ[n]) PROVE n \in succ[n]
      <4>1. PICK x \in succ[n] : n \in Reach(succ, {x})
        BY <1>1, <3>1, <3>2, ReachFromOne
      <4>2. x \in Ids(g) /\ x \in Reach(succ, {x}) /\ Reach(succ, {x}) \subseteq Reach(succ, {n})
        BY <1>1, <3>1, <4>1, ReachIs, ReachOnward
      <4>3. x \in C
        BY <4>1, <4>2 DEF C, Mutual
      <4>. QED BY <2>4, <4>1, <4>3
    <3>. QED BY <3>1, <3>2 DEF Loops
  <2>5. C = {n} => ~(Cardinality(C) > 1)
    BY FS_Singleton
  <2>6. (Cardinality(C) > 1 \/ \E m \in C : C = {m} /\ m \in succ[m]) <=> n \in Loops(g)
    BY <2>1, <2>3, <2>4, <2>5
  <2>. QED BY <2>6 DEF C
<1>4. Loops(g) \subseteq Ids(g)
  BY DEF Loops
<1>5. Components(g) = {c \in Gathered(g, DepthFirst(g).order) :
                          Cardinality(c) > 1 \/ \E m \in c : c = {m} /\ m \in succ[m]}
  BY DEF Components
<1>. HIDE DEF succ
<1>. QED BY <1>2, <1>3, <1>4, <1>5

----------------------------------------------------------------------------
(* Cycles and the walk                                                     *)

\* Where nothing reaches itself, what was executed since the last gate retry lies
\* behind the walk, and was executed once.
VisitsInv ==
    /\ visits \in [Ids(graph) -> Nat]
    /\ phase = "loaded" => \A n \in Ids(graph) : visits[n] = 0
    /\ Loops(graph) = {} =>
          \A n \in Ids(graph) :
              /\ visits[n] <= 1
              /\ phase = "top" /\ visits[n] # 0 => node \in Reach(Succ(graph), Succ(graph)[n])
              /\ phase = "route" /\ visits[n] # 0 =>
                    n = node \/ node \in Reach(Succ(graph), Succ(graph)[n])

LEMMA NoVisitsIs ==
    ASSUME NEW g
    PROVE  NoVisits(g) \in [Ids(g) -> Nat] /\ \A n \in Ids(g) : NoVisits(g)[n] = 0
BY DEF NoVisits

LEMMA VisitsInit == Init => VisitsInv
<1>. SUFFICES ASSUME Init PROVE VisitsInv
  OBVIOUS
<1>1. phase = "loaded" /\ visits = NoVisits(graph)
  BY DEF Init
<1>. QED BY <1>1, NoVisitsIs DEF VisitsInv

LEMMA VisitsStep == WalkInv /\ VisitsInv /\ [Next]_vars => VisitsInv'
<1>. SUFFICES ASSUME WalkInv, VisitsInv, [Next]_vars PROVE VisitsInv'
  OBVIOUS
<1>. DEFINE succ == Succ(graph)
            Behind(n) == Reach(succ, succ[n])
<1>0. /\ IsSucc(succ) /\ DOMAIN succ = Ids(graph)
      /\ \A n \in Ids(graph) : succ[n] \subseteq Ids(graph)
  BY GraphIs DEF WalkInv, IsSucc
<1>1. CASE Admit
  <2>1. phase = "loaded" /\ phase' \in {"refused", "top"} /\ UNCHANGED <<graph, visits>>
    BY <1>1 DEF Admit
  <2>. QED BY <2>1 DEF VisitsInv
<1>2. CASE Execute
  <2>1. /\ phase = "top" /\ phase' = "route" /\ visits' = [visits EXCEPT ![node] = @ + 1]
        /\ UNCHANGED <<graph, node>>
    BY <1>2 DEF Execute
  <2>2. node \in Ids(graph)
    BY <2>1 DEF WalkInv, Walking
  <2>3. /\ visits' \in [Ids(graph) -> Nat]
        /\ \A n \in Ids(graph) : visits'[n] = IF n = node THEN visits[n] + 1 ELSE visits[n]
    BY <2>1, <2>2 DEF VisitsInv
  <2>4. Loops(graph) = {} => visits[node] = 0
    BY <2>1, <2>2 DEF VisitsInv, Loops
  <2>. QED BY <2>1, <2>3, <2>4 DEF VisitsInv
<1>3. CASE Follow
  <2>1. /\ phase = "route" /\ phase' = "top" /\ Selected # NoEdge
        /\ node' = graph.edges[Selected].to /\ UNCHANGED <<graph, visits>>
    BY <1>3 DEF Follow
  <2>2. /\ Complete(graph) /\ Selected \in DOMAIN graph.edges
        /\ graph.edges[Selected].from = node
    BY <2>1, FollowedIs
  <2>3. node \in Ids(graph)
    BY <2>1 DEF WalkInv, Walking
  <2>4. node' \in succ[node]
    <3>1. Selected \in Inside(graph)
      BY <2>2 DEF Complete
    <3>. QED BY <2>1, <2>2, <3>1, InsideIs DEF WalkInv
  <2>5. \A n \in Ids(graph) : succ[n] \subseteq Behind(n) /\ Closed(succ, Behind(n))
    BY <1>0, ReachIs
  <2>6. \A n \in Ids(graph) : n = node \/ node \in Behind(n) => node' \in Behind(n)
    <3>. HIDE DEF Behind, succ
    <3>. QED BY <2>3, <2>4, <2>5 DEF Closed
  <2>. QED BY <2>1, <2>6 DEF VisitsInv
<1>4. CASE RetryGate
  <2>1. phase = "top" /\ phase' = "top" /\ visits' = NoVisits(graph) /\ graph' = graph
    BY <1>4 DEF RetryGate
  <2>. QED BY <2>1, NoVisitsIs DEF VisitsInv
<1>5. CASE Undispatched \/ NoMatch \/ Finish
  <2>1. phase' \in {"raised", "end"} /\ UNCHANGED <<graph, visits>>
    BY <1>5 DEF Undispatched, NoMatch, Finish
  <2>. QED BY <2>1 DEF VisitsInv
<1>6. CASE UNCHANGED vars
  BY <1>6 DEF vars, VisitsInv
<1>. QED BY <1>1, <1>2, <1>3, <1>4, <1>5, <1>6 DEF Next

LEMMA Cycles == WalkInv /\ VisitsInv => CyclesAgree
<1>. SUFFICES ASSUME WalkInv, VisitsInv PROVE CyclesAgree
  OBVIOUS
<1>0. graph \in Graphs
  BY DEF WalkInv
<1>. DEFINE loops == {n \in Ids(graph) : n \in Reach(Succ(graph), Succ(graph)[n])}
            mutual(n) == {m \in loops : /\ m \in Reach(Succ(graph), {n})
                                        /\ n \in Reach(Succ(graph), {m})}
<1>1. loops = Loops(graph)
  BY DEF Loops
<1>2. (BackEdges(graph) = {}) <=> (loops = {})
  BY <1>0, <1>1, BackEdgesAgree
<1>3. ASSUME NEW n \in loops PROVE mutual(n) = Mutual(graph, n)
  <2>1. n \in Ids(graph)
    OBVIOUS
  <2>2. \A m \in Mutual(graph, n) : m \in loops
    BY <1>0, <1>1, <2>1, MutualLoops
  <2>3. loops \subseteq Ids(graph)
    OBVIOUS
  <2>. HIDE DEF loops
  <2>. QED BY <2>2, <2>3 DEF Mutual
<1>4. Components(graph) = {mutual(n) : n \in loops}
  <2>1. Components(graph) = {Mutual(graph, n) : n \in loops}
    BY <1>0, <1>1, ComponentsAgree
  <2>. HIDE DEF loops, mutual
  <2>. QED BY <1>3, <2>1
<1>5. ASSUME Flagged("acyclic_graph", "") PROVE \A n \in Ids(graph) : visits[n] <= 1
  <2>1. CASE phase = "loaded"
    BY <2>1 DEF VisitsInv
  <2>2. CASE phase # "loaded"
    <3>1. PICK d \in diags : d.rule = "acyclic_graph"
      BY <1>5 DEF Flagged
    <3>2. d \in AcyclicGraph(graph)
      BY <2>2, <3>1, RuleIs DEF WalkInv
    <3>3. BackEdges(graph) = {}
      BY <3>2 DEF AcyclicGraph
    <3>. QED BY <1>1, <1>2, <3>3 DEF VisitsInv
  <2>. QED BY <2>1, <2>2
<1>. HIDE DEF loops
<1>. QED BY <1>2, <1>4, <1>5, Zenon DEF CyclesAgree, loops

\* The depth-first search of TOPO-003 finds a back edge exactly when a node reaches
\* itself, the two passes of _compute_sccs find exactly the components of such nodes,
\* and the engine executes no node twice, short of a goal gate retry, in a graph that
\* TOPO-003 says has no cycle: for every graph.
THEOREM CyclesFound == Spec => []CyclesAgree
<1>1. Spec => [](WalkInv /\ VisitsInv)
  BY WalkInit, WalkStep, VisitsInit, VisitsStep, PTL DEF Spec
<1>. QED BY <1>1, Cycles, PTL
=============================================================================

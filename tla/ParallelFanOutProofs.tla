------------------------ MODULE ParallelFanOutProofs ------------------------
(***************************************************************************)
(* The semaphore of a fan-out, who is left when it returns, and what it     *)
(* reports, for every graph, policy and number of branches.                *)
(***************************************************************************)
EXTENDS ParallelFanOut, FiniteSetTheorems, WellFoundedInduction, TLAPS

\* Every non-empty set of naturals has a least element.
LEMMA LeastNat ==
    ASSUME NEW S, S \subseteq Nat, S # {}
    PROVE  \E i \in S : \A j \in S : i <= j
<1> DEFINE R == OpToRel(<, Nat)
<1>1. IsWellFoundedOn(R, Nat)
  BY NatLessThanWellFounded
<1>2. R = {ss \in Nat \X Nat : ss[1] < ss[2]}
  BY Zenon DEF OpToRel
<1> HIDE DEF R
<1>3. PICK x \in S : \A y \in S : ~ (<<y, x>> \in R)
  BY <1>1, WFMin
<1>4. ASSUME NEW y \in S PROVE x <= y
  <2>1. <<y, x>> \notin R BY <1>3
  <2>2. ~ (y < x) BY <2>1, <1>2
  <2> QED BY <2>2
<1> QED BY <1>4

\* The first edge of a non-empty set of positions is one of them.
LEMMA FirstInListIn ==
    ASSUME NEW S, S \subseteq Nat, S # {}
    PROVE  FirstInList(S) \in S
BY LeastNat DEF FirstInList

\* The branches that hold the semaphore when the tasks stand as tk says.
Holders(tk) == {b \in Branches : tk[b] \in {"granted", "running", "executing"}}

\* Every branch is one of the finitely many edges of the graph.
LEMMA BranchesFinite == IsFiniteSet(Branches) /\ Branches \subseteq Nat
<1>1. DOMAIN Edges = 1..Len(Edges) /\ Len(Edges) \in Nat
  BY EdgesAssumption
<1>2. Branches \subseteq 1..Len(Edges)
  BY <1>1 DEF Branches, Outgoing
<1>3. IsFiniteSet(1..Len(Edges))
  BY <1>1, FS_Interval
<1>4. Branches \subseteq Nat
  BY <1>1, <1>2
<1>5. Branches \in SUBSET (1..Len(Edges))
  BY <1>2
<1>6. IsFiniteSet(Branches)
  BY <1>3, <1>5, FS_Subset
<1> QED BY <1>4, <1>6

LEMMA HoldersFinite ==
    ASSUME NEW tk
    PROVE  IsFiniteSet(Holders(tk)) /\ Cardinality(Holders(tk)) \in Nat
<1>1. IsFiniteSet(Holders(tk))
  BY BranchesFinite, FS_Subset DEF Holders
<1> QED BY <1>1, FS_CardinalityType

\* A branch that takes the semaphore is one holder more.
LEMMA OneMore ==
    ASSUME NEW tk \in [Branches -> Steps], NEW b \in Branches, b \notin Holders(tk),
           NEW s \in {"granted", "running", "executing"}
    PROVE  /\ [tk EXCEPT ![b] = s] \in [Branches -> Steps]
           /\ Cardinality(Holders([tk EXCEPT ![b] = s])) = Cardinality(Holders(tk)) + 1
<1>1. [tk EXCEPT ![b] = s] \in [Branches -> Steps]
  BY DEF Steps
<1>2. Holders([tk EXCEPT ![b] = s]) = Holders(tk) \cup {b}
  BY DEF Holders
<1> QED BY <1>1, <1>2, HoldersFinite, FS_AddElement

\* A holder that lets it go is one less, any other branch makes no difference.
LEMMA OneLess ==
    ASSUME NEW tk \in [Branches -> Steps], NEW b \in Holders(tk),
           NEW s \in Steps \ {"granted", "running", "executing"}
    PROVE  /\ [tk EXCEPT ![b] = s] \in [Branches -> Steps]
           /\ Cardinality(Holders([tk EXCEPT ![b] = s])) = Cardinality(Holders(tk)) - 1
<1>1. b \in Branches
  BY DEF Holders
<1>2. [tk EXCEPT ![b] = s] \in [Branches -> Steps]
  BY <1>1
<1>3. Holders([tk EXCEPT ![b] = s]) = Holders(tk) \ {b}
  BY <1>1 DEF Holders
<1> QED BY <1>2, <1>3, HoldersFinite, FS_RemoveElement

LEMMA NoneMore ==
    ASSUME NEW tk \in [Branches -> Steps], NEW b \in Branches, NEW s \in Steps,
           b \in Holders(tk) <=> s \in {"granted", "running", "executing"}
    PROVE  /\ [tk EXCEPT ![b] = s] \in [Branches -> Steps]
           /\ Holders([tk EXCEPT ![b] = s]) = Holders(tk)
BY DEF Holders

\* A release hands the slot to a branch in the queue, or puts it back.
LEMMA ReleaseReturnsOne ==
    ASSUME NEW tk \in [Branches -> Steps], permits \in Nat, Release(tk)
    PROVE  /\ task' \in [Branches -> Steps] /\ permits' \in Nat
           /\ Cardinality(Holders(task')) + permits' = Cardinality(Holders(tk)) + permits + 1
<1> DEFINE queue == {b \in Branches : tk[b] = "queued"}
<1>1. CASE queue = {}
  BY <1>1, HoldersFinite DEF Release
<1>2. CASE queue # {}
  <2>1. FirstInList(queue) \in queue
    BY <1>2, BranchesFinite, FirstInListIn
  <2>2. FirstInList(queue) \in Branches /\ FirstInList(queue) \notin Holders(tk)
    BY <2>1 DEF Holders
  <2>3. task' = [tk EXCEPT ![FirstInList(queue)] = "granted"] /\ permits' = permits
    BY <1>2 DEF Release
  <2>4. /\ task' \in [Branches -> Steps]
        /\ Cardinality(Holders(task')) = Cardinality(Holders(tk)) + 1
    BY <2>2, <2>3, OneMore
  <2>5. Cardinality(Holders(tk)) \in Nat
    BY HoldersFinite
  <2> QED BY <2>3, <2>4, <2>5
<1> QED BY <1>1, <1>2

----------------------------------------------------------------------------
(* The semaphore *)

SlotInv ==
    /\ policy \in Policies
    /\ task \in [Branches -> Steps]
    /\ permits \in Nat
    /\ Cardinality(Holders(task)) + permits = policy.slots

LEMMA SlotInvInit == Init => SlotInv
<1> SUFFICES ASSUME Init PROVE SlotInv
  OBVIOUS
<1>1. Holders(task) = {}
  BY DEF Init, Holders
<1>2. policy \in Policies /\ policy \in Policy
  BY PolicyAssumption DEF Init
<1>3. task \in [Branches -> Steps]
  BY DEF Init, Steps
<1>4. permits = policy.slots /\ permits \in Nat
  BY <1>2 DEF Init, Policy
<1>5. Cardinality(Holders(task)) = 0
  BY <1>1, FS_EmptySet
<1>6. Cardinality(Holders(task)) + permits = policy.slots
  BY <1>4, <1>5
<1> QED BY <1>2, <1>3, <1>4, <1>6 DEF SlotInv

\* A branch that ends gives back the slot it held.
LEMMA FinishKeepsSlots ==
    ASSUME SlotInv, NEW b \in Branches, b \in Holders(task), NEW s, Finish(b, s)
    PROVE  SlotInv'
<1>1. /\ [task EXCEPT ![b] = "done"] \in [Branches -> Steps]
      /\ Cardinality(Holders([task EXCEPT ![b] = "done"])) = Cardinality(Holders(task)) - 1
  BY OneLess DEF SlotInv, Steps
<1>2. /\ task' \in [Branches -> Steps] /\ permits' \in Nat
      /\ Cardinality(Holders(task')) + permits'
           = Cardinality(Holders([task EXCEPT ![b] = "done"])) + permits + 1
  BY <1>1, ReleaseReturnsOne DEF Finish, SlotInv
<1>3. policy' = policy
  BY DEF Finish, main
<1> QED BY <1>1, <1>2, <1>3, HoldersFinite, PolicyAssumption DEF SlotInv, Policy

LEMMA BranchKeepsSlots ==
    ASSUME SlotInv, NEW b \in Branches, BranchStep(b)
    PROVE  SlotInv'
<1> USE DEF SlotInv
<1>0. policy \in Policy
  BY PolicyAssumption
<1>1. CASE Bail(b)
  BY <1>1, NoneMore DEF Bail, FirstStep, main, Holders, Steps
<1>2. CASE Acquire(b)
  <2>1. b \notin Holders(task)
    BY <1>2 DEF Acquire, FirstStep, Holders
  <2>2. /\ task' \in [Branches -> Steps]
        /\ Cardinality(Holders(task')) = Cardinality(Holders(task)) + 1
    BY <1>2, <2>1, OneMore DEF Acquire
  <2> QED BY <1>0, <1>2, <2>2, HoldersFinite DEF Acquire, main, Policy
<1>3. CASE Queue(b)
  <2>1. task' = [task EXCEPT ![b] = "queued"] /\ UNCHANGED <<policy, permits>>
    BY <1>3 DEF Queue, main
  <2>2. b \notin Holders(task)
    BY <1>3 DEF Queue, FirstStep, Holders
  <2>3. "queued" \in Steps
    BY DEF Steps
  <2>4. task' \in [Branches -> Steps] /\ Holders(task') = Holders(task)
    BY <2>1, <2>2, <2>3, NoneMore
  <2> QED BY <2>1, <2>4
<1>4. CASE Resume(b)
  BY <1>4, NoneMore DEF Resume, main, Holders, Steps
<1>5. CASE StepBoundReached(b) \/ StopOnCancel(b) \/ Arrive(b)
  <2>1. b \in Holders(task)
    BY <1>5 DEF StepBoundReached, StopOnCancel, Arrive, Holders
  <2> QED BY <1>5, <2>1, FinishKeepsSlots DEF StepBoundReached, StopOnCancel, Arrive
<1>6. CASE Execute(b)
  <2>1. task' = [task EXCEPT ![b] = "executing"] /\ UNCHANGED <<policy, permits>>
    BY <1>6 DEF Execute, main
  <2>2. b \in Holders(task)
    BY <1>6 DEF Execute, Holders
  <2>3. "executing" \in Steps
    BY DEF Steps
  <2>4. task' \in [Branches -> Steps] /\ Holders(task') = Holders(task)
    BY <2>1, <2>2, <2>3, NoneMore
  <2> QED BY <2>1, <2>4
<1>7. CASE FollowEdge(b)
  <2>1. task' = [task EXCEPT ![b] = "running"] /\ UNCHANGED <<policy, permits>>
    BY <1>7 DEF FollowEdge, main
  <2>2. b \in Holders(task)
    BY <1>7 DEF FollowEdge, Holders
  <2>3. "running" \in Steps
    BY DEF Steps
  <2>4. task' \in [Branches -> Steps] /\ Holders(task') = Holders(task)
    BY <2>1, <2>2, <2>3, NoneMore
  <2> QED BY <2>1, <2>4
<1>8. CASE ComeToAnEnd(b) \/ Raise(b)
  <2>1. b \in Holders(task)
    BY <1>8 DEF ComeToAnEnd, Raise, Holders
  <2> QED BY <1>8, <2>1, FinishKeepsSlots DEF ComeToAnEnd, Raise
<1>9. CASE Unwind(b)
  <2> DEFINE tk == [task EXCEPT ![b] = "cancelled"]
  <2>1. CASE task[b] \in {"granted", "executing"}
    <3>1. b \in Holders(task) /\ Release(tk)
      BY <1>9, <2>1 DEF Unwind, Holders
    <3>2. /\ tk \in [Branches -> Steps]
          /\ Cardinality(Holders(tk)) = Cardinality(Holders(task)) - 1
      BY <3>1, OneLess DEF Steps
    <3>3. /\ task' \in [Branches -> Steps] /\ permits' \in Nat
          /\ Cardinality(Holders(task')) + permits' = Cardinality(Holders(tk)) + permits + 1
      BY <3>1, <3>2, ReleaseReturnsOne
    <3> HIDE DEF tk
    <3> QED BY <1>0, <1>9, <3>2, <3>3, HoldersFinite DEF Unwind, main, Policy
  <2>2. CASE task[b] \notin {"granted", "executing"}
    <3>1. b \notin Holders(task) /\ task' = tk /\ permits' = permits
      BY <1>9, <2>2 DEF Unwind, Holders
    <3>2. tk \in [Branches -> Steps] /\ Holders(tk) = Holders(task)
      BY <3>1, NoneMore DEF Steps
    <3> QED BY <1>9, <3>1, <3>2 DEF Unwind, main
  <2> QED BY <2>1, <2>2
<1>10. CASE Swallow(b)
  BY <1>10 DEF Swallow, main
<1> QED BY <1>1, <1>2, <1>3, <1>4, <1>5, <1>6, <1>7, <1>8, <1>9, <1>10 DEF BranchStep

LEMMA SlotInvStep == SlotInv /\ [Next]_vars => SlotInv'
<1> SUFFICES ASSUME SlotInv, [Next]_vars PROVE SlotInv'
  OBVIOUS
<1>1. CASE \E b \in Branches : BranchStep(b)
  BY <1>1, BranchKeepsSlots
<1>2. CASE Handler
  <2>1. UNCHANGED <<policy, task, permits>>
    BY <1>2 DEF Handler, GatherAll, CollectUndecided, CollectDecisive, Drain, Unwound,
                FanInWithout, FanIn, FanInEarlier, main, branch
  <2> QED BY <2>1 DEF SlotInv
<1>3. CASE CutGather \/ CutWait \/ RequestCancel \/ Stopped \/ UNCHANGED vars
  <2>1. UNCHANGED <<policy, task, permits>>
    BY <1>3 DEF CutGather, CutWait, RequestCancel, Stopped, vars, main, branch
  <2> QED BY <2>1 DEF SlotInv
<1> QED BY <1>1, <1>2, <1>3 DEF Next

\* No schedule of branches, failures and cancellations loses or doubles a slot of
\* the semaphore, whatever the graph, the policy and max_parallel (parallel.py:108).
THEOREM SlotsAreConserved == Spec => []SlotsConserved
<1>1. SlotInv => SlotsConserved
  BY DEF SlotInv, SlotsConserved, Holding, Holders
<1> QED BY <1>1, SlotInvInit, SlotInvStep, PTL DEF Spec

----------------------------------------------------------------------------
(* Who is left when the handler returns *)

AllOver == \A b \in Branches : Over(b)

\* The handler stops waiting for a branch only when the branch is over, and
\* only the policies that wait with asyncio.wait ever cancel and drain.
AloneInv ==
    /\ SlotInv
    /\ handler = "returned" \/ (handler = "cut" /\ Gathers) => AllOver
    /\ handler = "draining" => ~Gathers
    /\ handler \in {"running", "draining"} /\ ~Gathers
           => \A b \in Branches \ pending : Over(b)

\* A release wakes only a branch that is queued.
LEMMA ReleaseKeepsOver ==
    ASSUME NEW tk \in [Branches -> Steps], Release(tk), NEW c \in Branches,
           tk[c] \in {"done", "cancelled"}
    PROVE  task'[c] = tk[c]
<1> DEFINE queue == {b \in Branches : tk[b] = "queued"}
<1>1. CASE queue = {}
  BY <1>1 DEF Release
<1>2. CASE queue # {}
  <2>1. FirstInList(queue) \in queue
    BY <1>2, BranchesFinite, FirstInListIn
  <2>2. task' = [tk EXCEPT ![FirstInList(queue)] = "granted"]
    BY <1>2 DEF Release
  <2>3. FirstInList(queue) # c
    BY <2>1
  <2> QED BY <2>2, <2>3
<1> QED BY <1>1, <1>2

LEMMA FinishKeepsOver ==
    ASSUME SlotInv, NEW b \in Branches, NEW s, Finish(b, s), NEW c \in Branches, Over(c)
    PROVE  Over(c)'
<1> DEFINE tk == [task EXCEPT ![b] = "done"]
<1>1. tk \in [Branches -> Steps] /\ tk[c] \in {"done", "cancelled"}
  BY DEF SlotInv, Steps, Over
<1>2. Release(tk)
  BY DEF Finish
<1> HIDE DEF tk
<1>3. task'[c] = tk[c]
  BY <1>1, <1>2, ReleaseKeepsOver
<1> QED BY <1>1, <1>3 DEF Over

\* What is over stays over.
LEMMA OverIsStable ==
    ASSUME SlotInv, NEW b \in Branches, BranchStep(b), NEW c \in Branches, Over(c)
    PROVE  Over(c)'
<1>0. task \in [Branches -> Steps]
  BY DEF SlotInv
<1>1. CASE StepBoundReached(b) \/ StopOnCancel(b) \/ Arrive(b) \/ ComeToAnEnd(b) \/ Raise(b)
  BY <1>1, FinishKeepsOver DEF StepBoundReached, StopOnCancel, Arrive, ComeToAnEnd, Raise
<1>2. CASE Unwind(b)
  <2> DEFINE tk == [task EXCEPT ![b] = "cancelled"]
  <2>1. tk \in [Branches -> Steps] /\ tk[c] \in {"done", "cancelled"}
    BY <1>0 DEF Steps, Over
  <2>2. Release(tk) \/ task' = tk
    BY <1>2 DEF Unwind
  <2> HIDE DEF tk
  <2>3. task'[c] = tk[c]
    BY <2>1, <2>2, ReleaseKeepsOver
  <2> QED BY <2>1, <2>3 DEF Over
<1>3. CASE Bail(b) \/ Acquire(b) \/ Queue(b) \/ Resume(b)
  <2>1. \E s \in Steps : task' = [task EXCEPT ![b] = s]
    BY <1>3 DEF Bail, Acquire, Queue, Resume, Steps
  <2>2. b # c
    BY <1>3 DEF Bail, Acquire, Queue, Resume, FirstStep, Over
  <2> QED BY <1>0, <2>1, <2>2 DEF Over
<1>4. CASE Execute(b) \/ FollowEdge(b)
  <2>1. \E s \in Steps : task' = [task EXCEPT ![b] = s]
    BY <1>4 DEF Execute, FollowEdge, Steps
  <2>2. b # c
    BY <1>4 DEF Execute, FollowEdge, Over
  <2> QED BY <1>0, <2>1, <2>2 DEF Over
<1>5. CASE Swallow(b)
  BY <1>5 DEF Swallow, Over
<1> QED BY <1>1, <1>2, <1>3, <1>4, <1>5 DEF BranchStep

LEMMA BranchLeavesHandler ==
    ASSUME NEW b \in Branches, BranchStep(b)
    PROVE  UNCHANGED <<policy, handler, pending>>
<1>1. CASE Bail(b) \/ Acquire(b) \/ Queue(b) \/ Resume(b) \/ Execute(b)
  BY <1>1 DEF Bail, Acquire, Queue, Resume, Execute, main
<1>2. CASE FollowEdge(b) \/ Unwind(b) \/ Swallow(b)
  BY <1>2 DEF FollowEdge, Unwind, Swallow, main
<1>3. CASE StepBoundReached(b) \/ StopOnCancel(b) \/ Arrive(b) \/ ComeToAnEnd(b) \/ Raise(b)
  BY <1>3 DEF StepBoundReached, StopOnCancel, Arrive, ComeToAnEnd, Raise, Finish, main
<1> QED BY <1>1, <1>2, <1>3 DEF BranchStep

LEMMA AloneInvInit == Init => AloneInv
<1> SUFFICES ASSUME Init PROVE AloneInv
  OBVIOUS
<1>1. handler = "running" /\ pending = Branches
  BY DEF Init
<1> QED BY <1>1, SlotInvInit DEF AloneInv

LEMMA AloneInvStep == AloneInv /\ [Next]_vars => AloneInv'
<1> SUFFICES ASSUME AloneInv, [Next]_vars PROVE AloneInv'
  OBVIOUS
<1>0. SlotInv /\ SlotInv'
  BY SlotInvStep DEF AloneInv
<1>1. ASSUME NEW b \in Branches, BranchStep(b) PROVE AloneInv'
  <2>1. UNCHANGED <<policy, handler, pending>>
    BY <1>1, BranchLeavesHandler
  <2>2. \A c \in Branches : Over(c) => Over(c)'
    BY <1>0, <1>1, OverIsStable
  <2> QED BY <1>0, <2>1, <2>2 DEF AloneInv, AllOver, Gathers, FirstOnly, FailFast
<1>2. CASE GatherAll
  BY <1>0, <1>2 DEF GatherAll, Return, AloneInv, AllOver, Over, branch
<1>3. CASE CollectUndecided
  <2>1. UNCHANGED <<policy, task>> /\ handler = "running" /\ ~Gathers
    BY <1>3 DEF CollectUndecided, branch
  <2>2. \A b \in Branches \ (pending \ NewlyDone) : Over(b)
    BY <2>1 DEF AloneInv, NewlyDone
  <2>3. \/ pending \subseteq NewlyDone /\ handler' = "returned"
        \/ pending' = pending \ NewlyDone /\ handler' = handler
    BY <1>3 DEF CollectUndecided, Return
  <2> QED BY <1>0, <2>1, <2>2, <2>3
         DEF AloneInv, AllOver, Over, Gathers, FirstOnly, FailFast
<1>4. CASE CollectDecisive
  <2>1. UNCHANGED <<policy, task>> /\ handler = "running" /\ ~Gathers
    BY <1>4 DEF CollectDecisive
  <2>2. \A b \in Branches \ (pending \ NewlyDone) : Over(b)
    BY <2>1 DEF AloneInv, NewlyDone
  <2>3. \/ pending \subseteq NewlyDone /\ handler' = "returned"
        \/ pending' = pending \ NewlyDone /\ handler' = "draining"
    BY <1>4 DEF CollectDecisive, Return
  <2> QED BY <1>0, <2>1, <2>2, <2>3
         DEF AloneInv, AllOver, Over, Gathers, FirstOnly, FailFast
<1>5. CASE Drain
  <2>1. UNCHANGED <<policy, task>> /\ handler = "draining" /\ handler' = "returned"
    BY <1>5 DEF Drain, Return, branch
  <2>2. AllOver
    BY <1>5, <2>1 DEF Drain, AloneInv, AllOver
  <2> QED BY <1>0, <2>1, <2>2 DEF AloneInv, AllOver, Over
<1>6. CASE Unwound
  <2>1. UNCHANGED <<policy, task>> /\ handler' = "cut" /\ AllOver
    BY <1>6 DEF Unwound, AllOver, branch
  <2> QED BY <1>0, <2>1 DEF AloneInv, AllOver, Over
<1>7. CASE FanInWithout \/ FanIn \/ FanInEarlier \/ RequestCancel \/ Stopped \/ UNCHANGED vars
  <2>1. UNCHANGED <<policy, handler, pending, task>>
    BY <1>7 DEF FanInWithout, FanIn, FanInEarlier, RequestCancel, Stopped, vars, main, branch
  <2> QED BY <1>0, <2>1 DEF AloneInv, AllOver, Over, Gathers, FirstOnly, FailFast
<1>8. CASE CutGather
  <2>1. handler' = "unwinding"
    BY <1>8 DEF CutGather
  <2> QED BY <1>0, <2>1 DEF AloneInv
<1>9. CASE CutWait
  <2>1. UNCHANGED policy /\ handler' = "cut" /\ ~Gathers
    BY <1>9 DEF CutWait
  <2> QED BY <1>0, <2>1 DEF AloneInv, Gathers, FirstOnly, FailFast
<1> QED BY <1>1, <1>2, <1>3, <1>4, <1>5, <1>6, <1>7, <1>8, <1>9 DEF Next, Handler

\* No branch outlives a handler that returned, or one that was cut short where it
\* waits with gather: the cancelled branches are drained first (parallel.py:295-305).
THEOREM NoBranchOutlivesTheHandler == Spec => []ReturnsAlone
<1>1. AloneInv => ReturnsAlone
  BY DEF AloneInv, ReturnsAlone, AllOver
<1> QED BY <1>1, AloneInvInit, AloneInvStep, PTL DEF Spec

----------------------------------------------------------------------------
(* What the branches did is what is reported                                *)

NoVerdict == ""

\* The policies that wait with asyncio.wait go on only as long as nothing is
\* decided, and once it is, what decided it is among the results.
ReportInv ==
    /\ AloneInv
    /\ ended = [b \in Branches |-> ended[b]]
    /\ \A b \in Branches : ended[b] # "none" => task[b] = "done"
    /\ pending \subseteq Branches /\ results \subseteq Branches
    /\ handler # "returned" => outcome = NoVerdict
    /\ NoVerdict \notin {"success", "fail"}
    /\ handler \notin {"returned", "cut"} => fan_in = NoVerdict
    /\ fan_in \in {NoVerdict, "success", "fail"}
    /\ handler = "running" /\ FailFast => Failed(Branches \ pending) = {}
    /\ handler = "running" /\ FirstOnly => Ok(Branches \ pending) = {}
    /\ handler = "draining" /\ FailFast => Failed(results) # {}
    /\ handler = "draining" /\ FirstOnly => Ok(results) # {}
    /\ handler = "returned" =>
         stored = "this" /\ (~FailFast /\ Ok(Branches) # {} => Ok(results) # {})
    /\ outcome = "success" /\ policy.join = "wait_all" /\ policy.error # "ignore"
           => Failed(Branches) = {}
    /\ outcome = "fail" /\ ~FailFast => Ok(Branches) = {}
    /\ handler = "returned" /\ fan_in = "fail" /\ ~FailFast /\ ~policy.prompt
           => Ok(Branches) = {}

\* A branch that finishes records its status and is done.
LEMMA FinishEnds ==
    ASSUME ReportInv, NEW b \in Branches, NEW s, Finish(b, s)
    PROVE  ended' = [ended EXCEPT ![b] = s] /\ task'[b] = "done"
<1> DEFINE tk == [task EXCEPT ![b] = "done"]
<1>1. tk \in [Branches -> Steps] /\ tk[b] = "done" /\ Release(tk)
  BY DEF Finish, ReportInv, AloneInv, SlotInv, Steps
<1> HIDE DEF tk
<1>2. task'[b] = tk[b]
  BY <1>1, ReleaseKeepsOver
<1> QED BY <1>1, <1>2 DEF Finish

\* Only a branch that is not over takes a step, and it ends at most itself.
LEMMA BranchEnds ==
    ASSUME ReportInv, NEW b \in Branches, BranchStep(b)
    PROVE  /\ ~Over(b)
           /\ \/ UNCHANGED ended
              \/ \E s : ended' = [ended EXCEPT ![b] = s] /\ task'[b] = "done"
<1>1. CASE StepBoundReached(b) \/ StopOnCancel(b) \/ Arrive(b) \/ ComeToAnEnd(b) \/ Raise(b)
  <2>1. ~Over(b) /\ \E s : Finish(b, s)
    BY <1>1 DEF StepBoundReached, StopOnCancel, Arrive, ComeToAnEnd, Raise, Over
  <2> QED BY <2>1, FinishEnds
<1>2. CASE Bail(b) \/ Acquire(b) \/ Queue(b) \/ Resume(b) \/ Execute(b)
  BY <1>2 DEF Bail, Acquire, Queue, Resume, Execute, FirstStep, Over
<1>3. CASE FollowEdge(b) \/ Unwind(b) \/ Swallow(b)
  BY <1>3 DEF FollowEdge, Unwind, Swallow, Over
<1> QED BY <1>1, <1>2, <1>3 DEF BranchStep

LEMMA BranchLeavesReport ==
    ASSUME NEW b \in Branches, BranchStep(b)
    PROVE  UNCHANGED <<policy, handler, pending, results, outcome, stored, joined>>
<1>1. CASE Bail(b) \/ Acquire(b) \/ Queue(b) \/ Resume(b) \/ Execute(b)
  BY <1>1 DEF Bail, Acquire, Queue, Resume, Execute, main
<1>2. CASE FollowEdge(b) \/ Unwind(b) \/ Swallow(b)
  BY <1>2 DEF FollowEdge, Unwind, Swallow, main
<1>3. CASE StepBoundReached(b) \/ StopOnCancel(b) \/ Arrive(b) \/ ComeToAnEnd(b) \/ Raise(b)
  BY <1>3 DEF StepBoundReached, StopOnCancel, Arrive, ComeToAnEnd, Raise, Finish, main
<1> QED BY <1>1, <1>2, <1>3 DEF BranchStep

\* What a branch has ended with it keeps.
LEMMA BranchKeepsReport ==
    ASSUME ReportInv, NEW b \in Branches, BranchStep(b)
    PROVE  ReportInv'
<1>1. UNCHANGED <<policy, handler, pending, results, outcome, stored, fan_in, best>>
  BY BranchLeavesReport DEF joined
<1>2. AloneInv'
  BY AloneInvStep DEF ReportInv, Next
<1>3. \A c \in Branches : Over(c) => ended'[c] = ended[c] /\ Over(c)'
  BY BranchEnds, OverIsStable DEF ReportInv, AloneInv
<1>4. /\ ended' = [c \in Branches |-> ended'[c]]
      /\ \A c \in Branches : ended'[c] # "none" => task'[c] = "done"
  <2>1. ASSUME NEW c \in Branches, c # b, ended[c] # "none" PROVE task'[c] = "done"
    <3>1. task[c] = "done" /\ ended'[c] = ended[c] /\ task \in [Branches -> Steps]
      BY <1>3, <2>1 DEF ReportInv, Over, AloneInv, SlotInv
    <3>2. CASE StepBoundReached(b) \/ StopOnCancel(b) \/ Arrive(b) \/ ComeToAnEnd(b) \/ Raise(b)
      <4> DEFINE tk == [task EXCEPT ![b] = "done"]
      <4>1. tk \in [Branches -> Steps] /\ Release(tk) /\ tk[c] = "done"
        BY <2>1, <3>1, <3>2
           DEF StepBoundReached, StopOnCancel, Arrive, ComeToAnEnd, Raise, Finish, Steps
      <4> HIDE DEF tk
      <4> QED BY <4>1, ReleaseKeepsOver
    <3>3. CASE Unwind(b)
      <4> DEFINE tk == [task EXCEPT ![b] = "cancelled"]
      <4>1. tk \in [Branches -> Steps] /\ (Release(tk) \/ task' = tk) /\ tk[c] = "done"
        BY <2>1, <3>1, <3>3 DEF Unwind, Steps
      <4> HIDE DEF tk
      <4> QED BY <4>1, ReleaseKeepsOver
    <3>4. CASE Bail(b) \/ Acquire(b) \/ Queue(b) \/ Resume(b)
      BY <2>1, <3>1, <3>4 DEF Bail, Acquire, Queue, Resume
    <3>5. CASE Execute(b) \/ FollowEdge(b) \/ Swallow(b)
      BY <2>1, <3>1, <3>5 DEF Execute, FollowEdge, Swallow
    <3> QED BY <3>2, <3>3, <3>4, <3>5 DEF BranchStep
  <2>2. ended[b] = "none"
    BY BranchEnds DEF ReportInv, Over
  <2>3. ended = [c \in Branches |-> ended[c]]
    BY DEF ReportInv
  <2> QED BY <2>1, <2>2, <2>3, BranchEnds
<1>5. \A c \in Branches : ended[c] # "none" => ended'[c] = ended[c]
  BY <1>3 DEF ReportInv, Over
<1>6. CASE handler = "returned"
  <2>1. \A c \in Branches : ended'[c] = ended[c]
    BY <1>3, <1>6 DEF ReportInv, AloneInv, AllOver
  <2>2. UNCHANGED <<Failed(Branches), Ok(Branches), Ok(results)>>
    BY <1>1, <2>1 DEF Failed, Ok, ReportInv
  <2> QED BY <1>1, <1>2, <1>4, <1>6, <2>2
          DEF ReportInv, FailFast, FirstOnly
<1>7. CASE handler # "returned"
  <2>1. handler = "running" /\ ~Gathers =>
          UNCHANGED <<Failed(Branches \ pending), Ok(Branches \ pending)>>
    BY <1>1, <1>3 DEF ReportInv, AloneInv, Failed, Ok
  <2>2. Failed(results) \subseteq Failed(results)' /\ Ok(results) \subseteq Ok(results)'
    BY <1>1, <1>5 DEF ReportInv, Failed, Ok, Successful
  <2> QED BY <1>1, <1>2, <1>4, <1>7, <2>1, <2>2
          DEF ReportInv, FailFast, FirstOnly, Gathers
<1> QED BY <1>6, <1>7

\* The join policy, seen from the two verdicts that could hide a branch.
LEMMA JoinIsHonest ==
    ASSUME policy \in Policy, NEW S \in SUBSET Branches
    PROVE  /\ policy.error # "ignore" => Filtered(S) = S
           /\ Filtered(S) \subseteq S /\ Ok(Filtered(S)) = Ok(S)
           /\ Join(Filtered(S)) # NoVerdict
           /\ (/\ Join(Filtered(S)) = "success" /\ policy.join = "wait_all"
               /\ policy.error # "ignore") => Failed(S) = {}
           /\ Join(Filtered(S)) = "fail" =>
                policy.join = "first_success" /\ policy.error # "ignore" /\ Ok(S) = {}
<1>1. /\ policy.error # "ignore" => Filtered(S) = S
      /\ Filtered(S) \subseteq S /\ Ok(Filtered(S)) = Ok(S)
      /\ policy.error = "ignore" => Filtered(S) = Ok(S)
  BY DEF Filtered, Ok
<1>2. Join(Filtered(S)) \in {"success", "fail", "partial_success"}
  BY Zenon DEF Join
<1>3. NoVerdict \notin {"success", "fail", "partial_success"}
  BY Zenon DEF NoVerdict
<1>4. ASSUME Join(Filtered(S)) = "success", policy.join = "wait_all", policy.error # "ignore"
      PROVE  Failed(S) = {}
  BY <1>1, <1>4 DEF Join, Failed
<1>5. ASSUME Join(Filtered(S)) = "fail"
      PROVE  policy.join = "first_success" /\ policy.error # "ignore" /\ Ok(S) = {}
  BY <1>1, <1>5 DEF Join
<1> HIDE DEF NoVerdict
<1> QED BY <1>1, <1>2, <1>3, <1>4, <1>5

\* Returning with the results S, which hold what decides the verdict.
LEMMA ReturnIsHonest ==
    ASSUME ReportInv, AloneInv', NEW S \in SUBSET Branches, Return(S),
           handler \in {"running", "draining"},
           UNCHANGED <<policy, task, ended, fan_in>>,
           FailFast => Failed(S) # {} \/ Failed(Branches) = {},
           Gathers => S = Reported(Branches),
           ~FailFast => Ok(S) # {} \/ Ok(Branches) = {}
    PROVE  ReportInv'
<1>1. policy \in Policy /\ AllOver
  <2>1. AllOver'
    BY DEF AloneInv, Return
  <2> QED BY <2>1, PolicyAssumption DEF ReportInv, AloneInv, SlotInv, AllOver, Over
<1>2. /\ handler' = "returned" /\ pending' = {} /\ results' = Filtered(S)
      /\ stored' = "this" /\ outcome' = Join(Filtered(S))
  BY DEF Return
<1>3. Filtered(S) \in SUBSET Branches
  BY <1>1, JoinIsHonest
<1>4. UNCHANGED <<Ok(Branches), Failed(Branches)>> /\ Ok(results') = Ok(results)'
  BY DEF Ok, Failed
<1>5. Gathers => Failed(S) = Failed(Branches)
  BY <1>1 DEF ReportInv, AllOver, Over, Reported, Failed
<1>6. (/\ Join(Filtered(S)) = "success" /\ policy.join = "wait_all"
       /\ policy.error # "ignore") => Failed(Branches) = {}
  BY <1>1, <1>5, JoinIsHonest DEF Gathers, FirstOnly
<1>7. Join(Filtered(S)) = "fail" /\ ~FailFast => Ok(Branches) = {}
  BY <1>1, JoinIsHonest
<1>8. ~FailFast /\ Ok(Branches) # {} => Ok(results)' # {}
  BY <1>1, <1>2, <1>4, JoinIsHonest
<1>9. /\ ended' = [b \in Branches |-> ended'[b]]
      /\ \A b \in Branches : ended'[b] # "none" => task'[b] = "done"
      /\ NoVerdict \notin {"success", "fail"} /\ fan_in' = NoVerdict
  BY DEF ReportInv
<1>10. UNCHANGED <<FailFast, FirstOnly>>
  BY DEF FailFast, FirstOnly
<1> QED BY <1>2, <1>3, <1>4, <1>6, <1>7, <1>8, <1>9, <1>10 DEF ReportInv

\* A branch that is over and newly so hands over its result.
LEMMA ReportedHolds ==
    ASSUME ReportInv, NEW S \in SUBSET Branches
    PROVE  Failed(Reported(S)) = Failed(S) /\ Ok(Reported(S)) = Ok(S)
           /\ Reported(S) \in SUBSET Branches
BY DEF ReportInv, Failed, Ok, Successful, Reported

LEMMA HandlerKeepsReport ==
    ASSUME ReportInv, AloneInv', Handler
    PROVE  ReportInv'
<1> USE DEF ReportInv
<1>0. policy \in Policy
  BY PolicyAssumption DEF AloneInv, SlotInv
<1>1. CASE GatherAll
  <2>1. /\ handler = "running" /\ Gathers /\ Return(Reported(Branches))
        /\ UNCHANGED <<policy, task, ended, fan_in>>
    BY <1>1 DEF GatherAll, branch, joined
  <2>2. Ok(Reported(Branches)) = Ok(Branches)
    BY ReportedHolds
  <2> QED BY <2>1, <2>2, ReportedHolds, ReturnIsHonest DEF Gathers
<1>2. CASE CollectUndecided
  <2>1. /\ handler = "running" /\ ~Gathers /\ Decisive(NewlyDone) = {}
        /\ UNCHANGED <<policy, task, ended, fan_in>>
        /\ NewlyDone \in SUBSET Branches
    BY <1>2 DEF CollectUndecided, branch, joined, NewlyDone
  <2>2. /\ FailFast => Failed(NewlyDone) = {}
        /\ FirstOnly => Ok(NewlyDone) = {}
    BY <2>1, ReportedHolds DEF Decisive, FirstOnly
  <2>3. /\ FailFast => Failed(Branches \ (pending \ NewlyDone)) = {}
        /\ FirstOnly => Ok(Branches \ (pending \ NewlyDone)) = {}
    BY <2>1, <2>2 DEF Failed, Ok
  <2>4. results \cup Reported(NewlyDone) \in SUBSET Branches
    BY <2>1, ReportedHolds
  <2>5. CASE pending \subseteq NewlyDone
    <3>1. Branches \ (pending \ NewlyDone) = Branches
      BY <2>5
    <3>2. Return(results \cup Reported(NewlyDone))
      BY <1>2, <2>5 DEF CollectUndecided
    <3> QED BY <2>1, <2>3, <2>4, <3>1, <3>2, ReturnIsHonest DEF Gathers
  <2>6. CASE ~(pending \subseteq NewlyDone)
    <3>1. /\ pending' = pending \ NewlyDone
          /\ results' = results \cup Reported(NewlyDone)
          /\ UNCHANGED <<handler, outcome, stored>>
      BY <1>2, <2>6 DEF CollectUndecided
    <3>2. /\ UNCHANGED <<FailFast, FirstOnly, Failed(Branches), Ok(Branches)>>
          /\ FailFast => Failed(Branches \ pending)' = {}
          /\ FirstOnly => Ok(Branches \ pending)' = {}
      BY <2>1, <2>3, <3>1 DEF FailFast, FirstOnly, Failed, Ok
    <3> QED BY <2>1, <2>4, <3>1, <3>2
  <2> QED BY <2>5, <2>6
<1>3. CASE CollectDecisive
  <2>1. /\ handler = "running" /\ ~Gathers
        /\ UNCHANGED <<policy, task, ended, fan_in>>
    BY <1>3 DEF CollectDecisive, joined
  <2>2. PICK b \in Decisive(NewlyDone),
             before \in SUBSET (Reported(NewlyDone) \ Decisive(NewlyDone)) :
          IF pending \subseteq NewlyDone
          THEN Return(results \cup before \cup {b})
          ELSE /\ handler' = "draining"
               /\ pending' = pending \ NewlyDone
               /\ results' = results \cup before \cup {b}
               /\ UNCHANGED <<outcome, stored>>
    BY <1>3 DEF CollectDecisive
  <2> DEFINE collected == results \cup before \cup {b}
  <2>3. NewlyDone \in SUBSET Branches
    BY DEF NewlyDone
  <2>4. collected \in SUBSET Branches
    BY <2>3, ReportedHolds DEF Decisive, Failed, Ok
  <2>5. /\ FailFast => b \in Failed(collected)
        /\ ~FailFast => b \in Ok(collected)
    BY DEF Decisive, Failed, Ok
  <2> HIDE DEF collected
  <2>6. CASE pending \subseteq NewlyDone
    <3>1. Return(collected)
      BY <2>2, <2>6 DEF collected
    <3> QED BY <2>1, <2>4, <2>5, <3>1, ReturnIsHonest
  <2>7. CASE ~(pending \subseteq NewlyDone)
    <3>1. /\ handler' = "draining" /\ pending' = pending \ NewlyDone
          /\ results' = collected /\ UNCHANGED <<outcome, stored>>
      BY <2>2, <2>7 DEF collected
    <3>2. /\ UNCHANGED <<FailFast, FirstOnly, Failed(Branches), Ok(Branches)>>
          /\ FailFast => Failed(results)' # {}
          /\ FirstOnly => Ok(results)' # {}
      BY <2>1, <2>5, <3>1 DEF FailFast, FirstOnly, Failed, Ok
    <3> QED BY <2>1, <2>4, <3>1, <3>2
  <2> QED BY <2>6, <2>7
<1>4. CASE Drain
  <2>1. /\ handler = "draining" /\ ~Gathers /\ Return(results \cup Reported(pending))
        /\ UNCHANGED <<policy, task, ended, fan_in>>
    BY <1>4 DEF Drain, branch, joined, AloneInv
  <2>2. results \cup Reported(pending) \in SUBSET Branches
    BY ReportedHolds
  <2>3. /\ FailFast => Failed(results \cup Reported(pending)) # {}
        /\ ~FailFast => Ok(results \cup Reported(pending)) # {}
    BY <2>1 DEF Failed, Ok, Gathers
  <2> QED BY <2>1, <2>2, <2>3, ReturnIsHonest
<1>5. CASE Unwound
  <2>1. /\ handler = "unwinding" /\ handler' = "cut"
        /\ UNCHANGED <<policy, pending, results, outcome, stored, task, ended, fan_in>>
    BY <1>5 DEF Unwound, branch, joined
  <2>2. UNCHANGED <<FailFast, FirstOnly, Failed(Branches), Ok(Branches)>>
    BY <2>1 DEF FailFast, FirstOnly, Failed, Ok
  <2> QED BY <2>1, <2>2
<1>6. CASE FanInWithout
  <2>1. /\ NothingToEvaluate /\ handler \in {"returned", "cut"} /\ fan_in' = "fail"
        /\ UNCHANGED <<policy, handler, pending, results, outcome, stored, task, ended>>
    BY <1>6, Zenon DEF AtFanIn, FanInWithout, main, branch
  <2>2. UNCHANGED <<FailFast, FirstOnly, Failed(Branches), Ok(Branches), Ok(results),
                    Failed(results), Failed(Branches \ pending), Ok(Branches \ pending)>>
    BY <2>1 DEF FailFast, FirstOnly, Failed, Ok
  <2>3. handler = "returned" /\ ~FailFast => Ok(Branches) = {}
    BY <2>1 DEF NothingToEvaluate, Ok
  <2> QED BY <2>1, <2>2, <2>3
<1>7. CASE FanIn
  <2>1. /\ stored = "this" /\ results # {} /\ handler \in {"returned", "cut"}
        /\ best' \in IF policy.prompt THEN results ELSE BestOf(results)
        /\ fan_in' = IF ended[best'] = "fail" THEN "fail" ELSE "success"
        /\ UNCHANGED <<policy, handler, pending, results, outcome, stored, task, ended>>
    BY <1>7, Zenon DEF AtFanIn, FanIn, main, branch
  <2>2. UNCHANGED <<FailFast, FirstOnly, Failed(Branches), Ok(Branches), Ok(results),
                    Failed(results), Failed(Branches \ pending), Ok(Branches \ pending)>>
    BY <2>1 DEF FailFast, FirstOnly, Failed, Ok
  <2>3. ASSUME fan_in' = "fail", ~policy.prompt PROVE Ok(results) = {}
    <3>1. best' \in BestOf(results) /\ ended[best'] = "fail"
      BY <2>1, <2>3
    <3>2. ASSUME NEW c \in Ok(results) PROVE FALSE
      <4>1. Rank(ended[c]) \in {0, 1} /\ Rank("fail") = 4
        BY DEF Ok, Successful, Rank
      <4>2. c \in results
        BY DEF Ok
      <4>3. Rank(ended[best']) < Rank(ended[c]) \/ Rank(ended[best']) = Rank(ended[c])
        BY <3>1, <4>2 DEF BestOf
      <4> QED BY <3>1, <4>1, <4>3
    <3> QED BY <3>2
  <2> QED BY <2>1, <2>2, <2>3
<1>8. CASE FanInEarlier
  <2>1. /\ handler \in {"returned", "cut"} /\ stored = "earlier"
        /\ fan_in' \in {"success", "fail"}
        /\ UNCHANGED <<policy, handler, pending, results, outcome, stored, task, ended>>
    BY <1>8, Zenon DEF AtFanIn, FanInEarlier, main, branch
  <2>2. UNCHANGED <<FailFast, FirstOnly, Failed(Branches), Ok(Branches), Ok(results),
                    Failed(results), Failed(Branches \ pending), Ok(Branches \ pending)>>
    BY <2>1 DEF FailFast, FirstOnly, Failed, Ok
  <2> QED BY <2>1, <2>2
<1> QED BY <1>1, <1>2, <1>3, <1>4, <1>5, <1>6, <1>7, <1>8 DEF Handler

LEMMA ReportInvInit == Init => ReportInv
<1> SUFFICES ASSUME Init PROVE ReportInv
  OBVIOUS
<1>1. /\ handler = "running" /\ pending = Branches /\ results = {}
      /\ ended = [b \in Branches |-> "none"]
      /\ outcome = NoVerdict /\ fan_in = NoVerdict /\ NoVerdict \notin {"success", "fail"}
  BY Zenon DEF Init, NoVerdict
<1>2. Failed(Branches \ pending) = {} /\ Ok(Branches \ pending) = {}
  BY <1>1 DEF Failed, Ok
<1>3. AloneInv
  BY AloneInvInit
<1> QED BY <1>1, <1>2, <1>3 DEF ReportInv

LEMMA ReportInvStep == ReportInv /\ [Next]_vars => ReportInv'
<1> SUFFICES ASSUME ReportInv, [Next]_vars PROVE ReportInv'
  OBVIOUS
<1>0. AloneInv'
  BY AloneInvStep DEF ReportInv
<1>1. CASE \E b \in Branches : BranchStep(b)
  BY <1>1, BranchKeepsReport
<1>2. CASE Handler
  BY <1>0, <1>2, HandlerKeepsReport
<1>3. CASE CutGather \/ CutWait
  <2>1. /\ handler \in {"running", "draining"} /\ handler' \in {"unwinding", "cut"}
        /\ UNCHANGED <<policy, pending, results, outcome, stored, task, ended, fan_in>>
    BY <1>3 DEF CutGather, CutWait, branch, joined
  <2>2. UNCHANGED <<FailFast, Failed(Branches), Ok(Branches)>>
    BY <2>1 DEF FailFast, Failed, Ok
  <2> QED BY <1>0, <2>1, <2>2 DEF ReportInv
<1>4. CASE RequestCancel \/ Stopped \/ UNCHANGED vars
  <2>1. UNCHANGED <<policy, handler, pending, results, outcome, stored, task, ended, fan_in>>
    BY <1>4 DEF RequestCancel, Stopped, vars, main, branch, joined
  <2>2. UNCHANGED <<FailFast, FirstOnly, Failed(Branches), Ok(Branches), Ok(results),
                    Failed(results), Failed(Branches \ pending), Ok(Branches \ pending)>>
    BY <2>1 DEF FailFast, FirstOnly, Failed, Ok
  <2> QED BY <1>0, <2>1, <2>2 DEF ReportInv
<1> QED BY <1>1, <1>2, <1>3, <1>4 DEF Next

\* No branch that failed hides behind SUCCESS, and none that succeeded behind FAIL,
\* unless the policy says so (_apply_join_policy, _heuristic_select), whatever the
\* order in which branches end and results are collected.
THEOREM NothingIsHidden == Spec => []NothingHidden
<1>1. ReportInv => NothingHidden
  <2> SUFFICES ASSUME ReportInv PROVE NothingHidden
    OBVIOUS
  <2>1. /\ outcome = "success" /\ policy.join = "wait_all" /\ policy.error # "ignore"
             => Failed(Branches) = {}
        /\ outcome = "fail" /\ ~FailFast => Ok(Branches) = {}
    BY DEF ReportInv
  <2>2. (/\ handler = "returned" /\ fan_in # NoVerdict /\ ~FailFast /\ ~policy.prompt
         /\ Ok(Branches) # {}) => fan_in = "success"
    BY DEF ReportInv
  <2> QED BY <2>1, <2>2, Zenon DEF NothingHidden, NoVerdict
<1> QED BY <1>1, ReportInvInit, ReportInvStep, PTL DEF Spec
=============================================================================

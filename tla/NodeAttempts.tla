---------------------------- MODULE NodeAttempts ----------------------------
(***************************************************************************)
(* The executions of one node: each visit of the engine starts a task that *)
(* runs execute_with_retry, and waits for it within the node's timeout or  *)
(* what is left of the fuse (_await_node_bounded).  The ladder runs the    *)
(* handler up to MaxAttempts times; after each attempt it reads the        *)
(* status.json of the node and looks for the artifact must_write= names,   *)
(* and both are told from what earlier attempts left by their mtime.       *)
(*                                                                         *)
(* A file is the tick it was stamped with and its content.  The notes of   *)
(* an outcome stand for everything in it but the status: they name the     *)
(* attempt that wrote it, and no two attempts write the same.              *)
(***************************************************************************)
EXTENDS Integers

CONSTANTS
    MaxAttempts,        \* RetryPolicy.max_attempts
    MaxVisits,          \* bound on the engine's visits of the node
    MaxTime,            \* bound on the clock
    NodeKinds,          \* the nodes looked at: a subset of NodeKind
    Returned,           \* statuses handlers return
    Reported            \* statuses an external tool writes

Statuses == {"success", "partial_success", "retry", "fail", "skipped"}

\* mirrors: the handler is a CodergenHandler, which writes status.json too.
\* grain: the resolution of the file system's timestamps, in ticks.
NodeKind == [mirrors: BOOLEAN, auto_status: BOOLEAN, allow_partial: BOOLEAN,
             must_write: BOOLEAN, deadline: {"none", "node", "fuse"},
             grain: Nat \ {0}]

ASSUME AttemptsAssumption ==
    /\ MaxAttempts \in Nat \ {0} /\ MaxVisits \in Nat /\ MaxTime \in Nat
    /\ NodeKinds \subseteq NodeKind
    /\ Returned \subseteq Statuses /\ Reported \subseteq Statuses

Visits == 1..MaxVisits

VARIABLES
    node,           \* the node's attributes
    now,            \* time.time()
    engine,         \* "idle", "waiting", "grace", "overdue", "over"
    visit,          \* visits so far
    floor,          \* the engine's node_start_wall
    ladder,         \* [Visits -> Ladder]: the task of each visit
    status_file,    \* status.json
    artifact,       \* the file must_write= names
    record          \* the outcome the engine recorded last

vars  == <<node, now, engine, visit, floor, ladder, status_file, artifact, record>>
files == <<status_file, artifact>>
frame == <<node, now>>

Notes   == [visit: Nat, attempt: Nat, by: {"verdict", "prose", "tool", "engine"}]
Outcome == [status: Statuses, explicit: BOOLEAN, notes: Notes]
NoNotes   == [visit |-> 0, attempt |-> 0, by |-> "engine"]
NoOutcome == [status |-> "skipped", explicit |-> FALSE, notes |-> NoNotes]

\* "none", then "handler" and "backoff" in turn, then "ended"; doomed: its
\* cancellation is requested and not raised.
Ladder == [step: {"none", "handler", "backoff", "ended"}, attempt: 0..MaxAttempts,
           node_start: Nat, attempt_start: Nat, doomed: BOOLEAN, result: Outcome]
NoLadder == [step |-> "none", attempt |-> 0, node_start |-> 0, attempt_start |-> 0,
             doomed |-> FALSE, result |-> NoOutcome]

Alive(v) == ladder[v].step \in {"handler", "backoff"}

Completed(o) == o.status \in {"success", "partial_success"}

\* What the engine or the ladder says itself is never an explicit verdict.
Ruling(v, status) ==
    [status |-> status, explicit |-> FALSE,
     notes |-> [visit |-> v, attempt |-> ladder[v].attempt, by |-> "engine"]]

----------------------------------------------------------------------------
(* Files and their freshness *)

NoStatusFile == [stamp |-> 0, whole |-> FALSE, status |-> "skipped", notes |-> NoNotes]
NoArtifact   == [stamp |-> 0, full |-> FALSE, visit |-> 0]

Stamp == now - (now % node.grain)

\* What a stamp evidences of its own resolution.
Tolerance == IF node.grain = 1 THEN 0 ELSE node.grain

WroteAfter(stamp, start) ==
    stamp > start \/ (stamp # start /\ stamp > start - Tolerance)

StatusFileOf(o) ==
    [stamp |-> Stamp, whole |-> TRUE, status |-> o.status, notes |-> o.notes]

ArtifactFresh(start) == artifact.full /\ WroteAfter(artifact.stamp, start)

\* check_must_write lets FAIL, SKIPPED and nodes without the attribute pass.
ContractBroken(o, start) ==
    node.must_write /\ o.status \notin {"fail", "skipped"} /\ ~ArtifactFresh(start)

\* Wrong: the floor of the ladder instead of the attempt's.
ReadSinceLadder(f, v, o) ==
    IF f.stamp = 0 \/ ~WroteAfter(f.stamp, ladder[v].node_start)
       \/ (f.whole /\ f.status = o.status /\ f.notes = o.notes)
    THEN o
    ELSE [status |-> IF f.whole THEN f.status ELSE "fail",
          explicit |-> TRUE, notes |-> f.notes]

\* Wrong: a file that says what the handler said overrides it all the same.
ReadWithoutMatching(f, v, o) ==
    IF f.stamp = 0 \/ ~WroteAfter(f.stamp, ladder[v].attempt_start) THEN o
    ELSE [status |-> IF f.whole THEN f.status ELSE "fail",
          explicit |-> TRUE, notes |-> f.notes]

\* read_status_override: a fresh file that diverges is the verdict, a fresh and
\* malformed one a loud FAIL.
ReadStatusOverride(f, v, o) ==
    IF f.stamp = 0 \/ ~WroteAfter(f.stamp, ladder[v].attempt_start)
       \/ (f.whole /\ f.status = o.status /\ f.notes = o.notes)
    THEN o
    ELSE [status |-> IF f.whole THEN f.status ELSE "fail",
          explicit |-> TRUE, notes |-> f.notes]

----------------------------------------------------------------------------
Init ==
    /\ node \in NodeKinds
    /\ now = node.grain
    /\ engine = "idle" /\ visit = 0 /\ floor = 0
    /\ ladder = [v \in Visits |-> NoLadder]
    /\ status_file = NoStatusFile /\ artifact = NoArtifact
    /\ record = NoOutcome

Tick ==
    /\ now < MaxTime
    /\ now' = now + 1
    /\ UNCHANGED <<node, engine, visit, floor, ladder, files, record>>

----------------------------------------------------------------------------
(* The task of a visit *)

\* Wrong: one attempt too many.
AttemptsLeftOffByOne(v) == ladder[v].attempt <= MaxAttempts

AttemptsLeft(v) == ladder[v].attempt < MaxAttempts

\* The task's variables go with it.
End(v, o) ==
    ladder' = [ladder EXCEPT ![v] = [NoLadder EXCEPT !.step = "ended", !.result = o,
                                                     !.attempt = ladder[v].attempt]]

BackOff(v) == ladder' = [ladder EXCEPT ![v].step = "backoff"]

\* allow_partial does not make up for a missing artifact.
Exhausted(v) ==
    IF ~node.allow_partial THEN Ruling(v, "fail")
    ELSE IF ContractBroken(Ruling(v, "partial_success"), ladder[v].node_start)
         THEN Ruling(v, "fail") ELSE Ruling(v, "partial_success")

\* What the ladder makes of the outcome of an attempt.
Settle(v, o) ==
    \/ /\ Completed(o) /\ ~ContractBroken(o, ladder[v].node_start)
       /\ End(v, o)
    \/ /\ Completed(o) /\ ContractBroken(o, ladder[v].node_start)
       /\ IF AttemptsLeft(v) THEN BackOff(v) ELSE End(v, Ruling(v, "fail"))
    \/ o.status \in {"fail", "skipped"} /\ End(v, o)
    \/ /\ o.status = "retry"
       /\ IF AttemptsLeft(v) THEN BackOff(v) ELSE End(v, Exhausted(v))

HandlerReturns(v) ==
    /\ ladder[v].step = "handler" /\ ~ladder[v].doomed
    /\ \E status \in Returned, by \in {"verdict", "prose"} :
         LET own == [status |-> status, explicit |-> by = "verdict",
                     notes |-> [visit |-> v, attempt |-> ladder[v].attempt, by |-> by]]
             returned == IF node.mirrors THEN ReadStatusOverride(status_file, v, own)
                         ELSE own
             file == IF node.mirrors THEN StatusFileOf(returned) ELSE status_file
         IN  /\ status_file' = file
             /\ Settle(v, ReadStatusOverride(file, v, returned))
    /\ UNCHANGED <<frame, engine, visit, floor, artifact, record>>

\* An exception should_retry classifies, or one that ends the ladder.
HandlerRaises(v) ==
    /\ ladder[v].step = "handler" /\ ~ladder[v].doomed /\ ~node.mirrors
    /\ \/ AttemptsLeft(v) /\ BackOff(v)
       \/ End(v, Ruling(v, "fail"))
    /\ UNCHANGED <<frame, engine, visit, floor, files, record>>

\* CodergenHandler makes a FAIL of it and writes that over what is there.
BackendRaises(v) ==
    /\ ladder[v].step = "handler" /\ ~ladder[v].doomed /\ node.mirrors
    /\ LET failed == [status |-> "fail", explicit |-> FALSE,
                      notes |-> [visit |-> v, attempt |-> ladder[v].attempt,
                                 by |-> "prose"]]
       IN  /\ status_file' = StatusFileOf(failed)
           /\ Settle(v, ReadStatusOverride(status_file', v, failed))
    /\ UNCHANGED <<frame, engine, visit, floor, artifact, record>>

\* Wrong: the attempt is not counted.
NextAttemptUncounted(v) ==
    /\ ladder[v].step = "backoff" /\ ~ladder[v].doomed
    /\ ladder' = [ladder EXCEPT ![v].step = "handler", ![v].attempt_start = now]
    /\ UNCHANGED <<frame, engine, visit, floor, files, record>>

NextAttempt(v) ==
    /\ ladder[v].step = "backoff" /\ ~ladder[v].doomed
    /\ ladder' = [ladder EXCEPT ![v].step = "handler", ![v].attempt = @ + 1,
                                ![v].attempt_start = now]
    /\ UNCHANGED <<frame, engine, visit, floor, files, record>>

Unwind(v) ==
    /\ ladder[v].doomed /\ Alive(v)
    /\ End(v, NoOutcome)
    /\ UNCHANGED <<frame, engine, visit, floor, files, record>>

\* An agent session may take the CancelledError for a tool's.
Swallow(v) ==
    /\ ladder[v].doomed /\ ladder[v].step = "handler"
    /\ ladder' = [ladder EXCEPT ![v].doomed = FALSE]
    /\ UNCHANGED <<frame, engine, visit, floor, files, record>>

\* A tool the handler runs writes status.json: open() truncates, then it writes.
BeginStatus(v) ==
    /\ ladder[v].step = "handler"
    /\ status_file' = [stamp |-> Stamp, whole |-> FALSE, status |-> "skipped",
                       notes |-> [visit |-> v, attempt |-> ladder[v].attempt,
                                  by |-> "tool"]]
    /\ UNCHANGED <<frame, engine, visit, floor, ladder, artifact, record>>

FinishStatus(v) ==
    /\ ladder[v].step = "handler"
    /\ ~status_file.whole /\ status_file.stamp > 0
    /\ status_file.notes.visit = v /\ status_file.notes.attempt = ladder[v].attempt
    /\ \E status \in Reported :
         status_file' = [status_file EXCEPT !.stamp = Stamp, !.whole = TRUE,
                                            !.status = status]
    /\ UNCHANGED <<frame, engine, visit, floor, ladder, artifact, record>>

WriteArtifact(v) ==
    /\ ladder[v].step = "handler" /\ node.must_write
    /\ \E full \in BOOLEAN :
         artifact' = [stamp |-> Stamp, full |-> full, visit |-> v]
    /\ UNCHANGED <<frame, engine, visit, floor, ladder, status_file, record>>

----------------------------------------------------------------------------
(* The engine *)

StartVisit ==
    /\ engine = "idle" /\ visit < MaxVisits
    /\ engine' = "waiting" /\ visit' = visit + 1 /\ floor' = now
    /\ ladder' = [ladder EXCEPT ![visit + 1] =
                    [NoLadder EXCEPT !.step = "handler", !.attempt = 1,
                                     !.node_start = now, !.attempt_start = now]]
    /\ UNCHANGED <<frame, files, record>>

\* Wrong: the artifact is not looked for again after auto_status.
ConcludeWithoutBackstop(o) ==
    IF node.auto_status /\ o.status = "skipped"
    THEN [o EXCEPT !.status = "success", !.explicit = FALSE] ELSE o

\* auto_status, then the last look for the artifact.
Conclude(o) ==
    LET promoted == IF node.auto_status /\ o.status = "skipped"
                    THEN [o EXCEPT !.status = "success", !.explicit = FALSE] ELSE o
    IN  IF ContractBroken(promoted, floor) THEN Ruling(visit, "fail") ELSE promoted

\* The outcome is recorded, and written to status.json.
Record(o) ==
    /\ record' = Conclude(o)
    /\ status_file' = StatusFileOf(record')
    /\ engine' = "idle"
    /\ UNCHANGED <<frame, visit, floor, ladder, artifact>>

Collect ==
    /\ engine = "waiting" /\ ladder[visit].step = "ended"
    /\ Record(ladder[visit].result)

\* A result that comes in the same moment is lost.
DeadlineExpires ==
    /\ engine = "waiting" /\ node.deadline # "none"
    /\ engine' = "grace"
    /\ ladder' = [ladder EXCEPT ![visit].doomed = Alive(visit)]
    /\ UNCHANGED <<frame, visit, floor, files, record>>

\* wait_for, out of time, cancels the task once more and waits until it ends.
GraceExpires ==
    /\ engine = "grace" /\ Alive(visit)
    /\ engine' = "overdue"
    /\ ladder' = [ladder EXCEPT ![visit].doomed = TRUE]
    /\ UNCHANGED <<frame, visit, floor, files, record>>

\* Wrong: the engine goes on when the grace is over, as the comment has it.
TimeOutAfterGrace ==
    /\ node.deadline = "node"
    /\ \/ engine = "grace" /\ ladder[visit].step = "ended"
       \/ engine = "overdue"
    /\ Record(Ruling(visit, IF node.allow_partial THEN "partial_success" ELSE "fail"))

TimeOut ==
    /\ engine \in {"grace", "overdue"} /\ node.deadline = "node"
    /\ ladder[visit].step = "ended"
    /\ Record(Ruling(visit, IF node.allow_partial THEN "partial_success" ELSE "fail"))

\* The fuse ends the pipeline; the node is not recorded, its status.json is.
FuseExpires ==
    /\ engine \in {"grace", "overdue"} /\ node.deadline = "fuse"
    /\ ladder[visit].step = "ended"
    /\ engine' = "over"
    /\ status_file' = StatusFileOf(Ruling(visit, "fail"))
    /\ UNCHANGED <<frame, visit, floor, ladder, artifact, record>>

----------------------------------------------------------------------------
Engine == StartVisit \/ Collect \/ DeadlineExpires \/ GraceExpires \/ TimeOut
          \/ FuseExpires

TaskStep(v) == HandlerReturns(v) \/ HandlerRaises(v) \/ BackendRaises(v)
               \/ NextAttempt(v) \/ Unwind(v)

Tool(v) == BeginStatus(v) \/ FinishStatus(v) \/ WriteArtifact(v)

Stopped ==
    /\ engine = "over" \/ (engine = "idle" /\ visit = MaxVisits)
    /\ UNCHANGED vars

Next == \/ Engine \/ Tick \/ Stopped
        \/ \E v \in Visits : TaskStep(v) \/ Swallow(v) \/ Tool(v)

Spec == Init /\ [][Next]_vars

FairSpec == Spec /\ WF_vars(Engine) /\ \A v \in Visits : WF_vars(TaskStep(v))
----------------------------------------------------------------------------
(* What a visit promises *)

\* Type invariant: no attempt beyond max_attempts, and well-formed outcomes.
AttemptsTypeOK ==
    /\ node \in NodeKinds /\ now \in Nat
    /\ engine \in {"idle", "waiting", "grace", "overdue", "over"}
    /\ visit \in 0..MaxVisits /\ floor \in Nat
    /\ ladder \in [Visits -> Ladder]
    /\ status_file \in [stamp: Nat, whole: BOOLEAN, status: Statuses, notes: Notes]
    /\ artifact \in [stamp: Nat, full: BOOLEAN, visit: Nat]
    /\ record \in Outcome

\* Two executions of the node never run at the same time: the engine does not
\* move on while the task of an earlier visit is alive.
OneHandlerAtATime == \A v, w \in Visits : Alive(v) /\ Alive(w) => v = w

Recorded == engine = "idle" /\ visit > 0

\* "only a file written DURING *this* attempt counts": where stamps are fine,
\* the outcome recorded is that of the last attempt of this visit, whatever
\* earlier attempts and visits left in status.json.
VerdictIsThisAttempts ==
    Recorded /\ node.grain = 1 =>
        /\ record.notes.visit = visit
        /\ record.notes.attempt = ladder[visit].attempt

\* The fail-closed goal gate: an outcome is explicit only if a handler or a tool
\* asserted it; neither a re-read of a routine status.json nor a ruling of the
\* engine makes it so.
ExplicitMeansAsserted ==
    Recorded /\ node.grain = 1 /\ record.explicit
        => record.notes.by \in {"verdict", "tool"}

\* must_write=: "completing normally then requires a fresh, non-trivial artifact",
\* of this visit, whatever retries, status files, timeouts and overrides did.
ArtifactBehindCompletion ==
    Recorded /\ node.must_write /\ node.grain = 1 /\ Completed(record)
        => artifact.full /\ artifact.visit = visit

\* If handlers return or unwind in the end, every visit does.
VisitsEnd == engine = "waiting" ~> engine \in {"idle", "over"}
=============================================================================

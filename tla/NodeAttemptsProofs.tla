------------------------- MODULE NodeAttemptsProofs -------------------------
(***************************************************************************)
(* What holds of the executions of a node for every bound, every set of    *)
(* nodes and whatever handlers return and tools write.                     *)
(***************************************************************************)
EXTENDS NodeAttempts, TLAPS

----------------------------------------------------------------------------
(* Types *)

LEMMA StampType ==
    ASSUME AttemptsTypeOK
    PROVE  Stamp \in Nat
<1>1. node.grain \in Nat \ {0} /\ now \in Nat
  BY AttemptsAssumption DEF AttemptsTypeOK, NodeKind
<1>2. now - (now % node.grain) \in Nat
  BY <1>1
<1>. QED BY <1>2 DEF Stamp

LEMMA RulingType ==
    ASSUME AttemptsTypeOK, NEW v \in Visits, NEW status \in Statuses
    PROVE  Ruling(v, status) \in Outcome
<1>1. v \in Nat /\ ladder[v] \in Ladder
  BY DEF AttemptsTypeOK, Visits
<1>2. ladder[v].attempt \in Nat
  BY <1>1, AttemptsAssumption DEF Ladder
<1>. QED BY <1>1, <1>2 DEF Ruling, Outcome, Notes

LEMMA NoOutcomeType == NoOutcome \in Outcome
BY DEF NoOutcome, Outcome, Notes, NoNotes, Statuses

LEMMA NoLadderType == NoLadder \in Ladder
BY NoOutcomeType, AttemptsAssumption DEF NoLadder, Ladder

StatusFile == [stamp: Nat, whole: BOOLEAN, status: Statuses, notes: Notes]

LEMMA FilesType ==
    ASSUME AttemptsTypeOK
    PROVE  /\ \A o \in Outcome : StatusFileOf(o) \in StatusFile
           /\ \A o \in Outcome, v \in Visits, f \in StatusFile :
                ReadStatusOverride(f, v, o) \in Outcome
<1>1. ASSUME NEW o \in Outcome PROVE StatusFileOf(o) \in StatusFile
  BY StampType DEF StatusFileOf, StatusFile, Outcome
<1>2. ASSUME NEW o \in Outcome, NEW v \in Visits, NEW f \in StatusFile
      PROVE  ReadStatusOverride(f, v, o) \in Outcome
  <2>1. [status |-> IF f.whole THEN f.status ELSE "fail",
         explicit |-> TRUE, notes |-> f.notes] \in Outcome
    BY DEF StatusFile, Outcome, Statuses
  <2>. QED BY <2>1 DEF ReadStatusOverride
<1>. QED BY <1>1, <1>2

\* The moves of a task keep the ladders typed.
LEMMA LadderType ==
    ASSUME AttemptsTypeOK, NEW v \in Visits
    PROVE  /\ \A o \in Outcome : End(v, o) => ladder' \in [Visits -> Ladder]
           /\ BackOff(v) => ladder' \in [Visits -> Ladder]
           /\ \A o \in Outcome : Settle(v, o) => ladder' \in [Visits -> Ladder]
<1>1. ladder \in [Visits -> Ladder] /\ ladder[v] \in Ladder
  BY DEF AttemptsTypeOK
<1>2. ASSUME NEW o \in Outcome, End(v, o) PROVE ladder' \in [Visits -> Ladder]
  <2>1. [NoLadder EXCEPT !.step = "ended", !.result = o,
                         !.attempt = ladder[v].attempt] \in Ladder
    BY <1>1, NoLadderType DEF Ladder
  <2>. QED BY <1>1, <1>2, <2>1 DEF End
<1>3. ASSUME BackOff(v) PROVE ladder' \in [Visits -> Ladder]
  BY <1>1, <1>3 DEF BackOff, Ladder
<1>4. ASSUME NEW o \in Outcome, Settle(v, o) PROVE ladder' \in [Visits -> Ladder]
  <2>1. Ruling(v, "fail") \in Outcome /\ Exhausted(v) \in Outcome
    BY RulingType DEF Exhausted, Statuses
  <2>2. End(v, o) \/ End(v, Ruling(v, "fail")) \/ End(v, Exhausted(v)) \/ BackOff(v)
    BY <1>4 DEF Settle
  <2>. QED BY <1>2, <1>3, <2>1, <2>2
<1>. QED BY <1>2, <1>3, <1>4

LEMMA RecordType ==
    ASSUME AttemptsTypeOK, visit \in Visits, NEW o \in Outcome, Record(o)
    PROVE  AttemptsTypeOK'
<1>1. Conclude(o) \in Outcome
  <2>1. [o EXCEPT !.status = "success", !.explicit = FALSE] \in Outcome
    BY DEF Outcome, Statuses
  <2>2. Ruling(visit, "fail") \in Outcome
    BY RulingType DEF Statuses
  <2>. QED BY <2>1, <2>2 DEF Conclude
<1>2. record' \in Outcome /\ status_file' = StatusFileOf(record')
  BY <1>1 DEF Record
<1>3. status_file' \in StatusFile
  BY <1>2, FilesType
<1>. QED BY <1>2, <1>3 DEF Record, AttemptsTypeOK, StatusFile, frame

----------------------------------------------------------------------------
(* The invariant: tasks are alive only in the engine's hands *)

\* The engine only waits for the task of a visit it began; a task is alive only
\* while the engine waits for it; a backoff is followed by an attempt it may make.
Control ==
    /\ engine # "idle" => visit \in Visits
    /\ \A v \in Visits : Alive(v) => v = visit /\ engine \in {"waiting", "grace", "overdue"}
    /\ \A v \in Visits : ladder[v].step = "backoff" => AttemptsLeft(v)

IInv == AttemptsTypeOK /\ Control

LEMMA InitIInv == Init => IInv
<1>. SUFFICES ASSUME Init PROVE IInv
  OBVIOUS
<1>1. ladder \in [Visits -> Ladder]
  BY NoLadderType DEF Init
<1>2. node.grain \in Nat /\ node \in NodeKinds /\ now = node.grain
  BY AttemptsAssumption DEF Init, NodeKind
<1>3. AttemptsTypeOK
  BY <1>1, <1>2, NoOutcomeType, AttemptsAssumption
     DEF Init, AttemptsTypeOK, NoStatusFile, NoArtifact, NoNotes, Notes, Statuses
<1>4. Control
  BY DEF Init, Control, Alive, NoLadder
<1>. QED BY <1>3, <1>4 DEF IInv

LEMMA TypeStep == IInv /\ [Next]_vars => AttemptsTypeOK'
<1>. SUFFICES ASSUME IInv, [Next]_vars PROVE AttemptsTypeOK'
  OBVIOUS
<1>. USE DEF IInv
<1>1. CASE Tick
  BY <1>1 DEF Tick, AttemptsTypeOK, files
<1>2. CASE StartVisit
  <2>1. visit + 1 \in Visits /\ visit' \in 0..MaxVisits
    BY <1>2, AttemptsAssumption DEF StartVisit, AttemptsTypeOK, Visits
  <2>2. [NoLadder EXCEPT !.step = "handler", !.attempt = 1,
                         !.node_start = now, !.attempt_start = now] \in Ladder
    <3>1. now \in Nat /\ 1 \in 0..MaxAttempts
      BY AttemptsAssumption DEF AttemptsTypeOK
    <3>. QED BY <3>1, NoOutcomeType DEF NoLadder, Ladder
  <2>3. ladder' \in [Visits -> Ladder]
    BY <1>2, <2>2 DEF StartVisit, AttemptsTypeOK
  <2>. QED BY <1>2, <2>1, <2>3 DEF StartVisit, AttemptsTypeOK, frame, files
<1>3. CASE Collect
  <2>1. visit \in Visits
    BY <1>3 DEF Collect, Control
  <2>2. ladder[visit].result \in Outcome
    BY <2>1 DEF AttemptsTypeOK, Ladder
  <2>. QED BY <1>3, <2>1, <2>2, RecordType DEF Collect
<1>4. CASE DeadlineExpires
  <2>1. Alive(visit) \in BOOLEAN
    BY DEF Alive
  <2>2. ladder' \in [Visits -> Ladder]
    BY <1>4, <2>1 DEF DeadlineExpires, AttemptsTypeOK, Ladder
  <2>. QED BY <1>4, <2>2 DEF DeadlineExpires, AttemptsTypeOK, frame, files
<1>5. CASE GraceExpires
  <2>1. ladder' \in [Visits -> Ladder]
    BY <1>5 DEF GraceExpires, AttemptsTypeOK, Ladder
  <2>. QED BY <1>5, <2>1 DEF GraceExpires, AttemptsTypeOK, frame, files
<1>6. CASE TimeOut
  <2>1. visit \in Visits
    BY <1>6 DEF TimeOut, Control
  <2>2. Ruling(visit, IF node.allow_partial THEN "partial_success" ELSE "fail") \in Outcome
    BY <2>1, RulingType DEF Statuses
  <2>. QED BY <1>6, <2>1, <2>2, RecordType DEF TimeOut
<1>7. CASE FuseExpires
  <2>1. visit \in Visits
    BY <1>7 DEF FuseExpires, Control
  <2>2. status_file' \in StatusFile
    BY <1>7, <2>1, RulingType, FilesType DEF FuseExpires, Statuses
  <2>. QED BY <1>7, <2>2 DEF FuseExpires, AttemptsTypeOK, StatusFile, frame
<1>8. CASE Stopped \/ UNCHANGED vars
  BY <1>8 DEF Stopped, vars, AttemptsTypeOK
<1>9. ASSUME NEW v \in Visits, TaskStep(v) \/ Swallow(v) \/ Tool(v)
      PROVE  AttemptsTypeOK'
  <2>1. /\ v \in Nat /\ ladder[v] \in Ladder /\ ladder[v].attempt \in Nat
        /\ status_file \in StatusFile
    BY AttemptsAssumption DEF AttemptsTypeOK, Visits, Ladder, StatusFile
  <2>2. CASE HandlerReturns(v)
    <3>1. PICK status \in Returned, by \in {"verdict", "prose"} :
            LET own == [status |-> status, explicit |-> by = "verdict",
                        notes |-> [visit |-> v, attempt |-> ladder[v].attempt, by |-> by]]
                returned == IF node.mirrors THEN ReadStatusOverride(status_file, v, own)
                            ELSE own
                file == IF node.mirrors THEN StatusFileOf(returned) ELSE status_file
            IN  /\ status_file' = file
                /\ Settle(v, ReadStatusOverride(file, v, returned))
      BY <2>2 DEF HandlerReturns
    <3>. DEFINE own == [status |-> status, explicit |-> by = "verdict",
                        notes |-> [visit |-> v, attempt |-> ladder[v].attempt, by |-> by]]
                returned == IF node.mirrors THEN ReadStatusOverride(status_file, v, own)
                            ELSE own
                file == IF node.mirrors THEN StatusFileOf(returned) ELSE status_file
    <3>2. own \in Outcome
      BY <2>1, AttemptsAssumption DEF Outcome, Notes
    <3>3. returned \in Outcome
      BY <2>1, <3>2, FilesType
    <3>4. file \in StatusFile
      BY <2>1, <3>3, FilesType
    <3>5. ReadStatusOverride(file, v, returned) \in Outcome
      BY <3>3, <3>4, FilesType
    <3>6. ladder' \in [Visits -> Ladder] /\ status_file' \in StatusFile
      BY <3>1, <3>4, <3>5, LadderType
    <3>. QED BY <2>2, <3>6 DEF HandlerReturns, AttemptsTypeOK, StatusFile, frame
  <2>3. CASE HandlerRaises(v)
    <3>1. Ruling(v, "fail") \in Outcome
      BY RulingType DEF Statuses
    <3>2. ladder' \in [Visits -> Ladder]
      BY <2>3, <3>1, LadderType DEF HandlerRaises
    <3>. QED BY <2>3, <3>2 DEF HandlerRaises, AttemptsTypeOK, frame, files
  <2>4. CASE BackendRaises(v)
    <3>. DEFINE failed == [status |-> "fail", explicit |-> FALSE,
                           notes |-> [visit |-> v, attempt |-> ladder[v].attempt,
                                      by |-> "prose"]]
    <3>1. failed \in Outcome
      BY <2>1 DEF Outcome, Notes, Statuses
    <3>2. /\ status_file' = StatusFileOf(failed)
          /\ Settle(v, ReadStatusOverride(status_file', v, failed))
      BY <2>4 DEF BackendRaises
    <3>3. status_file' \in StatusFile
      BY <3>1, <3>2, FilesType
    <3>4. ladder' \in [Visits -> Ladder]
      BY <3>1, <3>2, <3>3, FilesType, LadderType
    <3>. QED BY <2>4, <3>3, <3>4 DEF BackendRaises, AttemptsTypeOK, StatusFile, frame
  <2>5. CASE NextAttempt(v)
    <3>1. ladder[v].attempt + 1 \in 0..MaxAttempts
      BY <2>1, <2>5, AttemptsAssumption DEF NextAttempt, Control, AttemptsLeft
    <3>2. ladder' \in [Visits -> Ladder]
      BY <2>5, <3>1 DEF NextAttempt, AttemptsTypeOK, Ladder
    <3>. QED BY <2>5, <3>2 DEF NextAttempt, AttemptsTypeOK, frame, files
  <2>6. CASE Unwind(v)
    <3>1. ladder' \in [Visits -> Ladder]
      BY <2>6, NoOutcomeType, LadderType DEF Unwind
    <3>. QED BY <2>6, <3>1 DEF Unwind, AttemptsTypeOK, frame, files
  <2>7. CASE Swallow(v)
    <3>1. ladder' \in [Visits -> Ladder]
      BY <2>7 DEF Swallow, AttemptsTypeOK, Ladder
    <3>. QED BY <2>7, <3>1 DEF Swallow, AttemptsTypeOK, frame, files
  <2>8. CASE BeginStatus(v)
    <3>1. status_file' \in StatusFile
      BY <2>1, <2>8, StampType DEF BeginStatus, StatusFile, Notes, Statuses
    <3>. QED BY <2>8, <3>1 DEF BeginStatus, AttemptsTypeOK, StatusFile, frame
  <2>9. CASE FinishStatus(v)
    <3>1. status_file' \in StatusFile
      BY <2>1, <2>9, StampType, AttemptsAssumption DEF FinishStatus, StatusFile
    <3>. QED BY <2>9, <3>1 DEF FinishStatus, AttemptsTypeOK, StatusFile, frame
  <2>10. CASE WriteArtifact(v)
    BY <2>1, <2>10, StampType DEF WriteArtifact, AttemptsTypeOK, frame
  <2>. QED BY <1>9, <2>2, <2>3, <2>4, <2>5, <2>6, <2>7, <2>8, <2>9, <2>10
           DEF TaskStep, Tool
<1>. QED BY <1>1, <1>2, <1>3, <1>4, <1>5, <1>6, <1>7, <1>8, <1>9 DEF Next, Engine

\* A ruling of the ladder on attempt a of visit v.
From(o, v, a) == o.notes.visit = v /\ o.notes.attempt = a

\* What Settle leaves: a backoff before another attempt, or the end with the
\* outcome or a ruling of the same attempt.
LEMMA SettleStep ==
    ASSUME AttemptsTypeOK, NEW v \in Visits, NEW o \in Outcome, Settle(v, o)
    PROVE  /\ \A w \in Visits \ {v} : ladder'[w] = ladder[w]
           /\ ladder'[v].attempt = ladder[v].attempt
           /\ ladder'[v].doomed => ladder[v].doomed
           /\ \/ ladder'[v].step = "backoff" /\ AttemptsLeft(v)
              \/ /\ ladder'[v].step = "ended"
                 /\ \/ ladder'[v].result = o
                    \/ From(ladder'[v].result, v, ladder[v].attempt)
<1>1. ladder \in [Visits -> Ladder] /\ ladder[v] \in Ladder
  BY DEF AttemptsTypeOK
<1>2. \A s \in Statuses : From(Ruling(v, s), v, ladder[v].attempt)
  BY DEF Ruling, From
<1>3. From(Exhausted(v), v, ladder[v].attempt)
  BY <1>2 DEF Exhausted, Statuses
<1>4. ASSUME NEW r, End(v, r)
      PROVE  /\ \A w \in Visits \ {v} : ladder'[w] = ladder[w]
             /\ ladder'[v].attempt = ladder[v].attempt
             /\ ladder'[v].step = "ended" /\ ladder'[v].result = r
             /\ ~ladder'[v].doomed
  BY <1>1, <1>4 DEF End, NoLadder
<1>5. ASSUME BackOff(v)
      PROVE  /\ \A w \in Visits \ {v} : ladder'[w] = ladder[w]
             /\ ladder'[v].attempt = ladder[v].attempt
             /\ ladder'[v].step = "backoff"
             /\ ladder'[v].doomed = ladder[v].doomed
  BY <1>1, <1>5 DEF BackOff, Ladder
<1>6. \/ End(v, o) \/ End(v, Ruling(v, "fail")) \/ End(v, Exhausted(v))
      \/ BackOff(v) /\ AttemptsLeft(v)
  BY DEF Settle
<1>7. "fail" \in Statuses
  BY DEF Statuses
<1>. QED BY <1>2, <1>3, <1>4, <1>5, <1>6, <1>7

\* What HandlerReturns and BackendRaises settle on.
LEMMA HandlerOutcome ==
    ASSUME IInv, NEW v \in Visits, HandlerReturns(v) \/ BackendRaises(v)
    PROVE  \E o \in Outcome :
             /\ Settle(v, o)
             /\ \/ From(o, v, ladder[v].attempt)
                \/ /\ o.notes = status_file.notes
                   /\ WroteAfter(status_file.stamp, ladder[v].attempt_start)
<1>. USE DEF IInv
<1>1. /\ v \in Nat /\ ladder[v] \in Ladder /\ ladder[v].attempt \in Nat
      /\ status_file \in StatusFile
  BY AttemptsAssumption DEF AttemptsTypeOK, Visits, Ladder, StatusFile
<1>2. ASSUME NEW f, NEW o
      PROVE  \/ ReadStatusOverride(f, v, o).notes = o.notes
             \/ /\ ReadStatusOverride(f, v, o).notes = f.notes
                /\ WroteAfter(f.stamp, ladder[v].attempt_start)
  BY DEF ReadStatusOverride
<1>3. \A o : StatusFileOf(o).notes = o.notes
  BY DEF StatusFileOf
<1>4. CASE HandlerReturns(v)
  <2>1. PICK status \in Returned, by \in {"verdict", "prose"} :
          LET own == [status |-> status, explicit |-> by = "verdict",
                      notes |-> [visit |-> v, attempt |-> ladder[v].attempt, by |-> by]]
              returned == IF node.mirrors THEN ReadStatusOverride(status_file, v, own)
                          ELSE own
              file == IF node.mirrors THEN StatusFileOf(returned) ELSE status_file
          IN  /\ status_file' = file
              /\ Settle(v, ReadStatusOverride(file, v, returned))
    BY <1>4 DEF HandlerReturns
  <2>. DEFINE own == [status |-> status, explicit |-> by = "verdict",
                      notes |-> [visit |-> v, attempt |-> ladder[v].attempt, by |-> by]]
              returned == IF node.mirrors THEN ReadStatusOverride(status_file, v, own)
                          ELSE own
              file == IF node.mirrors THEN StatusFileOf(returned) ELSE status_file
              final == ReadStatusOverride(file, v, returned)
  <2>2. own \in Outcome
    BY <1>1, AttemptsAssumption DEF Outcome, Notes
  <2>3. returned \in Outcome
    BY <1>1, <2>2, FilesType
  <2>4. file \in StatusFile
    BY <1>1, <2>3, FilesType
  <2>5. final \in Outcome /\ Settle(v, final)
    BY <2>1, <2>3, <2>4, FilesType
  <2>6. own.notes.visit = v /\ own.notes.attempt = ladder[v].attempt
    OBVIOUS
  <2>7. \/ returned.notes = own.notes
        \/ /\ returned.notes = status_file.notes
           /\ WroteAfter(status_file.stamp, ladder[v].attempt_start)
    BY <1>2
  <2>8. \/ final.notes = returned.notes
        \/ /\ final.notes = file.notes
           /\ WroteAfter(file.stamp, ladder[v].attempt_start)
    BY <1>2
  <2>9. file.notes = returned.notes \/ file = status_file
    BY <1>3
  <2>10. \/ final.notes = own.notes
         \/ /\ final.notes = status_file.notes
            /\ WroteAfter(status_file.stamp, ladder[v].attempt_start)
    <3>. HIDE DEF final, returned, file, own
    <3>. QED BY <2>7, <2>8, <2>9
  <2>. HIDE DEF final, returned, file, own
  <2>. QED BY <2>5, <2>6, <2>10 DEF From
<1>5. CASE BackendRaises(v)
  <2>. DEFINE failed == [status |-> "fail", explicit |-> FALSE,
                         notes |-> [visit |-> v, attempt |-> ladder[v].attempt,
                                    by |-> "prose"]]
              final == ReadStatusOverride(status_file', v, failed)
  <2>1. failed \in Outcome
    BY <1>1 DEF Outcome, Notes, Statuses
  <2>2. status_file' = StatusFileOf(failed) /\ Settle(v, final)
    BY <1>5 DEF BackendRaises
  <2>3. final \in Outcome
    BY <2>1, <2>2, FilesType
  <2>4. final.notes = failed.notes
    BY <1>2, <1>3, <2>2
  <2>. QED BY <2>2, <2>3, <2>4 DEF From
<1>. QED BY <1>4, <1>5

\* What a step of a task or of its handler's tools can change.
Acts(v) == TaskStep(v) \/ Swallow(v) \/ Tool(v)

LEMMA TaskFrame ==
    ASSUME IInv, NEW v \in Visits, Acts(v)
    PROVE  /\ Alive(v)
           /\ UNCHANGED <<node, now, engine, visit, floor, record>>
           /\ \A w \in Visits \ {v} : ladder'[w] = ladder[w]
           /\ ladder'[v].step = "backoff" => AttemptsLeft(v)'
           /\ ladder'[v].doomed => ladder[v].doomed /\ Alive(v)'
<1>. USE DEF IInv
<1>1. ladder \in [Visits -> Ladder]
  BY DEF AttemptsTypeOK
<1>2. CASE HandlerReturns(v) \/ BackendRaises(v)
  <2>1. PICK o \in Outcome : Settle(v, o)
    BY <1>2, HandlerOutcome
  <2>2. /\ Alive(v)
        /\ UNCHANGED <<node, now, engine, visit, floor, record>>
        /\ ~ladder[v].doomed
    BY <1>2 DEF HandlerReturns, BackendRaises, Alive, frame
  <2>. QED BY <2>1, <2>2, SettleStep DEF AttemptsLeft
<1>3. CASE HandlerRaises(v)
  <2>1. Ruling(v, "fail") \in Outcome /\ "fail" \in Statuses
    BY RulingType DEF Statuses
  <2>2. (AttemptsLeft(v) /\ BackOff(v)) \/ End(v, Ruling(v, "fail"))
    BY <1>3 DEF HandlerRaises
  <2>3. ladder'[v].attempt = ladder[v].attempt
        /\ (ladder'[v].step = "backoff" => AttemptsLeft(v))
        /\ (ladder'[v].doomed => ladder[v].doomed)
        /\ \A w \in Visits \ {v} : ladder'[w] = ladder[w]
    <3>1. CASE AttemptsLeft(v) /\ BackOff(v)
      BY <1>1, <3>1 DEF BackOff, Ladder
    <3>2. CASE End(v, Ruling(v, "fail"))
      BY <1>1, <3>2 DEF End, NoLadder
    <3>. QED BY <2>2, <3>1, <3>2
  <2>. QED BY <1>3, <2>3 DEF HandlerRaises, Alive, AttemptsLeft, frame
<1>4. CASE NextAttempt(v)
  BY <1>1, <1>4 DEF NextAttempt, Alive, frame, Ladder
<1>5. CASE Unwind(v)
  BY <1>1, <1>5 DEF Unwind, End, NoLadder, Alive, frame
<1>6. CASE Swallow(v)
  BY <1>1, <1>6 DEF Swallow, Alive, frame, Ladder
<1>7. CASE Tool(v)
  BY <1>7 DEF Tool, BeginStatus, FinishStatus, WriteArtifact, Alive, frame, Control,
              AttemptsLeft
<1>. QED BY <1>2, <1>3, <1>4, <1>5, <1>6, <1>7 DEF Acts, TaskStep

\* The engine records only what no task is at work on any more.
LEMMA NobodyAlive ==
    ASSUME IInv
    PROVE  /\ engine \in {"idle", "over"} => \A v \in Visits : ~Alive(v)
           /\ engine # "idle" /\ ladder[visit].step = "ended"
                => \A v \in Visits : ~Alive(v)
BY DEF IInv, Control, Alive

LEMMA ControlStep == IInv /\ [Next]_vars => Control'
<1>. SUFFICES ASSUME IInv, [Next]_vars PROVE Control'
  OBVIOUS
<1>1. ladder \in [Visits -> Ladder] /\ visit \in 0..MaxVisits
  BY DEF IInv, AttemptsTypeOK
<1>2. CASE Tick \/ Stopped \/ UNCHANGED vars
  BY <1>2 DEF Tick, Stopped, vars, IInv, Control, Alive, AttemptsLeft
<1>3. CASE StartVisit
  <2>1. visit' \in Visits /\ visit' = visit + 1 /\ engine' = "waiting"
    BY <1>1, <1>3, AttemptsAssumption DEF StartVisit, Visits
  <2>2. /\ ladder'[visit'].step = "handler"
        /\ \A w \in Visits \ {visit'} : ladder'[w] = ladder[w]
    BY <1>1, <1>3, <2>1 DEF StartVisit, NoLadder
  <2>3. \A w \in Visits : ~Alive(w)
    BY <1>3, NobodyAlive DEF StartVisit
  <2>. QED BY <2>1, <2>2, <2>3 DEF Control, Alive
<1>4. CASE Collect \/ TimeOut
  BY <1>4, NobodyAlive DEF Collect, TimeOut, Record, Control, Alive, AttemptsLeft, frame
<1>5. CASE DeadlineExpires
  <2>1. visit \in Visits /\ engine' = "grace" /\ visit' = visit
    BY <1>5 DEF DeadlineExpires, IInv, Control, frame
  <2>2. \A w \in Visits : ladder'[w].step = ladder[w].step
                          /\ ladder'[w].attempt = ladder[w].attempt
    BY <1>1, <1>5, <2>1 DEF DeadlineExpires, Ladder
  <2>. QED BY <1>5, <2>1, <2>2 DEF IInv, Control, Alive, AttemptsLeft, DeadlineExpires
<1>6. CASE GraceExpires
  <2>1. visit \in Visits /\ engine' = "overdue" /\ visit' = visit
    BY <1>6 DEF GraceExpires, IInv, Control, frame
  <2>2. \A w \in Visits : ladder'[w].step = ladder[w].step
                          /\ ladder'[w].attempt = ladder[w].attempt
    BY <1>1, <1>6, <2>1 DEF GraceExpires, Ladder
  <2>. QED BY <1>6, <2>1, <2>2 DEF IInv, Control, Alive, AttemptsLeft, GraceExpires
<1>7. CASE FuseExpires
  BY <1>7, NobodyAlive DEF FuseExpires, IInv, Control, Alive, AttemptsLeft, frame
<1>8. ASSUME NEW v \in Visits, Acts(v) PROVE Control'
  <2>1. /\ v = visit /\ engine \in {"waiting", "grace", "overdue"}
        /\ visit' = visit /\ engine' = engine
        /\ \A w \in Visits \ {v} : ladder'[w] = ladder[w]
        /\ ladder'[v].step = "backoff" => AttemptsLeft(v)'
    BY <1>8, TaskFrame DEF IInv, Control
  <2>2. \A w \in Visits : ladder'[w].step = "backoff" => AttemptsLeft(w)'
    BY <2>1 DEF IInv, Control, AttemptsLeft
  <2>3. \A w \in Visits : Alive(w)' => w = visit
    BY <2>1 DEF IInv, Control, Alive
  <2>. QED BY <2>1, <2>2, <2>3 DEF IInv, Control
<1>. QED BY <1>2, <1>3, <1>4, <1>5, <1>6, <1>7, <1>8 DEF Next, Engine, Acts

LEMMA Inductive == Spec => []IInv
<1>1. IInv /\ [Next]_vars => IInv'
  BY TypeStep, ControlStep DEF IInv
<1>. QED BY InitIInv, <1>1, PTL DEF Spec

\* Type correctness: never more attempts than max_attempts.
THEOREM AttemptsTypeCorrect == Spec => []AttemptsTypeOK
<1>1. IInv => AttemptsTypeOK
  BY DEF IInv
<1>. QED BY Inductive, <1>1, PTL

\* execute_with_retry never runs for two visits of a node at once: the engine's
\* wait for a cancelled task is what keeps them apart.
THEOREM OneHandler == Spec => []OneHandlerAtATime
<1>1. IInv => OneHandlerAtATime
  BY DEF IInv, Control, OneHandlerAtATime
<1>. QED BY Inductive, <1>1, PTL

----------------------------------------------------------------------------
(* The artifact, where stamps are fine *)

LEMMA FineStamps ==
    ASSUME AttemptsTypeOK, node.grain = 1
    PROVE  /\ Stamp = now
           /\ \A s, t \in Nat : WroteAfter(s, t) <=> s > t
<1>1. now \in Nat
  BY DEF AttemptsTypeOK
<1>2. now % 1 = 0
  BY <1>1
<1>. QED BY <1>1, <1>2 DEF Stamp, WroteAfter, Tolerance

\* An artifact stamped after the visit began is of this visit.
ArtifactIsOfTheVisit ==
    node.grain = 1 =>
        /\ artifact.stamp <= now /\ floor <= now
        /\ artifact.stamp > floor => artifact.visit = visit

ArtifactInv == ArtifactIsOfTheVisit /\ ArtifactBehindCompletion

LEMMA RecordedArtifact ==
    ASSUME IInv, ArtifactInv, visit \in Visits, NEW o \in Outcome, Record(o)
    PROVE  ArtifactInv'
<1>. USE DEF IInv
<1>1. /\ UNCHANGED <<node, now, visit, floor, artifact>>
      /\ record' = Conclude(o)
  BY DEF Record, frame
<1>2. ASSUME node.grain = 1, node.must_write, Completed(Conclude(o))
      PROVE  artifact.full /\ artifact.visit = visit
  <2>1. Conclude(o).status \notin {"fail", "skipped"}
    BY <1>2 DEF Completed
  <2>2. Conclude(o) # Ruling(visit, "fail")
    BY <2>1 DEF Ruling
  <2>3. ~ContractBroken(Conclude(o), floor)
    BY <2>2 DEF Conclude
  <2>4. ArtifactFresh(floor)
    BY <1>2, <2>1, <2>3 DEF ContractBroken
  <2>5. artifact.stamp \in Nat /\ floor \in Nat
    BY DEF AttemptsTypeOK
  <2>6. artifact.full /\ artifact.stamp > floor
    BY <1>2, <2>4, <2>5, FineStamps DEF ArtifactFresh
  <2>. QED BY <1>2, <2>6 DEF ArtifactInv, ArtifactIsOfTheVisit
<1>3. ArtifactIsOfTheVisit'
  BY <1>1 DEF ArtifactInv, ArtifactIsOfTheVisit
<1>4. ArtifactBehindCompletion'
  BY <1>1, <1>2 DEF ArtifactBehindCompletion
<1>. QED BY <1>3, <1>4 DEF ArtifactInv

LEMMA ArtifactStep == IInv /\ ArtifactInv /\ [Next]_vars => ArtifactInv'
<1>. SUFFICES ASSUME IInv, ArtifactInv, [Next]_vars PROVE ArtifactInv'
  OBVIOUS
<1>. USE DEF ArtifactInv
<1>1. artifact.stamp \in Nat /\ now \in Nat /\ floor \in Nat /\ visit \in Nat
  BY AttemptsAssumption DEF IInv, AttemptsTypeOK
<1>2. CASE Tick
  BY <1>1, <1>2 DEF Tick, files, ArtifactIsOfTheVisit, ArtifactBehindCompletion, Recorded
<1>3. CASE Stopped \/ UNCHANGED vars
  BY <1>3 DEF Stopped, vars, ArtifactIsOfTheVisit, ArtifactBehindCompletion, Recorded
<1>4. CASE StartVisit
  BY <1>1, <1>4 DEF StartVisit, frame, files, ArtifactIsOfTheVisit,
                    ArtifactBehindCompletion, Recorded
<1>5. CASE Collect
  <2>1. visit \in Visits
    BY <1>5 DEF Collect, IInv, Control
  <2>2. ladder[visit].result \in Outcome
    BY <2>1 DEF IInv, AttemptsTypeOK, Ladder
  <2>. QED BY <1>5, <2>1, <2>2, RecordedArtifact DEF Collect
<1>6. CASE TimeOut
  <2>1. visit \in Visits
    BY <1>6 DEF TimeOut, IInv, Control
  <2>2. Ruling(visit, IF node.allow_partial THEN "partial_success" ELSE "fail") \in Outcome
    BY <2>1, RulingType DEF IInv, Statuses
  <2>. QED BY <1>6, <2>1, <2>2, RecordedArtifact DEF TimeOut
<1>7. CASE DeadlineExpires \/ GraceExpires \/ FuseExpires
  BY <1>7 DEF DeadlineExpires, GraceExpires, FuseExpires, frame, files,
              ArtifactIsOfTheVisit, ArtifactBehindCompletion, Recorded
<1>8. ASSUME NEW v \in Visits, Acts(v) PROVE ArtifactInv'
  <2>1. /\ v = visit /\ engine # "idle"
        /\ UNCHANGED <<node, now, engine, visit, floor, record>>
    BY <1>8, TaskFrame DEF IInv, Control
  <2>2. ArtifactBehindCompletion'
    BY <2>1 DEF ArtifactBehindCompletion, Recorded
  <2>3. CASE WriteArtifact(v)
    <3>1. PICK full \in BOOLEAN :
            artifact' = [stamp |-> Stamp, full |-> full, visit |-> v]
      BY <2>3 DEF WriteArtifact
    <3>2. artifact'.visit = visit
      BY <2>1, <3>1
    <3>3. node.grain = 1 => artifact'.stamp = now
      BY <3>1, FineStamps DEF IInv
    <3>4. ArtifactIsOfTheVisit'
      BY <1>1, <2>1, <3>2, <3>3 DEF ArtifactIsOfTheVisit
    <3>. QED BY <2>2, <3>4
  <2>4. CASE ~WriteArtifact(v)
    <3>1. UNCHANGED artifact
      BY <1>8, <2>4 DEF Acts, TaskStep, Tool, HandlerReturns, HandlerRaises,
         BackendRaises, NextAttempt, Unwind, Swallow, BeginStatus, FinishStatus, files
    <3>. QED BY <2>1, <2>2, <3>1 DEF ArtifactIsOfTheVisit
  <2>. QED BY <2>3, <2>4
<1>. QED BY <1>2, <1>3, <1>4, <1>5, <1>6, <1>7, <1>8 DEF Next, Engine, Acts

\* must_write=: whatever retries, status files, timeouts, allow_partial and
\* auto_status make of a visit, it does not complete without an artifact of its own.
THEOREM ArtifactSafe == Spec => []ArtifactBehindCompletion
<1>1. Init => ArtifactInv
  <2>. SUFFICES ASSUME Init PROVE ArtifactInv
    OBVIOUS
  <2>1. now \in Nat
    BY InitIInv DEF IInv, AttemptsTypeOK
  <2>. QED BY <2>1 DEF Init, ArtifactInv, ArtifactIsOfTheVisit, ArtifactBehindCompletion,
                       Recorded, NoArtifact
<1>2. ArtifactInv => ArtifactBehindCompletion
  BY DEF ArtifactInv
<1>. QED BY <1>1, <1>2, Inductive, ArtifactStep, PTL DEF Spec

----------------------------------------------------------------------------
(* The verdict, where stamps are fine *)

\* A cancellation is requested only of a task the engine has stopped listening to.
DoomedIsUnheard ==
    \A v \in Visits : ladder[v].doomed => Alive(v) /\ engine \in {"grace", "overdue"}

\* A status.json stamped after the running attempt began is that attempt's, and
\* so is the result of a task the engine still listens to.
StatusFileIsOfTheAttempt ==
    node.grain = 1 =>
        /\ status_file.stamp <= now
        /\ \A v \in Visits :
             /\ ladder[v].step = "handler" /\ status_file.stamp > ladder[v].attempt_start
                  => From(status_file, v, ladder[v].attempt)
             /\ engine = "waiting" /\ v = visit /\ ladder[v].step = "ended"
                  => From(ladder[v].result, v, ladder[v].attempt)

VerdictInv == DoomedIsUnheard /\ StatusFileIsOfTheAttempt /\ VerdictIsThisAttempts

LEMMA DoomedStep == IInv /\ DoomedIsUnheard /\ [Next]_vars => DoomedIsUnheard'
<1>. SUFFICES ASSUME IInv, DoomedIsUnheard, [Next]_vars PROVE DoomedIsUnheard'
  OBVIOUS
<1>1. ladder \in [Visits -> Ladder]
  BY DEF IInv, AttemptsTypeOK
<1>2. CASE Tick \/ Stopped \/ UNCHANGED vars
  BY <1>2 DEF Tick, Stopped, vars, DoomedIsUnheard, Alive
<1>3. CASE StartVisit
  <2>1. \A w \in Visits : ~ladder[w].doomed
    BY <1>3 DEF StartVisit, DoomedIsUnheard
  <2>2. \A w \in Visits : ~ladder'[w].doomed
    BY <1>1, <1>3, <2>1 DEF StartVisit, NoLadder
  <2>. QED BY <2>2 DEF DoomedIsUnheard
<1>4. CASE DeadlineExpires
  <2>1. \A w \in Visits : ladder'[w].doomed => Alive(w)'
    BY <1>1, <1>4 DEF DeadlineExpires, DoomedIsUnheard, Alive, Ladder
  <2>. QED BY <1>4, <2>1 DEF DeadlineExpires, DoomedIsUnheard
<1>5. CASE GraceExpires
  <2>1. \A w \in Visits : ladder'[w].doomed => Alive(w)'
    BY <1>1, <1>5 DEF GraceExpires, DoomedIsUnheard, Alive, Ladder
  <2>. QED BY <1>5, <2>1 DEF GraceExpires, DoomedIsUnheard
<1>6. CASE Collect \/ TimeOut \/ FuseExpires
  <2>1. \A w \in Visits : ~ladder[w].doomed
    BY <1>6, NobodyAlive DEF Collect, TimeOut, FuseExpires, DoomedIsUnheard
  <2>. QED BY <1>6, <2>1 DEF Collect, TimeOut, FuseExpires, Record, frame, DoomedIsUnheard
<1>7. ASSUME NEW v \in Visits, Acts(v) PROVE DoomedIsUnheard'
  BY <1>7, TaskFrame DEF DoomedIsUnheard, Alive
<1>. QED BY <1>2, <1>3, <1>4, <1>5, <1>6, <1>7 DEF Next, Engine, Acts

LEMMA RecordedVerdict ==
    ASSUME IInv, VerdictInv, visit \in Visits, NEW o \in Outcome, Record(o),
           node.grain = 1 => From(o, visit, ladder[visit].attempt),
           \A v \in Visits : ~Alive(v)
    PROVE  StatusFileIsOfTheAttempt' /\ VerdictIsThisAttempts'
<1>. USE DEF IInv
<1>1. /\ UNCHANGED <<node, now, visit, ladder>> /\ engine' = "idle"
      /\ record' = Conclude(o) /\ status_file' = StatusFileOf(record')
  BY DEF Record, frame
<1>2. node.grain = 1 => status_file'.stamp = now /\ now \in Nat
  BY <1>1, FineStamps DEF StatusFileOf, AttemptsTypeOK
<1>3. StatusFileIsOfTheAttempt'
  BY <1>1, <1>2 DEF StatusFileIsOfTheAttempt, Alive
<1>4. ASSUME node.grain = 1
      PROVE  From(Conclude(o), visit, ladder[visit].attempt)
  <2>1. [o EXCEPT !.status = "success", !.explicit = FALSE].notes = o.notes
    BY DEF Outcome
  <2>2. From(Ruling(visit, "fail"), visit, ladder[visit].attempt)
    BY DEF Ruling, From
  <2>. QED BY <1>4, <2>1, <2>2 DEF Conclude, From
<1>5. VerdictIsThisAttempts'
  BY <1>1, <1>4 DEF VerdictIsThisAttempts, From
<1>. QED BY <1>3, <1>5

LEMMA TaskVerdict ==
    ASSUME IInv, VerdictInv, NEW v \in Visits, Acts(v)
    PROVE  StatusFileIsOfTheAttempt' /\ VerdictIsThisAttempts'
<1>. USE DEF VerdictInv
<1>1. /\ v = visit /\ engine \in {"waiting", "grace", "overdue"}
      /\ UNCHANGED <<node, now, engine, visit, floor, record>>
      /\ \A w \in Visits \ {v} : ladder'[w] = ladder[w] /\ ~Alive(w)
  BY TaskFrame DEF IInv, Control
<1>2. /\ ladder \in [Visits -> Ladder] /\ ladder[v] \in Ladder
      /\ now \in Nat /\ status_file \in StatusFile /\ AttemptsTypeOK
      /\ ladder[v].attempt_start \in Nat
  BY DEF IInv, AttemptsTypeOK, StatusFile, Ladder
<1>3. VerdictIsThisAttempts'
  BY <1>1 DEF VerdictIsThisAttempts, Recorded
\* What remains to be shown of the task that acts.
<1>. DEFINE Good == /\ status_file'.stamp <= now
                    /\ ladder'[v].step = "handler"
                         /\ status_file'.stamp > ladder'[v].attempt_start
                         => From(status_file', v, ladder'[v].attempt)
                    /\ engine = "waiting" /\ ladder'[v].step = "ended"
                         => From(ladder'[v].result, v, ladder'[v].attempt)
<1>4. SUFFICES ASSUME node.grain = 1 PROVE Good
  BY <1>1, <1>3 DEF StatusFileIsOfTheAttempt, Alive
<1>5. /\ status_file.stamp <= now /\ Stamp = now
      /\ ladder[v].step = "handler" /\ status_file.stamp > ladder[v].attempt_start
           => From(status_file, v, ladder[v].attempt)
  BY <1>2, <1>4, FineStamps DEF StatusFileIsOfTheAttempt
<1>6. CASE HandlerReturns(v) \/ BackendRaises(v)
  <2>1. PICK o \in Outcome :
          /\ Settle(v, o)
          /\ \/ From(o, v, ladder[v].attempt)
             \/ /\ o.notes = status_file.notes
                /\ WroteAfter(status_file.stamp, ladder[v].attempt_start)
    BY <1>6, HandlerOutcome
  <2>2. status_file.stamp \in Nat /\ ladder[v].step = "handler"
    BY <1>2, <1>6 DEF HandlerReturns, BackendRaises, StatusFile
  <2>3. From(o, v, ladder[v].attempt)
    <3>1. CASE WroteAfter(status_file.stamp, ladder[v].attempt_start)
               /\ o.notes = status_file.notes
      <4>1. status_file.stamp > ladder[v].attempt_start
        BY <1>2, <1>4, <2>2, <3>1, FineStamps
      <4>. QED BY <1>5, <2>2, <3>1, <4>1 DEF From
    <3>. QED BY <2>1, <3>1
  <2>4. /\ ladder'[v].step # "handler"
        /\ ladder'[v].step = "ended" => From(ladder'[v].result, v, ladder'[v].attempt)
    <3>1. /\ ladder'[v].attempt = ladder[v].attempt
          /\ \/ ladder'[v].step = "backoff"
             \/ /\ ladder'[v].step = "ended"
                /\ \/ ladder'[v].result = o
                   \/ From(ladder'[v].result, v, ladder[v].attempt)
      BY <1>2, <2>1, SettleStep
    <3>. QED BY <2>3, <3>1
  <2>5. status_file' = status_file \/ \E r : status_file' = StatusFileOf(r)
    BY <1>6 DEF HandlerReturns, BackendRaises
  <2>6. status_file'.stamp <= now
    BY <1>2, <1>5, <2>5 DEF StatusFileOf
  <2>. QED BY <2>4, <2>6
<1>7. CASE HandlerRaises(v)
  <2>1. status_file' = status_file
    BY <1>7 DEF HandlerRaises, files
  <2>2. CASE BackOff(v)
    BY <1>2, <1>5, <2>1, <2>2 DEF BackOff, Ladder
  <2>3. CASE End(v, Ruling(v, "fail"))
    BY <1>2, <1>5, <2>1, <2>3 DEF End, Ruling, NoLadder, From
  <2>. QED BY <1>7, <2>2, <2>3 DEF HandlerRaises
<1>8. CASE NextAttempt(v)
  <2>1. status_file' = status_file
    BY <1>8 DEF NextAttempt, files
  <2>2. ladder'[v].step = "handler" /\ ladder'[v].attempt_start = now
    BY <1>2, <1>8 DEF NextAttempt, Ladder
  <2>3. status_file.stamp \in Nat
    BY <1>2 DEF StatusFile
  <2>. QED BY <1>2, <1>5, <2>1, <2>2, <2>3
<1>9. CASE Unwind(v)
  <2>1. status_file' = status_file /\ ladder[v].doomed
    BY <1>9 DEF Unwind, files
  <2>2. ladder'[v].step = "ended"
    BY <1>2, <1>9 DEF Unwind, End, NoLadder
  <2>3. engine # "waiting"
    BY <2>1 DEF DoomedIsUnheard
  <2>. QED BY <1>5, <2>1, <2>2, <2>3
<1>10. CASE Swallow(v)
  <2>1. status_file' = status_file
    BY <1>10 DEF Swallow, files
  <2>2. /\ ladder'[v].step = "handler" /\ ladder[v].step = "handler"
        /\ ladder'[v].attempt = ladder[v].attempt
        /\ ladder'[v].attempt_start = ladder[v].attempt_start
    BY <1>2, <1>10 DEF Swallow, Ladder
  <2>. QED BY <1>5, <2>1, <2>2
<1>11. CASE BeginStatus(v)
  BY <1>2, <1>5, <1>11 DEF BeginStatus, From
<1>12. CASE FinishStatus(v)
  <2>1. /\ ladder' = ladder /\ ladder[v].step = "handler"
        /\ status_file'.stamp = now
        /\ status_file'.notes.visit = v /\ status_file'.notes.attempt = ladder[v].attempt
    BY <1>2, <1>5, <1>12 DEF FinishStatus, StatusFile
  <2>. QED BY <1>2, <2>1 DEF From
<1>13. CASE WriteArtifact(v)
  <2>1. ladder' = ladder /\ status_file' = status_file /\ ladder[v].step = "handler"
    BY <1>13 DEF WriteArtifact
  <2>. QED BY <1>5, <2>1
<1>. QED BY <1>6, <1>7, <1>8, <1>9, <1>10, <1>11, <1>12, <1>13 DEF Acts, TaskStep, Tool

LEMMA VerdictStep == IInv /\ VerdictInv /\ [Next]_vars => VerdictInv'
<1>. SUFFICES ASSUME IInv, VerdictInv, [Next]_vars
              PROVE  StatusFileIsOfTheAttempt' /\ VerdictIsThisAttempts'
  BY DoomedStep DEF VerdictInv
<1>1. /\ ladder \in [Visits -> Ladder] /\ now \in Nat /\ AttemptsTypeOK
      /\ status_file \in StatusFile /\ status_file.stamp \in Nat
  BY DEF IInv, AttemptsTypeOK, StatusFile
<1>2. CASE Tick
  BY <1>1, <1>2 DEF Tick, files, VerdictInv, StatusFileIsOfTheAttempt,
                    VerdictIsThisAttempts, Recorded
<1>3. CASE Stopped \/ UNCHANGED vars
  BY <1>3 DEF Stopped, vars, VerdictInv, StatusFileIsOfTheAttempt, VerdictIsThisAttempts,
              Recorded
<1>4. CASE StartVisit
  <2>1. /\ engine' = "waiting" /\ visit' = visit + 1
        /\ UNCHANGED <<node, now, status_file>>
        /\ \A w \in Visits : ~Alive(w)
    BY <1>4, NobodyAlive DEF StartVisit, frame, files
  <2>2. \A w \in Visits \ {visit + 1} : ladder'[w] = ladder[w]
    BY <1>1, <1>4 DEF StartVisit
  <2>3. visit + 1 \in Visits =>
          ladder'[visit + 1].step = "handler" /\ ladder'[visit + 1].attempt_start = now
    BY <1>1, <1>4 DEF StartVisit, NoLadder
  <2>4. StatusFileIsOfTheAttempt'
    BY <1>1, <2>1, <2>2, <2>3 DEF VerdictInv, StatusFileIsOfTheAttempt, Alive
  <2>. QED BY <2>1, <2>4 DEF VerdictIsThisAttempts, Recorded
<1>5. CASE Collect
  <2>1. visit \in Visits /\ \A w \in Visits : ~Alive(w)
    BY <1>5, NobodyAlive DEF Collect, IInv, Control
  <2>2. ladder[visit].result \in Outcome
    BY <1>1, <2>1 DEF Ladder
  <2>3. node.grain = 1 => From(ladder[visit].result, visit, ladder[visit].attempt)
    BY <1>5, <2>1 DEF Collect, VerdictInv, StatusFileIsOfTheAttempt
  <2>. QED BY <1>5, <2>1, <2>2, <2>3, RecordedVerdict DEF Collect
<1>6. CASE TimeOut
  <2>. DEFINE o == Ruling(visit, IF node.allow_partial THEN "partial_success" ELSE "fail")
  <2>1. visit \in Visits /\ \A w \in Visits : ~Alive(w)
    BY <1>6, NobodyAlive DEF TimeOut, IInv, Control
  <2>2. o \in Outcome /\ From(o, visit, ladder[visit].attempt)
    BY <1>1, <2>1, RulingType DEF Statuses, Ruling, From
  <2>. QED BY <1>6, <2>1, <2>2, RecordedVerdict DEF TimeOut
<1>7. CASE DeadlineExpires \/ GraceExpires
  <2>1. \A w \in Visits : /\ ladder'[w].step = ladder[w].step
                          /\ ladder'[w].attempt = ladder[w].attempt
                          /\ ladder'[w].attempt_start = ladder[w].attempt_start
    BY <1>1, <1>7 DEF DeadlineExpires, GraceExpires, Ladder
  <2>2. /\ engine' \notin {"idle", "waiting"}
        /\ UNCHANGED <<node, now, status_file>>
    BY <1>7 DEF DeadlineExpires, GraceExpires, frame, files
  <2>. QED BY <2>1, <2>2 DEF VerdictInv, StatusFileIsOfTheAttempt, VerdictIsThisAttempts,
                             Recorded
<1>8. CASE FuseExpires
  <2>1. /\ UNCHANGED <<node, now, ladder>> /\ engine' = "over"
        /\ status_file'.stamp = Stamp /\ \A w \in Visits : ~Alive(w)
    BY <1>8, NobodyAlive DEF FuseExpires, StatusFileOf, frame
  <2>2. node.grain = 1 => status_file'.stamp <= now
    BY <1>1, <2>1, FineStamps
  <2>. QED BY <2>1, <2>2 DEF StatusFileIsOfTheAttempt, VerdictIsThisAttempts, Recorded, Alive
<1>9. ASSUME NEW v \in Visits, Acts(v)
      PROVE  StatusFileIsOfTheAttempt' /\ VerdictIsThisAttempts'
  BY <1>9, TaskVerdict
<1>. QED BY <1>2, <1>3, <1>4, <1>5, <1>6, <1>7, <1>8, <1>9 DEF Next, Engine, Acts

\* What is recorded of a visit is what its last attempt said, or a ruling on it:
\* never a status.json that an earlier attempt or visit left behind.
THEOREM VerdictSafe == Spec => []VerdictIsThisAttempts
<1>1. Init => VerdictInv
  <2>. SUFFICES ASSUME Init PROVE VerdictInv
    OBVIOUS
  <2>1. now \in Nat
    BY InitIInv DEF IInv, AttemptsTypeOK
  <2>. QED BY <2>1 DEF Init, VerdictInv, DoomedIsUnheard, StatusFileIsOfTheAttempt,
                       VerdictIsThisAttempts, Recorded, NoStatusFile, NoLadder
<1>2. VerdictInv => VerdictIsThisAttempts
  BY DEF VerdictInv
<1>. QED BY <1>1, <1>2, Inductive, VerdictStep, PTL DEF Spec

----------------------------------------------------------------------------
(* What is explicit was asserted, where stamps are fine                      *)

Asserted(o) == o.explicit => o.notes.by \in {"verdict", "tool"}

\* While a handler is at work only its tools write status.json, and what is
\* half-written is always theirs; so what the ladder reads back was asserted.
AssertedInv ==
    node.grain = 1 =>
        /\ ~status_file.whole /\ status_file.stamp > 0 => status_file.notes.by = "tool"
        /\ \A v \in Visits :
             /\ Asserted(ladder[v].result)
             /\ ladder[v].step = "handler" /\ status_file.stamp > ladder[v].attempt_start
                  => status_file.notes.by = "tool"
        /\ Asserted(record)

LEMMA RulingsAssertNothing ==
    /\ \A v, s : Asserted(Ruling(v, s))
    /\ \A v : Asserted(Exhausted(v))
    /\ Asserted(NoOutcome)
<1>1. \A v, s : Asserted(Ruling(v, s))
  BY DEF Asserted, Ruling
<1>2. \A v : Asserted(Exhausted(v))
  BY <1>1 DEF Exhausted
<1>3. Asserted(NoOutcome)
  BY DEF Asserted, NoOutcome
<1>. QED BY <1>1, <1>2, <1>3

\* Recording an outcome, with a promotion or a ruling, asserts no more than it did.
LEMMA ConcludeAsserts ==
    ASSUME NEW o \in Outcome, Asserted(o)
    PROVE  Asserted(Conclude(o))
<1>1. Asserted([o EXCEPT !.status = "success", !.explicit = FALSE])
  BY DEF Outcome, Asserted
<1>. QED BY <1>1, RulingsAssertNothing DEF Conclude

LEMMA EndAsserts ==
    ASSUME AttemptsTypeOK, NEW v \in Visits, NEW o, Asserted(o), End(v, o)
    PROVE  Asserted(ladder'[v].result) /\ ladder'[v].step # "handler"
<1>1. ladder'[v].result = o /\ ladder'[v].step = "ended"
  BY DEF End, AttemptsTypeOK, NoLadder
<1>. QED BY <1>1 DEF Asserted

LEMMA BackOffAsserts ==
    ASSUME AttemptsTypeOK, NEW v \in Visits, Asserted(ladder[v].result), BackOff(v)
    PROVE  Asserted(ladder'[v].result) /\ ladder'[v].step # "handler"
<1>1. ladder'[v].result = ladder[v].result /\ ladder'[v].step = "backoff"
  BY DEF BackOff, AttemptsTypeOK, Ladder
<1>. QED BY <1>1 DEF Asserted

LEMMA SettleAsserts ==
    ASSUME AttemptsTypeOK, NEW v \in Visits, NEW o, Asserted(o), Asserted(ladder[v].result),
           Settle(v, o)
    PROVE  Asserted(ladder'[v].result) /\ ladder'[v].step # "handler"
<1>1. End(v, o) \/ End(v, Ruling(v, "fail")) \/ End(v, Exhausted(v)) \/ BackOff(v)
  BY DEF Settle
<1>. QED BY <1>1, EndAsserts, BackOffAsserts, RulingsAssertNothing

\* What is read back of a file stamped during the attempt, or of one that says
\* what the handler said, was asserted.
LEMMA ReadAsserts ==
    ASSUME IInv, node.grain = 1, NEW v \in Visits, NEW f \in StatusFile, NEW o, Asserted(o),
           f.stamp > ladder[v].attempt_start =>
               f.notes.by = "tool" \/ (f.whole /\ f.status = o.status /\ f.notes = o.notes)
    PROVE  Asserted(ReadStatusOverride(f, v, o))
<1>1. f.stamp \in Nat /\ ladder[v].attempt_start \in Nat /\ AttemptsTypeOK
  BY DEF StatusFile, IInv, AttemptsTypeOK, Ladder
<1>2. WroteAfter(f.stamp, ladder[v].attempt_start) <=> f.stamp > ladder[v].attempt_start
  BY <1>1, FineStamps
<1>3. CASE ReadStatusOverride(f, v, o) = o
  BY <1>3
<1>4. CASE ReadStatusOverride(f, v, o) # o
  <2>1. /\ f.notes.by = "tool"
        /\ ReadStatusOverride(f, v, o).notes = f.notes
    BY <1>2, <1>4 DEF ReadStatusOverride
  <2>. QED BY <2>1 DEF Asserted
<1>. QED BY <1>3, <1>4

LEMMA TaskAsserts ==
    ASSUME IInv, AssertedInv, VerdictInv, NEW v \in Visits, Acts(v)
    PROVE  AssertedInv'
<1>1. /\ UNCHANGED <<node, now, record>>
      /\ \A w \in Visits \ {v} : ladder'[w] = ladder[w] /\ ~Alive(w)
  BY TaskFrame DEF IInv, Control
<1>2. /\ ladder \in [Visits -> Ladder] /\ ladder[v] \in Ladder
      /\ now \in Nat /\ status_file \in StatusFile /\ AttemptsTypeOK
      /\ ladder[v].attempt_start \in Nat
  BY DEF IInv, AttemptsTypeOK, StatusFile, Ladder
<1>. DEFINE Good == /\ ~status_file'.whole /\ status_file'.stamp > 0
                         => status_file'.notes.by = "tool"
                    /\ Asserted(ladder'[v].result)
                    /\ ladder'[v].step = "handler"
                         /\ status_file'.stamp > ladder'[v].attempt_start
                         => status_file'.notes.by = "tool"
<1>3. SUFFICES ASSUME node.grain = 1 PROVE Good
  <2>1. ASSUME node.grain = 1, Good PROVE AssertedInv'
    <3>1. \A w \in Visits \ {v} : Asserted(ladder'[w].result) /\ ladder'[w].step # "handler"
      BY <1>1, <2>1 DEF AssertedInv, Alive
    <3>2. Asserted(record')
      BY <1>1, <2>1 DEF AssertedInv
    <3>. QED BY <2>1, <3>1, <3>2 DEF AssertedInv, Asserted
  <2>. QED BY <1>1, <2>1 DEF AssertedInv
<1>4. /\ ~status_file.whole /\ status_file.stamp > 0 => status_file.notes.by = "tool"
      /\ Asserted(ladder[v].result)
      /\ ladder[v].step = "handler" /\ status_file.stamp > ladder[v].attempt_start
           => status_file.notes.by = "tool"
      /\ status_file.stamp <= now /\ status_file.stamp \in Nat
  BY <1>2, <1>3 DEF AssertedInv, VerdictInv, StatusFileIsOfTheAttempt, StatusFile
<1>5. CASE HandlerReturns(v)
  <2>0. ladder[v].step = "handler"
    BY <1>5 DEF HandlerReturns
  <2>1. PICK status \in Returned, by \in {"verdict", "prose"} :
          LET own == [status |-> status, explicit |-> by = "verdict",
                      notes |-> [visit |-> v, attempt |-> ladder[v].attempt, by |-> by]]
              returned == IF node.mirrors THEN ReadStatusOverride(status_file, v, own)
                          ELSE own
              file == IF node.mirrors THEN StatusFileOf(returned) ELSE status_file
          IN  /\ status_file' = file
              /\ Settle(v, ReadStatusOverride(file, v, returned))
    BY <1>5 DEF HandlerReturns
  <2>. DEFINE own == [status |-> status, explicit |-> by = "verdict",
                      notes |-> [visit |-> v, attempt |-> ladder[v].attempt, by |-> by]]
              returned == IF node.mirrors THEN ReadStatusOverride(status_file, v, own)
                          ELSE own
              file == IF node.mirrors THEN StatusFileOf(returned) ELSE status_file
  <2>2. own \in Outcome /\ Asserted(own)
    <3>1. v \in Nat /\ ladder[v].attempt \in Nat /\ status \in Statuses
      BY <1>2, AttemptsAssumption DEF Visits, Ladder
    <3>2. by = "verdict" \/ by = "prose"
      OBVIOUS
    <3>3. own \in Outcome
      BY <3>1, <3>2 DEF Outcome, Notes
    <3>4. Asserted(own)
      BY <3>2 DEF Asserted
    <3>. QED BY <3>3, <3>4
  <2>3. returned \in Outcome
    BY <1>2, <2>2, FilesType
  <2>4. Asserted(returned)
    BY <1>2, <1>3, <1>4, <2>0, <2>2, ReadAsserts
  <2>. HIDE DEF own, returned
  <2>5. file \in StatusFile
    BY <1>2, <2>3, FilesType
  <2>6. \/ file = status_file
        \/ file.whole /\ file.status = returned.status /\ file.notes = returned.notes
    BY DEF StatusFileOf
  <2>7. Settle(v, ReadStatusOverride(file, v, returned)) /\ status_file' = file
    BY <2>1 DEF own, returned
  <2>. HIDE DEF file
  <2>8. Asserted(ReadStatusOverride(file, v, returned))
    BY <1>3, <1>4, <2>0, <2>4, <2>5, <2>6, ReadAsserts
  <2>9. Asserted(ladder'[v].result) /\ ladder'[v].step # "handler"
    BY <1>2, <1>4, <2>7, <2>8, SettleAsserts
  <2>. QED BY <1>4, <2>6, <2>7, <2>9
<1>6. CASE BackendRaises(v)
  <2>. DEFINE failed == [status |-> "fail", explicit |-> FALSE,
                         notes |-> [visit |-> v, attempt |-> ladder[v].attempt,
                                    by |-> "prose"]]
  <2>1. failed \in Outcome /\ Asserted(failed)
    BY <1>2, AttemptsAssumption DEF Outcome, Notes, Statuses, Asserted, Ladder, Visits
  <2>2. /\ status_file' = StatusFileOf(failed)
        /\ Settle(v, ReadStatusOverride(status_file', v, failed))
    BY <1>6 DEF BackendRaises
  <2>. HIDE DEF failed
  <2>3. /\ status_file' \in StatusFile
        /\ status_file'.whole /\ status_file'.status = failed.status
        /\ status_file'.notes = failed.notes
    BY <1>2, <2>1, <2>2, FilesType DEF StatusFileOf
  <2>4. Asserted(ReadStatusOverride(status_file', v, failed))
    BY <1>3, <2>1, <2>3, ReadAsserts
  <2>5. Asserted(ladder'[v].result) /\ ladder'[v].step # "handler"
    BY <1>2, <1>4, <2>2, <2>4, SettleAsserts
  <2>. QED BY <2>3, <2>5
<1>7. CASE HandlerRaises(v) \/ Unwind(v)
  <2>1. /\ status_file' = status_file
        /\ BackOff(v) \/ End(v, Ruling(v, "fail")) \/ End(v, NoOutcome)
    BY <1>7 DEF HandlerRaises, Unwind, files
  <2>2. Asserted(ladder'[v].result) /\ ladder'[v].step # "handler"
    BY <1>2, <1>4, <2>1, EndAsserts, BackOffAsserts, RulingsAssertNothing
  <2>. QED BY <1>4, <2>1, <2>2
<1>8. CASE NextAttempt(v)
  <2>1. status_file' = status_file /\ ladder'[v].attempt_start = now
        /\ ladder'[v].result = ladder[v].result
    BY <1>2, <1>8 DEF NextAttempt, files, Ladder
  <2>. QED BY <1>2, <1>4, <2>1
<1>9. CASE Swallow(v)
  <2>1. status_file' = status_file /\ ladder'[v].step = ladder[v].step
        /\ ladder'[v].attempt_start = ladder[v].attempt_start
        /\ ladder'[v].result = ladder[v].result
    BY <1>2, <1>9 DEF Swallow, files, Ladder
  <2>. QED BY <1>4, <2>1
<1>10. CASE BeginStatus(v)
  BY <1>4, <1>10 DEF BeginStatus
<1>11. CASE FinishStatus(v)
  <2>1. /\ ladder' = ladder /\ ~status_file.whole /\ status_file.stamp > 0
        /\ status_file'.notes = status_file.notes
    BY <1>2, <1>11 DEF FinishStatus, StatusFile
  <2>. QED BY <1>4, <2>1
<1>12. CASE WriteArtifact(v)
  BY <1>4, <1>12 DEF WriteArtifact
<1>. QED BY <1>5, <1>6, <1>7, <1>8, <1>9, <1>10, <1>11, <1>12 DEF Acts, TaskStep, Tool

LEMMA AssertedStep == IInv /\ VerdictInv /\ AssertedInv /\ [Next]_vars => AssertedInv'
<1>. SUFFICES ASSUME IInv, VerdictInv, AssertedInv, [Next]_vars PROVE AssertedInv'
  OBVIOUS
<1>1. /\ ladder \in [Visits -> Ladder] /\ now \in Nat /\ AttemptsTypeOK
      /\ status_file \in StatusFile /\ status_file.stamp \in Nat
      /\ node.grain = 1 => status_file.stamp <= now
  BY DEF IInv, AttemptsTypeOK, StatusFile, VerdictInv, StatusFileIsOfTheAttempt
<1>2. CASE Tick \/ Stopped \/ UNCHANGED vars
  <2>1. UNCHANGED <<node, ladder, status_file, record>>
    BY <1>2 DEF Tick, Stopped, vars, files
  <2>. QED BY <2>1 DEF AssertedInv, Asserted
<1>3. CASE StartVisit
  <2>1. UNCHANGED <<node, status_file, record>>
    BY <1>3 DEF StartVisit, frame, files
  <2>2. \A w \in Visits : \/ ladder'[w] = ladder[w]
                          \/ /\ ladder'[w].result = NoOutcome
                             /\ ladder'[w].attempt_start = now
    BY <1>1, <1>3 DEF StartVisit, NoLadder
  <2>3. node.grain = 1 => \A w \in Visits : Asserted(ladder'[w].result)
    BY <2>2, RulingsAssertNothing DEF AssertedInv
  <2>4. /\ \A w \in Visits : /\ ladder'[w].step = "handler"
                              /\ status_file.stamp > ladder'[w].attempt_start
                              /\ node.grain = 1
                              => status_file.notes.by = "tool"
    BY <1>1, <2>2 DEF AssertedInv
  <2>. QED BY <2>1, <2>3, <2>4 DEF AssertedInv, Asserted
<1>4. CASE Collect \/ TimeOut
  <2>1. visit \in Visits /\ \A w \in Visits : ladder[w].step # "handler"
    BY <1>4, NobodyAlive DEF Collect, TimeOut, IInv, Control, Alive
  <2>2. PICK o \in Outcome : Record(o) /\ (node.grain = 1 => Asserted(o))
    <3>1. CASE Collect
      <4>1. ladder[visit].result \in Outcome
        BY <1>1, <2>1 DEF Ladder
      <4>. QED BY <2>1, <3>1, <4>1 DEF Collect, AssertedInv
    <3>2. CASE TimeOut
      BY <1>1, <2>1, <3>2, RulingType, RulingsAssertNothing DEF TimeOut, Statuses
    <3>. QED BY <1>4, <3>1, <3>2
  <2>3. /\ UNCHANGED <<node, ladder>> /\ status_file'.whole
        /\ record' = Conclude(o)
    BY <2>2 DEF Record, StatusFileOf, frame
  <2>4. node.grain = 1 => Asserted(record')
    BY <2>2, <2>3, ConcludeAsserts
  <2>. QED BY <2>1, <2>3, <2>4 DEF AssertedInv, Asserted
<1>5. CASE DeadlineExpires \/ GraceExpires
  <2>1. \A w \in Visits : /\ ladder'[w].step = ladder[w].step
                          /\ ladder'[w].result = ladder[w].result
                          /\ ladder'[w].attempt_start = ladder[w].attempt_start
    BY <1>1, <1>5 DEF DeadlineExpires, GraceExpires, Ladder
  <2>2. UNCHANGED <<node, status_file, record>>
    BY <1>5 DEF DeadlineExpires, GraceExpires, frame, files
  <2>. QED BY <2>1, <2>2 DEF AssertedInv, Asserted
<1>6. CASE FuseExpires
  <2>1. /\ UNCHANGED <<node, ladder, record>> /\ status_file'.whole
        /\ \A w \in Visits : ladder[w].step # "handler"
    BY <1>6, NobodyAlive DEF FuseExpires, StatusFileOf, frame, Alive
  <2>. QED BY <2>1 DEF AssertedInv, Asserted
<1>7. ASSUME NEW v \in Visits, Acts(v) PROVE AssertedInv'
  BY <1>7, TaskAsserts
<1>. QED BY <1>2, <1>3, <1>4, <1>5, <1>6, <1>7 DEF Next, Engine, Acts

\* An outcome recorded as explicit was asserted by a handler or a tool: neither the
\* re-read of a status.json the engine or the handler wrote, nor a ruling, makes a
\* verdict of it (status_file.read_status_override).
THEOREM ExplicitIsAsserted == Spec => []ExplicitMeansAsserted
<1>1. Init => AssertedInv
  <2>. SUFFICES ASSUME Init PROVE AssertedInv
    OBVIOUS
  <2>1. /\ status_file.stamp = 0 /\ record = NoOutcome
        /\ \A v \in Visits : ladder[v].result = NoOutcome /\ ladder[v].step = "none"
    BY DEF Init, NoStatusFile, NoLadder
  <2>. QED BY <2>1, RulingsAssertNothing DEF AssertedInv
<1>2. Init => VerdictInv
  <2>. SUFFICES ASSUME Init PROVE VerdictInv
    OBVIOUS
  <2>1. now \in Nat
    BY InitIInv DEF IInv, AttemptsTypeOK
  <2>. QED BY <2>1 DEF Init, VerdictInv, DoomedIsUnheard, StatusFileIsOfTheAttempt,
                       VerdictIsThisAttempts, Recorded, NoStatusFile, NoLadder
<1>3. AssertedInv => ExplicitMeansAsserted
  BY DEF AssertedInv, ExplicitMeansAsserted, Asserted
<1>. QED BY <1>1, <1>2, <1>3, Inductive, VerdictStep, AssertedStep, PTL DEF Spec
=============================================================================

------------------------------ MODULE Verdicts ------------------------------
(***************************************************************************)
(* How the backend reads an outcome out of what a worker returns: the last *)
(* text of a model, the completion status of a spawned session, and the    *)
(* status.json the worker may have written.                                *)
(*                                                                         *)
(* A text is a record: where its first JSON object stands (form), what     *)
(* that object says under "status", what an object nested in it says, and  *)
(* whether more braces follow it.                                          *)
(***************************************************************************)
EXTENDS Naturals, Sequences

\* StageStatus and _STATUS_MAP: every status is recognised.
Statuses == {"success", "partial_success", "retry", "fail", "skipped"}

Texts ==
    [form : {"empty", "prose", "json", "fenced", "embedded"},
     status : Statuses \cup {"absent", "unknown"},
     inner : Statuses \cup {"none", "absent"},
     tail : BOOLEAN]

\* noted: the handler's outcome carries notes of its own.
Outcome(status, explicit, noted) ==
    [status |-> status, explicit |-> explicit, noted |-> noted]

Outcomes == [status : Statuses, explicit : BOOLEAN, noted : BOOLEAN]

\* Outcome.is_success
IsSuccess(o) == o.status \in {"success", "partial_success"}

----------------------------------------------------------------------------
(* _parse_outcome *)

\* The text, its fence taken off, is one JSON object and nothing else.
Whole(text) == text.form \in {"json", "fenced"} /\ ~text.tail

\* What the object at the last opening brace says.
LastObject(text) ==
    IF text.form \in {"empty", "prose"} \/ text.tail THEN "absent"
    ELSE IF text.inner # "none" THEN text.inner ELSE text.status

\* Wrong: a goal gate is satisfied by plain text.
ParseAnySuccess(text, gate) ==
    IF Whole(text) /\ text.status \in Statuses THEN Outcome(text.status, TRUE, FALSE)
    ELSE Outcome("success", TRUE, TRUE)

ParseOutcome(text, gate) ==
    LET said == IF Whole(text) /\ text.status \in Statuses THEN text.status
                ELSE LastObject(text)
    IN  CASE text.form = "empty" -> Outcome("fail", FALSE, TRUE)
          [] text.form # "empty" /\ said \in Statuses -> Outcome(said, TRUE, FALSE)
          [] text.form # "empty" /\ said \notin Statuses /\ gate ->
                Outcome("retry", FALSE, TRUE)
          [] OTHER -> Outcome("success", FALSE, TRUE)

\* What the text states: the status of its own object, recognised or not.
Stated(text) ==
    IF text.form \in {"empty", "prose"} THEN "absent" ELSE text.status

\* Every status some object of the text has.
Said(text) ==
    IF text.form \in {"empty", "prose"} THEN {} ELSE {text.status, text.inner} \cap Statuses

----------------------------------------------------------------------------
(* What a spawned session and the direct worker return *)

\* _outcome_from_spawn_result: no text, but a completion that went well.
Completed(status) == status \in {"success", "partial_success"}

SpawnOutcome(result, gate) ==
    CASE result.text.form # "empty" -> ParseOutcome(result.text, gate)
      [] result.text.form = "empty" /\ Completed(result.completion) ->
            Outcome(result.completion, FALSE, TRUE)
      [] OTHER -> Outcome("fail", FALSE, TRUE)

\* _tool_loop_result: no text at all is the success of an ordinary node.
ToolLoopResult(text, gate) ==
    CASE text.form # "empty" -> ParseOutcome(text, gate)
      [] text.form = "empty" /\ gate -> Outcome("fail", FALSE, TRUE)
      [] OTHER -> Outcome("success", FALSE, TRUE)

----------------------------------------------------------------------------
(* read_status_override: the file of this execution wins where it differs *)

Files == Statuses \cup {"none", "malformed"}

Matches(file, outcome) == file = outcome.status /\ ~outcome.noted

ReadStatusOverride(file, outcome) ==
    IF file = "none" \/ Matches(file, outcome) THEN outcome
    ELSE IF file = "malformed" THEN Outcome("fail", TRUE, TRUE)
    ELSE Outcome(file, TRUE, FALSE)
=============================================================================

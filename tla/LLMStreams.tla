---------------------------- MODULE LLMStreams ----------------------------
(***************************************************************************)
(* unified_llm between a provider's wire and a Response: what each of the  *)
(* four adapters makes of a request, of a stream and of an error           *)
(* (adapters/*.py), what validate_stream lets through                      *)
(* (stream_validation.py), what StreamAccumulator builds (types.py), and   *)
(* what complete() returns for the same answer.                            *)
(*                                                                         *)
(* An answer is [blocks, ending, bare]: blocks of kind "text", "thinking"  *)
(* or "call", each with an id (0 unless it is a call) and the number of    *)
(* deltas it is streamed in; the ending the provider reports; and, for     *)
(* Gemini, whether the last chunk comes without parts.  No adapter gives a *)
(* text event a text_id, so validate_stream's comparisons of text ids, and *)
(* the start it inserts in "normalize" mode, never come into play.         *)
(***************************************************************************)
EXTENDS Naturals, Sequences, FiniteSets, SequencesExt

Providers == {"anthropic", "openai", "gemini", "compat"}

----------------------------------------------------------------------------
(* What the provider reports, in the unified words. *)

IsCall(b) == b.kind = "call"

\* What a block adds to the text and to the calls of an answer.
AddText(n, b) == IF b.kind = "text" THEN n + b.deltas ELSE n
AddCall(ids, b) == IF IsCall(b) THEN Append(ids, b.id) ELSE ids

CallIds(a) == FoldLeft(AddCall, <<>>, a.blocks)
HasCalls(a) == CallIds(a) # <<>>

\* _map_finish_reason of each adapter, for the endings "end", "tokens" (the token
\* limit), "tools" and "filter".
AnthropicReason(ending) ==
  CASE ending = "end" -> "stop" [] ending = "tokens" -> "length"
    [] ending = "tools" -> "tool_calls" [] OTHER -> "other"

\* OpenAI and Gemini report "tool_calls" for every answer that has a call.
OpenAIReason(ending, hasCalls) ==
  IF hasCalls THEN "tool_calls" ELSE IF ending = "tokens" THEN "length" ELSE "stop"

GeminiReason(ending) ==
  CASE ending = "end" -> "stop" [] ending = "tokens" -> "length"
    [] ending = "filter" -> "content_filter" [] OTHER -> "other"

CompatReason(ending) ==
  CASE ending = "filter" -> "content_filter" [] OTHER -> AnthropicReason(ending)

\* _translate_response of each adapter: what complete() returns.
Given(a, thinking, reason) ==
  [text |-> FoldLeft(AddText, 0, a.blocks), thinking |-> thinking, calls |-> CallIds(a),
   reason |-> reason]

AnthropicResponse(a) ==
  Given(a, \E i \in DOMAIN a.blocks : a.blocks[i].kind = "thinking", AnthropicReason(a.ending))
OpenAIResponse(a) == Given(a, FALSE, OpenAIReason(a.ending, HasCalls(a)))
GeminiResponse(a) ==
  Given(a, FALSE, IF HasCalls(a) THEN "tool_calls" ELSE GeminiReason(a.ending))
CompatResponse(a) == Given(a, FALSE, CompatReason(a.ending))

Response(p, a) ==
  CASE p = "anthropic" -> AnthropicResponse(a) [] p = "openai" -> OpenAIResponse(a)
    [] p = "gemini" -> GeminiResponse(a) [] p = "compat" -> CompatResponse(a)

----------------------------------------------------------------------------
(* The wire: the events or chunks the SDKs deliver for an answer. *)

Wire(w, kind, id) == [w |-> w, kind |-> kind, id |-> id]
Repeated(x, n) == [i \in 1..n |-> x]

\* The events of one block.
BlockWire(p, b) ==
  CASE p = "anthropic" -> <<Wire("start", b.kind, b.id)>>
                          \o Repeated(Wire("delta", b.kind, b.id), b.deltas)
                          \o <<Wire("stop", b.kind, b.id)>>
    [] p = "openai" /\ b.kind # "thinking" ->
         Repeated(Wire("delta", b.kind, b.id), b.deltas)
         \o <<Wire("done", b.kind, b.id), Wire("item", b.kind, b.id)>>
    [] p = "compat" /\ b.kind = "call" ->
         <<Wire("delta", "name", b.id)>> \o Repeated(Wire("delta", "call", b.id), b.deltas)
    [] p = "gemini" /\ b.kind = "call" -> <<Wire("delta", "call", b.id)>>
    [] p \in {"compat", "gemini"} /\ b.kind = "text" ->
         Repeated(Wire("delta", "text", b.id), b.deltas)
    [] OTHER -> <<>>

\* What ends the stream.  The last chunk of Chat Completions is the usage that
\* stream_options asks for; Gemini's finish reason comes with the last chunk.
EndWire(p, a) ==
  CASE p = "anthropic" -> <<Wire("message_delta", a.ending, 0), Wire("message_stop", "none", 0)>>
    [] p = "openai" -> IF a.ending = "tokens" THEN <<Wire("incomplete", "none", 0)>>
                       ELSE <<Wire("completed", a.ending, Len(CallIds(a)))>>
    [] p = "compat" -> <<Wire("finish", a.ending, 0), Wire("usage", "none", 0)>>
    [] OTHER -> <<Wire(IF a.bare THEN "bare" ELSE "finish", a.ending, 0), Wire("eof", "none", 0)>>

WireOf(p, a) ==
  (IF p \in {"gemini"} THEN <<>> ELSE <<Wire("created", "none", 0)>>)
  \o FlattenSeq([i \in DOMAIN a.blocks |-> BlockWire(p, a.blocks[i])])
  \o EndWire(p, a)

----------------------------------------------------------------------------
(* The adapters: from a wire event to the unified events it is turned into. *)

Event(type, id, reason) == [type |-> type, id |-> id, reason |-> reason]
Plain(type) == Event(type, 0, "none")
Keep(st) == [st |-> st, out |-> <<>>]
Give(st, out) == [st |-> st, out |-> out]

\* text: text_started; call, open: the tool call under way, or the calls
\* Chat Completions has started; seen: a call was streamed; reason: the last one.
AdapterInit == [text |-> FALSE, call |-> 0, open |-> <<>>, seen |-> FALSE, reason |-> "other"]

AnthropicEvent(st, w) ==
  CASE w.w = "created" -> Give(st, <<Plain("STREAM_START")>>)
    [] w.w = "start" /\ w.kind = "text" -> Give(st, <<Plain("TEXT_START")>>)
    [] w.w = "start" /\ w.kind = "call" ->
         Give([st EXCEPT !.call = w.id], <<Event("TOOL_CALL_START", w.id, "none")>>)
    [] w.w = "start" /\ w.kind = "thinking" -> Give(st, <<Plain("REASONING_START")>>)
    [] w.w = "delta" /\ w.kind = "text" -> Give(st, <<Plain("TEXT_DELTA")>>)
    [] w.w = "delta" /\ w.kind = "call" -> Give(st, <<Plain("TOOL_CALL_DELTA")>>)
    [] w.w = "delta" /\ w.kind = "thinking" -> Give(st, <<Plain("REASONING_DELTA")>>)
    [] w.w = "stop" /\ w.kind = "text" -> Give(st, <<Plain("TEXT_END")>>)
    [] w.w = "stop" /\ w.kind = "call" -> Give(st, <<Event("TOOL_CALL_END", st.call, "none")>>)
    [] w.w = "stop" /\ w.kind = "thinking" -> Give(st, <<Plain("REASONING_END")>>)
    [] w.w = "message_delta" -> Keep([st EXCEPT !.reason = AnthropicReason(w.kind)])
    [] w.w = "message_stop" -> Give(st, <<Event("FINISH", 0, st.reason)>>)

\* The item of a call whose arguments were streamed comes when tool_call_started
\* is already reset, and is given out a second time.
OpenAIEvent(st, w) ==
  CASE w.w = "created" -> Give(st, <<Plain("STREAM_START")>>)
    [] w.w = "delta" /\ w.kind = "text" ->
         Give([st EXCEPT !.text = TRUE],
              (IF st.text THEN <<>> ELSE <<Plain("TEXT_START")>>) \o <<Plain("TEXT_DELTA")>>)
    [] w.w = "done" /\ w.kind = "text" ->
         IF st.text THEN Give([st EXCEPT !.text = FALSE], <<Plain("TEXT_END")>>) ELSE Keep(st)
    [] w.w = "delta" /\ w.kind = "call" ->
         Give([st EXCEPT !.call = IF st.seen THEN @ ELSE w.id, !.seen = TRUE],
              (IF st.seen THEN <<>> ELSE <<Event("TOOL_CALL_START", w.id, "none")>>)
                \o <<Plain("TOOL_CALL_DELTA")>>)
    [] w.w = "done" /\ w.kind = "call" ->
         Give([st EXCEPT !.seen = FALSE], <<Event("TOOL_CALL_END", st.call, "none")>>)
    [] w.w = "item" /\ w.kind = "call" /\ ~st.seen ->
         Give(st, <<Event("TOOL_CALL_START", w.id, "none"), Event("TOOL_CALL_END", w.id, "none")>>)
    [] w.w = "completed" -> Give(st, <<Event("FINISH", 0, OpenAIReason(w.kind, w.id > 0))>>)
    [] OTHER -> Keep(st)

\* What closes the text and the calls that are open.
Closing(st) ==
  (IF st.text THEN <<Plain("TEXT_END")>> ELSE <<>>)
  \o [i \in DOMAIN st.open |-> Event("TOOL_CALL_END", st.open[i], "none")]

\* A second FINISH follows with the usage; it knows "stop" and "tool_calls" only.
CompatEvent(st, w) ==
  CASE w.w = "created" -> Give(st, <<Plain("STREAM_START")>>)
    [] w.w = "delta" /\ w.kind = "text" ->
         Give([st EXCEPT !.text = TRUE],
              (IF st.text THEN <<>> ELSE <<Plain("TEXT_START")>>) \o <<Plain("TEXT_DELTA")>>)
    [] w.w = "delta" /\ w.kind = "name" ->
         Give([st EXCEPT !.open = Append(@, w.id), !.seen = TRUE],
              <<Event("TOOL_CALL_START", w.id, "none")>>)
    [] w.w = "delta" /\ w.kind = "call" -> Give(st, <<Plain("TOOL_CALL_DELTA")>>)
    [] w.w = "finish" ->
         Give([st EXCEPT !.text = FALSE, !.open = <<>>],
              Closing(st) \o <<Event("FINISH", 0, CompatReason(w.kind))>>)
    [] w.w = "usage" ->
         Give([st EXCEPT !.text = FALSE, !.open = <<>>],
              Closing(st) \o <<Event("FINISH", 0, IF st.seen THEN "tool_calls" ELSE "stop")>>)

\* A chunk without parts is passed over with its finish reason.
GeminiEvent(st, w) ==
  CASE w.w = "delta" /\ w.kind = "text" ->
         Give([st EXCEPT !.text = TRUE],
              (IF st.text THEN <<>> ELSE <<Plain("TEXT_START")>>) \o <<Plain("TEXT_DELTA")>>)
    [] w.w = "delta" /\ w.kind = "call" ->
         Give([st EXCEPT !.seen = TRUE],
              <<Event("TOOL_CALL_START", w.id, "none"), Event("TOOL_CALL_END", w.id, "none")>>)
    [] w.w = "finish" -> Keep([st EXCEPT !.reason = GeminiReason(w.kind)])
    [] w.w = "eof" ->
         Give(st, (IF st.text THEN <<Plain("TEXT_END")>> ELSE <<>>)
                  \o <<Event("FINISH", 0, IF st.seen THEN "tool_calls" ELSE st.reason)>>)
    [] OTHER -> Keep(st)

Adapt(p, st, w) ==
  CASE p = "anthropic" -> AnthropicEvent(st, w)
    [] p = "openai" -> OpenAIEvent(st, w)
    [] p = "compat" -> CompatEvent(st, w)
    [] OTHER -> GeminiEvent(st, w)

----------------------------------------------------------------------------
(* validate_stream: a violation is logged in "warn" mode and raised in the  *)
(* two others.                                                              *)

ValidatorInit == [text |-> FALSE, tool |-> FALSE, id |-> 0, finish |-> FALSE]

\* Wrong: the delta of a tool call is let through unseen.
ViolatesNoDelta(v, e) ==
  CASE e.type = "TEXT_START" -> v.text
    [] e.type \in {"TEXT_DELTA", "TEXT_END"} -> ~v.text
    [] e.type = "TOOL_CALL_START" -> v.tool
    [] e.type = "TOOL_CALL_END" -> ~v.tool \/ e.id # v.id
    [] e.type = "FINISH" -> v.text \/ v.tool
    [] OTHER -> FALSE

\* Wrong: a tool call may start while another is open.
ViolatesNoStart(v, e) == e.type # "TOOL_CALL_START" /\ ViolatesNoDelta(v, e)

Violates(v, e) ==
  CASE e.type = "TEXT_START" -> v.text
    [] e.type \in {"TEXT_DELTA", "TEXT_END"} -> ~v.text
    [] e.type = "TOOL_CALL_START" -> v.tool
    [] e.type = "TOOL_CALL_DELTA" -> ~v.tool \/ e.id = 0 \/ e.id # v.id
    [] e.type = "TOOL_CALL_END" -> ~v.tool \/ e.id # v.id
    [] e.type = "FINISH" -> v.text \/ v.tool
    [] OTHER -> FALSE

\* The flags after an event, violation or not.
Validated(v, e) ==
  CASE e.type = "TEXT_START" -> [v EXCEPT !.text = TRUE]
    [] e.type = "TEXT_END" -> [v EXCEPT !.text = FALSE]
    [] e.type = "TOOL_CALL_START" -> [v EXCEPT !.tool = TRUE, !.id = e.id]
    [] e.type = "TOOL_CALL_END" -> IF v.id # 0 /\ e.id # v.id THEN v
                                   ELSE [v EXCEPT !.tool = FALSE, !.id = 0]
    [] e.type = "FINISH" -> [v EXCEPT !.finish = TRUE]
    [] OTHER -> v

\* StreamAccumulator.process.
AccumulatorInit == [text |-> 0, thinking |-> FALSE, calls |-> <<>>, reason |-> "other"]

Accumulated(acc, e) ==
  CASE e.type = "TEXT_DELTA" -> [acc EXCEPT !.text = @ + 1]
    [] e.type = "REASONING_DELTA" -> [acc EXCEPT !.thinking = TRUE]
    [] e.type = "TOOL_CALL_END" -> [acc EXCEPT !.calls = Append(@, e.id)]
    [] e.type = "FINISH" -> [acc EXCEPT !.reason = e.reason]
    [] OTHER -> acc

\* An event, through the validator to the accumulator: x holds v, acc, the events
\* that came through and whether one was refused.
Through(mode, x, e) ==
  IF Violates(x.v, e) /\ mode # "warn" THEN [x EXCEPT !.refused = TRUE]
  ELSE [v |-> Validated(x.v, e), acc |-> Accumulated(x.acc, e),
        given |-> Append(x.given, e), refused |-> FALSE]

----------------------------------------------------------------------------
(* Requests: what an adapter sends for a conversation, or its refusal.  A   *)
(* message is [role, calls, thinking]: the ids of the calls an assistant    *)
(* makes, or the one a tool message answers.                                *)

\* The assistant's thinking goes back to Anthropic only: OpenAI and Gemini refuse
\* it, Chat Completions drops it beside calls and refuses it alone.
OpenAITakes(m) == ~m.thinking
GeminiTakes(m) == ~m.thinking
CompatTakes(m) == m.thinking => m.calls # <<>>

Translates(p, conv) ==
  \A i \in DOMAIN conv :
    CASE p = "openai" -> OpenAITakes(conv[i]) [] p = "gemini" -> GeminiTakes(conv[i])
      [] p = "compat" -> CompatTakes(conv[i]) [] OTHER -> TRUE

Turn(role, m) == [role |-> role, calls |-> m.calls]

\* _merge_consecutive_roles: results are the user's, and the messages of one role in
\* a row become one.
MergeInto(turns, m) ==
  LET role == IF m.role = "tool" THEN "user" ELSE m.role
  IN IF turns # <<>> /\ Last(turns).role = role
     THEN [turns EXCEPT ![Len(turns)].calls = @ \o m.calls]
     ELSE Append(turns, Turn(role, m))

\* _translate_request of each adapter, as far as calls and their results go.
AnthropicTurns(conv) == FoldLeft(MergeInto, <<>>, conv)
OpenAITurns(conv) == [i \in DOMAIN conv |-> Turn(conv[i].role, conv[i])]
GeminiTurns(conv) ==
  [i \in DOMAIN conv |-> Turn(IF conv[i].role = "tool" THEN "user" ELSE conv[i].role, conv[i])]

\* A tool message carries its first result only.
CompatTurns(conv) ==
  [i \in DOMAIN conv |->
     IF conv[i].role = "tool" THEN [role |-> "tool", calls |-> <<Head(conv[i].calls)>>]
     ELSE Turn(conv[i].role, conv[i])]

Turns(p, conv) ==
  CASE p = "anthropic" -> AnthropicTurns(conv) [] p = "openai" -> OpenAITurns(conv)
    [] p = "gemini" -> GeminiTurns(conv) [] p = "compat" -> CompatTurns(conv)

----------------------------------------------------------------------------
(* Errors: what an SDK raises, in the unified hierarchy.  A failure is      *)
(* [how, status, says]: how is "timeout", "connection", "status", or        *)
(* "config" for a request the adapter itself refuses; says, what the body   *)
(* of a status error speaks of.                                             *)

StatusError(status) ==
  CASE status = 400 \/ status = 422 -> "InvalidRequest"
    [] status = 401 -> "Authentication"
    [] status = 403 -> "AccessDenied"
    [] status = 404 -> "NotFound"
    [] status = 413 -> "ContextLength"
    [] status = 429 -> "RateLimit"
    [] status \in {500, 502, 503, 504} -> "Server"
    [] OTHER -> "Unknown"

SaidError(says) ==
  CASE says = "quota" -> "QuotaExceeded"
    [] says = "context" -> "ContextLength"
    [] says = "safety" -> "ContentFilter"
    [] OTHER -> "None"

ErrorFromStatus(status, says) ==
  IF status = 408 THEN "RequestTimeout"
  ELSE IF says = "model_not_found" THEN "NotFound"
  ELSE IF StatusError(status) \in {"InvalidRequest", "Unknown"} /\ SaidError(says) # "None"
       THEN SaidError(says) ELSE StatusError(status)

\* _translate_error of each adapter.
AnthropicError(f) ==
  CASE f.how = "timeout" -> "RequestTimeout"
    [] f.how = "connection" -> "Network"
    [] OTHER -> ErrorFromStatus(f.status, f.says)

\* Their SDK is the same; the codes of the Responses API lie flat in the body, those
\* of Chat Completions under "error".
OpenAIError(f) == AnthropicError(f)
CompatError(f) == AnthropicError(f)

\* Gemini names its errors after gRPC first, which leaves the body unread, and has no
\* word for a connection that is lost or times out.
GeminiError(f) ==
  CASE f.how # "status" -> "Unknown"
    [] f.how = "status" /\ f.status = 504 -> "RequestTimeout"
    [] f.how = "status" /\ f.status \in {400, 401, 403, 404, 429, 500, 503} ->
         StatusError(f.status)
    [] OTHER -> ErrorFromStatus(f.status, f.says)

TranslateError(p, f) ==
  CASE p = "anthropic" -> AnthropicError(f) [] p = "openai" -> OpenAIError(f)
    [] p = "gemini" -> GeminiError(f) [] p = "compat" -> CompatError(f)

\* What a request that cannot be translated raises: Gemini's complete() translates
\* inside its try block and passes its own ConfigurationError to _translate_error,
\* whose fallback is a retryable ProviderError.
UntranslatedError(p, api) == IF p = "gemini" /\ api = "complete" THEN "Unknown" ELSE "Configuration"

\* retry_after: kept by the errors of a status, which Gemini does not read.
KeepsRetryAfter(p, f) == f.long /\ f.how = "status" /\ f.status # 408 /\ p # "gemini"

Retryable(class) == class \in {"RateLimit", "Server", "Unknown", "RequestTimeout", "Network", "Stream"}

=============================================================================

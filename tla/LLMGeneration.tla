--------------------------- MODULE LLMGeneration ---------------------------
(***************************************************************************)
(* generate(), stream(), generate_object() and stream_object() of          *)
(* unified_llm (generate.py, retry.py, client.py): rounds of a provider    *)
(* call and of the tools it asks for, each call retried, under an abort    *)
(* signal and timeouts, over the adapters of LLMStreams.                   *)
(*                                                                         *)
(* Time is a choice: a deadline may pass at any point the code waits.  The *)
(* events a wire event is turned into are taken one at a time: the caller  *)
(* may await anything between two of them.                                 *)
(***************************************************************************)
EXTENDS LLMStreams

CONSTANTS Registered,   \* the providers the client has an adapter for
          Setups,       \* the parameters a call may be given
          AnswerShapes, \* the answers a provider may give: [blocks, ending, bare]
          Failures,     \* the failures a provider may answer with
          MaxCalls,     \* bounds the ids of the calls of an answer
          MaxRounds,    \* bounds max_tool_rounds of the setups
          MaxRetries    \* bounds max_retries

\* A setup: api "complete" (generate) or "stream"; the provider; "active" tools,
\* whose execute is set, or "passive" ones; the stream_validation_mode; whether an
\* AbortSignal is given and timeouts are; whether a schema is, and whether the
\* client's middleware is the hook bridge.
ASSUME BoundsAssumption == MaxRounds \in Nat /\ MaxRetries \in Nat /\ MaxCalls \in Nat
ASSUME RegisteredAssumption == Registered \subseteq Providers
ASSUME SetupsAssumption ==
  \A s \in Setups :
    /\ s.api \in {"complete", "stream"}
    /\ s.tools \in {"active", "passive"} /\ s.mode \in {"strict", "warn", "normalize"}
    /\ s.rounds \in 0..MaxRounds /\ s.retries \in 0..MaxRetries
    /\ {s.signal, s.timeouts, s.schema, s.hooks} \subseteq BOOLEAN
    /\ s.schema => s.rounds = 0

\* A call has an id, which no other call of the answer has; a block of thinking is
\* streamed in one delta at least.
Blocks == [kind : {"text", "thinking", "call"}, id : 0..MaxCalls, deltas : Nat]
ASSUME AnswerShapesAssumption ==
  \A a \in AnswerShapes :
    /\ a = [blocks |-> a.blocks, ending |-> a.ending, bare |-> a.bare]
    /\ a.blocks \in Seq(Blocks)
    /\ \A i \in DOMAIN a.blocks :
         /\ IsCall(a.blocks[i]) <=> a.blocks[i].id # 0
         /\ a.blocks[i].kind = "thinking" => a.blocks[i].deltas > 0
         /\ \A j \in DOMAIN a.blocks :
              IsCall(a.blocks[i]) /\ a.blocks[j].id = a.blocks[i].id => i = j

VARIABLES setup,    \* the parameters
          pc,       \* "round", "call", "sleep", "stream", "tools", "done", "raised"
          round,    \* round_num
          attempt,  \* of the call of this round, from 0
          conv,     \* the conversation the next request is made of
          answer,   \* what the provider answers in this round
          wire,     \* what is left of it on the wire
          ad, due,  \* the adapter's state, and the events it has still to yield
          x,        \* the validator, the accumulator and the events given
          result,   \* the Response of the step
          aborted,  \* the signal is set
          since,    \* the round in which it was
          late,     \* the total deadline of a stream has passed
          error,    \* the class of what was raised, "None" before
          object,   \* of a structured output: "none", "valid", "invalid" or "refused"
          sent,     \* the requests sent: the conversation and how each was answered
          ran       \* the ids of the tool calls executed, in order

vars == <<setup, pc, round, attempt, conv, answer, wire, ad, due, x, result, aborted, since,
          late, error, object, sent, ran>>
step == <<answer, wire, ad, due, x, result>>
told == <<aborted, since, late, object>>

----------------------------------------------------------------------------
(* Answers and requests *)

\* The shapes a provider can give over its API.
Speaks(p, a) ==
  /\ \A i \in DOMAIN a.blocks :
       /\ a.blocks[i].kind = "thinking" => p = "anthropic"
       /\ p = "openai" /\ a.blocks[i].kind = "call" => a.blocks[i].deltas > 0
       /\ p = "gemini" /\ a.blocks[i].kind = "call" => a.blocks[i].deltas = 0
  /\ a.bare => p = "gemini"
  /\ a.ending = "tools" => CallIds(a) # <<>>
  /\ CallIds(a) # <<>> /\ p \in {"anthropic", "compat"} => a.ending \in {"tools", "tokens"}

\* The ids of a round's calls are new ones.
Renumbered(b, n) == [b EXCEPT !.id = IF @ = 0 THEN 0 ELSE n + @]
Numbered(a, n) == [a EXCEPT !.blocks = [i \in DOMAIN @ |-> Renumbered(@[i], n)]]
FirstId(n) == n * (MaxCalls + 1)
Answers == {Numbered(a, FirstId(round)) : a \in {b \in AnswerShapes : Speaks(setup.provider, b)}}

Message(role, calls, thinking) == [role |-> role, calls |-> calls, thinking |-> thinking]
NoAnswer == [blocks |-> <<>>, ending |-> "end", bare |-> FALSE]
StreamInit == [v |-> ValidatorInit, acc |-> AccumulatorInit, given |-> <<>>, refused |-> FALSE]
NoResult == AccumulatorInit
HasActiveTools == setup.tools = "active"

Raise(class) == pc' = "raised" /\ error' = class
Sent(how) == sent' = Append(sent, [conv |-> conv, round |-> round, how |-> how])

Init ==
  /\ setup \in Setups
  /\ conv \in {<<Message("user", <<>>, FALSE)>>,
               <<Message("user", <<>>, FALSE), Message("assistant", <<>>, TRUE),
                 Message("user", <<>>, FALSE)>>}
  /\ pc = "round" /\ round = 0 /\ attempt = 0
  /\ answer = NoAnswer /\ wire = <<>> /\ ad = AdapterInit /\ due = <<>> /\ x = StreamInit
  /\ result = NoResult
  /\ aborted = FALSE /\ since = 0 /\ late = FALSE /\ error = "None" /\ object = "none"
  /\ sent = <<>> /\ ran = <<>>

----------------------------------------------------------------------------
(* A round *)

\* The abort signal is looked at between rounds.
BeginRound ==
  /\ pc = "round"
  /\ attempt' = 0
  /\ IF setup.signal /\ aborted THEN Raise("Abort") ELSE pc' = "call" /\ UNCHANGED error
  /\ UNCHANGED <<setup, round, conv, step, told, sent, ran>>

\* Wrong: one attempt more than max_retries allows.
FailedOnceMore(class, waitTooLong) ==
  IF ~Retryable(class) \/ attempt > setup.retries \/ waitTooLong
  THEN Raise(class) /\ UNCHANGED attempt
  ELSE pc' = "sleep" /\ attempt' = attempt + 1 /\ UNCHANGED error

\* retry: what cannot be retried, the last attempt and a Retry-After beyond
\* max_delay are raised, the rest sleeps and tries again.
Failed(class, waitTooLong) ==
  IF ~Retryable(class) \/ attempt >= setup.retries \/ waitTooLong
  THEN Raise(class) /\ UNCHANGED attempt
  ELSE pc' = "sleep" /\ attempt' = attempt + 1 /\ UNCHANGED error

\* _resolve_adapter, and the translation of the conversation, before anything is sent.
Routed == setup.provider \in Registered
Sendable == Routed /\ Translates(setup.provider, conv)

CallRefused ==
  /\ pc = "call" /\ ~Sendable
  /\ Failed(IF Routed THEN UntranslatedError(setup.provider, setup.api) ELSE "Configuration", FALSE)
  /\ UNCHANGED <<setup, round, conv, step, told, sent, ran>>

\* The hook bridge lets a hook deny a request; its coroutine is no async iterator, so
\* that a stream through it raises a TypeError.
CallDenied ==
  /\ pc = "call" /\ setup.hooks
  /\ Raise(IF setup.api = "complete" THEN "Abort" ELSE "TypeError")
  /\ UNCHANGED <<setup, round, attempt, conv, step, told, sent, ran>>

CallFails(f) ==
  /\ pc = "call" /\ Sendable
  /\ Failed(TranslateError(setup.provider, f), KeepsRetryAfter(setup.provider, f))
  /\ Sent(f)
  /\ UNCHANGED <<setup, round, conv, step, told, ran>>

SleepOver ==
  /\ pc = "sleep" /\ pc' = "call"
  /\ UNCHANGED <<setup, round, attempt, conv, step, told, error, sent, ran>>

\* Client.complete returns; active tools are executed before the step is judged.
CallAnswers(a) ==
  /\ setup.api = "complete"
  /\ answer' = a /\ result' = Response(setup.provider, a)
  /\ pc' = IF result'.calls # <<>> /\ result'.reason = "tool_calls" /\ HasActiveTools
           THEN "tools" ELSE "done"
  /\ Sent([how |-> "answered"])
  /\ UNCHANGED <<setup, round, attempt, conv, wire, ad, due, x, told, error, ran>>

----------------------------------------------------------------------------
(* A streamed step *)

StreamConnects(a) ==
  /\ setup.api = "stream" /\ ~setup.hooks
  /\ answer' = a /\ wire' = WireOf(setup.provider, a)
  /\ ad' = AdapterInit /\ due' = <<>> /\ x' = StreamInit
  /\ pc' = "stream"
  /\ Sent([how |-> "answered"])
  /\ UNCHANGED <<setup, round, attempt, conv, result, told, error, ran>>

\* Abort and deadline are looked at when an event arrives, the abort not at the
\* first one of a step.
Interrupted ==
  IF setup.signal /\ aborted /\ (x.given # <<>> \/ setup.timeouts) THEN "Abort"
  ELSE IF setup.timeouts /\ late THEN "RequestTimeout" ELSE "None"

\* Before the first event of the step a failure is retried, afterwards raised.
StreamFailed(class) ==
  IF x.given = <<>> THEN Failed(class, FALSE) ELSE Raise(class) /\ UNCHANGED attempt

\* The adapter reads the wire and yields what it makes of it.
WireEvent ==
  /\ pc = "stream" /\ due = <<>> /\ wire # <<>>
  /\ LET to == Adapt(setup.provider, ad, Head(wire))
     IN wire' = Tail(wire) /\ ad' = to.st /\ due' = to.out
  /\ UNCHANGED <<setup, pc, round, attempt, conv, answer, x, result, told, error, sent, ran>>

\* One event comes through validator and accumulator to the caller.
EventArrives ==
  /\ pc = "stream" /\ due # <<>>
  /\ IF Interrupted # "None" THEN Raise(Interrupted) /\ UNCHANGED <<attempt, due, x>>
     ELSE /\ due' = Tail(due) /\ x' = Through(setup.mode, x, Head(due))
          /\ IF x'.refused THEN StreamFailed("Stream") ELSE UNCHANGED <<pc, error, attempt>>
  /\ UNCHANGED <<setup, round, conv, answer, wire, ad, result, told, sent, ran>>

StreamBreaks(f) ==
  /\ pc = "stream" /\ due = <<>> /\ wire # <<>>
  /\ StreamFailed(TranslateError(setup.provider, f))
  /\ UNCHANGED <<setup, round, conv, step, told, sent, ran>>

\* Wrong: a stream that broke off is waited for.
StreamEndsOnFinish ==
  /\ pc = "stream" /\ wire = <<>> /\ due = <<>> /\ x.v.finish
  /\ result' = x.acc
  /\ pc' = IF /\ x.acc.calls # <<>> /\ x.acc.reason = "tool_calls"
              /\ HasActiveTools /\ round < setup.rounds
           THEN "tools" ELSE "done"
  /\ UNCHANGED <<setup, round, attempt, conv, answer, wire, ad, due, x, told, error, sent, ran>>

\* The stream ends: the validator asks for a FINISH, the accumulated step for tools.
StreamEnds ==
  /\ pc = "stream" /\ wire = <<>> /\ due = <<>>
  /\ result' = x.acc
  /\ IF ~x.v.finish /\ setup.mode # "warn" THEN StreamFailed("Stream")
     ELSE /\ pc' = IF /\ x.acc.calls # <<>> /\ x.acc.reason = "tool_calls"
                      /\ HasActiveTools /\ round < setup.rounds
                   THEN "tools" ELSE "done"
          /\ UNCHANGED <<error, attempt>>
  /\ UNCHANGED <<setup, round, conv, answer, wire, ad, due, x, told, sent, ran>>

----------------------------------------------------------------------------
(* Tools and the next round *)

\* Wrong: the last call, which failed, leaves no result.
ContinuedWithoutLast ==
  <<Message("assistant", result.calls, result.thinking)>>
  \o [i \in 1..(Len(result.calls) - 1) |-> Message("tool", <<result.calls[i]>>, FALSE)]

Continued ==
  <<Message("assistant", result.calls, result.thinking)>>
  \o [i \in DOMAIN result.calls |-> Message("tool", <<result.calls[i]>>, FALSE)]

\* _execute_tools: each call of the step once, all together.
Executed == ran \o result.calls

\* All calls are executed and all give a result, an unknown tool and a failing one
\* too.  generate() then judges the step; stream(), which tested the round before it
\* executed, gives out a step_finish event that the timeout wrapper looks at.
ToolsDone ==
  /\ pc = "tools"
  /\ ran' = Executed
  /\ \/ /\ setup.api = "stream" /\ setup.timeouts /\ Interrupted # "None"
        /\ Raise(Interrupted) /\ UNCHANGED <<round, conv>>
     \/ /\ setup.api = "complete"      \* the last round, or stop_when
        /\ pc' = "done" /\ UNCHANGED <<round, conv, error>>
     \/ /\ round < setup.rounds
        /\ setup.api = "stream" => ~setup.timeouts \/ Interrupted = "None"
        /\ pc' = "round" /\ round' = round + 1 /\ conv' = conv \o Continued
        /\ UNCHANGED error
  /\ UNCHANGED <<setup, attempt, step, told, sent>>

----------------------------------------------------------------------------
(* The abort signal and the timeouts *)

Running == pc \notin {"done", "raised"}

Abort ==
  /\ Running /\ setup.signal /\ ~aborted
  /\ aborted' = TRUE /\ since' = round
  /\ UNCHANGED <<setup, pc, round, attempt, conv, step, late, object, error, sent, ran>>

\* _with_abort_and_timeout around all of generate() cancels it; the per-step timeout
\* covers a call with its retries.
Cancelled ==
  /\ setup.api = "complete" /\ Running
  /\ \/ aborted /\ Raise("Abort")
     \/ setup.timeouts /\ Raise("RequestTimeout")
  /\ UNCHANGED <<setup, round, attempt, conv, step, told, sent, ran>>

DeadlinePasses ==
  /\ setup.api = "stream" /\ setup.timeouts /\ Running /\ ~late
  /\ late' = TRUE
  /\ UNCHANGED <<setup, pc, round, attempt, conv, step, aborted, since, object, error, sent, ran>>

----------------------------------------------------------------------------
(* Structured output: the text parses to an object with the required       *)
(* fields ("valid"), to one without ("invalid"), or not at all ("refused").*)
(* Anthropic answers with a call of the extraction tool instead of text.   *)

\* generate_object validates what it found and raises NoObjectGenerated.
TakeObject ==
  /\ pc = "done" /\ setup.schema /\ setup.api = "complete" /\ object = "none"
  /\ \E quality \in {"valid", "invalid", "refused"} :
       LET found == result.calls # <<>> \/ result.text > 0
       IN IF found /\ quality = "valid"
          THEN object' = "valid" /\ UNCHANGED <<pc, error>>
          ELSE object' = "refused" /\ Raise("NoObjectGenerated")
  /\ UNCHANGED <<setup, round, attempt, conv, step, aborted, since, late, sent, ran>>

\* StreamObjectResult parses at the end of the stream, keeps what it parsed even
\* when the validation after it fails, and object() then returns what was kept.
StreamedObject ==
  /\ pc = "done" /\ setup.schema /\ setup.api = "stream" /\ object = "none"
  /\ \E quality \in {"valid", "invalid", "refused"} :
       IF result.text > 0 /\ quality # "refused"
       THEN object' = quality /\ UNCHANGED <<pc, error>>
       ELSE object' = "refused" /\ Raise("NoObjectGenerated")
  /\ UNCHANGED <<setup, round, attempt, conv, step, aborted, since, late, sent, ran>>

----------------------------------------------------------------------------
Program ==
  \/ BeginRound \/ CallRefused \/ CallDenied \/ SleepOver
  \/ WireEvent \/ EventArrives \/ StreamEnds \/ ToolsDone \/ TakeObject \/ StreamedObject
  \/ \E f \in Failures : CallFails(f)
  \/ \E f \in Failures : StreamBreaks(f)
  \/ pc = "call" /\ Sendable /\ \E a \in Answers : CallAnswers(a)
  \/ pc = "call" /\ Sendable /\ \E a \in Answers : StreamConnects(a)

Next == Program \/ Cancelled \/ Abort \/ DeadlinePasses

\* The event loop runs what is ready, and a provider answers, fails or is cut off.
Spec == Init /\ [][Next]_vars /\ WF_vars(Program)

----------------------------------------------------------------------------
(* Properties *)

\* The conversation that goes to a provider answers each call of an assistant turn
\* in the very next turns, each once and nothing else, in the form the provider's
\* API wants: for Anthropic in one user turn, for its user and assistant take turns.
\* A strict stream never breaks it, whatever an adapter gives twice, and executes no
\* call twice.
CallsAnsweredOnce ==
  /\ setup.mode # "warn" => IsInjective(ran)
  /\ \A i \in DOMAIN sent :
    LET turns == Turns(setup.provider, sent[i].conv)
        Asks(j) == turns[j].role = "assistant"
        Replies(j) == {k \in (j + 1)..Len(turns) : \A l \in (j + 1)..k : ~Asks(l)}
        Answered(j) == FlattenSeq([k \in 1..Cardinality(Replies(j)) |-> turns[j + k].calls])
    IN /\ setup.mode # "warn" =>
            \A j \in DOMAIN turns :
              Asks(j) => Answered(j) = turns[j].calls /\ IsInjective(turns[j].calls)
       /\ setup.provider = "anthropic" =>
            \A j \in 1..(Len(turns) - 1) : turns[j].role # turns[j + 1].role

\* Retries and rounds multiply and no more.  A provider is never asked more often;
\* what it refused for good (the request is wrong, the caller not allowed, the model
\* not there) is not sent again; and after an abort the round under way may finish,
\* but no further one is asked for.
WorkBounded ==
  /\ Len(sent) <= (setup.rounds + 1) * (setup.retries + 1)
  /\ \A i \in 1..(Len(sent) - 1) :
       sent[i].how.how = "status" => sent[i].how.status \notin {400, 401, 403, 404, 413, 422}
  /\ aborted => \A i \in DOMAIN sent : sent[i].round <= since

\* What a caller of a strict stream has been given is well formed: no event of a
\* block outside it, blocks of one kind one at a time, and at the end everything
\* closed, with a FINISH.
BlockEvents == {[start |-> "TEXT_START", delta |-> "TEXT_DELTA", end |-> "TEXT_END"],
                [start |-> "TOOL_CALL_START", delta |-> "TOOL_CALL_DELTA", end |-> "TOOL_CALL_END"]}

GivenIsWellFormed ==
  setup.mode = "strict" /\ setup.api = "stream" =>
    LET given == x.given
        Count(n, type) == Cardinality({i \in 1..n : given[i].type = type})
        Open(n, b) == Count(n, b.start) > Count(n, b.end)
    IN /\ \A n \in DOMAIN given : \A b \in BlockEvents :
            /\ given[n].type = b.start => ~Open(n - 1, b)
            /\ given[n].type \in {b.delta, b.end} => Open(n - 1, b)
            /\ given[n].type = "FINISH" => ~Open(n - 1, b)
       /\ pc \in {"tools", "done"} => \E n \in DOMAIN given : given[n].type = "FINISH"

\* A strict stream that ends gives the text and the calls complete() gives for the
\* same answer.  (The reason of the ending may differ: the usage chunk of Chat
\* Completions and a bare last chunk of Gemini change it.)
StreamAgrees ==
  setup.mode = "strict" /\ setup.api = "stream" /\ pc \in {"tools", "done"} =>
    LET whole == Response(setup.provider, answer)
    IN result.text = whole.text /\ result.calls = whole.calls /\ result.thinking = whole.thinking

\* Every generation ends, with a result or an error, whatever the provider does.
GenerationEnds == <>(~Running)
=============================================================================

-------------------------- MODULE MCLLMGeneration --------------------------
(***************************************************************************)
(* Both entries over the four adapters: with active and passive tools,     *)
(* every validation mode, an abort signal, timeouts and a schema; two      *)
(* rounds and one retry.  The answers have up to two blocks, calls with    *)
(* and without streamed arguments, thinking, a truncation and a filter.    *)
(***************************************************************************)
EXTENDS LLMGeneration

Base == [api |-> "stream", provider |-> "anthropic", tools |-> "active", mode |-> "strict",
         rounds |-> 1, retries |-> 1, signal |-> FALSE, timeouts |-> FALSE, schema |-> FALSE,
         hooks |-> FALSE]

MCSetups ==
       {[Base EXCEPT !.provider = p, !.api = api] : p \in Providers, api \in {"complete", "stream"}}
  \cup {[Base EXCEPT !.provider = "openai", !.mode = mode] : mode \in {"warn", "normalize"}}
  \cup {[Base EXCEPT !.api = api, !.signal = TRUE, !.timeouts = t, !.retries = 0] :
          api \in {"complete", "stream"}, t \in BOOLEAN}
  \cup {[Base EXCEPT !.tools = "passive", !.provider = "gemini", !.api = api, !.schema = TRUE,
                     !.rounds = 0] : api \in {"complete", "stream"}}
  \cup {[Base EXCEPT !.provider = "other", !.rounds = 0],
        [Base EXCEPT !.hooks = TRUE, !.rounds = 0],
        [Base EXCEPT !.hooks = TRUE, !.api = "complete"]}

Block(kind, id, deltas) == [kind |-> kind, id |-> id, deltas |-> deltas]
Shape(blocks, ending, bare) == [blocks |-> blocks, ending |-> ending, bare |-> bare]

MCAnswerShapes ==
  {Shape(<<Block("text", 0, 2)>>, "end", FALSE),
   Shape(<<Block("text", 0, 1)>>, "tokens", TRUE),
   Shape(<<Block("thinking", 0, 1), Block("call", 1, 0)>>, "tools", FALSE),
   Shape(<<>>, "filter", FALSE)}
  \cup {Shape(<<Block("text", 0, 1), Block("call", 1, n)>>, ending, FALSE) :
          n \in 0..1, ending \in {"tools", "tokens"}}
  \cup {Shape(<<Block("call", 1, n), Block("call", 2, n)>>, "tools", FALSE) : n \in 0..1}

Failure(how, status, says, long) == [how |-> how, status |-> status, says |-> says, long |-> long]
MCFailures ==
  {Failure("connection", 0, "", FALSE), Failure("status", 400, "context", FALSE),
   Failure("status", 413, "", FALSE), Failure("status", 429, "quota", FALSE),
   Failure("status", 529, "", TRUE)}

=============================================================================

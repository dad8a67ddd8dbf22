------------------------ MODULE LLMGenerationProofs ------------------------
(***************************************************************************)
(* What holds of a generation, for any setups, answers and failures: how   *)
(* often a provider is asked; what a caller of a stream is given, and that *)
(* it is what complete() gives; and that each call of a tool is executed   *)
(* and answered once.                                                      *)
(***************************************************************************)
EXTENDS LLMGeneration, FiniteSetTheorems, WellFoundedInduction, TLAPS

----------------------------------------------------------------------------
(* The invariants                                                          *)

IsSeq(s) == \E S : s \in Seq(S)

\* The requests n rounds may send.
Requests(n) == n * (setup.retries + 1)

\* Every request belongs to an attempt of a round.
BudgetInv ==
  /\ setup \in Setups /\ IsSeq(sent)
  /\ round \in 0..setup.rounds /\ attempt \in 0..setup.retries
  /\ pc = "round" => Len(sent) <= Requests(round)
  /\ pc \in {"call", "sleep"} => Len(sent) <= Requests(round) + attempt
  /\ pc \in {"stream", "tools"} => Len(sent) <= Requests(round) + attempt + 1
  /\ Len(sent) <= Requests(setup.rounds + 1)

\* The provider refused the request for good.
Refused(how) == how.how = "status" /\ how.status \in {400, 401, 403, 404, 413, 422}

RefusedInv ==
  \A i \in DOMAIN sent : Refused(sent[i].how) => i = Len(sent) /\ pc = "raised"

\* After an abort the round may be counted on, but nothing is sent in the next one.
AbortInv ==
  /\ \A i \in DOMAIN sent : sent[i].round \in 0..round
  /\ aborted =>
       /\ setup.signal
       /\ round <= since \/ pc \in {"round", "raised"}
       /\ \A i \in DOMAIN sent : sent[i].round <= since

WorkInv == BudgetInv /\ RefusedInv /\ AbortInv

Count(given, n, type) == Cardinality({i \in 1..n : given[i].type = type})

\* A block is open in the events given.
IsOpen(given, n, b) == Count(given, n, b.start) > Count(given, n, b.end)

\* The validator's flag for a kind of blocks.
Flag(v, b) == IF b.start = "TEXT_START" THEN v.text ELSE v.tool

Nested(given) ==
  \A n \in DOMAIN given : \A b \in BlockEvents :
    /\ given[n].type = b.start => ~IsOpen(given, n - 1, b)
    /\ given[n].type \in {b.delta, b.end} => IsOpen(given, n - 1, b)
    /\ given[n].type = "FINISH" => ~IsOpen(given, n - 1, b)

Finished(given) == \E n \in DOMAIN given : given[n].type = "FINISH"

\* What the validator knows of the events it has let through is true of them.
Knows(y) ==
  /\ \A b \in BlockEvents :
       Count(y.given, Len(y.given), b.start)
         = Count(y.given, Len(y.given), b.end) + (IF Flag(y.v, b) THEN 1 ELSE 0)
  /\ y.v.finish => Finished(y.given)

WellTyped(y) ==
  /\ IsSeq(y.given)
  /\ y = [v |-> y.v, acc |-> y.acc, given |-> y.given, refused |-> y.refused]
  /\ y.v = [text |-> y.v.text, tool |-> y.v.tool, id |-> y.v.id, finish |-> y.v.finish]
  /\ {y.v.text, y.v.tool, y.v.finish, y.refused} \subseteq BOOLEAN

GivenInv ==
  /\ WellTyped(x)
  /\ setup.mode = "strict" => Knows(x) /\ Nested(x.given)
  /\ setup.mode = "strict" /\ setup.api = "stream" /\ pc \in {"tools", "done"} => x.v.finish

----------------------------------------------------------------------------
(* Sequences and counts                                                    *)

LEMMA AppendIs ==
  ASSUME NEW s, IsSeq(s), NEW e
  PROVE  /\ IsSeq(Append(s, e)) /\ Len(s) \in Nat
         /\ Len(Append(s, e)) = Len(s) + 1
         /\ DOMAIN s = 1..Len(s) /\ DOMAIN Append(s, e) = 1..(Len(s) + 1)
         /\ \A i \in 1..Len(s) : Append(s, e)[i] = s[i]
         /\ Append(s, e)[Len(s) + 1] = e
<1>1. PICK S : s \in Seq(S)
  BY DEF IsSeq
<1>2. s \in Seq(S \cup {e})
  BY <1>1
<1>3. Append(s, e) \in Seq(S \cup {e})
  BY <1>2
<1>4. IsSeq(Append(s, e))
  BY <1>3 DEF IsSeq
<1>. QED BY <1>2, <1>4

LEMMA CountIsNat ==
  ASSUME NEW given, NEW n \in Nat, NEW type
  PROVE  Count(given, n, type) \in Nat
<1>1. IsFiniteSet(1..n)
  BY FS_Interval
<1>2. IsFiniteSet({i \in 1..n : given[i].type = type})
  BY <1>1, FS_Subset
<1>. QED BY <1>2, FS_CardinalityType DEF Count

\* The events already given are counted as before.
LEMMA CountStays ==
  ASSUME NEW given, IsSeq(given), NEW e, NEW n \in 0..Len(given), NEW type
  PROVE  Count(Append(given, e), n, type) = Count(given, n, type)
<1>1. \A i \in 1..n : Append(given, e)[i] = given[i]
  BY AppendIs
<1>2. {i \in 1..n : Append(given, e)[i].type = type} = {i \in 1..n : given[i].type = type}
  BY <1>1
<1>. QED BY <1>2 DEF Count

\* One more event is one more of its type.
LEMMA CountGrows ==
  ASSUME NEW given, IsSeq(given), NEW e, NEW type
  PROVE  Count(Append(given, e), Len(given) + 1, type)
           = Count(given, Len(given), type) + (IF e.type = type THEN 1 ELSE 0)
<1>. DEFINE A == {i \in 1..Len(given) : given[i].type = type}
            B == {i \in 1..(Len(given) + 1) : Append(given, e)[i].type = type}
<1>1. Count(given, Len(given), type) = Cardinality(A)
  BY DEF Count
<1>2. Count(Append(given, e), Len(given) + 1, type) = Cardinality(B)
  BY DEF Count
<1>3. Len(given) \in Nat
  BY AppendIs
<1>4. IsFiniteSet(A)
  <2>1. IsFiniteSet(1..Len(given))
    BY <1>3, FS_Interval
  <2>. QED BY <2>1, FS_Subset
<1>5. Len(given) + 1 \notin A
  BY <1>3
<1>6. B = IF e.type = type THEN A \cup {Len(given) + 1} ELSE A
  BY <1>3, AppendIs
<1>7. Cardinality(A \cup {Len(given) + 1}) = Cardinality(A) + 1
  BY <1>4, <1>5, FS_AddElement
<1>8. Cardinality(A) \in Nat
  BY <1>4, FS_CardinalityType
<1>. HIDE DEF A, B
<1>. QED BY <1>1, <1>2, <1>6, <1>7, <1>8

----------------------------------------------------------------------------
(* The validator                                                           *)

\* An event that the strict validator lets through keeps the stream nested, and
\* what the validator knows true.
LEMMA ThroughIs ==
  ASSUME NEW y, WellTyped(y), NEW mode, NEW e
  PROVE  /\ WellTyped(Through(mode, y, e))
         /\ mode = "strict" /\ Knows(y) /\ Nested(y.given) =>
              Knows(Through(mode, y, e)) /\ Nested(Through(mode, y, e).given)
<1>. DEFINE z == Through(mode, y, e)
            kept == [y EXCEPT !.refused = TRUE]
<1>1. CASE Violates(y.v, e) /\ mode # "warn"
  <2>1. z = [v |-> y.v, acc |-> y.acc, given |-> y.given, refused |-> TRUE]
    BY <1>1 DEF Through, WellTyped
  <2>2. z.v = y.v /\ z.given = y.given /\ z.refused = TRUE
    BY <2>1
  <2>3. WellTyped(z)
    BY <2>1, <2>2 DEF WellTyped
  <2>4. Knows(y) => Knows(z)
    BY <2>2 DEF Knows
  <2>. QED BY <2>2, <2>3, <2>4
<1>2. CASE ~(Violates(y.v, e) /\ mode # "warn")
  <2>1. z = [v |-> Validated(y.v, e), acc |-> Accumulated(y.acc, e),
             given |-> Append(y.given, e), refused |-> FALSE]
    BY <1>2 DEF Through
  <2>2. /\ z.v = Validated(y.v, e) /\ z.given = Append(y.given, e)
        /\ z.refused = FALSE
    BY <2>1
  <2>3. /\ z.v = [text |-> z.v.text, tool |-> z.v.tool, id |-> z.v.id, finish |-> z.v.finish]
        /\ {z.v.text, z.v.tool, z.v.finish} \subseteq BOOLEAN
    BY <2>2 DEF Validated, WellTyped
  <2>4. WellTyped(z)
    BY <2>1, <2>2, <2>3, AppendIs DEF WellTyped
  <2>5. ASSUME mode = "strict", Knows(y), Nested(y.given)
        PROVE  Knows(z) /\ Nested(z.given)
    <3>. DEFINE n == Len(y.given)
    <3>1. /\ n \in Nat /\ Len(z.given) = n + 1
          /\ DOMAIN y.given = 1..n /\ DOMAIN z.given = 1..(n + 1)
          /\ \A i \in 1..n : z.given[i] = y.given[i]
          /\ z.given[n + 1] = e
      BY <2>2, AppendIs DEF WellTyped
    <3>2. ~Violates(y.v, e)
      BY <1>2, <2>5
    <3>3. \A b \in BlockEvents : IsOpen(y.given, n, b) <=> Flag(y.v, b)
      BY <2>5, <3>1, CountIsNat DEF Knows, IsOpen
    <3>4. \A i \in 0..n : \A b \in BlockEvents :
             IsOpen(z.given, i, b) <=> IsOpen(y.given, i, b)
      BY <2>2, CountStays DEF IsOpen, WellTyped
    <3>5. \A b \in BlockEvents :
             /\ e.type = b.start => ~Flag(y.v, b)
             /\ e.type \in {b.delta, b.end} => Flag(y.v, b)
             /\ e.type = "FINISH" => ~Flag(y.v, b)
      BY <3>2 DEF Violates, BlockEvents, Flag
    <3>6. Nested(z.given)
      <4>1. \A b \in BlockEvents :
              /\ e.type = b.start => ~IsOpen(z.given, n, b)
              /\ e.type \in {b.delta, b.end} => IsOpen(z.given, n, b)
              /\ e.type = "FINISH" => ~IsOpen(z.given, n, b)
        BY <3>1, <3>3, <3>4, <3>5
      <4>2. ASSUME NEW i \in 1..n, NEW b \in BlockEvents
            PROVE  /\ z.given[i].type = b.start => ~IsOpen(z.given, i - 1, b)
                   /\ z.given[i].type \in {b.delta, b.end} => IsOpen(z.given, i - 1, b)
                   /\ z.given[i].type = "FINISH" => ~IsOpen(z.given, i - 1, b)
        <5>1. i - 1 \in 0..n
          BY <3>1
        <5>2. IsOpen(z.given, i - 1, b) <=> IsOpen(y.given, i - 1, b)
          BY <5>1, <3>4
        <5>. QED BY <2>5, <3>1, <5>2 DEF Nested
      <4>3. (n + 1) - 1 = n /\ 1..(n + 1) = 1..n \cup {n + 1}
        BY <3>1
      <4>. HIDE DEF z, n
      <4>. QED BY <3>1, <4>1, <4>2, <4>3 DEF Nested
    <3>7. \A b \in BlockEvents :
             (IF Flag(z.v, b) THEN 1 ELSE 0) + (IF e.type = b.end THEN 1 ELSE 0)
               = (IF Flag(y.v, b) THEN 1 ELSE 0) + (IF e.type = b.start THEN 1 ELSE 0)
      BY <2>2, <3>2 DEF Violates, Validated, BlockEvents, Flag, WellTyped
    <3>8. \A b \in BlockEvents :
             Count(z.given, n + 1, b.start)
               = Count(z.given, n + 1, b.end) + (IF Flag(z.v, b) THEN 1 ELSE 0)
      <4>. SUFFICES ASSUME NEW b \in BlockEvents
                    PROVE  Count(z.given, n + 1, b.start)
                             = Count(z.given, n + 1, b.end) + (IF Flag(z.v, b) THEN 1 ELSE 0)
        OBVIOUS
      <4>1. /\ Count(z.given, n + 1, b.start)
                 = Count(y.given, n, b.start) + (IF e.type = b.start THEN 1 ELSE 0)
            /\ Count(z.given, n + 1, b.end)
                 = Count(y.given, n, b.end) + (IF e.type = b.end THEN 1 ELSE 0)
        BY <2>2, CountGrows DEF WellTyped
      <4>2. /\ Count(y.given, n, b.start) \in Nat /\ Count(y.given, n, b.end) \in Nat
            /\ Count(y.given, n, b.start)
                 = Count(y.given, n, b.end) + (IF Flag(y.v, b) THEN 1 ELSE 0)
        BY <2>5, <3>1, CountIsNat DEF Knows
      <4>. QED BY <3>7, <4>1, <4>2
    <3>9. z.v.finish => Finished(z.given)
      <4>1. z.v.finish => y.v.finish \/ e.type = "FINISH"
        BY <2>2 DEF Validated, WellTyped
      <4>2. Finished(y.given) => Finished(z.given)
        BY <3>1 DEF Finished
      <4>3. e.type = "FINISH" => Finished(z.given)
        BY <3>1 DEF Finished
      <4>. QED BY <2>5, <4>1, <4>2, <4>3 DEF Knows
    <3>. QED BY <3>1, <3>6, <3>8, <3>9 DEF Knows
  <2>. QED BY <2>4, <2>5
<1>. QED BY <1>1, <1>2

----------------------------------------------------------------------------
(* How often a provider is asked                                           *)

\* What rounds and attempts add up to.
LEMMA Budget ==
  ASSUME setup \in Setups, NEW r \in 0..setup.rounds, NEW a \in 0..setup.retries
  PROVE  /\ setup.rounds \in Nat /\ setup.retries \in Nat
         /\ Requests(r) \in Nat /\ Requests(r + 1) \in Nat
         /\ Requests(r) + a + 1 <= Requests(r + 1)
         /\ Requests(r) + a + 1 <= Requests(setup.rounds + 1)
<1>1. setup.rounds \in Nat /\ setup.retries \in Nat
  BY SetupsAssumption, BoundsAssumption
<1>. DEFINE R == setup.rounds
            A == setup.retries + 1
<1>2. A \in Nat /\ a + 1 <= A /\ r \in Nat /\ R \in Nat /\ r <= R
  BY <1>1
<1>. HIDE DEF A, R
<1>3. (r + 1) * A = r * A + A /\ r * A \in Nat /\ (r + 1) * A \in Nat
  BY <1>2
<1>4. (r + 1) * A <= (R + 1) * A
  <2>1. PICK d \in Nat : R + 1 = (r + 1) + d
    <3>1. R - r \in Nat /\ R + 1 = (r + 1) + (R - r)
      BY <1>2
    <3>. QED BY <3>1
  <2>2. (R + 1) * A = (r + 1) * A + d * A
    BY <1>2, <2>1
  <2>3. d * A \in Nat /\ (r + 1) * A \in Nat
    BY <1>2, <2>1
  <2>. QED BY <2>2, <2>3
<1>5. Requests(r) = r * A /\ Requests(r + 1) = (r + 1) * A
      /\ Requests(setup.rounds + 1) = (R + 1) * A
  BY DEF Requests, A, R
<1>. QED BY <1>1, <1>2, <1>3, <1>4, <1>5

\* A class of error for which a refused request is not sent again.
LEMMA RefusedIsFinal ==
  ASSUME NEW p \in Providers, NEW f, Refused(f)
  PROVE  ~Retryable(TranslateError(p, f))
<1>1. \/ ErrorFromStatus(f.status, f.says) \in
           {"InvalidRequest", "Authentication", "AccessDenied", "NotFound", "ContextLength",
            "QuotaExceeded", "ContentFilter"}
  BY DEF Refused, ErrorFromStatus, StatusError, SaidError
<1>2. TranslateError(p, f) \in
        {"InvalidRequest", "Authentication", "AccessDenied", "NotFound", "ContextLength",
         "QuotaExceeded", "ContentFilter"}
  BY <1>1 DEF Refused, Providers, TranslateError, AnthropicError, OpenAIError, CompatError,
              GeminiError, StatusError
<1>. QED BY <1>2 DEF Retryable

LEMMA WorkInit == Init => WorkInv
<1>. SUFFICES ASSUME Init PROVE WorkInv
  OBVIOUS
<1>1. sent \in Seq({}) /\ Len(sent) = 0 /\ DOMAIN sent = {}
  BY DEF Init
<1>2. setup \in Setups /\ round = 0 /\ attempt = 0 /\ pc = "round" /\ aborted = FALSE
  BY DEF Init
<1>3. setup.rounds \in Nat /\ setup.retries \in Nat
  BY <1>2, SetupsAssumption, BoundsAssumption
<1>4. Requests(0) = 0 /\ Requests(setup.rounds + 1) \in Nat
  BY <1>3 DEF Requests
<1>. QED BY <1>1, <1>2, <1>3, <1>4 DEF WorkInv, BudgetInv, RefusedInv, AbortInv, IsSeq

\* A step that sends a request, and what may follow it.
Sends ==
  \E how :
    /\ pc = "call" /\ Sent(how) /\ UNCHANGED <<setup, round, aborted, since>>
    /\ \/ pc' \in {"stream", "tools", "done", "raised"} /\ attempt' = attempt
       \/ pc' = "sleep" /\ attempt' = attempt + 1 /\ attempt < setup.retries
    /\ Refused(how) => pc' = "raised"

\* A step that sends nothing, in the round under way.
Goes ==
  /\ UNCHANGED <<setup, round, sent, aborted, since>>
  /\ \/ pc' = "raised" /\ attempt' \in {0, attempt}
     \/ pc = "round" /\ ~(setup.signal /\ aborted) /\ pc' = "call" /\ attempt' = 0
     \/ pc \in {"call", "stream"} /\ pc' = "sleep"
        /\ attempt' = attempt + 1 /\ attempt < setup.retries
     \/ pc = "sleep" /\ pc' = "call" /\ attempt' = attempt
     \/ pc = "stream" /\ pc' \in {"tools", "done"} /\ attempt' = attempt
     \/ pc = "tools" /\ pc' = "done" /\ attempt' = attempt
     \/ pc # "raised" /\ pc' = pc /\ attempt' = attempt

NextRound ==
  /\ UNCHANGED <<setup, sent, attempt, aborted, since>>
  /\ pc = "tools" /\ round < setup.rounds /\ pc' = "round" /\ round' = round + 1

Aborts ==
  /\ UNCHANGED <<setup, sent, attempt, pc, round>>
  /\ setup.signal /\ aborted' = TRUE /\ since' = round /\ pc # "raised"

LEMMA Attempts ==
  ASSUME BudgetInv
  PROVE  attempt \in Nat /\ setup.retries \in Nat /\ attempt <= setup.retries
BY SetupsAssumption, BoundsAssumption DEF BudgetInv

LEMMA Steps ==
  ASSUME BudgetInv, Next
  PROVE  Sends \/ Goes \/ NextRound \/ Aborts
<1>1. attempt \in Nat /\ setup.retries \in Nat /\ attempt <= setup.retries
  BY Attempts
<1>2. ASSUME NEW class, NEW long, Failed(class, long)
      PROVE  \/ pc' = "raised" /\ attempt' = attempt
             \/ /\ pc' = "sleep" /\ attempt' = attempt + 1 /\ attempt < setup.retries
                /\ Retryable(class)
  BY <1>1, <1>2 DEF Failed, Raise
<1>3. ASSUME NEW class, StreamFailed(class)
      PROVE  \/ pc' = "raised" /\ attempt' = attempt
             \/ pc' = "sleep" /\ attempt' = attempt + 1 /\ attempt < setup.retries
  BY <1>2, <1>3 DEF StreamFailed, Raise
<1>4. CASE BeginRound
  BY <1>4 DEF BeginRound, Goes, Raise, told
<1>5. CASE CallRefused
  BY <1>2, <1>5 DEF CallRefused, Goes, told
<1>6. CASE CallDenied \/ SleepOver \/ WireEvent
  BY <1>6 DEF CallDenied, SleepOver, WireEvent, Goes, Raise, told
<1>7. CASE EventArrives
  BY <1>3, <1>7 DEF EventArrives, Goes, Raise, told
<1>8. CASE StreamEnds
  BY <1>3, <1>8 DEF StreamEnds, Goes, told
<1>9. CASE ToolsDone
  BY <1>9 DEF ToolsDone, Goes, NextRound, Raise, told
<1>10. CASE TakeObject \/ StreamedObject
  BY <1>10 DEF TakeObject, StreamedObject, Goes, Raise
<1>11. CASE \E f \in Failures : CallFails(f)
  <2>1. PICK f \in Failures : CallFails(f)
    BY <1>11
  <2>2. pc = "call" /\ Sent(f) /\ UNCHANGED <<setup, round, aborted, since>>
    BY <2>1 DEF CallFails, told
  <2>3. setup.provider \in Providers
    BY <2>1, RegisteredAssumption DEF CallFails, Sendable, Routed
  <2>4. Refused(f) => ~Retryable(TranslateError(setup.provider, f))
    BY <2>3, RefusedIsFinal
  <2>5. Failed(TranslateError(setup.provider, f), KeepsRetryAfter(setup.provider, f))
    BY <2>1 DEF CallFails
  <2>6. \/ pc' = "raised" /\ attempt' = attempt
        \/ /\ pc' = "sleep" /\ attempt' = attempt + 1 /\ attempt < setup.retries
           /\ ~Refused(f)
    BY <1>2, <2>4, <2>5
  <2>. QED BY <2>2, <2>6 DEF Sends
<1>12. CASE \E f \in Failures : StreamBreaks(f)
  BY <1>3, <1>12 DEF StreamBreaks, Goes, told
<1>13. CASE pc = "call" /\ Sendable /\ \E a \in Answers : CallAnswers(a) \/ StreamConnects(a)
  <2>. DEFINE how == [how |-> "answered"]
  <2>1. ~Refused(how)
    BY DEF Refused
  <2>2. Sent(how) /\ UNCHANGED <<setup, round, aborted, since, attempt>>
    BY <1>13 DEF CallAnswers, StreamConnects, told
  <2>3. pc' \in {"tools", "done", "stream"}
    BY <1>13 DEF CallAnswers, StreamConnects
  <2>. HIDE DEF how
  <2>. QED BY <1>13, <2>1, <2>2, <2>3 DEF Sends
<1>14. CASE Cancelled
  BY <1>14 DEF Cancelled, Goes, Raise, told
<1>15. CASE Abort
  BY <1>15 DEF Abort, Aborts, Running
<1>16. CASE DeadlinePasses
  BY <1>16 DEF DeadlinePasses, Goes, Running
<1>. QED BY <1>4, <1>5, <1>6, <1>7, <1>8, <1>9, <1>10, <1>11, <1>12, <1>13, <1>14, <1>15,
            <1>16 DEF Next, Program

LEMMA BudgetStep ==
  ASSUME BudgetInv, Next
  PROVE  BudgetInv'
<1>1. setup' = setup /\ setup \in Setups /\ \A n : Requests(n)' = Requests(n)
  BY Steps DEF Sends, Goes, NextRound, Aborts, BudgetInv, Requests
<1>2. /\ setup.rounds \in Nat /\ setup.retries \in Nat
      /\ round \in Nat /\ round <= setup.rounds
      /\ attempt \in Nat /\ attempt <= setup.retries
  BY <1>1, SetupsAssumption, BoundsAssumption DEF BudgetInv
<1>3. /\ Requests(round) \in Nat /\ Requests(setup.rounds + 1) \in Nat
      /\ Requests(round + 1) \in Nat
      /\ Requests(round) + attempt + 1 <= Requests(round + 1)
      /\ Requests(round) + attempt + 1 <= Requests(setup.rounds + 1)
  <2>1. setup.rounds \in 0..setup.rounds /\ 0 \in 0..setup.retries
    BY <1>2
  <2>2. Requests(setup.rounds + 1) \in Nat
    BY <1>2 DEF Requests
  <2>. QED BY <1>1, <2>2, Budget DEF BudgetInv
<1>4. Len(sent) \in Nat
  BY AppendIs DEF BudgetInv
<1>5. CASE Sends
  <2>1. PICK how :
          /\ pc = "call" /\ Sent(how) /\ UNCHANGED <<setup, round, aborted, since>>
          /\ \/ pc' \in {"stream", "tools", "done", "raised"} /\ attempt' = attempt
             \/ pc' = "sleep" /\ attempt' = attempt + 1 /\ attempt < setup.retries
    BY <1>5 DEF Sends
  <2>2. IsSeq(sent') /\ Len(sent') = Len(sent) + 1
    BY <2>1, AppendIs DEF Sent, BudgetInv
  <2>3. Len(sent) <= Requests(round) + attempt
    BY <2>1 DEF BudgetInv
  <2>. QED BY <1>1, <1>2, <1>3, <1>4, <2>1, <2>2, <2>3 DEF BudgetInv
<1>6. CASE Goes
  BY <1>1, <1>2, <1>3, <1>4, <1>6 DEF BudgetInv, Goes
<1>7. CASE NextRound
  <2>1. Len(sent) <= Requests(round + 1)
    BY <1>2, <1>3, <1>4, <1>7 DEF BudgetInv, NextRound
  <2>. QED BY <1>1, <1>2, <1>3, <1>7, <2>1 DEF BudgetInv, NextRound
<1>8. CASE Aborts
  BY <1>1, <1>8 DEF BudgetInv, Aborts
<1>. QED BY <1>5, <1>6, <1>7, <1>8, Steps

LEMMA RefusedStep ==
  ASSUME BudgetInv, RefusedInv, Next
  PROVE  RefusedInv'
<1>1. CASE Sends
  <2>1. PICK how : pc = "call" /\ Sent(how) /\ (Refused(how) => pc' = "raised")
    BY <1>1 DEF Sends
  <2>. DEFINE n == Len(sent)
  <2>2. /\ n \in Nat /\ Len(sent') = n + 1
        /\ DOMAIN sent = 1..n /\ DOMAIN sent' = 1..(n + 1)
        /\ \A i \in 1..n : sent'[i] = sent[i]
        /\ sent'[n + 1].how = how
    BY <2>1, AppendIs DEF Sent, BudgetInv
  <2>3. \A i \in 1..n : ~Refused(sent[i].how)
    BY <2>1, <2>2 DEF RefusedInv
  <2>4. \A i \in 1..(n + 1) : i \in 1..n \/ i = n + 1
    BY <2>2
  <2>. HIDE DEF n
  <2>. QED BY <2>1, <2>2, <2>3, <2>4 DEF RefusedInv
<1>2. CASE Goes \/ NextRound \/ Aborts
  <2>1. sent' = sent /\ (pc # "raised" \/ pc' = "raised")
    BY <1>2 DEF Goes, NextRound, Aborts
  <2>. QED BY <2>1 DEF RefusedInv
<1>. QED BY <1>1, <1>2, Steps

LEMMA AbortStep ==
  ASSUME BudgetInv, AbortInv, Next
  PROVE  AbortInv'
<1>1. round \in Nat
  BY SetupsAssumption, BoundsAssumption DEF BudgetInv
<1>2. CASE Sends
  <2>1. /\ pc = "call" /\ \E how : Sent(how)
        /\ UNCHANGED <<setup, round, aborted, since>>
    BY <1>2 DEF Sends
  <2>. DEFINE n == Len(sent)
  <2>2. /\ n \in Nat
        /\ DOMAIN sent = 1..n /\ DOMAIN sent' = 1..(n + 1)
        /\ \A i \in 1..n : sent'[i] = sent[i]
        /\ sent'[n + 1].round = round
    BY <2>1, AppendIs DEF Sent, BudgetInv
  <2>3. aborted => round <= since
    BY <2>1 DEF AbortInv
  <2>4. \A i \in 1..(n + 1) : i \in 1..n \/ i = n + 1
    BY <2>2
  <2>. HIDE DEF n
  <2>. QED BY <1>1, <2>1, <2>2, <2>3, <2>4 DEF AbortInv
<1>3. CASE Goes
  BY <1>3 DEF Goes, AbortInv
<1>4. CASE NextRound
  BY <1>1, <1>4 DEF NextRound, AbortInv
<1>5. CASE Aborts
  BY <1>1, <1>5 DEF Aborts, AbortInv
<1>. QED BY <1>2, <1>3, <1>4, <1>5, Steps

LEMMA WorkAlways == Spec => []WorkInv
<1>1. WorkInv /\ [Next]_vars => WorkInv'
  <2>. SUFFICES ASSUME WorkInv, [Next]_vars
                PROVE  WorkInv'
    OBVIOUS
  <2>1. CASE Next
    BY <2>1, BudgetStep, RefusedStep, AbortStep DEF WorkInv
  <2>2. CASE UNCHANGED vars
    BY <2>2 DEF vars, WorkInv, BudgetInv, RefusedInv, AbortInv, Requests
  <2>. QED BY <2>1, <2>2
<1>. QED BY WorkInit, <1>1, PTL DEF Spec

\* A generation of n rounds and m retries asks its provider at most (n + 1) * (m + 1)
\* times, never again what the provider refused for good, and after an abort only in
\* the round under way: whatever is answered, fails, breaks off or runs out of time
\* (generate.py, retry.py).
THEOREM WorkIsBounded == Spec => []WorkBounded
<1>1. WorkInv => WorkBounded
  <2>. SUFFICES ASSUME WorkInv PROVE WorkBounded
    OBVIOUS
  <2>1. Len(sent) <= (setup.rounds + 1) * (setup.retries + 1)
    BY DEF WorkInv, BudgetInv, Requests
  <2>2. Len(sent) \in Nat /\ DOMAIN sent = 1..Len(sent)
    BY AppendIs DEF WorkInv, BudgetInv
  <2>3. ASSUME NEW i \in 1..(Len(sent) - 1), sent[i].how.how = "status"
        PROVE  sent[i].how.status \notin {400, 401, 403, 404, 413, 422}
    <3>. DEFINE n == Len(sent)
    <3>. HIDE DEF n
    <3>1. i \in 1..(n - 1) /\ n \in Nat => i \in 1..n /\ i # n
      OBVIOUS
    <3>2. i \in DOMAIN sent /\ i # Len(sent)
      BY <2>2, <3>1 DEF n
    <3>. QED BY <2>3, <3>2 DEF WorkInv, RefusedInv, Refused
  <2>4. aborted => \A i \in DOMAIN sent : sent[i].round <= since
    BY DEF WorkInv, AbortInv
  <2>. QED BY <2>1, <2>3, <2>4 DEF WorkBounded
<1>. QED BY <1>1, WorkAlways, PTL

----------------------------------------------------------------------------
(* What a caller of a stream is given                                      *)

LEMMA StreamInitIs == WellTyped(StreamInit) /\ Knows(StreamInit) /\ Nested(StreamInit.given)
<1>1. StreamInit.given = <<>> /\ StreamInit.v = ValidatorInit
  BY DEF StreamInit
<1>2. IsSeq(<<>>)
  <2>1. <<>> \in Seq({})
    OBVIOUS
  <2>. QED BY <2>1 DEF IsSeq
<1>3. WellTyped(StreamInit)
  BY <1>1, <1>2 DEF StreamInit, WellTyped, ValidatorInit
<1>4. \A type : Count(<<>>, Len(<<>>), type) = 0
  <2>1. \A type : {i \in 1..Len(<<>>) : <<>>[i].type = type} = {}
    OBVIOUS
  <2>. QED BY <2>1, FS_EmptySet DEF Count
<1>5. Knows(StreamInit)
  BY <1>1, <1>4 DEF Knows, ValidatorInit, Flag, BlockEvents
<1>6. Nested(StreamInit.given)
  BY <1>1 DEF Nested
<1>. QED BY <1>3, <1>5, <1>6

LEMMA GivenInit == Init => GivenInv
BY StreamInitIs DEF Init, GivenInv

LEMMA GivenStep ==
  ASSUME GivenInv, Next
  PROVE  GivenInv'
<1>1. setup' = setup
  BY DEF Next, Program, BeginRound, CallRefused, CallDenied, SleepOver, WireEvent, EventArrives,
         StreamEnds, ToolsDone, TakeObject, StreamedObject, CallFails, StreamBreaks, CallAnswers,
         StreamConnects, Cancelled, Abort, DeadlinePasses
<1>2. \/ x' = x
      \/ x' = StreamInit /\ pc' = "stream"
      \/ x' = Through(setup.mode, x, Head(due)) /\ pc = "stream" /\ pc' \in {pc, "raised", "sleep"}
  BY DEF Next, Program, BeginRound, CallRefused, CallDenied, SleepOver, WireEvent, EventArrives,
         StreamEnds, ToolsDone, TakeObject, StreamedObject, CallFails, StreamBreaks, CallAnswers,
         StreamConnects, Cancelled, Abort, DeadlinePasses, step, StreamFailed, Failed, Raise
<1>3. CASE x' = StreamInit /\ pc' = "stream"
  BY <1>1, <1>3, StreamInitIs DEF GivenInv
<1>4. CASE /\ x' = Through(setup.mode, x, Head(due))
           /\ pc = "stream" /\ pc' \in {pc, "raised", "sleep"}
  BY <1>1, <1>4, ThroughIs DEF GivenInv
<1>5. CASE x' = x
  <2>1. ASSUME setup.mode = "strict", setup.api = "stream", pc' \in {"tools", "done"}
        PROVE  pc \in {"tools", "done"} \/ x.v.finish
    BY <1>5, <2>1
       DEF Next, Program, BeginRound, CallRefused, CallDenied, SleepOver, WireEvent,
           EventArrives, StreamEnds, ToolsDone, TakeObject, StreamedObject, CallFails,
           StreamBreaks, CallAnswers, StreamConnects, Cancelled, Abort, DeadlinePasses,
           StreamFailed, Failed, Raise
  <2>. QED BY <1>1, <1>5, <2>1 DEF GivenInv
<1>. QED BY <1>2, <1>3, <1>4, <1>5

LEMMA GivenAlways == Spec => []GivenInv
<1>1. GivenInv /\ [Next]_vars => GivenInv'
  <2>1. GivenInv /\ UNCHANGED vars => GivenInv'
    BY DEF vars, GivenInv
  <2>. QED BY <2>1, GivenStep
<1>. QED BY <1>1, GivenInit, PTL DEF Spec

\* Whatever an adapter yields, and wherever the stream breaks off or is abandoned, the
\* caller of a strict stream sees blocks that open and close in turn, no event of a
\* block outside it, and a FINISH before the result (stream_validation.py, client.py).
THEOREM GivenWellFormed == Spec => []GivenIsWellFormed
<1>1. GivenInv => GivenIsWellFormed
  <2>. SUFFICES ASSUME GivenInv, setup.mode = "strict", setup.api = "stream"
                PROVE  GivenIsWellFormed
    BY DEF GivenIsWellFormed
  <2>1. Nested(x.given)
    BY DEF GivenInv
  <2>2. pc \in {"tools", "done"} => Finished(x.given)
    BY DEF GivenInv, Knows
  <2>. QED BY <2>1, <2>2 DEF GivenIsWellFormed, Nested, Finished, IsOpen, Count
<1>. QED BY <1>1, GivenAlways, PTL

----------------------------------------------------------------------------
(* Sequences, folded and made flat                                         *)

LEMMA SeqIs ==
  ASSUME NEW s, IsSeq(s)
  PROVE  Len(s) \in Nat /\ DOMAIN s = 1..Len(s) /\ (Len(s) = 0 => s = <<>>)
BY DEF IsSeq

LEMMA OneIs ==
  ASSUME NEW e
  PROVE  IsSeq(<<e>>) /\ Len(<<e>>) = 1 /\ <<e>>[1] = e
<1>1. <<e>> \in Seq({e})
  OBVIOUS
<1>. QED BY <1>1 DEF IsSeq

LEMMA EmptyIs == IsSeq(<<>>) /\ Len(<<>>) = 0
<1>1. <<>> \in Seq({})
  OBVIOUS
<1>. QED BY <1>1 DEF IsSeq

LEMMA Concatenated ==
  ASSUME NEW u, IsSeq(u), NEW w, IsSeq(w)
  PROVE  /\ IsSeq(u \o w) /\ Len(u \o w) = Len(u) + Len(w)
         /\ Len(u) \in Nat /\ Len(w) \in Nat
         /\ \A k \in 1..Len(u) : (u \o w)[k] = u[k]
         /\ \A k \in 1..Len(w) : (u \o w)[Len(u) + k] = w[k]
<1>1. PICK S : u \in Seq(S)
  BY DEF IsSeq
<1>2. PICK T : w \in Seq(T)
  BY DEF IsSeq
<1>3. u \in Seq(S \cup T) /\ w \in Seq(S \cup T)
  BY <1>1, <1>2
<1>4. u \o w \in Seq(S \cup T)
  BY <1>3
<1>5. IsSeq(u \o w)
  BY <1>4 DEF IsSeq
<1>. QED BY <1>3, <1>5

LEMMA SameSeq ==
  ASSUME NEW u, IsSeq(u), NEW w, IsSeq(w), Len(u) = Len(w),
         \A k \in 1..Len(u) : u[k] = w[k]
  PROVE  u = w
<1>1. PICK S : u \in Seq(S)
  BY DEF IsSeq
<1>2. PICK T : w \in Seq(T)
  BY DEF IsSeq
<1>. QED BY <1>1, <1>2

LEMMA AfterNothing ==
  ASSUME NEW u, IsSeq(u)
  PROVE  <<>> \o u = u /\ u \o <<>> = u
<1>1. PICK S : u \in Seq(S)
  BY DEF IsSeq
<1>. QED BY <1>1

LEMMA BothOnes ==
  ASSUME NEW u, IsSeq(u), NEW w, IsSeq(w), NEW q, IsSeq(q)
  PROVE  Len(u) = 1 /\ Len(w) = 1 /\ Len(q) = 2 /\ q[1] = u[1] /\ q[2] = w[1] => u \o w = q
<1>. DEFINE v == u \o w
<1>1. IsSeq(v) /\ Len(v) = Len(u) + Len(w)
  BY Concatenated
<1>2. \A k \in 1..Len(u) : v[k] = u[k]
  BY Concatenated
<1>3. \A k \in 1..Len(w) : v[Len(u) + k] = w[k]
  BY Concatenated
<1>. HIDE DEF v
<1>4. SUFFICES ASSUME Len(u) = 1, Len(w) = 1, Len(q) = 2, q[1] = u[1], q[2] = w[1]
               PROVE  v = q
  BY DEF v
<1>5. Len(v) = 2 /\ v[1] = u[1] /\ v[1 + 1] = w[1]
  BY <1>1, <1>2, <1>3, <1>4
<1>6. \A k \in 1..2 : k = 1 \/ k = 1 + 1
  OBVIOUS
<1>7. \A k \in 1..Len(v) : v[k] = q[k]
  BY <1>4, <1>5, <1>6
<1>. QED BY <1>1, <1>4, <1>5, <1>7, SameSeq

LEMMA TwoIs ==
  ASSUME NEW d, NEW e
  PROVE  IsSeq(<<d, e>>) /\ Len(<<d, e>>) = 2 /\ <<d>> \o <<e>> = <<d, e>>
<1>1. /\ <<d, e>> \in Seq({d, e}) /\ Len(<<d, e>>) = 2
      /\ <<d, e>>[1] = d /\ <<d, e>>[2] = e
  OBVIOUS
<1>2. IsSeq(<<d, e>>)
  BY <1>1 DEF IsSeq
<1>3. /\ IsSeq(<<d>>) /\ Len(<<d>>) = 1 /\ <<d>>[1] = d
      /\ IsSeq(<<e>>) /\ Len(<<e>>) = 1 /\ <<e>>[1] = e
  BY OneIs
<1>4. <<d>> \o <<e>> = <<d, e>>
  BY <1>1, <1>2, <1>3, BothOnes, Zenon
<1>. QED BY <1>1, <1>2, <1>4

\* A set of counts that has 0 and, with any, the next one has them all.
LEMMA CountUp ==
  ASSUME NEW S, 0 \in S, \A n \in Nat : n \in S => n + 1 \in S
  PROVE  Nat \subseteq S
<1>. DEFINE Rest == {n \in Nat : n \notin S}
            R == OpToRel(<, Nat)
<1>1. SUFFICES ASSUME Rest # {} PROVE FALSE
  OBVIOUS
<1>2. IsWellFoundedOn(R, Nat)
  BY NatLessThanWellFounded
<1>3. R = {ss \in Nat \X Nat : ss[1] < ss[2]}
  BY Zenon DEF OpToRel
<1>4. Rest \subseteq Nat
  OBVIOUS
<1>. HIDE DEF R
<1>5. PICK n \in Rest : \A m \in Rest : <<m, n>> \notin R
  BY <1>1, <1>2, <1>4, WFMin
<1>6. n \in Nat /\ n \notin S /\ n # 0
  BY <1>5
<1>7. n - 1 \in Nat /\ n - 1 < n /\ (n - 1) + 1 = n
  BY <1>6
<1>8. <<n - 1, n>> \in R
  BY <1>3, <1>6, <1>7
<1>9. n - 1 \in S
  BY <1>5, <1>7, <1>8
<1>. QED BY <1>6, <1>7, <1>9

\* The three folds: over the blocks of an answer and over a conversation.
Took(how, acc, e) ==
  CASE how = "text" -> AddText(acc, e)
    [] how = "calls" -> AddCall(acc, e)
    [] OTHER -> MergeInto(acc, e)

\* g goes from base through the elements of s, one by one.
Accrues(g, how, base, s) ==
  g[0] = base /\ \A k \in 1..Len(s) : g[k] = Took(how, g[k - 1], s[k])

\* The fold of the first elements, on sets of their indices.
Folded(f, how, base, s, m) ==
  f = [S \in SUBSET (1..m) |->
         IF S = {} THEN base ELSE Took(how, f[S \ {Max(S)}], s[Max(S)])]

LEMMA MaxIn ==
  ASSUME NEW m \in Nat, NEW s \in SUBSET (1..m), m \in s
  PROVE  Max(s) = m
<1>1. \A y \in s : m >= y
  OBVIOUS
<1>2. ASSUME NEW y \in s, \A z \in s : y >= z PROVE y = m
  <2>1. y \in Nat /\ y >= m /\ m >= y
    BY <1>1, <1>2
  <2>. QED BY <2>1
<1>. QED BY <1>1, <1>2 DEF Max

LEMMA MaxWithin ==
  ASSUME NEW m \in Nat, NEW s \in SUBSET (1..m), s # {}
  PROVE  Max(s) \in s
<1>. DEFINE S == {k \in Nat : \A t \in SUBSET (1..k) : t # {} => \E y \in t : \A z \in t : y >= z}
<1>1. 0 \in S
  <2>1. \A t \in SUBSET (1..0) : t = {}
    OBVIOUS
  <2>. QED BY <2>1
<1>2. ASSUME NEW k \in Nat, k \in S PROVE k + 1 \in S
  <2>1. SUFFICES ASSUME NEW t \in SUBSET (1..(k + 1)), t # {}
                 PROVE  \E y \in t : \A z \in t : y >= z
    OBVIOUS
  <2>2. CASE k + 1 \in t
    BY <2>2
  <2>3. CASE k + 1 \notin t
    <3>1. t \in SUBSET (1..k)
      BY <2>3
    <3>. QED BY <1>2, <2>1, <3>1
  <2>. QED BY <2>2, <2>3
<1>. HIDE DEF S
<1>3. m \in S
  BY <1>1, <1>2, CountUp
<1>4. \E y \in s : \A z \in s : y >= z
  BY <1>3 DEF S
<1>. QED BY <1>4 DEF Max

LEMMA FoldedExists ==
  ASSUME NEW how, NEW base, NEW s, NEW m \in Nat
  PROVE  \E f : Folded(f, how, base, s, m)
<1>. DEFINE N == {k \in Nat : \E f : Folded(f, how, base, s, k)}
<1>1. 0 \in N
  <2>. DEFINE f == [S \in SUBSET (1..0) |-> base]
  <2>1. SUBSET (1..0) = {{}}
    OBVIOUS
  <2>2. f = [S \in SUBSET (1..0) |->
               IF S = {} THEN base ELSE Took(how, f[S \ {Max(S)}], s[Max(S)])]
    BY <2>1
  <2>. QED BY <2>2 DEF Folded
<1>2. ASSUME NEW k \in Nat, k \in N PROVE k + 1 \in N
  <2>1. PICK g : Folded(g, how, base, s, k)
    BY <1>2
  <2>. DEFINE G(t, y) == Took(how, g[t], s[y])
              f == [S \in SUBSET (1..(k + 1)) |->
                      IF k + 1 \in S THEN G(S \ {k + 1}, k + 1) ELSE g[S]]
  <2>2. \A S \in SUBSET (1..k) : g[S] = IF S = {} THEN base ELSE G(S \ {Max(S)}, Max(S))
    BY <2>1 DEF Folded
  <2>. HIDE DEF G
  <2>3. \A S \in SUBSET (1..k) : S \in SUBSET (1..(k + 1)) /\ k + 1 \notin S
    OBVIOUS
  <2>4. \A S \in SUBSET (1..k) : f[S] = g[S]
    BY <2>3
  <2>5. ASSUME NEW S \in SUBSET (1..(k + 1))
        PROVE  f[S] = IF S = {} THEN base ELSE Took(how, f[S \ {Max(S)}], s[Max(S)])
    <3>1. CASE k + 1 \in S
      <4>1. Max(S) = k + 1 /\ S # {}
        BY <3>1, MaxIn
      <4>2. S \ {k + 1} \in SUBSET (1..k)
        OBVIOUS
      <4>3. f[S] = G(S \ {k + 1}, k + 1) /\ f[S \ {k + 1}] = g[S \ {k + 1}]
        BY <2>4, <3>1, <4>2
      <4>. HIDE DEF f
      <4>4. f[S] = Took(how, f[S \ {k + 1}], s[k + 1])
        BY <4>3 DEF G
      <4>. QED BY <4>1, <4>4
    <3>2. CASE k + 1 \notin S
      <4>1. S \in SUBSET (1..k)
        BY <3>2
      <4>2. S # {} => Max(S) \in S /\ S \ {Max(S)} \in SUBSET (1..k)
        BY <4>1, MaxWithin
      <4>3. f[S] = g[S] /\ (S # {} => f[S \ {Max(S)}] = g[S \ {Max(S)}])
        BY <2>4, <4>1, <4>2
      <4>. HIDE DEF f
      <4>4. S # {} => f[S] = G(S \ {Max(S)}, Max(S))
        BY <2>2, <4>1, <4>3
      <4>5. S = {} => f[S] = base
        BY <2>2, <4>1, <4>3
      <4>. QED BY <4>3, <4>4, <4>5 DEF G
    <3>. QED BY <3>1, <3>2
  <2>6. Folded(f, how, base, s, k + 1)
    <3>1. f = [S \in SUBSET (1..(k + 1)) |-> f[S]]
      OBVIOUS
    <3>. HIDE DEF f
    <3>. QED BY <2>5, <3>1, Zenon DEF Folded
  <2>. QED BY <2>6
<1>. HIDE DEF N
<1>3. m \in N
  BY <1>1, <1>2, CountUp
<1>. QED BY <1>3 DEF N

LEMMA Unfolded ==
  ASSUME NEW how, NEW base, NEW s, NEW m \in Nat, m = Len(s), NEW f, Folded(f, how, base, s, m)
  PROVE  \E g : Accrues(g, how, base, s) /\ g[m] = f[1..m]
<1>. DEFINE G(t, y) == Took(how, f[t], s[y])
            g == [k \in 0..m |-> f[1..k]]
<1>1. \A S \in SUBSET (1..m) : f[S] = IF S = {} THEN base ELSE G(S \ {Max(S)}, Max(S))
  BY DEF Folded
<1>. HIDE DEF G
<1>2. f[1..0] = base
  <2>1. 1..0 = {} /\ {} \in SUBSET (1..m)
    OBVIOUS
  <2>. QED BY <1>1, <2>1
<1>3. ASSUME NEW k \in 1..m PROVE f[1..k] = G(1..(k - 1), k)
  <2>1. 1..k \in SUBSET (1..m) /\ k \in 1..k /\ k \in Nat
    OBVIOUS
  <2>2. Max(1..k) = k
    BY <2>1, MaxIn
  <2>3. (1..k) \ {k} = 1..(k - 1)
    OBVIOUS
  <2>4. f[1..k] = G((1..k) \ {Max(1..k)}, Max(1..k))
    BY <1>1, <2>1
  <2>. QED BY <2>2, <2>3, <2>4
<1>4. \A k \in 1..m : k \in 0..m /\ k - 1 \in 0..m
  OBVIOUS
<1>5. \A k \in 1..m : g[k] = f[1..k] /\ g[k - 1] = f[1..(k - 1)]
  BY <1>4
<1>6. g[0] = f[1..0] /\ g[m] = f[1..m]
  OBVIOUS
<1>. HIDE DEF g
<1>7. Accrues(g, how, base, s)
  BY <1>2, <1>3, <1>5, <1>6 DEF Accrues, G
<1>. QED BY <1>6, <1>7

LEMMA FoldsText ==
  ASSUME NEW s, IsSeq(s)
  PROVE  \E g : Accrues(g, "text", 0, s) /\ g[Len(s)] = FoldLeft(AddText, 0, s)
<1>. DEFINE f == CHOOSE g : g = [S \in SUBSET DOMAIN s |->
                                   IF S = {} THEN 0
                                   ELSE AddText(g[S \ {Max(S)}], s[Max(S)])]
<1>0. Len(s) \in Nat /\ DOMAIN s = 1..Len(s)
  BY SeqIs
<1>1. FoldLeft(AddText, 0, s) = f[DOMAIN s]
  BY Zenon DEF FoldLeft, MapThenFoldSet
<1>2. \A g : Folded(g, "text", 0, s, Len(s)) <=>
          g = [S \in SUBSET DOMAIN s |->
                 IF S = {} THEN 0 ELSE AddText(g[S \ {Max(S)}], s[Max(S)])]
  <2>1. \A acc, e : Took("text", acc, e) = AddText(acc, e)
    BY DEF Took
  <2>. QED BY <1>0, <2>1, Zenon DEF Folded
<1>3. \E g : Folded(g, "text", 0, s, Len(s))
  BY <1>0, FoldedExists
<1>4. Folded(f, "text", 0, s, Len(s))
  BY <1>2, <1>3, Zenon
<1>. HIDE DEF f
<1>. QED BY <1>0, <1>1, <1>4, Unfolded

LEMMA FoldsCalls ==
  ASSUME NEW s, IsSeq(s)
  PROVE  \E g : Accrues(g, "calls", <<>>, s) /\ g[Len(s)] = FoldLeft(AddCall, <<>>, s)
<1>. DEFINE f == CHOOSE g : g = [S \in SUBSET DOMAIN s |->
                                   IF S = {} THEN <<>>
                                   ELSE AddCall(g[S \ {Max(S)}], s[Max(S)])]
<1>0. Len(s) \in Nat /\ DOMAIN s = 1..Len(s)
  BY SeqIs
<1>1. FoldLeft(AddCall, <<>>, s) = f[DOMAIN s]
  BY Zenon DEF FoldLeft, MapThenFoldSet
<1>2. \A g : Folded(g, "calls", <<>>, s, Len(s)) <=>
          g = [S \in SUBSET DOMAIN s |->
                 IF S = {} THEN <<>> ELSE AddCall(g[S \ {Max(S)}], s[Max(S)])]
  <2>1. \A acc, e : Took("calls", acc, e) = AddCall(acc, e)
    BY DEF Took
  <2>. QED BY <1>0, <2>1, Zenon DEF Folded
<1>3. \E g : Folded(g, "calls", <<>>, s, Len(s))
  BY <1>0, FoldedExists
<1>4. Folded(f, "calls", <<>>, s, Len(s))
  BY <1>2, <1>3, Zenon
<1>. HIDE DEF f
<1>. QED BY <1>0, <1>1, <1>4, Unfolded

LEMMA FoldsTurns ==
  ASSUME NEW s, IsSeq(s)
  PROVE  \E g : Accrues(g, "turns", <<>>, s) /\ g[Len(s)] = AnthropicTurns(s)
<1>. DEFINE f == CHOOSE g : g = [S \in SUBSET DOMAIN s |->
                                   IF S = {} THEN <<>>
                                   ELSE MergeInto(g[S \ {Max(S)}], s[Max(S)])]
<1>0. Len(s) \in Nat /\ DOMAIN s = 1..Len(s)
  BY SeqIs
<1>1. AnthropicTurns(s) = f[DOMAIN s]
  BY Zenon DEF AnthropicTurns, FoldLeft, MapThenFoldSet
<1>2. \A g : Folded(g, "turns", <<>>, s, Len(s)) <=>
          g = [S \in SUBSET DOMAIN s |->
                 IF S = {} THEN <<>> ELSE MergeInto(g[S \ {Max(S)}], s[Max(S)])]
  <2>1. \A acc, e : Took("turns", acc, e) = MergeInto(acc, e)
    BY DEF Took
  <2>. QED BY <1>0, <2>1, Zenon DEF Folded
<1>3. \E g : Folded(g, "turns", <<>>, s, Len(s))
  BY <1>0, FoldedExists
<1>4. Folded(f, "turns", <<>>, s, Len(s))
  BY <1>2, <1>3, Zenon
<1>. HIDE DEF f
<1>. QED BY <1>0, <1>1, <1>4, Unfolded

\* What the first n parts make, for each n.
Joined(f, s, n) == f = [i \in 1..n |-> IF i = 1 THEN s[i] ELSE f[i - 1] \o s[i]]

LEMMA JoinedExists ==
  ASSUME NEW s, NEW n \in Nat
  PROVE  \E f : Joined(f, s, n)
<1>. DEFINE N == {m \in Nat : \E f : Joined(f, s, m)}
<1>1. 0 \in N
  <2>. DEFINE f == [i \in 1..0 |-> s[i]]
  <2>1. f = [i \in 1..0 |-> IF i = 1 THEN s[i] ELSE f[i - 1] \o s[i]]
    OBVIOUS
  <2>. QED BY <2>1 DEF Joined
<1>2. ASSUME NEW m \in Nat, m \in N PROVE m + 1 \in N
  <2>1. PICK f : Joined(f, s, m)
    BY <1>2
  <2>. DEFINE last == IF m = 0 THEN s[1] ELSE f[m] \o s[m + 1]
              g == [i \in 1..(m + 1) |-> IF i = m + 1 THEN last ELSE f[i]]
              h == [i \in 1..(m + 1) |-> IF i = 1 THEN s[i] ELSE g[i - 1] \o s[i]]
  <2>. HIDE DEF last
  <2>2. \A i \in 1..m : f[i] = IF i = 1 THEN s[i] ELSE f[i - 1] \o s[i]
    BY <2>1 DEF Joined
  <2>3. (\A i \in 1..m : g[i] = f[i]) /\ g[m + 1] = last
    OBVIOUS
  <2>4. ASSUME NEW i \in 1..(m + 1) PROVE g[i] = h[i]
    <3>1. CASE i = m + 1 /\ m # 0
      <4>1. i # 1 /\ i - 1 = m /\ m \in 1..m
        BY <3>1
      <4>2. h[i] = g[i - 1] \o s[i]
        BY <4>1
      <4>3. g[m] = f[m]
        BY <2>3, <4>1
      <4>. HIDE DEF g, h
      <4>4. h[i] = last
        BY <3>1, <4>1, <4>2, <4>3 DEF last
      <4>. QED BY <2>3, <3>1, <4>4
    <3>2. CASE i = m + 1 /\ m = 0
      <4>1. i = 1 /\ h[i] = s[1]
        BY <3>2
      <4>. HIDE DEF g, h
      <4>. QED BY <2>3, <3>2, <4>1 DEF last
    <3>3. CASE i # m + 1 /\ i # 1
      <4>1. i \in 1..m /\ i - 1 \in 1..m
        BY <3>3
      <4>. QED BY <2>2, <2>3, <3>3, <4>1
    <3>4. CASE i # m + 1 /\ i = 1
      <4>1. i \in 1..m
        BY <3>4
      <4>. QED BY <2>2, <2>3, <3>4, <4>1
    <3>. QED BY <3>1, <3>2, <3>3, <3>4
  <2>5. g = h
    <3>1. DOMAIN g = DOMAIN h
      OBVIOUS
    <3>. QED BY <2>4, <3>1
  <2>6. Joined(g, s, m + 1)
    BY <2>5 DEF Joined
  <2>. HIDE DEF g
  <2>. QED BY <2>6
<1>. HIDE DEF N
<1>3. n \in N
  BY <1>1, <1>2, CountUp
<1>. QED BY <1>3 DEF N

AllSeqs(s) == \A i \in 1..Len(s) : IsSeq(s[i])

\* What is made flat grows part by part.
Grows(g, s) == g[0] = <<>> /\ \A k \in 1..Len(s) : g[k] = g[k - 1] \o s[k]

LEMMA FlattenGrows ==
  ASSUME NEW s, IsSeq(s), AllSeqs(s)
  PROVE  \E g : Grows(g, s) /\ FlattenSeq(s) = g[Len(s)]
<1>. DEFINE n == Len(s)
<1>1. n \in Nat /\ (n = 0 => s = <<>>)
  BY SeqIs
<1>2. CASE n = 0
  <2>. DEFINE g == [k \in 0..0 |-> <<>>]
  <2>1. g[0] = <<>> /\ FlattenSeq(s) = <<>> /\ Len(s) = 0
    BY <1>1, <1>2 DEF FlattenSeq
  <2>. HIDE DEF g
  <2>2. Grows(g, s)
    BY <2>1 DEF Grows
  <2>. QED BY <2>1, <2>2
<1>3. CASE n # 0
  <2>. DEFINE f == CHOOSE g : g = [i \in 1..Len(s) |-> IF i = 1 THEN s[i] ELSE g[i - 1] \o s[i]]
  <2>1. FlattenSeq(s) = f[Len(s)]
    BY <1>3 DEF FlattenSeq
  <2>2. Joined(f, s, n)
    BY <1>1, JoinedExists DEF Joined
  <2>. HIDE DEF f
  <2>3. \A i \in 1..n : f[i] = IF i = 1 THEN s[i] ELSE f[i - 1] \o s[i]
    BY <2>2 DEF Joined
  <2>. DEFINE g == [k \in 0..n |-> IF k = 0 THEN <<>> ELSE f[k]]
  <2>4. ASSUME NEW k \in 1..n PROVE g[k] = g[k - 1] \o s[k]
    <3>1. g[k] = f[k]
      BY <1>1
    <3>2. CASE k = 1
      <4>1. g[k - 1] = <<>>
        BY <3>2
      <4>2. IsSeq(s[k])
        BY DEF AllSeqs
      <4>. QED BY <2>3, <3>1, <3>2, <4>1, <4>2, AfterNothing
    <3>3. CASE k # 1
      <4>1. g[k - 1] = f[k - 1]
        BY <1>1, <3>3
      <4>. QED BY <2>3, <3>1, <3>3, <4>1
    <3>. QED BY <3>2, <3>3
  <2>5. g[0] = <<>> /\ g[n] = f[n]
    BY <1>1, <1>3
  <2>. HIDE DEF g
  <2>6. Grows(g, s)
    BY <2>4, <2>5 DEF Grows
  <2>. QED BY <2>1, <2>5, <2>6
<1>. QED BY <1>2, <1>3

----------------------------------------------------------------------------
(* What an adapter makes of a wire, and the accumulator of that            *)

\* Some event is one that a strict validator never lets through: the adapters give
\* the delta of a call without the call's id.
Dooms(e) == e.type = "TOOL_CALL_DELTA" /\ e.id = 0
Doomed(out) == \E k \in 1..Len(out) : Dooms(out[k])

\* Accumulating the events of out leads from acc to goal.
Leads(acc, out, goal) ==
  /\ IsSeq(out)
  /\ \E f : /\ f[0] = acc /\ f[Len(out)] = goal
            /\ \A k \in 1..Len(out) : f[k] = Accumulated(f[k - 1], out[k])

\* A state s is [ad, acc, is]: the adapter's, what is accumulated of its events, and
\* whether all of them may pass.  An event of the wire leads to the state t.
Fed(p, s, w, t) ==
  IF s.is # "open" THEN t = s
  ELSE LET to == Adapt(p, s.ad, w)
       IN /\ IsSeq(to.out)
          /\ t.ad = to.st /\ t.is = IF Doomed(to.out) THEN "doomed" ELSE "open"
          /\ t.is = "open" => Leads(s.acc, to.out, t.acc)

Run(p, s, w, t) ==
  \E f : /\ f[0] = s /\ f[Len(w)] = t
         /\ \A k \in 1..Len(w) : Fed(p, f[k - 1], w[k], f[k])

LEMMA LeadsNowhere == \A acc : Leads(acc, <<>>, acc) /\ ~Doomed(<<>>)
<1>. SUFFICES ASSUME NEW acc PROVE Leads(acc, <<>>, acc) /\ ~Doomed(<<>>)
  OBVIOUS
<1>. DEFINE f == [k \in 0..0 |-> acc]
<1>1. f[0] = acc /\ Len(<<>>) = 0
  OBVIOUS
<1>. HIDE DEF f
<1>. QED BY <1>1, EmptyIs DEF Leads, Doomed

LEMMA LeadsOne ==
  ASSUME NEW acc, NEW e
  PROVE  /\ Leads(acc, <<e>>, Accumulated(acc, e))
         /\ Doomed(<<e>>) <=> Dooms(e)
<1>. DEFINE f == [k \in 0..1 |-> IF k = 0 THEN acc ELSE Accumulated(acc, e)]
            out == <<e>>
<1>1. f[0] = acc /\ f[1] = Accumulated(acc, e) /\ Len(out) = 1 /\ out[1] = e
  OBVIOUS
<1>0. IsSeq(out)
  BY OneIs
<1>2. \A k \in 1..1 : k = 1 /\ k - 1 = 0
  OBVIOUS
<1>. HIDE DEF f, out
<1>3. Leads(acc, out, Accumulated(acc, e))
  BY <1>0, <1>1, <1>2 DEF Leads
<1>4. Doomed(out) <=> Dooms(e)
  BY <1>1, <1>2 DEF Doomed
<1>. QED BY <1>3, <1>4 DEF out

LEMMA LeadsTwo ==
  ASSUME NEW acc, NEW d, NEW e
  PROVE  /\ Leads(acc, <<d, e>>, Accumulated(Accumulated(acc, d), e))
         /\ Doomed(<<d, e>>) <=> Dooms(d) \/ Dooms(e)
<1>. DEFINE f == [k \in 0..2 |-> IF k = 0 THEN acc ELSE IF k = 1 THEN Accumulated(acc, d)
                                ELSE Accumulated(Accumulated(acc, d), e)]
            out == <<d, e>>
<1>1. /\ f[0] = acc /\ f[1] = Accumulated(acc, d)
      /\ f[2] = Accumulated(Accumulated(acc, d), e)
      /\ Len(out) = 2 /\ out[1] = d /\ out[2] = e
  OBVIOUS
<1>0. IsSeq(out)
  BY TwoIs
<1>2. \A k \in 1..2 : (k = 1 /\ k - 1 = 0) \/ (k = 2 /\ k - 1 = 1)
  OBVIOUS
<1>. HIDE DEF f, out
<1>3. Leads(acc, out, Accumulated(Accumulated(acc, d), e))
  BY <1>0, <1>1, <1>2 DEF Leads
<1>4. Doomed(out) <=> Dooms(d) \/ Dooms(e)
  BY <1>1, <1>2 DEF Doomed
<1>. QED BY <1>3, <1>4 DEF out

\* One event less.
LEMMA LeadsOn ==
  ASSUME NEW acc, NEW out, IsSeq(out), out # <<>>, NEW goal, Leads(acc, out, goal)
  PROVE  Leads(Accumulated(acc, Head(out)), Tail(out), goal)
<1>1. PICK f : /\ f[0] = acc /\ f[Len(out)] = goal
               /\ \A k \in 1..Len(out) : f[k] = Accumulated(f[k - 1], out[k])
  BY DEF Leads
<1>2. /\ Len(out) \in Nat \ {0} /\ Len(Tail(out)) = Len(out) - 1 /\ Head(out) = out[1]
      /\ \A k \in 1..(Len(out) - 1) : Tail(out)[k] = out[k + 1]
  BY DEF IsSeq
<1>. DEFINE n == Len(out) - 1
            g == [k \in 0..n |-> f[k + 1]]
            rest == Tail(out)
<1>3. \A k \in 0..n : g[k] = f[k + 1]
  OBVIOUS
<1>. HIDE DEF g
<1>4. n \in Nat /\ 0 \in 0..n /\ n \in 0..n /\ n + 1 = Len(out) /\ 0 + 1 = 1
  BY <1>2
<1>5. g[0] = Accumulated(acc, Head(out)) /\ g[n] = goal
  BY <1>1, <1>2, <1>3, <1>4
<1>6. ASSUME NEW k \in 1..n PROVE g[k] = Accumulated(g[k - 1], rest[k])
  <2>1. k \in 0..n /\ k - 1 \in 0..n /\ k + 1 \in 1..Len(out) /\ (k + 1) - 1 = k /\ (k - 1) + 1 = k
    BY <1>2
  <2>2. f[k + 1] = Accumulated(f[(k + 1) - 1], out[k + 1])
    BY <1>1, <2>1
  <2>. QED BY <1>2, <1>3, <2>1, <2>2
<1>. HIDE DEF n
<1>7. Len(rest) = n
  BY <1>2 DEF n
<1>8. IsSeq(rest)
  <2>1. PICK S : out \in Seq(S)
    BY DEF IsSeq
  <2>2. rest \in Seq(S)
    BY <2>1
  <2>. QED BY <2>2 DEF IsSeq
<1>. HIDE DEF rest
<1>9. Leads(Accumulated(acc, Head(out)), rest, goal)
  BY <1>5, <1>6, <1>7, <1>8 DEF Leads
<1>. QED BY <1>9 DEF rest

LEMMA RunNothing ==
  ASSUME NEW p, NEW s
  PROVE  Run(p, s, <<>>, s)
<1>. DEFINE f == [k \in 0..0 |-> s]
<1>1. f[0] = s /\ Len(<<>>) = 0
  OBVIOUS
<1>. HIDE DEF f
<1>. QED BY <1>1 DEF Run

LEMMA RunOne ==
  ASSUME NEW p, NEW s, NEW w, NEW t, Fed(p, s, w, t)
  PROVE  Run(p, s, <<w>>, t)
<1>. DEFINE f == [k \in 0..1 |-> IF k = 0 THEN s ELSE t]
            ws == <<w>>
<1>1. f[0] = s /\ f[1] = t /\ Len(ws) = 1 /\ ws[1] = w
  OBVIOUS
<1>2. \A k \in 1..1 : k = 1 /\ k - 1 = 0
  OBVIOUS
<1>. HIDE DEF f, ws
<1>3. Run(p, s, ws, t)
  BY <1>1, <1>2 DEF Run
<1>. QED BY <1>3 DEF ws

LEMMA RunBoth ==
  ASSUME NEW p, NEW s, NEW u, IsSeq(u), NEW r, Run(p, s, u, r),
         NEW w, IsSeq(w), NEW t, Run(p, r, w, t)
  PROVE  Run(p, s, u \o w, t)
<1>. DEFINE m == Len(u)
            n == Len(w)
            q == u \o w
<1>1. PICK f : f[0] = s /\ f[m] = r /\ \A k \in 1..m : Fed(p, f[k - 1], u[k], f[k])
  BY DEF Run
<1>2. PICK g : g[0] = r /\ g[n] = t /\ \A k \in 1..n : Fed(p, g[k - 1], w[k], g[k])
  BY DEF Run
<1>c. m \in Nat /\ n \in Nat /\ Len(q) = m + n
  BY Concatenated
<1>d. \A k \in 1..m : q[k] = u[k]
  BY Concatenated
<1>e. \A k \in 1..n : q[m + k] = w[k]
  BY Concatenated
<1>3. /\ m \in Nat /\ n \in Nat /\ Len(q) = m + n
      /\ \A k \in 1..m : q[k] = u[k]
      /\ \A k \in 1..n : q[m + k] = w[k]
  BY <1>c, <1>d, <1>e, Zenon
<1>. HIDE DEF m, n, q
<1>. DEFINE h == [k \in 0..(m + n) |-> IF k <= m THEN f[k] ELSE g[k - m]]
<1>4. \A k \in 0..m : h[k] = f[k]
  BY <1>3
<1>5. ASSUME NEW k \in 0..n PROVE h[m + k] = g[k]
  <2>1. m + k \in 0..(m + n) /\ (m + k) - m = k
    BY <1>3
  <2>2. CASE k = 0
    <3>1. h[m + k] = f[m]
      BY <1>3, <2>1, <2>2
    <3>. QED BY <1>1, <1>2, <2>2, <3>1
  <2>3. CASE k # 0
    <3>1. ~(m + k <= m)
      BY <1>3, <2>3
    <3>2. h[m + k] = g[(m + k) - m]
      BY <2>1, <3>1
    <3>. QED BY <2>1, <3>2
  <2>. QED BY <2>2, <2>3
<1>. HIDE DEF h
<1>6. h[0] = s /\ h[Len(q)] = t
  BY <1>1, <1>2, <1>3, <1>4, <1>5
<1>7. ASSUME NEW k \in 1..Len(q) PROVE Fed(p, h[k - 1], q[k], h[k])
  <2>1. CASE k <= m
    <3>1. k \in 1..m /\ k \in 0..m /\ k - 1 \in 0..m
      BY <1>3, <2>1
    <3>. QED BY <1>1, <1>3, <1>4, <3>1
  <2>2. CASE ~(k <= m)
    <3>. DEFINE i == k - m
    <3>1. i \in 1..n /\ i \in 0..n /\ i - 1 \in 0..n /\ k = m + i /\ k - 1 = m + (i - 1)
      BY <1>3, <2>2
    <3>. HIDE DEF i
    <3>2. q[k] = w[i] /\ h[k] = g[i] /\ h[k - 1] = g[i - 1]
      BY <1>3, <1>5, <3>1
    <3>. QED BY <1>2, <3>1, <3>2
  <2>. QED BY <2>1, <2>2
<1>8. Run(p, s, q, t)
  BY <1>6, <1>7 DEF Run
<1>. QED BY <1>8 DEF q

\* What was doomed stays so.
LEMMA RunDoomed ==
  ASSUME NEW p, NEW s, s.is # "open", NEW w, IsSeq(w)
  PROVE  Run(p, s, w, s)
<1>. DEFINE f == [k \in 0..Len(w) |-> s]
<1>1. Len(w) \in Nat
  BY SeqIs
<1>2. /\ f[0] = s /\ f[Len(w)] = s
      /\ \A k \in 1..Len(w) : f[k] = s /\ f[k - 1] = s
  BY <1>1
<1>. HIDE DEF f
<1>. QED BY <1>2 DEF Run, Fed

\* One event of the wire less.
LEMMA RunOn ==
  ASSUME NEW p, NEW s, NEW w, IsSeq(w), w # <<>>, NEW t, Run(p, s, w, t)
  PROVE  \E r : Fed(p, s, Head(w), r) /\ Run(p, r, Tail(w), t)
<1>1. PICK f : /\ f[0] = s /\ f[Len(w)] = t
               /\ \A k \in 1..Len(w) : Fed(p, f[k - 1], w[k], f[k])
  BY DEF Run
<1>2. /\ Len(w) \in Nat \ {0} /\ Len(Tail(w)) = Len(w) - 1 /\ Head(w) = w[1]
      /\ \A k \in 1..(Len(w) - 1) : Tail(w)[k] = w[k + 1]
  BY DEF IsSeq
<1>. DEFINE n == Len(w) - 1
            g == [k \in 0..n |-> f[k + 1]]
            rest == Tail(w)
<1>3. \A k \in 0..n : g[k] = f[k + 1]
  OBVIOUS
<1>. HIDE DEF g
<1>4. /\ n \in Nat /\ 0 \in 0..n /\ n \in 0..n /\ n + 1 = Len(w) /\ 0 + 1 = 1
      /\ 1 \in 1..Len(w) /\ 1 - 1 = 0
  BY <1>2
<1>5. g[0] = f[1] /\ g[n] = t
  BY <1>1, <1>3, <1>4
<1>6. ASSUME NEW k \in 1..n PROVE Fed(p, g[k - 1], rest[k], g[k])
  <2>1. k \in 0..n /\ k - 1 \in 0..n /\ k + 1 \in 1..Len(w) /\ (k + 1) - 1 = k /\ (k - 1) + 1 = k
    BY <1>2
  <2>2. Fed(p, f[(k + 1) - 1], w[k + 1], f[k + 1])
    BY <1>1, <2>1
  <2>. QED BY <1>2, <1>3, <2>1, <2>2
<1>7. Fed(p, f[1 - 1], w[1], f[1])
  BY <1>1, <1>4
<1>. HIDE DEF n
<1>8. Len(rest) = n
  BY <1>2 DEF n
<1>9. Run(p, f[1], rest, t)
  BY <1>5, <1>6, <1>8 DEF Run
<1>. QED BY <1>1, <1>2, <1>4, <1>7, <1>9

Reasons == {"stop", "length", "tool_calls", "content_filter", "other"}
AdStates == [text : BOOLEAN, call : Nat, open : Seq(Nat), seen : BOOLEAN, reason : Reasons]
Accs == [text : Nat, thinking : BOOLEAN, calls : Seq(Nat), reason : Reasons]

\* So much of the answer is told: Chat Completions ends its calls with the answer only.
Told(p, s, text, calls, thinking) ==
  s.is = "open" =>
    /\ s.ad \in AdStates /\ s.acc \in Accs
    /\ s.acc.text = text /\ s.acc.thinking = thinking
    /\ IF p = "compat" THEN s.acc.calls = <<>> /\ s.ad.open = calls
       ELSE s.acc.calls = calls /\ s.ad.open = <<>>

State(st, acc, is) == [ad |-> st, acc |-> acc, is |-> is]

LEMMA FedNone ==
  ASSUME NEW p, NEW s, s.is = "open", NEW w, NEW st, Adapt(p, s.ad, w) = Keep(st)
  PROVE  Fed(p, s, w, State(st, s.acc, "open"))
<1>1. Keep(st).st = st /\ Keep(st).out = <<>>
  BY DEF Keep
<1>2. /\ State(st, s.acc, "open").ad = st /\ State(st, s.acc, "open").acc = s.acc
      /\ State(st, s.acc, "open").is = "open"
  BY DEF State
<1>3. Leads(s.acc, <<>>, s.acc) /\ ~Doomed(<<>>)
  BY LeadsNowhere
<1>. QED BY <1>1, <1>2, <1>3, EmptyIs DEF Fed

LEMMA FedOut ==
  ASSUME NEW p, NEW s, s.is = "open", NEW w, NEW st, NEW out, Adapt(p, s.ad, w) = Give(st, out),
         NEW goal, Leads(s.acc, out, goal), ~Doomed(out)
  PROVE  Fed(p, s, w, State(st, goal, "open"))
<1>1. Give(st, out).st = st /\ Give(st, out).out = out /\ IsSeq(out)
  BY DEF Give, Leads
<1>2. /\ State(st, goal, "open").ad = st /\ State(st, goal, "open").acc = goal
      /\ State(st, goal, "open").is = "open"
  BY DEF State
<1>. QED BY <1>1, <1>2 DEF Fed

LEMMA FedDoomed ==
  ASSUME NEW p, NEW s, s.is = "open", NEW w, NEW st, NEW out, Adapt(p, s.ad, w) = Give(st, out),
         Doomed(out), IsSeq(out)
  PROVE  Fed(p, s, w, State(st, s.acc, "doomed"))
<1>1. Give(st, out).st = st /\ Give(st, out).out = out
  BY DEF Give
<1>2. /\ State(st, s.acc, "doomed").ad = st /\ State(st, s.acc, "doomed").is = "doomed"
  BY DEF State
<1>. QED BY <1>1, <1>2 DEF Fed

LEMMA EventIs ==
  ASSUME NEW type, NEW id, NEW reason
  PROVE  /\ Event(type, id, reason).type = type /\ Event(type, id, reason).id = id
         /\ Event(type, id, reason).reason = reason
         /\ Plain(type).type = type /\ Plain(type).id = 0
BY DEF Event, Plain

\* What one event adds.
LEMMA AccumulatedIs ==
  ASSUME NEW acc \in Accs, NEW e
  PROVE  /\ e.type = "TEXT_DELTA" => Accumulated(acc, e) = [acc EXCEPT !.text = @ + 1]
         /\ e.type = "REASONING_DELTA" => Accumulated(acc, e) = [acc EXCEPT !.thinking = TRUE]
         /\ e.type = "TOOL_CALL_END" =>
              Accumulated(acc, e) = [acc EXCEPT !.calls = Append(acc.calls, e.id)]
         /\ e.type = "FINISH" => Accumulated(acc, e) = [acc EXCEPT !.reason = e.reason]
         /\ e.type \notin {"TEXT_DELTA", "REASONING_DELTA", "TOOL_CALL_END", "FINISH"} =>
              Accumulated(acc, e) = acc
<1>1. CASE e.type = "TEXT_DELTA"
  BY <1>1 DEF Accumulated
<1>2. CASE e.type = "REASONING_DELTA"
  BY <1>2 DEF Accumulated
<1>3. CASE e.type = "TOOL_CALL_END"
  BY <1>3 DEF Accumulated
<1>4. CASE e.type = "FINISH"
  BY <1>4 DEF Accumulated
<1>5. CASE e.type \notin {"TEXT_DELTA", "REASONING_DELTA", "TOOL_CALL_END", "FINISH"}
  BY <1>5 DEF Accumulated
<1>. QED BY <1>1, <1>2, <1>3, <1>4, <1>5

LEMMA WireIs ==
  ASSUME NEW w, NEW kind, NEW id
  PROVE  Wire(w, kind, id).w = w /\ Wire(w, kind, id).kind = kind /\ Wire(w, kind, id).id = id
BY DEF Wire

----------------------------------------------------------------------------
(* What a block makes of it                                                *)

\* A step that gives one event, which is no FINISH and no end or delta of a call.
LEMMA TextDelta ==
  ASSUME NEW p \in Providers, NEW s, s.is = "open", NEW id, NEW text \in Nat, NEW calls, NEW thinking,
         Told(p, s, text, calls, thinking)
  PROVE  \E t : /\ Fed(p, s, Wire("delta", "text", id), t) /\ t.is = "open"
                /\ Told(p, t, text + 1, calls, thinking)
<1>. DEFINE w == Wire("delta", "text", id)
            st == IF p = "anthropic" THEN s.ad ELSE [s.ad EXCEPT !.text = TRUE]
            e == Plain("TEXT_DELTA")
            d == Plain("TEXT_START")
            goal == [s.acc EXCEPT !.text = @ + 1]
            t == State(st, goal, "open")
<1>1. w.w = "delta" /\ w.kind = "text"
  BY WireIs
<1>2. s.ad \in AdStates /\ s.acc \in Accs
  BY DEF Told
<1>3. e.type = "TEXT_DELTA" /\ d.type = "TEXT_START" /\ ~Dooms(d) /\ ~Dooms(e)
  BY EventIs DEF Dooms
<1>. HIDE DEF w
<1>4. (<<>> \o <<e>>) = <<e>> /\ (<<d>> \o <<e>>) = <<d, e>>
  <2>. HIDE DEF d, e
  <2>. QED BY OneIs, TwoIs, AfterNothing
<1>5. \/ Adapt(p, s.ad, w) = Give(st, <<e>>)
      \/ Adapt(p, s.ad, w) = Give(st, <<d, e>>)
  <2>1. CASE p = "anthropic"
    BY <1>1, <2>1 DEF Adapt, AnthropicEvent
  <2>2. CASE p = "openai"
    <3>1. Adapt(p, s.ad, w) = Give(st, (IF s.ad.text THEN <<>> ELSE <<d>>) \o <<e>>)
      BY <1>1, <2>2 DEF Adapt, OpenAIEvent
    <3>. HIDE DEF st, d, e
    <3>. QED BY <1>2, <1>4, <3>1
  <2>3. CASE p = "compat"
    <3>1. Adapt(p, s.ad, w) = Give(st, (IF s.ad.text THEN <<>> ELSE <<d>>) \o <<e>>)
      BY <1>1, <2>3 DEF Adapt, CompatEvent
    <3>. HIDE DEF st, d, e
    <3>. QED BY <1>2, <1>4, <3>1
  <2>4. CASE p = "gemini"
    <3>1. Adapt(p, s.ad, w) = Give(st, (IF s.ad.text THEN <<>> ELSE <<d>>) \o <<e>>)
      BY <1>1, <2>4 DEF Adapt, GeminiEvent
    <3>. HIDE DEF st, d, e
    <3>. QED BY <1>2, <1>4, <3>1
  <2>. QED BY <2>1, <2>2, <2>3, <2>4 DEF Providers
<1>6. Accumulated(s.acc, d) = s.acc /\ Accumulated(s.acc, e) = goal
  <2>. HIDE DEF d, e
  <2>. QED BY <1>2, <1>3, AccumulatedIs
<1>7. /\ Leads(s.acc, <<e>>, goal) /\ ~Doomed(<<e>>)
      /\ Leads(s.acc, <<d, e>>, goal) /\ ~Doomed(<<d, e>>)
  <2>. HIDE DEF d, e, goal
  <2>1. Leads(s.acc, <<e>>, goal) /\ ~Doomed(<<e>>)
    BY <1>3, <1>6, LeadsOne
  <2>2. Accumulated(Accumulated(s.acc, d), e) = goal
    BY <1>6
  <2>3. Leads(s.acc, <<d, e>>, goal) /\ ~Doomed(<<d, e>>)
    BY <1>3, <2>2, LeadsTwo
  <2>. QED BY <2>1, <2>3
<1>8. Fed(p, s, w, t)
  <2>. HIDE DEF st, d, e, goal
  <2>. QED BY <1>5, <1>7, FedOut
<1>9. t.is = "open" /\ t.ad = st /\ t.acc = goal
  BY DEF State
<1>10. Told(p, t, text + 1, calls, thinking)
  <2>1. st \in AdStates /\ st.open = s.ad.open
    BY <1>2 DEF AdStates
  <2>2. /\ goal \in Accs /\ goal.text = s.acc.text + 1 /\ goal.thinking = s.acc.thinking
        /\ goal.calls = s.acc.calls
    BY <1>2 DEF Accs
  <2>. HIDE DEF t, st, goal
  <2>. QED BY <1>9, <2>1, <2>2 DEF Told
<1>. QED BY <1>8, <1>9, <1>10 DEF w

LEMMA ThinkingDelta ==
  ASSUME NEW s, s.is = "open", NEW id, NEW text, NEW calls, NEW thinking,
         Told("anthropic", s, text, calls, thinking)
  PROVE  \E t : /\ Fed("anthropic", s, Wire("delta", "thinking", id), t) /\ t.is = "open"
                /\ Told("anthropic", t, text, calls, TRUE)
<1>. DEFINE w == Wire("delta", "thinking", id)
            e == Plain("REASONING_DELTA")
            goal == [s.acc EXCEPT !.thinking = TRUE]
            t == State(s.ad, goal, "open")
<1>1. w.w = "delta" /\ w.kind = "thinking"
  BY WireIs
<1>2. s.ad \in AdStates /\ s.acc \in Accs
  BY DEF Told
<1>3. e.type = "REASONING_DELTA" /\ ~Dooms(e)
  BY EventIs DEF Dooms
<1>. HIDE DEF w
<1>4. Adapt("anthropic", s.ad, w) = Give(s.ad, <<e>>)
  BY <1>1 DEF Adapt, AnthropicEvent
<1>. HIDE DEF e
<1>5. Accumulated(s.acc, e) = goal
  BY <1>2, <1>3, AccumulatedIs
<1>. HIDE DEF goal
<1>6. Leads(s.acc, <<e>>, goal) /\ ~Doomed(<<e>>)
  BY <1>3, <1>5, LeadsOne
<1>7. Fed("anthropic", s, w, t)
  BY <1>4, <1>6, FedOut
<1>8. t.is = "open" /\ t.ad = s.ad /\ t.acc = goal
  BY DEF State
<1>9. /\ goal \in Accs /\ goal.text = s.acc.text /\ goal.thinking = TRUE
      /\ goal.calls = s.acc.calls
  BY <1>2 DEF Accs, goal
<1>. HIDE DEF t
<1>10. Told("anthropic", t, text, calls, TRUE)
  BY <1>8, <1>9 DEF Told
<1>. QED BY <1>7, <1>8, <1>10 DEF w

\* The delta of a call dooms the stream; Gemini's calls have none.
LEMMA CallDelta ==
  ASSUME NEW p \in Providers \ {"gemini"}, NEW s, s.is = "open", NEW id
  PROVE  \E t : Fed(p, s, Wire("delta", "call", id), t) /\ t.is = "doomed"
<1>. DEFINE w == Wire("delta", "call", id)
            to == Adapt(p, s.ad, w)
            e == Plain("TOOL_CALL_DELTA")
            d == Event("TOOL_CALL_START", w.id, "none")
<1>1. w.w = "delta" /\ w.kind = "call"
  BY WireIs
<1>2. Dooms(e)
  BY EventIs DEF Dooms
<1>. HIDE DEF w
<1>3. (<<>> \o <<e>>) = <<e>> /\ (<<d>> \o <<e>>) = <<d, e>>
  <2>. HIDE DEF d, e
  <2>. QED BY OneIs, TwoIs, AfterNothing
<1>4. \E st : to = Give(st, <<e>>) \/ to = Give(st, <<d, e>>)
  <2>1. CASE p = "anthropic"
    BY <1>1, <2>1 DEF Adapt, AnthropicEvent
  <2>2. CASE p = "openai"
    <3>. DEFINE st == [s.ad EXCEPT !.call = IF s.ad.seen THEN @ ELSE w.id, !.seen = TRUE]
    <3>1. to = Give(st, (IF s.ad.seen THEN <<>> ELSE <<d>>) \o <<e>>)
      BY <1>1, <2>2 DEF Adapt, OpenAIEvent
    <3>. HIDE DEF st, d, e
    <3>2. CASE s.ad.seen
      BY <1>3, <3>1, <3>2
    <3>3. CASE ~s.ad.seen
      BY <1>3, <3>1, <3>3
    <3>. QED BY <3>2, <3>3
  <2>3. CASE p = "compat"
    BY <1>1, <2>3 DEF Adapt, CompatEvent
  <2>. QED BY <2>1, <2>2, <2>3 DEF Providers
<1>. HIDE DEF e, d
<1>5. Doomed(<<e>>) /\ Doomed(<<d, e>>) /\ IsSeq(<<e>>) /\ IsSeq(<<d, e>>)
  BY <1>2, LeadsOne, LeadsTwo, OneIs, TwoIs
<1>6. PICK st : to = Give(st, <<e>>) \/ to = Give(st, <<d, e>>)
  BY <1>4
<1>. DEFINE t == State(st, s.acc, "doomed")
<1>7. Fed(p, s, w, t)
  BY <1>5, <1>6, FedDoomed
<1>8. t.is = "doomed"
  BY DEF State
<1>. HIDE DEF t
<1>. QED BY <1>7, <1>8 DEF w

\* So much does a block tell of the text, when n of its deltas are streamed.
Adds(kind, n) == IF kind = "text" THEN n ELSE 0
Thinks(thinking, kind, n) == IF kind = "thinking" /\ n > 0 THEN TRUE ELSE thinking

LEMMA OneDelta ==
  ASSUME NEW p \in Providers, NEW kind \in {"text", "thinking", "call"},
         kind = "thinking" => p = "anthropic", kind = "call" => p # "gemini", NEW id,
         NEW s, NEW text \in Nat, NEW calls, NEW thinking,
         Told(p, s, text, calls, thinking)
  PROVE  \E t : /\ Fed(p, s, Wire("delta", kind, id), t)
                /\ Told(p, t, text + Adds(kind, 1), calls, Thinks(thinking, kind, 1))
                /\ kind = "call" => t.is # "open"
<1>1. CASE s.is # "open"
  <2>1. Fed(p, s, Wire("delta", kind, id), s)
    BY <1>1 DEF Fed
  <2>2. Told(p, s, text + Adds(kind, 1), calls, Thinks(thinking, kind, 1))
    BY <1>1 DEF Told
  <2>. QED BY <1>1, <2>1, <2>2
<1>2. CASE s.is = "open" /\ kind = "text"
  <2>1. PICK t : /\ Fed(p, s, Wire("delta", kind, id), t) /\ t.is = "open"
                 /\ Told(p, t, text + 1, calls, thinking)
    BY <1>2, TextDelta
  <2>2. Adds(kind, 1) = 1 /\ Thinks(thinking, kind, 1) = thinking
    BY <1>2 DEF Adds, Thinks
  <2>. QED BY <1>2, <2>1, <2>2
<1>3. CASE s.is = "open" /\ kind = "thinking"
  <2>1. PICK t : /\ Fed(p, s, Wire("delta", kind, id), t) /\ t.is = "open"
                 /\ Told(p, t, text, calls, TRUE)
    BY <1>3, ThinkingDelta
  <2>2. text + Adds(kind, 1) = text /\ Thinks(thinking, kind, 1) = TRUE
    BY <1>3 DEF Adds, Thinks
  <2>. QED BY <1>3, <2>1, <2>2
<1>4. CASE s.is = "open" /\ kind = "call"
  <2>1. p \in Providers \ {"gemini"}
    BY <1>4
  <2>2. PICK t : Fed(p, s, Wire("delta", kind, id), t) /\ t.is = "doomed"
    BY <1>4, <2>1, CallDelta
  <2>3. Told(p, t, text + Adds(kind, 1), calls, Thinks(thinking, kind, 1))
    BY <2>2 DEF Told
  <2>. QED BY <2>2, <2>3
<1>. QED BY <1>1, <1>2, <1>3, <1>4

LEMMA RepeatedIs ==
  ASSUME NEW w, NEW n \in Nat
  PROVE  /\ IsSeq(Repeated(w, n)) /\ Repeated(w, 0) = <<>>
         /\ Repeated(w, n + 1) = Repeated(w, n) \o <<w>>
<1>. DEFINE u == Repeated(w, n)
            v == Repeated(w, n + 1)
            o == <<w>>
            q == u \o o
<1>1. u \in Seq({w}) /\ v \in Seq({w}) /\ Len(u) = n /\ Len(v) = n + 1
      /\ \A k \in 1..n : u[k] = w
  BY DEF Repeated
<1>2. \A k \in 1..(n + 1) : v[k] = w
  BY DEF Repeated
<1>3. Repeated(w, 0) = <<>>
  BY DEF Repeated
<1>4. Len(o) = 1 /\ o[1] = w
  OBVIOUS
<1>a. IsSeq(u) /\ IsSeq(v) /\ IsSeq(o)
  BY <1>1, OneIs DEF IsSeq
<1>. HIDE DEF u, v, o
<1>5. IsSeq(q) /\ Len(q) = Len(u) + Len(o)
  BY <1>a, Concatenated
<1>6. \A k \in 1..Len(u) : q[k] = u[k]
  BY <1>a, Concatenated
<1>7. \A k \in 1..Len(o) : q[Len(u) + k] = o[k]
  BY <1>a, Concatenated
<1>. HIDE DEF q
<1>8. Len(q) = n + 1
  BY <1>1, <1>4, <1>5
<1>9. q[n + 1] = w
  BY <1>1, <1>4, <1>7
<1>10. \A k \in 1..(n + 1) : q[k] = w
  <2>1. \A k \in 1..(n + 1) : k \in 1..n \/ k = n + 1
    OBVIOUS
  <2>. QED BY <1>1, <1>6, <1>9, <2>1
<1>11. v = q
  BY <1>1, <1>2, <1>a, <1>5, <1>8, <1>10, SameSeq
<1>. QED BY <1>3, <1>a, <1>11 DEF u, v, o, q

LEMMA Deltas ==
  ASSUME NEW p \in Providers, NEW kind \in {"text", "thinking", "call"},
         kind = "thinking" => p = "anthropic", kind = "call" => p # "gemini", NEW id, NEW n \in Nat,
         NEW s, NEW text \in Nat, NEW calls, NEW thinking,
         Told(p, s, text, calls, thinking)
  PROVE  \E t : /\ Run(p, s, Repeated(Wire("delta", kind, id), n), t)
                /\ Told(p, t, text + Adds(kind, n), calls, Thinks(thinking, kind, n))
                /\ kind = "call" /\ n > 0 => t.is # "open"
                /\ n = 0 => t = s
<1>. DEFINE w == Wire("delta", kind, id)
            Good(m, t) == /\ Run(p, s, Repeated(w, m), t)
                          /\ Told(p, t, text + Adds(kind, m), calls,
                                  Thinks(thinking, kind, m))
                          /\ kind = "call" /\ m > 0 => t.is # "open"
                          /\ m = 0 => t = s
            S == {m \in Nat : \E t : Good(m, t)}
<1>1. 0 \in S
  <2>1. Run(p, s, Repeated(w, 0), s)
    BY RunNothing, RepeatedIs
  <2>2. text + Adds(kind, 0) = text /\ Thinks(thinking, kind, 0) = thinking
    BY DEF Adds, Thinks
  <2>3. Good(0, s)
    BY <2>1, <2>2
  <2>. QED BY <2>3
<1>2. ASSUME NEW m \in Nat, m \in S PROVE m + 1 \in S
  <2>1. PICK r : Good(m, r)
    BY <1>2
  <2>. DEFINE sofar == Thinks(thinking, kind, m)
              sum == text + Adds(kind, m)
  <2>2. sum \in Nat
    BY DEF Adds
  <2>3. Told(p, r, sum, calls, sofar)
    BY <2>1
  <2>. HIDE DEF sum, sofar
  <2>4. PICK t : /\ Fed(p, r, w, t)
                 /\ Told(p, t, sum + Adds(kind, 1), calls, Thinks(sofar, kind, 1))
                 /\ kind = "call" => t.is # "open"
    BY <2>2, <2>3, OneDelta
  <2>5. Run(p, s, Repeated(w, m + 1), t)
    <3>1. Run(p, r, <<w>>, t) /\ IsSeq(<<w>>) /\ Run(p, s, Repeated(w, m), r)
      BY <2>1, <2>4, RunOne, OneIs
    <3>2. IsSeq(Repeated(w, m)) /\ Repeated(w, m + 1) = Repeated(w, m) \o <<w>>
      BY RepeatedIs
    <3>3. Run(p, s, Repeated(w, m) \o <<w>>, t)
      BY <3>1, <3>2, RunBoth
    <3>. QED BY <3>2, <3>3
  <2>6. sum + Adds(kind, 1) = text + Adds(kind, m + 1) /\ m + 1 # 0
    BY DEF Adds, sum
  <2>7. Thinks(sofar, kind, 1) = Thinks(thinking, kind, m + 1)
    <3>1. CASE kind = "thinking"
      <4>1. Thinks(sofar, kind, 1) = TRUE /\ Thinks(thinking, kind, m + 1) = TRUE
        BY <3>1 DEF Thinks
      <4>. QED BY <4>1, Zenon
    <3>2. CASE kind # "thinking"
      <4>1. Thinks(sofar, kind, 1) = thinking /\ Thinks(thinking, kind, m + 1) = thinking
        BY <3>2 DEF Thinks, sofar
      <4>. QED BY <4>1, Zenon
    <3>. QED BY <3>1, <3>2
  <2>8. Good(m + 1, t)
    BY <2>4, <2>5, <2>6, <2>7
  <2>. QED BY <2>8
<1>. HIDE DEF S, Good
<1>3. n \in S
  BY <1>1, <1>2, CountUp
<1>4. PICK t : Good(n, t)
  BY <1>3 DEF S
<1>. QED BY <1>4 DEF Good, w

\* The events that tell nothing of the answer, but what is open.
Quiet == {"STREAM_START", "TEXT_START", "TEXT_END", "TOOL_CALL_START", "REASONING_START",
          "REASONING_END"}

Mute(p, s, w, st) ==
  /\ s.is = "open" /\ st \in AdStates /\ st.open = s.ad.open
  /\ \/ Adapt(p, s.ad, w) = Keep(st)
     \/ \E e : e.type \in Quiet /\ Adapt(p, s.ad, w) = Give(st, <<e>>)

LEMMA Silent ==
  ASSUME NEW p, NEW s, NEW text, NEW calls, NEW thinking, Told(p, s, text, calls, thinking),
         NEW w, NEW st, Mute(p, s, w, st)
  PROVE  \E t : /\ Fed(p, s, w, t) /\ t.is = "open" /\ t.ad = st
                /\ Told(p, t, text, calls, thinking)
<1>. DEFINE t == State(st, s.acc, "open")
<1>1. t.ad = st /\ t.acc = s.acc /\ t.is = "open"
  BY DEF State
<1>2. s.acc \in Accs /\ s.is = "open"
  BY DEF Told, Mute
<1>3. Fed(p, s, w, t)
  <2>1. CASE Adapt(p, s.ad, w) = Keep(st)
    BY <1>2, <2>1, FedNone
  <2>2. CASE \E e : e.type \in Quiet /\ Adapt(p, s.ad, w) = Give(st, <<e>>)
    <3>1. PICK e : e.type \in Quiet /\ Adapt(p, s.ad, w) = Give(st, <<e>>)
      BY <2>2
    <3>2. Accumulated(s.acc, e) = s.acc /\ ~Dooms(e)
      BY <1>2, <3>1, AccumulatedIs DEF Quiet, Dooms
    <3>3. Leads(s.acc, <<e>>, s.acc) /\ ~Doomed(<<e>>)
      BY <3>2, LeadsOne
    <3>. QED BY <1>2, <3>1, <3>3, FedOut
  <2>. QED BY <2>1, <2>2 DEF Mute
<1>. HIDE DEF t
<1>4. Told(p, t, text, calls, thinking)
  BY <1>1, <1>2 DEF Told, Mute
<1>. QED BY <1>1, <1>3, <1>4

\* A call is told where an adapter ends it.
Ends(p, s, w, st, id) ==
  /\ s.is = "open" /\ st \in AdStates /\ st.open = s.ad.open /\ id \in Nat
  /\ \E d, e : /\ d.type \in Quiet /\ e.type = "TOOL_CALL_END" /\ e.id = id
               /\ \/ Adapt(p, s.ad, w) = Give(st, <<e>>)
                  \/ Adapt(p, s.ad, w) = Give(st, <<d, e>>)

LEMMA Ended ==
  ASSUME NEW p, p # "compat", NEW s, NEW text, NEW calls, NEW thinking,
         Told(p, s, text, calls, thinking), NEW w, NEW st, NEW id, Ends(p, s, w, st, id)
  PROVE  \E t : Fed(p, s, w, t) /\ t.is = "open" /\ Told(p, t, text, Append(calls, id), thinking)
<1>0. s.is = "open" /\ st \in AdStates /\ st.open = s.ad.open /\ id \in Nat
  BY DEF Ends
<1>a. PICK d, e : /\ d.type \in Quiet /\ e.type = "TOOL_CALL_END" /\ e.id = id
                  /\ \/ Adapt(p, s.ad, w) = Give(st, <<e>>)
                     \/ Adapt(p, s.ad, w) = Give(st, <<d, e>>)
  BY DEF Ends
<1>. DEFINE goal == [s.acc EXCEPT !.calls = Append(s.acc.calls, id)]
            t == State(st, goal, "open")
<1>1. t.ad = st /\ t.acc = goal /\ t.is = "open"
  BY DEF State
<1>2. s.acc \in Accs /\ s.acc.calls = calls
  BY <1>0 DEF Told
<1>3. Accumulated(s.acc, d) = s.acc /\ Accumulated(s.acc, e) = goal
  BY <1>2, <1>a, AccumulatedIs DEF Quiet
<1>4. /\ goal \in Accs /\ goal.text = s.acc.text /\ goal.thinking = s.acc.thinking
      /\ goal.calls = Append(calls, id)
  <2>1. Append(s.acc.calls, id) \in Seq(Nat)
    BY <1>0, <1>2 DEF Accs
  <2>. QED BY <1>2, <2>1 DEF Accs
<1>. HIDE DEF goal, t
<1>5. ~Dooms(d) /\ ~Dooms(e)
  BY <1>a DEF Quiet, Dooms
<1>6. Leads(s.acc, <<e>>, goal) /\ ~Doomed(<<e>>)
  BY <1>3, <1>5, LeadsOne
<1>7. Leads(s.acc, <<d, e>>, goal) /\ ~Doomed(<<d, e>>)
  BY <1>3, <1>5, LeadsTwo
<1>8. Fed(p, s, w, t)
  BY <1>0, <1>a, <1>6, <1>7, FedOut DEF t
<1>9. Told(p, t, text, Append(calls, id), thinking)
  BY <1>0, <1>1, <1>2, <1>4 DEF Told
<1>. QED BY <1>1, <1>8, <1>9

\* A block the provider can give.
Spoken(p, b) ==
  /\ b.kind \in {"text", "thinking", "call"} /\ b.id \in Nat /\ b.deltas \in Nat
  /\ b.kind = "thinking" => p = "anthropic" /\ b.deltas > 0
  /\ p = "openai" /\ b.kind = "call" => b.deltas > 0

\* What it adds.
Tells(p, s, text, calls, thinking, b) ==
  Told(p, s, AddText(text, b), AddCall(calls, b), Thinks(thinking, b.kind, b.deltas))

LEMMA AddsIs ==
  ASSUME NEW p, NEW b, Spoken(p, b), NEW text \in Nat, NEW calls \in Seq(Nat)
  PROVE  /\ AddText(text, b) = text + Adds(b.kind, b.deltas) /\ AddText(text, b) \in Nat
         /\ AddCall(calls, b) = IF b.kind = "call" THEN Append(calls, b.id) ELSE calls
         /\ AddCall(calls, b) \in Seq(Nat)
BY DEF AddText, AddCall, Adds, IsCall, Spoken

LEMMA AnthropicBlock ==
  ASSUME NEW b, Spoken("anthropic", b), NEW s, s.is = "open", NEW text \in Nat,
         NEW calls \in Seq(Nat), NEW thinking, Told("anthropic", s, text, calls, thinking)
  PROVE  \E t : /\ Run("anthropic", s, BlockWire("anthropic", b), t)
                /\ Tells("anthropic", t, text, calls, thinking, b)
<1>. DEFINE p == "anthropic"
            k == b.kind
            n == b.deltas
            first == Wire("start", k, b.id)
            deltas == Repeated(Wire("delta", k, b.id), n)
            last == Wire("stop", k, b.id)
<1>1. k \in {"text", "thinking", "call"} /\ n \in Nat /\ b.id \in Nat /\ (k = "thinking" => n > 0)
  BY DEF Spoken
<1>2. BlockWire(p, b) = (<<first>> \o deltas) \o <<last>>
  BY Zenon DEF BlockWire
<1>3. s.ad \in AdStates
  BY DEF Told
<1>4. PICK r : /\ Fed(p, s, first, r) /\ r.is = "open"
               /\ Told(p, r, text, calls, thinking)
               /\ k = "call" => r.ad.call = b.id
  <2>1. first.w = "start" /\ first.kind = k /\ first.id = b.id
    BY WireIs
  <2>. HIDE DEF first, k
  <2>. DEFINE st == IF k = "call" THEN [s.ad EXCEPT !.call = b.id] ELSE s.ad
  <2>2. st \in AdStates /\ st.open = s.ad.open /\ (k = "call" => st.call = b.id)
    BY <1>1, <1>3 DEF AdStates
  <2>3. \E e : e.type \in Quiet /\ Adapt(p, s.ad, first) = Give(st, <<e>>)
    <3>1. CASE k = "text"
      <4>1. Adapt(p, s.ad, first) = Give(st, <<Plain("TEXT_START")>>)
        BY <2>1, <3>1 DEF Adapt, AnthropicEvent
      <4>2. Plain("TEXT_START").type \in Quiet
        BY EventIs DEF Quiet
      <4>. QED BY <4>1, <4>2
    <3>2. CASE k = "thinking"
      <4>1. Adapt(p, s.ad, first) = Give(st, <<Plain("REASONING_START")>>)
        BY <2>1, <3>2 DEF Adapt, AnthropicEvent
      <4>2. Plain("REASONING_START").type \in Quiet
        BY EventIs DEF Quiet
      <4>. QED BY <4>1, <4>2
    <3>3. CASE k = "call"
      <4>1. Adapt(p, s.ad, first) = Give(st, <<Event("TOOL_CALL_START", b.id, "none")>>)
        BY <2>1, <3>3 DEF Adapt, AnthropicEvent
      <4>2. Event("TOOL_CALL_START", b.id, "none").type \in Quiet
        BY EventIs DEF Quiet
      <4>. QED BY <4>1, <4>2
    <3>. QED BY <1>1, <3>1, <3>2, <3>3
  <2>. HIDE DEF st
  <2>4. \E t : Fed(p, s, first, t) /\ t.is = "open" /\ t.ad = st /\ Told(p, t, text, calls, thinking)
    <3>1. Told(p, s, text, calls, thinking) /\ s.is = "open"
      OBVIOUS
    <3>. HIDE DEF p
    <3>2. Mute(p, s, first, st)
      BY <2>2, <2>3, <3>1 DEF Mute
    <3>. QED BY <3>1, <3>2, Silent
  <2>. QED BY <2>2, <2>4
<1>. HIDE DEF first, last, k, n
<1>5. PICK q : /\ Run(p, r, deltas, q)
               /\ Told(p, q, text + Adds(k, n), calls, Thinks(thinking, k, n))
               /\ k = "call" /\ n > 0 => q.is # "open"
               /\ n = 0 => q = r
  <2>1. p \in Providers /\ p # "gemini"
    BY <1>4 DEF Providers
  <2>. HIDE DEF p
  <2>2. \E t : /\ Run(p, r, Repeated(Wire("delta", k, b.id), n), t)
               /\ Told(p, t, text + Adds(k, n), calls, Thinks(thinking, k, n))
               /\ k = "call" /\ n > 0 => t.is # "open"
               /\ n = 0 => t = r
    <3>1. k = "thinking" => p = "anthropic"
      BY DEF p
    <3>. QED BY <1>1, <1>4, <2>1, <3>1, Deltas
  <2>. QED BY <2>2
<1>6. /\ AddText(text, b) = text + Adds(k, n)
      /\ AddCall(calls, b) = IF k = "call" THEN Append(calls, b.id) ELSE calls
  BY <1>1, AddsIs DEF k, n
<1>7. \E t : Fed(p, q, last, t) /\ Tells(p, t, text, calls, thinking, b)
  <2>1. CASE q.is # "open"
    <3>1. Fed(p, q, last, q)
      BY <2>1 DEF Fed
    <3>2. Tells(p, q, text, calls, thinking, b)
      BY <2>1 DEF Told, Tells
    <3>. QED BY <1>5, <3>1, <3>2
  <2>2. CASE q.is = "open"
    <3>1. last.w = "stop" /\ last.kind = k /\ last.id = b.id
      BY WireIs DEF last
    <3>2. q.ad \in AdStates
      BY <1>5, <2>2 DEF Told
    <3>. DEFINE sum == text + Adds(k, n)
                thought == Thinks(thinking, k, n)
    <3>3. Told(p, q, sum, calls, thought)
      BY <1>5, <1>6
    <3>. HIDE DEF sum, thought
    <3>4. CASE k # "call"
      <4>1. \E e : e.type \in Quiet /\ Adapt(p, q.ad, last) = Give(q.ad, <<e>>)
        <5>1. CASE k = "text"
          <6>1. Adapt(p, q.ad, last) = Give(q.ad, <<Plain("TEXT_END")>>)
            BY <3>1, <5>1 DEF Adapt, AnthropicEvent
          <6>2. Plain("TEXT_END").type \in Quiet
            BY EventIs DEF Quiet
          <6>. QED BY <6>1, <6>2
        <5>2. CASE k = "thinking"
          <6>1. Adapt(p, q.ad, last) = Give(q.ad, <<Plain("REASONING_END")>>)
            BY <3>1, <5>2 DEF Adapt, AnthropicEvent
          <6>2. Plain("REASONING_END").type \in Quiet
            BY EventIs DEF Quiet
          <6>. QED BY <6>1, <6>2
        <5>. QED BY <1>1, <3>4, <5>1, <5>2
      <4>2. \E t : Fed(p, q, last, t) /\ t.is = "open" /\ Told(p, t, sum, calls, thought)
        <5>1. Mute(p, q, last, q.ad)
          BY <2>2, <3>2, <4>1 DEF Mute
        <5>. QED BY <3>3, <5>1, Silent
      <4>. QED BY <1>6, <3>4, <4>2 DEF Tells, sum, thought, k, n
    <3>5. CASE k = "call"
      <4>1. q = r /\ r.ad.call = b.id
        BY <1>1, <1>4, <1>5, <2>2, <3>5
      <4>. DEFINE e == Event("TOOL_CALL_END", b.id, "none")
      <4>2. Adapt(p, q.ad, last) = Give(q.ad, <<e>>)
        BY <3>1, <3>5, <4>1 DEF Adapt, AnthropicEvent
      <4>3. e.type = "TOOL_CALL_END" /\ e.id = b.id
        BY EventIs
      <4>4. \E d : d.type \in Quiet
        <5>1. Plain("TEXT_START").type \in Quiet
          BY EventIs DEF Quiet
        <5>. QED BY <5>1
      <4>. HIDE DEF e
      <4>5. \E t : Fed(p, q, last, t) /\ t.is = "open" /\ Told(p, t, sum, Append(calls, b.id), thought)
        <5>1. Ends(p, q, last, q.ad, b.id)
          BY <1>1, <2>2, <3>2, <4>2, <4>3, <4>4 DEF Ends
        <5>. QED BY <3>3, <5>1, Ended
      <4>. QED BY <1>6, <3>5, <4>5 DEF Tells, sum, thought, k, n
    <3>. QED BY <3>4, <3>5
  <2>. QED BY <1>5, <2>1, <2>2
<1>8. PICK t : Fed(p, q, last, t) /\ Tells(p, t, text, calls, thinking, b)
  BY <1>7
<1>9. Run(p, s, (<<first>> \o deltas) \o <<last>>, t)
  <2>1. IsSeq(<<first>>) /\ IsSeq(deltas) /\ IsSeq(<<last>>)
    BY <1>1, OneIs, RepeatedIs
  <2>2. Run(p, s, <<first>>, r) /\ Run(p, q, <<last>>, t)
    BY <1>4, <1>8, RunOne
  <2>. HIDE DEF deltas, p
  <2>3. Run(p, s, <<first>> \o deltas, q)
    BY <1>5, <2>1, <2>2, RunBoth
  <2>4. IsSeq(<<first>> \o deltas)
    BY <2>1, Concatenated
  <2>. QED BY <2>1, <2>2, <2>3, <2>4, RunBoth
<1>. QED BY <1>2, <1>8, <1>9

LEMMA TellsIs ==
  ASSUME NEW p, NEW b, Spoken(p, b), NEW text \in Nat, NEW calls \in Seq(Nat), NEW thinking, NEW t,
         Told(p, t, text + Adds(b.kind, b.deltas),
              IF b.kind = "call" THEN Append(calls, b.id) ELSE calls,
              Thinks(thinking, b.kind, b.deltas))
  PROVE  Tells(p, t, text, calls, thinking, b)
<1>1. /\ AddText(text, b) = text + Adds(b.kind, b.deltas)
      /\ AddCall(calls, b) = IF b.kind = "call" THEN Append(calls, b.id) ELSE calls
  BY AddsIs
<1>. QED BY <1>1 DEF Tells

LEMMA OpenAIBlock ==
  ASSUME NEW b, Spoken("openai", b), NEW s, s.is = "open", NEW text \in Nat,
         NEW calls \in Seq(Nat), NEW thinking, Told("openai", s, text, calls, thinking)
  PROVE  \E t : /\ Run("openai", s, BlockWire("openai", b), t)
                /\ Tells("openai", t, text, calls, thinking, b)
<1>. DEFINE p == "openai"
            k == b.kind
            n == b.deltas
            deltas == Repeated(Wire("delta", k, b.id), n)
            done == Wire("done", k, b.id)
            item == Wire("item", k, b.id)
<1>1. k \in {"text", "call"} /\ n \in Nat /\ b.id \in Nat /\ (k = "call" => n > 0)
  BY DEF Spoken
<1>2. BlockWire(p, b) = deltas \o <<done, item>>
  <2>1. p = "openai" /\ k # "thinking"
    BY <1>1
  <2>2. p # "anthropic"
    OBVIOUS
  <2>. QED BY <2>1, <2>2, Zenon DEF BlockWire
<1>3. /\ done.w = "done" /\ done.kind = k /\ item.w = "item" /\ item.kind = k
  BY WireIs
<1>4. p \in Providers /\ p # "gemini" /\ Told(p, s, text, calls, thinking) /\ s.is = "open"
  BY DEF Providers
<1>5. PICK q : /\ Run(p, s, deltas, q)
               /\ Told(p, q, text + Adds(k, n), calls, Thinks(thinking, k, n))
               /\ k = "call" /\ n > 0 => q.is # "open"
               /\ n = 0 => q = s
  <2>. HIDE DEF p, k, n
  <2>. QED BY <1>1, <1>4, Deltas
<1>. DEFINE sum == text + Adds(k, n)
            thought == Thinks(thinking, k, n)
            ids == IF k = "call" THEN Append(calls, b.id) ELSE calls
<1>6. Told(p, q, sum, calls, thought) /\ (k = "call" => q.is # "open")
  BY <1>1, <1>5
<1>. HIDE DEF done, item, sum, thought, deltas
<1>7. \E t : Run(p, q, <<done, item>>, t) /\ Told(p, t, sum, ids, thought)
  <2>1. CASE q.is # "open"
    <3>1. Run(p, q, <<done, item>>, q)
      BY <2>1, RunDoomed, TwoIs
    <3>2. Told(p, q, sum, ids, thought)
      BY <2>1 DEF Told
    <3>. QED BY <3>1, <3>2
  <2>2. CASE q.is = "open"
    <3>1. k = "text" /\ q.ad \in AdStates
      BY <1>1, <1>6, <2>2 DEF Told
    <3>. DEFINE st == [q.ad EXCEPT !.text = FALSE]
    <3>2. /\ st \in AdStates /\ st.open = q.ad.open
          /\ \/ Adapt(p, q.ad, done) = Keep(q.ad)
             \/ \E e : e.type \in Quiet /\ Adapt(p, q.ad, done) = Give(st, <<e>>)
      <4>1. Adapt(p, q.ad, done) = Give(st, <<Plain("TEXT_END")>>) \/ Adapt(p, q.ad, done) = Keep(q.ad)
        BY <1>3, <3>1 DEF Adapt, OpenAIEvent
      <4>2. Plain("TEXT_END").type \in Quiet
        BY EventIs DEF Quiet
      <4>3. st \in AdStates /\ st.open = q.ad.open
        BY <3>1 DEF AdStates
      <4>. HIDE DEF st
      <4>. QED BY <4>1, <4>2, <4>3
    <3>. HIDE DEF st, p, k
    <3>3. PICK r : Fed(p, q, done, r) /\ r.is = "open" /\ Told(p, r, sum, calls, thought)
      <4>1. Mute(p, q, done, q.ad) \/ Mute(p, q, done, st)
        BY <2>2, <3>1, <3>2 DEF Mute
      <4>. QED BY <1>6, <4>1, Silent
    <3>4. r.ad \in AdStates
      BY <3>3 DEF Told
    <3>5. Adapt(p, r.ad, item) = Keep(r.ad)
      BY <1>3, <3>1 DEF Adapt, OpenAIEvent, p
    <3>6. PICK t : Fed(p, r, item, t) /\ Told(p, t, sum, calls, thought)
      <4>1. Mute(p, r, item, r.ad)
        BY <3>3, <3>4, <3>5 DEF Mute
      <4>. QED BY <3>3, <4>1, Silent
    <3>7. Run(p, q, <<done>>, r) /\ Run(p, r, <<item>>, t)
      BY <3>3, <3>6, RunOne
    <3>8. Run(p, q, <<done>> \o <<item>>, t)
      BY <3>7, OneIs, RunBoth
    <3>9. Run(p, q, <<done, item>>, t)
      BY <3>8, TwoIs
    <3>10. ids = calls
      BY <3>1
    <3>. HIDE DEF ids
    <3>. QED BY <3>6, <3>9, <3>10
  <2>. QED BY <2>1, <2>2
<1>8. PICK t : Run(p, q, <<done, item>>, t) /\ Told(p, t, sum, ids, thought)
  BY <1>7
<1>9. IsSeq(deltas) /\ IsSeq(<<done, item>>)
  BY <1>1, RepeatedIs, TwoIs DEF deltas
<1>10. Run(p, s, deltas \o <<done, item>>, t)
  BY <1>5, <1>8, <1>9, RunBoth
<1>11. Tells(p, t, text, calls, thinking, b)
  BY <1>8, TellsIs DEF sum, thought
<1>. QED BY <1>2, <1>10, <1>11

LEMMA CompatBlock ==
  ASSUME NEW b, Spoken("compat", b), NEW s, s.is = "open", NEW text \in Nat,
         NEW calls \in Seq(Nat), NEW thinking, Told("compat", s, text, calls, thinking)
  PROVE  \E t : /\ Run("compat", s, BlockWire("compat", b), t)
                /\ Tells("compat", t, text, calls, thinking, b)
<1>. DEFINE p == "compat"
            k == b.kind
            n == b.deltas
            deltas == Repeated(Wire("delta", k, b.id), n)
            name == Wire("delta", "name", b.id)
            sum == text + Adds(k, n)
            thought == Thinks(thinking, k, n)
            ids == IF k = "call" THEN Append(calls, b.id) ELSE calls
<1>1. k \in {"text", "call"} /\ n \in Nat /\ b.id \in Nat
  BY DEF Spoken
<1>2. IsSeq(deltas) /\ IsSeq(<<name>>)
  <2>. HIDE DEF name
  <2>. QED BY <1>1, RepeatedIs, OneIs
<1>3. p \in Providers /\ p # "gemini" /\ Told(p, s, text, calls, thinking) /\ s.is = "open"
  BY DEF Providers
<1>4. ASSUME NEW r, NEW c, Told(p, r, text, c, thinking)
      PROVE  \E t : Run(p, r, deltas, t) /\ Told(p, t, sum, c, thought)
  <2>. HIDE DEF p, k, n
  <2>1. \E t : /\ Run(p, r, Repeated(Wire("delta", k, b.id), n), t)
               /\ Told(p, t, text + Adds(k, n), c, Thinks(thinking, k, n))
               /\ k = "call" /\ n > 0 => t.is # "open"
               /\ n = 0 => t = r
    BY <1>1, <1>3, <1>4, Deltas
  <2>. QED BY <2>1
<1>. HIDE DEF sum, thought
<1>5. CASE k = "text"
  <2>1. BlockWire(p, b) = deltas
    <3>1. p # "anthropic" /\ p # "openai" /\ p # "gemini" /\ p \in {"compat", "gemini"} /\ k # "call"
      BY <1>5
    <3>2. BlockWire(p, b) = Repeated(Wire("delta", "text", b.id), b.deltas)
      BY <1>5, <3>1, Zenon DEF BlockWire
    <3>. QED BY <1>5, <3>2
  <2>2. ids = calls
    BY <1>5
  <2>3. PICK t : Run(p, s, deltas, t) /\ Told(p, t, sum, calls, thought)
    BY <1>3, <1>4
  <2>4. Told(p, t, sum, ids, thought)
    BY <2>2, <2>3
  <2>5. Tells(p, t, text, calls, thinking, b)
    BY <2>4, TellsIs DEF sum, thought
  <2>. QED BY <2>1, <2>3, <2>5
<1>6. CASE k = "call"
  <2>1. BlockWire(p, b) = <<name>> \o deltas
    <3>1. p # "anthropic" /\ p # "openai" /\ p = "compat"
      OBVIOUS
    <3>2. BlockWire(p, b) = <<name>> \o Repeated(Wire("delta", "call", b.id), b.deltas)
      BY <1>6, <3>1, Zenon DEF BlockWire
    <3>. QED BY <1>6, <3>2
  <2>2. ids = Append(calls, b.id)
    BY <1>6
  <2>3. PICK r : Fed(p, s, name, r) /\ Told(p, r, text, ids, thinking)
    <3>. DEFINE st == [s.ad EXCEPT !.open = Append(s.ad.open, b.id), !.seen = TRUE]
                e == Event("TOOL_CALL_START", b.id, "none")
                r == State(st, s.acc, "open")
    <3>1. s.ad \in AdStates /\ s.acc \in Accs /\ s.ad.open = calls
      BY DEF Told
    <3>2. name.w = "delta" /\ name.kind = "name" /\ name.id = b.id
      BY WireIs
    <3>3. Adapt(p, s.ad, name) = Give(st, <<e>>)
      <4>. HIDE DEF name
      <4>. QED BY <3>2 DEF Adapt, CompatEvent
    <3>4. e.type = "TOOL_CALL_START"
      BY EventIs
    <3>. HIDE DEF e, name
    <3>5. Accumulated(s.acc, e) = s.acc
      BY <3>1, <3>4, AccumulatedIs
    <3>6. Leads(s.acc, <<e>>, s.acc) /\ ~Doomed(<<e>>)
      BY <3>4, <3>5, LeadsOne DEF Dooms
    <3>7. Fed(p, s, name, r)
      <4>. HIDE DEF st, p
      <4>. QED BY <1>3, <3>3, <3>6, FedOut
    <3>8. st \in AdStates /\ st.open = ids
      <4>1. Append(s.ad.open, b.id) \in Seq(Nat)
        BY <1>1, <3>1
      <4>. QED BY <2>2, <3>1, <4>1 DEF AdStates
    <3>9. r.ad = st /\ r.acc = s.acc /\ r.is = "open"
      BY DEF State
    <3>. HIDE DEF st, r, ids
    <3>10. Told(p, r, text, ids, thinking)
      BY <1>3, <3>8, <3>9 DEF Told
    <3>. QED BY <3>7, <3>10
  <2>. HIDE DEF ids, p, name
  <2>4. PICK t : Run(p, r, deltas, t) /\ Told(p, t, sum, ids, thought)
    BY <1>4, <2>3
  <2>5. Run(p, s, <<name>> \o deltas, t)
    <3>1. Run(p, s, <<name>>, r)
      BY <2>3, RunOne
    <3>. HIDE DEF deltas
    <3>. QED BY <1>2, <2>4, <3>1, RunBoth
  <2>6. Tells(p, t, text, calls, thinking, b)
    BY <2>4, TellsIs DEF sum, thought, ids, p
  <2>. QED BY <2>1, <2>5, <2>6 DEF p
<1>. QED BY <1>1, <1>5, <1>6

LEMMA GeminiBlock ==
  ASSUME NEW b, Spoken("gemini", b), NEW s, s.is = "open", NEW text \in Nat,
         NEW calls \in Seq(Nat), NEW thinking, Told("gemini", s, text, calls, thinking)
  PROVE  \E t : /\ Run("gemini", s, BlockWire("gemini", b), t)
                /\ Tells("gemini", t, text, calls, thinking, b)
<1>. DEFINE p == "gemini"
            k == b.kind
            n == b.deltas
            deltas == Repeated(Wire("delta", k, b.id), n)
            call == Wire("delta", "call", b.id)
            sum == text + Adds(k, n)
            thought == Thinks(thinking, k, n)
            ids == IF k = "call" THEN Append(calls, b.id) ELSE calls
<1>1. k \in {"text", "call"} /\ n \in Nat /\ b.id \in Nat
  BY DEF Spoken
<1>2. p \in Providers /\ Told(p, s, text, calls, thinking) /\ s.is = "open" /\ p # "compat"
  BY DEF Providers
<1>3. CASE k = "text"
  <2>1. BlockWire(p, b) = deltas
    <3>1. p # "anthropic" /\ p # "openai" /\ p # "compat" /\ p \in {"compat", "gemini"} /\ k # "call"
      BY <1>3
    <3>2. BlockWire(p, b) = Repeated(Wire("delta", "text", b.id), b.deltas)
      BY <1>3, <3>1, Zenon DEF BlockWire
    <3>. QED BY <1>3, <3>2
  <2>2. ids = calls
    BY <1>3
  <2>3. PICK t : Run(p, s, deltas, t) /\ Told(p, t, sum, calls, thought)
    <3>1. k # "call" /\ k # "thinking"
      BY <1>3
    <3>. HIDE DEF p, k, n
    <3>2. \E t : /\ Run(p, s, Repeated(Wire("delta", k, b.id), n), t)
                 /\ Told(p, t, text + Adds(k, n), calls, Thinks(thinking, k, n))
                 /\ k = "call" /\ n > 0 => t.is # "open"
                 /\ n = 0 => t = s
      BY <1>1, <1>2, <3>1, Deltas
    <3>. QED BY <3>2
  <2>. HIDE DEF sum, thought
  <2>4. Told(p, t, sum, ids, thought)
    BY <2>2, <2>3
  <2>5. Tells(p, t, text, calls, thinking, b)
    BY <2>4, TellsIs DEF sum, thought
  <2>. QED BY <2>1, <2>3, <2>5
<1>4. CASE k = "call"
  <2>1. BlockWire(p, b) = <<call>>
    <3>1. p # "anthropic" /\ p # "openai" /\ p # "compat" /\ p = "gemini"
      OBVIOUS
    <3>. QED BY <1>4, <3>1, Zenon DEF BlockWire
  <2>2. /\ ids = Append(calls, b.id)
        /\ Adds(k, n) = 0 /\ text + 0 = text
    BY <1>4 DEF Adds
  <2>3. thought = thinking
    BY <1>4 DEF Thinks
  <2>4. PICK t : Fed(p, s, call, t) /\ Told(p, t, text, ids, thinking)
    <3>. DEFINE st == [s.ad EXCEPT !.seen = TRUE]
                d == Event("TOOL_CALL_START", b.id, "none")
                e == Event("TOOL_CALL_END", b.id, "none")
    <3>1. st \in AdStates /\ st.open = s.ad.open
      BY <1>2 DEF Told, AdStates
    <3>2. call.w = "delta" /\ call.kind = "call" /\ call.id = b.id
      BY WireIs
    <3>3. Adapt(p, s.ad, call) = Give(st, <<d, e>>)
      <4>. HIDE DEF call
      <4>. QED BY <3>2 DEF Adapt, GeminiEvent
    <3>4. d.type \in Quiet /\ e.type = "TOOL_CALL_END" /\ e.id = b.id
      BY EventIs DEF Quiet
    <3>. HIDE DEF d, e, st, call, p
    <3>5. \E t : Fed(p, s, call, t) /\ t.is = "open" /\ Told(p, t, text, Append(calls, b.id), thinking)
      <4>1. Ends(p, s, call, st, b.id)
        BY <1>1, <1>2, <3>1, <3>3, <3>4 DEF Ends
      <4>. QED BY <1>2, <4>1, Ended
    <3>. QED BY <2>2, <3>5
  <2>5. Run(p, s, <<call>>, t)
    <3>. HIDE DEF call, p
    <3>. QED BY <2>4, RunOne
  <2>6. Told(p, t, sum, ids, thought)
    <3>1. sum = text
      BY <2>2
    <3>. HIDE DEF sum, thought, ids, p
    <3>. QED BY <2>3, <2>4, <3>1
  <2>. HIDE DEF sum, thought
  <2>7. Tells(p, t, text, calls, thinking, b)
    BY <2>6, TellsIs DEF sum, thought
  <2>. QED BY <2>1, <2>5, <2>7
<1>. QED BY <1>1, <1>3, <1>4

LEMMA BlockWireIs ==
  ASSUME NEW p \in Providers, NEW b, Spoken(p, b)
  PROVE  IsSeq(BlockWire(p, b))
<1>. DEFINE k == b.kind
            deltas == Repeated(Wire("delta", k, b.id), b.deltas)
            first == Wire("start", k, b.id)
            last == Wire("stop", k, b.id)
            name == Wire("delta", "name", b.id)
            call == Wire("delta", "call", b.id)
            done == Wire("done", k, b.id)
            item == Wire("item", k, b.id)
<1>1. IsSeq(deltas)
  BY RepeatedIs DEF Spoken
<1>2. /\ p = "anthropic" => BlockWire(p, b) = (<<first>> \o deltas) \o <<last>>
      /\ p = "openai" /\ k # "thinking" => BlockWire(p, b) = deltas \o <<done, item>>
      /\ p = "compat" /\ k = "call" => BlockWire(p, b) = <<name>> \o deltas
      /\ p = "gemini" /\ k = "call" => BlockWire(p, b) = <<call>>
      /\ p \in {"compat", "gemini"} /\ k = "text" => BlockWire(p, b) = deltas
  <2>1. CASE p = "anthropic"
    BY <2>1 DEF BlockWire
  <2>2. CASE p = "openai"
    BY <2>2 DEF BlockWire
  <2>3. CASE p = "compat"
    BY <2>3 DEF BlockWire
  <2>4. CASE p = "gemini"
    BY <2>4 DEF BlockWire
  <2>. QED BY <2>1, <2>2, <2>3, <2>4 DEF Providers
<1>3. \/ p = "anthropic"
      \/ p = "openai" /\ k # "thinking"
      \/ p = "compat" /\ k = "call"
      \/ p = "gemini" /\ k = "call"
      \/ p \in {"compat", "gemini"} /\ k = "text"
  BY DEF Spoken, Providers
<1>. HIDE DEF k, deltas, first, last, name, call, done, item
<1>4. IsSeq((<<first>> \o deltas) \o <<last>>)
  <2>1. IsSeq(<<first>> \o deltas)
    BY <1>1, OneIs, Concatenated
  <2>. QED BY <2>1, OneIs, Concatenated
<1>5. IsSeq(deltas \o <<done, item>>) /\ IsSeq(<<name>> \o deltas) /\ IsSeq(<<call>>)
  BY <1>1, OneIs, TwoIs, Concatenated
<1>. QED BY <1>1, <1>2, <1>3, <1>4, <1>5

LEMMA BlockRuns ==
  ASSUME NEW p \in Providers, NEW b, Spoken(p, b), NEW s, NEW text \in Nat,
         NEW calls \in Seq(Nat), NEW thinking, Told(p, s, text, calls, thinking)
  PROVE  \E t : Run(p, s, BlockWire(p, b), t) /\ Tells(p, t, text, calls, thinking, b)
<1>1. CASE s.is # "open"
  <2>1. Run(p, s, BlockWire(p, b), s)
    BY <1>1, BlockWireIs, RunDoomed
  <2>2. Tells(p, s, text, calls, thinking, b)
    BY <1>1 DEF Tells, Told
  <2>. QED BY <2>1, <2>2
<1>2. CASE s.is = "open" /\ p = "anthropic"
  BY <1>2, AnthropicBlock
<1>3. CASE s.is = "open" /\ p = "openai"
  BY <1>3, OpenAIBlock
<1>4. CASE s.is = "open" /\ p = "compat"
  BY <1>4, CompatBlock
<1>5. CASE s.is = "open" /\ p = "gemini"
  BY <1>5, GeminiBlock
<1>. QED BY <1>1, <1>2, <1>3, <1>4, <1>5 DEF Providers

\* Some of the first k blocks is one of thinking.
Thought(blocks, k) == IF \E i \in 1..k : blocks[i].kind = "thinking" THEN TRUE ELSE FALSE

LEMMA ThoughtGrows ==
  ASSUME NEW p, NEW blocks, NEW k \in Nat, Spoken(p, blocks[k + 1])
  PROVE  Thought(blocks, k + 1)
           = Thinks(Thought(blocks, k), blocks[k + 1].kind, blocks[k + 1].deltas)
<1>. DEFINE b == blocks[k + 1]
<1>1. \A i \in 1..(k + 1) : i \in 1..k \/ i = k + 1
  OBVIOUS
<1>2. k + 1 \in 1..(k + 1) /\ 1..k \subseteq 1..(k + 1)
  OBVIOUS
<1>3. CASE b.kind = "thinking"
  <2>1. b.deltas > 0
    BY <1>3 DEF Spoken
  <2>2. Thinks(Thought(blocks, k), b.kind, b.deltas) = TRUE
    BY <1>3, <2>1 DEF Thinks
  <2>3. Thought(blocks, k + 1) = TRUE
    BY <1>2, <1>3 DEF Thought
  <2>. QED BY <2>2, <2>3, Zenon
<1>4. CASE b.kind # "thinking"
  <2>1. Thinks(Thought(blocks, k), b.kind, b.deltas) = Thought(blocks, k)
    BY <1>4 DEF Thinks
  <2>2. (\E i \in 1..(k + 1) : blocks[i].kind = "thinking")
          <=> (\E i \in 1..k : blocks[i].kind = "thinking")
    BY <1>1, <1>2, <1>4
  <2>3. Thought(blocks, k + 1) = Thought(blocks, k)
    BY <2>2 DEF Thought
  <2>. QED BY <2>1, <2>3, Zenon
<1>. QED BY <1>3, <1>4

\* The wire of the blocks, in order.
BlocksWire(p, blocks) == FlattenSeq([i \in DOMAIN blocks |-> BlockWire(p, blocks[i])])

LEMMA BlocksRun ==
  ASSUME NEW p \in Providers, NEW blocks, IsSeq(blocks),
         \A i \in 1..Len(blocks) : Spoken(p, blocks[i]), NEW s, Told(p, s, 0, <<>>, FALSE)
  PROVE  /\ IsSeq(BlocksWire(p, blocks))
         /\ \E t : /\ Run(p, s, BlocksWire(p, blocks), t)
                   /\ Told(p, t, FoldLeft(AddText, 0, blocks), FoldLeft(AddCall, <<>>, blocks),
                           Thought(blocks, Len(blocks)))
<1>. DEFINE n == Len(blocks)
            ws == [i \in DOMAIN blocks |-> BlockWire(p, blocks[i])]
<1>1. n \in Nat /\ DOMAIN blocks = 1..n
  BY SeqIs
<1>2. IsSeq(ws) /\ Len(ws) = n /\ \A i \in 1..n : ws[i] = BlockWire(p, blocks[i])
  <2>. DEFINE S == {BlockWire(p, blocks[i]) : i \in 1..n}
  <2>1. ws \in Seq(S) /\ Len(ws) = n
    BY <1>1
  <2>2. \A i \in 1..n : ws[i] = BlockWire(p, blocks[i])
    BY <1>1
  <2>. QED BY <2>1, <2>2 DEF IsSeq
<1>3. \A i \in 1..n : IsSeq(ws[i])
  BY <1>2, BlockWireIs
<1>4. BlocksWire(p, blocks) = FlattenSeq(ws)
  BY DEF BlocksWire
<1>. HIDE DEF ws
<1>5. PICK gf : Grows(gf, ws) /\ FlattenSeq(ws) = gf[n]
  BY <1>2, <1>3, FlattenGrows DEF AllSeqs
<1>6. PICK gt : Accrues(gt, "text", 0, blocks) /\ gt[n] = FoldLeft(AddText, 0, blocks)
  BY FoldsText
<1>7. PICK gc : Accrues(gc, "calls", <<>>, blocks) /\ gc[n] = FoldLeft(AddCall, <<>>, blocks)
  BY FoldsCalls
<1>8. /\ gf[0] = <<>> /\ gt[0] = 0 /\ gc[0] = <<>>
      /\ \A k \in 1..n : /\ gf[k] = gf[k - 1] \o BlockWire(p, blocks[k])
                         /\ gt[k] = AddText(gt[k - 1], blocks[k])
                         /\ gc[k] = AddCall(gc[k - 1], blocks[k])
  <2>1. \A acc, e : Took("text", acc, e) = AddText(acc, e) /\ Took("calls", acc, e) = AddCall(acc, e)
    BY DEF Took
  <2>. HIDE DEF n
  <2>. QED BY <1>2, <1>5, <1>6, <1>7, <2>1, Zenon DEF Grows, Accrues, n
<1>. DEFINE Good(k, t) ==
              /\ IsSeq(gf[k]) /\ gt[k] \in Nat /\ gc[k] \in Seq(Nat)
              /\ Run(p, s, gf[k], t) /\ Told(p, t, gt[k], gc[k], Thought(blocks, k))
            N == {k \in Nat : k <= n => \E t : Good(k, t)}
<1>9. 0 \in N
  <2>1. Thought(blocks, 0) = FALSE
    BY DEF Thought
  <2>2. <<>> \in Seq(Nat) /\ IsSeq(<<>>)
    BY EmptyIs
  <2>3. Run(p, s, gf[0], s) /\ IsSeq(gf[0]) /\ gt[0] \in Nat /\ gc[0] \in Seq(Nat)
    BY <1>8, <2>2, RunNothing
  <2>4. Told(p, s, gt[0], gc[0], Thought(blocks, 0))
    <3>1. Told(p, s, 0, <<>>, Thought(blocks, 0))
      BY <2>1, Zenon
    <3>. QED BY <1>8, <3>1
  <2>5. Good(0, s)
    BY <2>3, <2>4
  <2>. QED BY <2>5
<1>10. ASSUME NEW k \in Nat, k \in N PROVE k + 1 \in N
  <2>1. SUFFICES ASSUME k + 1 <= n PROVE \E t : Good(k + 1, t)
    OBVIOUS
  <2>2. k <= n /\ k + 1 \in 1..n /\ (k + 1) - 1 = k
    BY <1>1, <2>1
  <2>3. PICK r : Good(k, r)
    BY <1>10, <2>2
  <2>. DEFINE b == blocks[k + 1]
  <2>4. Spoken(p, b)
    BY <2>2
  <2>. HIDE DEF b
  <2>5. PICK t : /\ Run(p, r, BlockWire(p, b), t)
                 /\ Tells(p, t, gt[k], gc[k], Thought(blocks, k), b)
    BY <2>3, <2>4, BlockRuns
  <2>6. /\ gf[k + 1] = gf[k] \o BlockWire(p, b) /\ gt[k + 1] = AddText(gt[k], b)
        /\ gc[k + 1] = AddCall(gc[k], b)
    BY <1>8, <2>2 DEF b
  <2>7. gt[k + 1] \in Nat /\ gc[k + 1] \in Seq(Nat)
    BY <2>3, <2>4, <2>6, AddsIs
  <2>8. IsSeq(BlockWire(p, b))
    BY <2>4, BlockWireIs
  <2>9. IsSeq(gf[k + 1]) /\ Run(p, s, gf[k + 1], t)
    <3>1. IsSeq(gf[k] \o BlockWire(p, b)) /\ Run(p, s, gf[k] \o BlockWire(p, b), t)
      BY <2>3, <2>5, <2>8, Concatenated, RunBoth
    <3>. QED BY <2>6, <3>1
  <2>10. Thought(blocks, k + 1) = Thinks(Thought(blocks, k), b.kind, b.deltas)
    BY <2>4, ThoughtGrows DEF b
  <2>11. Told(p, t, gt[k + 1], gc[k + 1], Thought(blocks, k + 1))
    <3>1. Told(p, t, gt[k + 1], gc[k + 1], Thinks(Thought(blocks, k), b.kind, b.deltas))
      BY <2>5, <2>6 DEF Tells
    <3>. QED BY <2>10, <3>1, Zenon
  <2>12. Good(k + 1, t)
    BY <2>7, <2>9, <2>11
  <2>. QED BY <2>12
<1>. HIDE DEF N, Good
<1>11. n \in N
  BY <1>1, <1>9, <1>10, CountUp
<1>12. PICK t : Good(n, t)
  BY <1>1, <1>11 DEF N
<1>. QED BY <1>4, <1>5, <1>6, <1>7, <1>12 DEF Good

----------------------------------------------------------------------------
(* The ends of a stream                                                    *)

Agrees(t, text, calls, thinking) ==
  t.is = "open" => t.acc.text = text /\ t.acc.calls = calls /\ t.acc.thinking = thinking

\* The adapter gives the FINISH, after the end of a text perhaps.
Closes(p, s, w) ==
  /\ s.is = "open" /\ s.acc \in Accs
  /\ \E st, d, e : /\ d.type \in Quiet /\ e.type = "FINISH"
                   /\ \/ Adapt(p, s.ad, w) = Give(st, <<e>>)
                      \/ Adapt(p, s.ad, w) = Give(st, <<d, e>>)

LEMMA Finishes ==
  ASSUME NEW p, NEW s, NEW w, Closes(p, s, w), NEW text, NEW calls, NEW thinking,
         Agrees(s, text, calls, thinking)
  PROVE  \E t : Fed(p, s, w, t) /\ Agrees(t, text, calls, thinking)
<1>1. PICK st, d, e : /\ d.type \in Quiet /\ e.type = "FINISH"
                      /\ \/ Adapt(p, s.ad, w) = Give(st, <<e>>)
                         \/ Adapt(p, s.ad, w) = Give(st, <<d, e>>)
  BY DEF Closes
<1>2. s.is = "open" /\ s.acc \in Accs
  BY DEF Closes
<1>. DEFINE goal == [s.acc EXCEPT !.reason = e.reason]
            t == State(st, goal, "open")
<1>3. Accumulated(s.acc, d) = s.acc /\ Accumulated(s.acc, e) = goal
  BY <1>1, <1>2, AccumulatedIs DEF Quiet
<1>4. goal.text = s.acc.text /\ goal.calls = s.acc.calls /\ goal.thinking = s.acc.thinking
  BY <1>2 DEF Accs
<1>. HIDE DEF goal
<1>5. ~Dooms(d) /\ ~Dooms(e)
  BY <1>1 DEF Quiet, Dooms
<1>6. Leads(s.acc, <<e>>, goal) /\ ~Doomed(<<e>>)
  BY <1>3, <1>5, LeadsOne
<1>7. Leads(s.acc, <<d, e>>, goal) /\ ~Doomed(<<d, e>>)
  BY <1>3, <1>5, LeadsTwo
<1>8. Fed(p, s, w, t)
  BY <1>1, <1>2, <1>6, <1>7, FedOut
<1>9. t.acc = goal /\ t.is = "open"
  BY DEF State
<1>. HIDE DEF t
<1>10. Agrees(t, text, calls, thinking)
  BY <1>2, <1>4, <1>9 DEF Agrees
<1>. QED BY <1>8, <1>10

LEMMA LeadsBoth ==
  ASSUME NEW a, NEW u, IsSeq(u), NEW b, Leads(a, u, b), NEW w, IsSeq(w), NEW c, Leads(b, w, c)
  PROVE  /\ Leads(a, u \o w, c)
         /\ ~Doomed(u) /\ ~Doomed(w) => ~Doomed(u \o w)
<1>. DEFINE m == Len(u)
            n == Len(w)
            q == u \o w
<1>1. PICK f : f[0] = a /\ f[m] = b /\ \A k \in 1..m : f[k] = Accumulated(f[k - 1], u[k])
  BY DEF Leads
<1>2. PICK g : g[0] = b /\ g[n] = c /\ \A k \in 1..n : g[k] = Accumulated(g[k - 1], w[k])
  BY DEF Leads
<1>c. m \in Nat /\ n \in Nat /\ Len(q) = m + n
  BY Concatenated
<1>d. \A k \in 1..m : q[k] = u[k]
  BY Concatenated
<1>e. \A k \in 1..n : q[m + k] = w[k]
  BY Concatenated
<1>3. /\ m \in Nat /\ n \in Nat /\ Len(q) = m + n
      /\ \A k \in 1..m : q[k] = u[k]
      /\ \A k \in 1..n : q[m + k] = w[k]
  BY <1>c, <1>d, <1>e, Zenon
<1>a. ~Doomed(u) => \A k \in 1..m : ~Dooms(u[k])
  BY DEF Doomed
<1>b. ~Doomed(w) => \A k \in 1..n : ~Dooms(w[k])
  BY DEF Doomed
<1>. HIDE DEF m, n, q
<1>. DEFINE h == [k \in 0..(m + n) |-> IF k <= m THEN f[k] ELSE g[k - m]]
<1>4. \A k \in 0..m : h[k] = f[k]
  BY <1>3
<1>5. ASSUME NEW k \in 0..n PROVE h[m + k] = g[k]
  <2>1. m + k \in 0..(m + n) /\ (m + k) - m = k
    BY <1>3
  <2>2. CASE k = 0
    <3>1. h[m + k] = f[m]
      BY <1>3, <2>1, <2>2
    <3>. QED BY <1>1, <1>2, <2>2, <3>1
  <2>3. CASE k # 0
    <3>1. ~(m + k <= m)
      BY <1>3, <2>3
    <3>2. h[m + k] = g[(m + k) - m]
      BY <2>1, <3>1
    <3>. QED BY <2>1, <3>2
  <2>. QED BY <2>2, <2>3
<1>. HIDE DEF h
<1>6. h[0] = a /\ h[Len(q)] = c
  BY <1>1, <1>2, <1>3, <1>4, <1>5
<1>7. \A k \in 1..Len(q) : k \in 1..m \/ \E i \in 1..n : k = m + i
  <2>1. SUFFICES ASSUME NEW k \in 1..Len(q), ~(k <= m) PROVE \E i \in 1..n : k = m + i
    BY <1>3
  <2>2. k - m \in 1..n /\ k = m + (k - m)
    BY <1>3, <2>1
  <2>. QED BY <2>2
<1>8. ASSUME NEW k \in 1..Len(q) PROVE h[k] = Accumulated(h[k - 1], q[k])
  <2>1. CASE k \in 1..m
    <3>1. k \in 0..m /\ k - 1 \in 0..m
      BY <1>3, <2>1
    <3>. QED BY <1>1, <1>3, <1>4, <2>1, <3>1
  <2>2. CASE \E i \in 1..n : k = m + i
    <3>1. PICK i \in 1..n : k = m + i
      BY <2>2
    <3>2. i \in 0..n /\ i - 1 \in 0..n /\ k - 1 = m + (i - 1)
      BY <1>3, <3>1
    <3>3. q[k] = w[i] /\ h[k] = g[i] /\ h[k - 1] = g[i - 1]
      BY <1>3, <1>5, <3>1, <3>2
    <3>. QED BY <1>2, <3>1, <3>3
  <2>. QED BY <1>7, <2>1, <2>2
<1>9. Leads(a, q, c)
  <2>1. IsSeq(q)
    BY Concatenated DEF q
  <2>. QED BY <1>6, <1>8, <2>1 DEF Leads
<1>10. ~Doomed(u) /\ ~Doomed(w) => ~Doomed(q)
  <2>1. SUFFICES ASSUME ~Doomed(u), ~Doomed(w), NEW k \in 1..Len(q) PROVE ~Dooms(q[k])
    BY DEF Doomed
  <2>2. CASE k \in 1..m
    BY <1>3, <1>a, <2>1, <2>2
  <2>3. CASE \E i \in 1..n : k = m + i
    BY <1>3, <1>b, <2>1, <2>3
  <2>. QED BY <1>7, <2>2, <2>3
<1>. QED BY <1>9, <1>10 DEF q

\* The ends of all the calls that are open.
EndsOf(open) == [i \in DOMAIN open |-> Event("TOOL_CALL_END", open[i], "none")]

LEMMA EndsLead ==
  ASSUME NEW acc \in Accs, acc.calls = <<>>, NEW open \in Seq(Nat)
  PROVE  /\ Leads(acc, EndsOf(open), [acc EXCEPT !.calls = open])
         /\ ~Doomed(EndsOf(open)) /\ IsSeq(EndsOf(open))
         /\ open = <<>> => EndsOf(open) = <<>>
<1>. DEFINE n == Len(open)
            out == EndsOf(open)
            S == {Event("TOOL_CALL_END", open[i], "none") : i \in 1..n}
            f == [k \in 0..n |-> [acc EXCEPT !.calls = SubSeq(open, 1, k)]]
<1>1. n \in Nat /\ DOMAIN open = 1..n
  OBVIOUS
<1>2. out \in Seq(S) /\ Len(out) = n /\ (n = 0 => out = <<>>)
  BY <1>1 DEF EndsOf
<1>3. \A k \in 1..n : out[k].type = "TOOL_CALL_END" /\ out[k].id = open[k]
  BY <1>1, EventIs DEF EndsOf
<1>4. IsSeq(out)
  BY <1>2 DEF IsSeq
<1>. HIDE DEF out, S
<1>5. SubSeq(open, 1, 0) = <<>> /\ SubSeq(open, 1, n) = open
  OBVIOUS
<1>6. \A k \in 1..n : Append(SubSeq(open, 1, k - 1), open[k]) = SubSeq(open, 1, k)
  OBVIOUS
<1>7. \A k \in 0..n : SubSeq(open, 1, k) \in Seq(Nat)
  OBVIOUS
<1>8. f[0] = acc /\ f[n] = [acc EXCEPT !.calls = open]
  <2>1. f[0] = [acc EXCEPT !.calls = SubSeq(open, 1, 0)]
    BY <1>1
  <2>2. f[n] = [acc EXCEPT !.calls = SubSeq(open, 1, n)]
    BY <1>1
  <2>3. [acc EXCEPT !.calls = <<>>] = acc
    BY DEF Accs
  <2>. HIDE DEF f
  <2>. QED BY <1>5, <2>1, <2>2, <2>3
<1>9. ASSUME NEW k \in 1..n PROVE f[k] = Accumulated(f[k - 1], out[k])
  <2>1. /\ f[k] = [acc EXCEPT !.calls = SubSeq(open, 1, k)]
        /\ f[k - 1] = [acc EXCEPT !.calls = SubSeq(open, 1, k - 1)]
    BY <1>1
  <2>. DEFINE before == f[k - 1]
  <2>2. before \in Accs /\ before.calls = SubSeq(open, 1, k - 1)
    <3>1. SubSeq(open, 1, k - 1) \in Seq(Nat)
      BY <1>1, <1>7
    <3>. DEFINE prefix == SubSeq(open, 1, k - 1)
    <3>2. prefix \in Seq(Nat) /\ before = [acc EXCEPT !.calls = prefix]
      BY <2>1, <3>1
    <3>. HIDE DEF prefix, before
    <3>3. before \in Accs /\ before.calls = prefix
      BY <3>2 DEF Accs
    <3>. QED BY <3>3 DEF prefix
  <2>3. [before EXCEPT !.calls = SubSeq(open, 1, k)] = [acc EXCEPT !.calls = SubSeq(open, 1, k)]
    BY <2>1 DEF Accs
  <2>. HIDE DEF before, f
  <2>4. Accumulated(before, out[k]) = [before EXCEPT !.calls = Append(before.calls, out[k].id)]
    BY <1>3, <2>2, AccumulatedIs
  <2>5. Append(before.calls, out[k].id) = SubSeq(open, 1, k)
    BY <1>3, <1>6, <2>2
  <2>6. Accumulated(before, out[k]) = f[k]
    BY <2>1, <2>3, <2>4, <2>5
  <2>. QED BY <2>6 DEF before
<1>. HIDE DEF f
<1>10. Leads(acc, out, [acc EXCEPT !.calls = open])
  BY <1>2, <1>4, <1>8, <1>9 DEF Leads
<1>11. ~Doomed(out)
  BY <1>2, <1>3 DEF Doomed, Dooms
<1>12. open = <<>> => out = <<>>
  BY <1>2
<1>. QED BY <1>4, <1>10, <1>11, <1>12 DEF out

LEMMA ReasonsAre ==
  ASSUME NEW ending
  PROVE  /\ AnthropicReason(ending) \in Reasons /\ GeminiReason(ending) \in Reasons
         /\ CompatReason(ending) \in Reasons
<1>1. AnthropicReason(ending) \in Reasons
  BY DEF AnthropicReason, Reasons
<1>2. GeminiReason(ending) \in Reasons
  BY DEF GeminiReason, Reasons
<1>3. CompatReason(ending) \in Reasons
  BY <1>1 DEF CompatReason, Reasons
<1>. QED BY <1>1, <1>2, <1>3

LEMMA ClosingLeads ==
  ASSUME NEW st \in AdStates, NEW acc \in Accs, acc.calls = <<>>, NEW e, e.type = "FINISH",
         e.reason \in Reasons
  PROVE  \E goal \in Accs :
           /\ Leads(acc, Closing(st) \o <<e>>, goal) /\ ~Doomed(Closing(st) \o <<e>>)
           /\ goal.text = acc.text /\ goal.thinking = acc.thinking /\ goal.calls = st.open
<1>. DEFINE d == Plain("TEXT_END")
            head == IF st.text THEN <<d>> ELSE <<>>
            ends == EndsOf(st.open)
            full == [acc EXCEPT !.calls = st.open]
            goal == [full EXCEPT !.reason = e.reason]
<1>1. Closing(st) = head \o ends
  BY Zenon DEF Closing, EndsOf
<1>2. st.open \in Seq(Nat)
  BY DEF AdStates
<1>3. Leads(acc, ends, full) /\ ~Doomed(ends) /\ IsSeq(ends)
  BY <1>2, EndsLead
<1>4. d.type = "TEXT_END"
  BY EventIs
<1>5. full \in Accs /\ full.text = acc.text /\ full.thinking = acc.thinking /\ full.calls = st.open
  BY <1>2 DEF Accs
<1>. HIDE DEF d, ends, full
<1>6. Leads(acc, head, acc) /\ ~Doomed(head) /\ IsSeq(head)
  <2>1. Accumulated(acc, d) = acc
    BY <1>4, AccumulatedIs
  <2>2. Leads(acc, <<d>>, acc) /\ ~Doomed(<<d>>) /\ IsSeq(<<d>>)
    BY <1>4, <2>1, LeadsOne, OneIs DEF Dooms
  <2>3. Leads(acc, <<>>, acc) /\ ~Doomed(<<>>) /\ IsSeq(<<>>)
    BY LeadsNowhere, EmptyIs
  <2>4. head = <<d>> \/ head = <<>>
    OBVIOUS
  <2>. HIDE DEF head
  <2>. QED BY <2>2, <2>3, <2>4
<1>. HIDE DEF head
<1>7. Leads(acc, head \o ends, full) /\ ~Doomed(head \o ends) /\ IsSeq(head \o ends)
  BY <1>3, <1>6, LeadsBoth, Concatenated
<1>8. Accumulated(full, e) = goal
  BY <1>5, AccumulatedIs
<1>9. goal \in Accs /\ goal.text = full.text /\ goal.thinking = full.thinking /\ goal.calls = full.calls
  BY <1>5 DEF Accs
<1>. HIDE DEF goal
<1>10. Leads(full, <<e>>, goal) /\ ~Doomed(<<e>>) /\ IsSeq(<<e>>)
  BY <1>8, LeadsOne, OneIs DEF Dooms
<1>. DEFINE closing == head \o ends
<1>. HIDE DEF closing
<1>11. Leads(acc, closing \o <<e>>, goal) /\ ~Doomed(closing \o <<e>>)
  BY <1>7, <1>10, LeadsBoth DEF closing
<1>. QED BY <1>1, <1>5, <1>9, <1>11 DEF closing

LEMMA NothingCloses ==
  ASSUME NEW st \in AdStates, st.text = FALSE, st.open = <<>>, NEW e
  PROVE  Closing(st) \o <<e>> = <<e>>
<1>1. EndsOf(<<>>) = <<>>
  <2>1. \E acc : acc \in Accs /\ acc.calls = <<>>
    <3>. DEFINE acc == [text |-> 0, thinking |-> FALSE, calls |-> <<>>, reason |-> "other"]
    <3>1. acc \in Accs /\ acc.calls = <<>>
      BY DEF Accs, Reasons
    <3>. QED BY <3>1
  <2>2. <<>> \in Seq(Nat)
    OBVIOUS
  <2>. QED BY <2>1, <2>2, EndsLead
<1>2. Closing(st) = <<>> \o EndsOf(st.open)
  BY DEF Closing, EndsOf
<1>3. Closing(st) = <<>>
  BY <1>1, <1>2, EmptyIs, AfterNothing
<1>4. <<>> \o <<e>> = <<e>>
  BY OneIs, AfterNothing
<1>. QED BY <1>3, <1>4

\* What is told at the end of the blocks is what the stream agrees on.
LEMMA ToldAgrees ==
  ASSUME NEW p, p # "compat", NEW s, NEW text, NEW calls, NEW thinking,
         Told(p, s, text, calls, thinking)
  PROVE  Agrees(s, text, calls, thinking) /\ (s.is = "open" => s.acc \in Accs /\ s.ad \in AdStates)
BY DEF Told, Agrees

LEMMA AnthropicEnds ==
  ASSUME NEW a, NEW s, s.is = "open", NEW text, NEW calls, NEW thinking,
         Told("anthropic", s, text, calls, thinking)
  PROVE  \E t : /\ Run("anthropic", s, EndWire("anthropic", a), t)
                /\ Agrees(t, text, calls, thinking)
<1>. DEFINE p == "anthropic"
            v == Wire("message_delta", a.ending, 0)
            w == Wire("message_stop", "none", 0)
            st == [s.ad EXCEPT !.reason = AnthropicReason(a.ending)]
<1>1. EndWire(p, a) = <<v, w>>
  BY Zenon DEF EndWire
<1>2. v.w = "message_delta" /\ v.kind = a.ending /\ w.w = "message_stop"
  BY WireIs
<1>3. s.ad \in AdStates
  BY DEF Told
<1>4. Mute(p, s, v, st)
  <2>1. st \in AdStates /\ st.open = s.ad.open
    BY <1>3, ReasonsAre DEF AdStates
  <2>. HIDE DEF v
  <2>2. Adapt(p, s.ad, v) = Keep(st)
    BY <1>2 DEF Adapt, AnthropicEvent
  <2>. HIDE DEF st, p
  <2>. QED BY <2>1, <2>2 DEF Mute
<1>5. Told(p, s, text, calls, thinking) /\ p # "compat"
  OBVIOUS
<1>. HIDE DEF v, w, st
<1>6. PICK r : Fed(p, s, v, r) /\ r.is = "open" /\ Told(p, r, text, calls, thinking)
  <2>. HIDE DEF p
  <2>. QED BY <1>4, <1>5, Silent
<1>7. Closes(p, r, w)
  <2>. DEFINE e == Event("FINISH", 0, r.ad.reason)
  <2>1. Adapt(p, r.ad, w) = Give(r.ad, <<e>>)
    BY <1>2 DEF Adapt, AnthropicEvent
  <2>2. e.type = "FINISH" /\ Plain("TEXT_END").type \in Quiet
    BY EventIs DEF Quiet
  <2>3. r.acc \in Accs
    BY <1>6 DEF Told
  <2>. HIDE DEF e, p
  <2>. QED BY <1>6, <2>1, <2>2, <2>3 DEF Closes
<1>. HIDE DEF p
<1>8. PICK t : Fed(p, r, w, t) /\ Agrees(t, text, calls, thinking)
  BY <1>5, <1>6, <1>7, ToldAgrees, Finishes
<1>9. Run(p, s, <<v>> \o <<w>>, t)
  BY <1>6, <1>8, RunOne, OneIs, RunBoth
<1>10. Run(p, s, <<v, w>>, t)
  BY <1>9, TwoIs
<1>. QED BY <1>1, <1>8, <1>10 DEF p

LEMMA OpenAIEnds ==
  ASSUME NEW a, NEW s, s.is = "open", NEW text, NEW calls, NEW thinking,
         Told("openai", s, text, calls, thinking)
  PROVE  \E t : /\ Run("openai", s, EndWire("openai", a), t)
                /\ Agrees(t, text, calls, thinking)
<1>. DEFINE p == "openai"
            v == Wire("incomplete", "none", 0)
            w == Wire("completed", a.ending, Len(CallIds(a)))
<1>1. EndWire(p, a) = <<v>> \/ EndWire(p, a) = <<w>>
  BY DEF EndWire
<1>2. v.w = "incomplete" /\ w.w = "completed"
  BY WireIs
<1>3. s.ad \in AdStates /\ s.acc \in Accs /\ p # "compat" /\ Told(p, s, text, calls, thinking)
  BY DEF Told
<1>. HIDE DEF v, w
<1>4. \E t : Fed(p, s, v, t) /\ Agrees(t, text, calls, thinking)
  <2>1. Adapt(p, s.ad, v) = Keep(s.ad)
    BY <1>2 DEF Adapt, OpenAIEvent
  <2>. HIDE DEF p
  <2>2. Mute(p, s, v, s.ad)
    BY <1>3, <2>1 DEF Mute
  <2>3. PICK t : Fed(p, s, v, t) /\ Told(p, t, text, calls, thinking)
    BY <1>3, <2>2, Silent
  <2>. QED BY <1>3, <2>3, ToldAgrees
<1>5. \E t : Fed(p, s, w, t) /\ Agrees(t, text, calls, thinking)
  <2>. DEFINE e == Event("FINISH", 0, OpenAIReason(w.kind, w.id > 0))
  <2>1. Adapt(p, s.ad, w) = Give(s.ad, <<e>>)
    BY <1>2 DEF Adapt, OpenAIEvent
  <2>2. e.type = "FINISH" /\ Plain("TEXT_END").type \in Quiet
    BY EventIs DEF Quiet
  <2>. HIDE DEF e, p
  <2>3. Closes(p, s, w)
    BY <1>3, <2>1, <2>2 DEF Closes
  <2>. QED BY <1>3, <2>3, ToldAgrees, Finishes
<1>. HIDE DEF p
<1>6. \E t : Run(p, s, <<v>>, t) /\ Agrees(t, text, calls, thinking)
  BY <1>4, RunOne
<1>7. \E t : Run(p, s, <<w>>, t) /\ Agrees(t, text, calls, thinking)
  BY <1>5, RunOne
<1>8. \E t : Run(p, s, EndWire(p, a), t) /\ Agrees(t, text, calls, thinking)
  BY <1>1, <1>6, <1>7
<1>. QED BY <1>8 DEF p

LEMMA CompatEnds ==
  ASSUME NEW a, NEW s, s.is = "open", NEW text, NEW calls, NEW thinking,
         Told("compat", s, text, calls, thinking)
  PROVE  \E t : /\ Run("compat", s, EndWire("compat", a), t)
                /\ Agrees(t, text, calls, thinking)
<1>. DEFINE p == "compat"
            v == Wire("finish", a.ending, 0)
            w == Wire("usage", "none", 0)
            st == [s.ad EXCEPT !.text = FALSE, !.open = <<>>]
            e == Event("FINISH", 0, CompatReason(v.kind))
            d == Event("FINISH", 0, IF st.seen THEN "tool_calls" ELSE "stop")
<1>1. EndWire(p, a) = <<v, w>>
  BY Zenon DEF EndWire
<1>2. v.w = "finish" /\ w.w = "usage"
  BY WireIs
<1>3. /\ s.ad \in AdStates /\ s.acc \in Accs /\ s.acc.calls = <<>> /\ s.ad.open = calls
      /\ s.acc.text = text /\ s.acc.thinking = thinking
  BY DEF Told
<1>4. st \in AdStates /\ st.text = FALSE /\ st.open = <<>>
  <2>1. st.text = FALSE /\ st.open = <<>>
    BY <1>3 DEF AdStates
  <2>2. [s.ad EXCEPT !.text = FALSE] \in AdStates
    BY <1>3 DEF AdStates
  <2>3. <<>> \in Seq(Nat)
    OBVIOUS
  <2>4. st \in AdStates
    BY <1>3, <2>2, <2>3 DEF AdStates
  <2>. QED BY <2>1, <2>4
<1>5. /\ e.type = "FINISH" /\ e.reason \in Reasons
      /\ d.type = "FINISH" /\ Plain("TEXT_END").type \in Quiet
  BY EventIs, ReasonsAre DEF Quiet
<1>6. Adapt(p, s.ad, v) = Give(st, Closing(s.ad) \o <<e>>)
  <2>. HIDE DEF v
  <2>. QED BY <1>2 DEF Adapt, CompatEvent
<1>7. \A ad1 : ad1 = st =>
        Adapt(p, ad1, w) = Give([st EXCEPT !.text = FALSE, !.open = <<>>], Closing(st) \o <<d>>)
  <2>. HIDE DEF w, st
  <2>. QED BY <1>2 DEF Adapt, CompatEvent
<1>. HIDE DEF e, d, v, w, st, p
<1>8. PICK goal \in Accs :
           /\ Leads(s.acc, Closing(s.ad) \o <<e>>, goal) /\ ~Doomed(Closing(s.ad) \o <<e>>)
           /\ goal.text = s.acc.text /\ goal.thinking = s.acc.thinking /\ goal.calls = s.ad.open
  BY <1>3, <1>5, ClosingLeads
<1>. DEFINE r == State(st, goal, "open")
<1>9. Fed(p, s, v, r)
  BY <1>6, <1>8, FedOut
<1>10. r.ad = st /\ r.acc = goal /\ r.is = "open"
  BY DEF State
<1>. HIDE DEF r
<1>11. Agrees(r, text, calls, thinking)
  BY <1>3, <1>8, <1>10 DEF Agrees
<1>12. Closes(p, r, w)
  <2>. DEFINE to == [st EXCEPT !.text = FALSE, !.open = <<>>]
  <2>. HIDE DEF to
  <2>1. Adapt(p, r.ad, w) = Give(to, <<d>>)
    <3>1. Closing(st) \o <<d>> = <<d>>
      BY <1>4, NothingCloses
    <3>. QED BY <1>7, <1>10, <3>1 DEF to
  <2>. QED BY <1>5, <1>8, <1>10, <2>1 DEF Closes
<1>13. PICK t : Fed(p, r, w, t) /\ Agrees(t, text, calls, thinking)
  BY <1>11, <1>12, Finishes
<1>14. Run(p, s, <<v>> \o <<w>>, t)
  BY <1>9, <1>13, RunOne, OneIs, RunBoth
<1>15. Run(p, s, <<v, w>>, t)
  BY <1>14, TwoIs
<1>. QED BY <1>1, <1>13, <1>15 DEF p

LEMMA GeminiEnds ==
  ASSUME NEW a, NEW s, s.is = "open", NEW text, NEW calls, NEW thinking,
         Told("gemini", s, text, calls, thinking)
  PROVE  \E t : /\ Run("gemini", s, EndWire("gemini", a), t)
                /\ Agrees(t, text, calls, thinking)
<1>. DEFINE p == "gemini"
            v == Wire(IF a.bare THEN "bare" ELSE "finish", a.ending, 0)
            w == Wire("eof", "none", 0)
            st == [s.ad EXCEPT !.reason = GeminiReason(v.kind)]
            d == Plain("TEXT_END")
<1>1. EndWire(p, a) = <<v, w>>
  BY Zenon DEF EndWire
<1>2. (v.w = "bare" \/ v.w = "finish") /\ w.w = "eof"
  BY WireIs
<1>3. s.ad \in AdStates /\ p # "compat" /\ Told(p, s, text, calls, thinking)
  BY DEF Told
<1>. HIDE DEF v, w
<1>4. \E to : Mute(p, s, v, to)
  <2>1. CASE v.w = "bare"
    <3>1. Adapt(p, s.ad, v) = Keep(s.ad)
      BY <2>1 DEF Adapt, GeminiEvent
    <3>. HIDE DEF p
    <3>2. Mute(p, s, v, s.ad)
      BY <1>3, <3>1 DEF Mute
    <3>. QED BY <3>2
  <2>2. CASE v.w = "finish"
    <3>1. st \in AdStates /\ st.open = s.ad.open
      BY <1>3, ReasonsAre DEF AdStates
    <3>2. Adapt(p, s.ad, v) = Keep(st)
      BY <2>2 DEF Adapt, GeminiEvent
    <3>. HIDE DEF p, st
    <3>3. Mute(p, s, v, st)
      BY <3>1, <3>2 DEF Mute
    <3>. QED BY <3>3
  <2>. QED BY <1>2, <2>1, <2>2
<1>5. PICK r : Fed(p, s, v, r) /\ r.is = "open" /\ Told(p, r, text, calls, thinking)
  <2>. HIDE DEF p
  <2>. QED BY <1>3, <1>4, Silent
<1>6. Closes(p, r, w)
  <2>. DEFINE e == Event("FINISH", 0, IF r.ad.seen THEN "tool_calls" ELSE r.ad.reason)
  <2>1. Adapt(p, r.ad, w) = Give(r.ad, (IF r.ad.text THEN <<d>> ELSE <<>>) \o <<e>>)
    BY <1>2 DEF Adapt, GeminiEvent
  <2>2. e.type = "FINISH" /\ d.type \in Quiet
    BY EventIs DEF Quiet
  <2>3. r.acc \in Accs
    BY <1>5 DEF Told
  <2>. HIDE DEF e, p, d
  <2>4. (<<>> \o <<e>>) = <<e>> /\ (<<d>> \o <<e>>) = <<d, e>>
    BY OneIs, TwoIs, AfterNothing
  <2>5. Adapt(p, r.ad, w) = Give(r.ad, <<e>>) \/ Adapt(p, r.ad, w) = Give(r.ad, <<d, e>>)
    <3>1. CASE r.ad.text
      BY <2>1, <2>4, <3>1
    <3>2. CASE ~r.ad.text
      BY <2>1, <2>4, <3>2
    <3>. QED BY <3>1, <3>2
  <2>. QED BY <1>5, <2>2, <2>3, <2>5 DEF Closes
<1>. HIDE DEF p
<1>7. PICK t : Fed(p, r, w, t) /\ Agrees(t, text, calls, thinking)
  BY <1>3, <1>5, <1>6, ToldAgrees, Finishes
<1>8. Run(p, s, <<v>> \o <<w>>, t)
  BY <1>5, <1>7, RunOne, OneIs, RunBoth
<1>9. Run(p, s, <<v, w>>, t)
  BY <1>8, TwoIs
<1>. QED BY <1>1, <1>7, <1>9 DEF p

LEMMA EndRuns ==
  ASSUME NEW p \in Providers, NEW a, NEW s, NEW text, NEW calls, NEW thinking,
         Told(p, s, text, calls, thinking)
  PROVE  /\ IsSeq(EndWire(p, a))
         /\ \E t : Run(p, s, EndWire(p, a), t) /\ Agrees(t, text, calls, thinking)
<1>1. IsSeq(EndWire(p, a))
  <2>1. \E v, w : EndWire(p, a) = <<v>> \/ EndWire(p, a) = <<v, w>>
    <3>1. CASE p = "anthropic"
      BY <3>1 DEF EndWire
    <3>2. CASE p = "openai"
      BY <3>2 DEF EndWire
    <3>3. CASE p = "compat"
      BY <3>3 DEF EndWire
    <3>4. CASE p = "gemini"
      BY <3>4 DEF EndWire
    <3>. QED BY <3>1, <3>2, <3>3, <3>4 DEF Providers
  <2>. QED BY <2>1, OneIs, TwoIs
<1>2. CASE s.is # "open"
  <2>1. Run(p, s, EndWire(p, a), s)
    BY <1>1, <1>2, RunDoomed
  <2>2. Agrees(s, text, calls, thinking)
    BY <1>2 DEF Agrees
  <2>. QED BY <1>1, <2>1, <2>2
<1>3. CASE s.is = "open" /\ p = "anthropic"
  BY <1>1, <1>3, AnthropicEnds
<1>4. CASE s.is = "open" /\ p = "openai"
  BY <1>1, <1>4, OpenAIEnds
<1>5. CASE s.is = "open" /\ p = "compat"
  BY <1>1, <1>5, CompatEnds
<1>6. CASE s.is = "open" /\ p = "gemini"
  BY <1>1, <1>6, GeminiEnds
<1>. QED BY <1>2, <1>3, <1>4, <1>5, <1>6 DEF Providers

\* Where a stream begins.
Start == State(AdapterInit, AccumulatorInit, "open")

LEMMA Started ==
  ASSUME NEW p \in Providers
  PROVE  /\ IsSeq(IF p \in {"gemini"} THEN <<>> ELSE <<Wire("created", "none", 0)>>)
         /\ \E t : /\ Run(p, Start, IF p \in {"gemini"} THEN <<>>
                                 ELSE <<Wire("created", "none", 0)>>, t)
                   /\ Told(p, t, 0, <<>>, FALSE)
<1>. DEFINE w == Wire("created", "none", 0)
            head == IF p \in {"gemini"} THEN <<>> ELSE <<w>>
            e == Plain("STREAM_START")
            st == AdapterInit
<1>1. Start.ad = st /\ Start.acc = AccumulatorInit /\ Start.is = "open"
  BY DEF Start, State
<1>2. w.w = "created" /\ e.type \in Quiet
  BY WireIs, EventIs DEF Quiet
<1>3. st \in AdStates /\ st.open = <<>>
  BY DEF AdStates, AdapterInit, Reasons
<1>4. Told(p, Start, 0, <<>>, FALSE)
  <2>1. AccumulatorInit \in Accs
    BY DEF AccumulatorInit, Accs, Reasons
  <2>2. /\ AccumulatorInit.text = 0 /\ AccumulatorInit.thinking = FALSE
        /\ AccumulatorInit.calls = <<>>
    BY DEF AccumulatorInit
  <2>. HIDE DEF st
  <2>. QED BY <1>1, <1>3, <2>1, <2>2 DEF Told
<1>. HIDE DEF w, st
<1>5. IsSeq(head)
  BY EmptyIs, OneIs
<1>6. CASE p = "gemini"
  BY <1>4, <1>5, <1>6, RunNothing
<1>7. CASE p # "gemini"
  <2>1. Adapt(p, st, w) = Give(st, <<e>>)
    BY <1>2, <1>7 DEF Adapt, AnthropicEvent, OpenAIEvent, CompatEvent, Providers
  <2>. HIDE DEF e, head
  <2>2. Mute(p, Start, w, st)
    BY <1>1, <1>2, <1>3, <2>1 DEF Mute
  <2>3. PICK t : Fed(p, Start, w, t) /\ Told(p, t, 0, <<>>, FALSE)
    BY <1>4, <2>2, Silent
  <2>4. Run(p, Start, <<w>>, t) /\ head = <<w>>
    BY <1>7, <2>3, RunOne DEF head
  <2>. QED BY <1>5, <2>3, <2>4 DEF head, w
<1>. QED BY <1>6, <1>7

----------------------------------------------------------------------------
(* A whole stream, and what complete() gives                               *)

\* A stream that no strict validator breaks off ends with what complete() returns.
LEMMA WireRuns ==
  ASSUME NEW p \in Providers, NEW a, IsSeq(a.blocks),
         \A i \in 1..Len(a.blocks) : Spoken(p, a.blocks[i])
  PROVE  /\ IsSeq(WireOf(p, a))
         /\ \E t : /\ Run(p, Start, WireOf(p, a), t)
                   /\ Agrees(t, FoldLeft(AddText, 0, a.blocks), CallIds(a),
                             Thought(a.blocks, Len(a.blocks)))
<1>. DEFINE head == IF p \in {"gemini"} THEN <<>> ELSE <<Wire("created", "none", 0)>>
            middle == BlocksWire(p, a.blocks)
            end == EndWire(p, a)
            text == FoldLeft(AddText, 0, a.blocks)
            calls == CallIds(a)
            thinking == Thought(a.blocks, Len(a.blocks))
<1>1. WireOf(p, a) = (head \o middle) \o end
  BY Zenon DEF WireOf, BlocksWire
<1>2. PICK r : IsSeq(head) /\ Run(p, Start, head, r) /\ Told(p, r, 0, <<>>, FALSE)
  BY Started
<1>. HIDE DEF head, end
<1>3. PICK q : IsSeq(middle) /\ Run(p, r, middle, q) /\ Told(p, q, text, calls, thinking)
  BY <1>2, BlocksRun DEF CallIds
<1>. HIDE DEF middle, text, calls, thinking
<1>4. PICK t : IsSeq(end) /\ Run(p, q, end, t) /\ Agrees(t, text, calls, thinking)
  BY <1>3, EndRuns DEF end
<1>5. IsSeq(head \o middle) /\ Run(p, Start, head \o middle, q)
  BY <1>2, <1>3, Concatenated, RunBoth
<1>6. IsSeq((head \o middle) \o end) /\ Run(p, Start, (head \o middle) \o end, t)
  BY <1>3, <1>4, <1>5, Concatenated, RunBoth
<1>. QED BY <1>1, <1>4, <1>6 DEF text, calls, thinking

\* The blocks an answer of this round is made of.
LEMMA AnswersSpoken ==
  ASSUME setup.provider \in Providers, round \in Nat, NEW a \in Answers
  PROVE  IsSeq(a.blocks) /\ \A i \in 1..Len(a.blocks) : Spoken(setup.provider, a.blocks[i])
<1>. DEFINE p == setup.provider
            n == FirstId(round)
<1>1. PICK b \in AnswerShapes : Speaks(p, b) /\ a = Numbered(b, n)
  BY DEF Answers
<1>2. n \in Nat
  BY BoundsAssumption DEF FirstId
<1>3. /\ b = [blocks |-> b.blocks, ending |-> b.ending, bare |-> b.bare]
      /\ b.blocks \in Seq(Blocks)
      /\ \A i \in DOMAIN b.blocks : b.blocks[i].kind = "thinking" => b.blocks[i].deltas > 0
  BY <1>1, AnswerShapesAssumption
<1>. DEFINE num(e) == Renumbered(e, n)
            m == Len(b.blocks)
<1>4. m \in Nat /\ DOMAIN b.blocks = 1..m /\ \A i \in 1..m : b.blocks[i] \in Blocks
  BY <1>3
<1>5. a.blocks = [i \in 1..m |-> num(b.blocks[i])]
  <2>. DEFINE F == [i \in DOMAIN b.blocks |->
                     num(b.blocks[i])]
  <2>0. a = [b EXCEPT !.blocks = F]
    BY <1>1 DEF Numbered
  <2>. HIDE DEF F
  <2>1. a.blocks = F
    BY <1>3, <2>0
  <2>. USE DEF F
  <2>. QED BY <1>4, <2>1
<1>6. \A e \in Blocks : /\ num(e).kind = e.kind /\ num(e).deltas = e.deltas
                        /\ num(e).id \in Nat
                        /\ e.kind \in {"text", "thinking", "call"} /\ e.deltas \in Nat
  BY <1>2, BoundsAssumption DEF Blocks, Renumbered
<1>7. \A i \in 1..m : /\ b.blocks[i].kind = "thinking" => p = "anthropic" /\ b.blocks[i].deltas > 0
                      /\ p = "openai" /\ b.blocks[i].kind = "call" => b.blocks[i].deltas > 0
  BY <1>1, <1>3, <1>4 DEF Speaks
<1>. HIDE DEF num, p, n, m
<1>8. IsSeq(a.blocks) /\ Len(a.blocks) = m
  <2>. DEFINE S == {num(b.blocks[i]) : i \in 1..m}
  <2>1. a.blocks \in Seq(S) /\ Len(a.blocks) = m
    BY <1>4, <1>5
  <2>. QED BY <2>1 DEF IsSeq
<1>9. \A i \in 1..m : Spoken(p, a.blocks[i])
  BY <1>4, <1>5, <1>6, <1>7 DEF Spoken
<1>. QED BY <1>8, <1>9 DEF p

\* What complete() returns for the same answer.
LEMMA ResponseIs ==
  ASSUME NEW p \in Providers, NEW a, IsSeq(a.blocks),
         \A i \in 1..Len(a.blocks) : Spoken(p, a.blocks[i])
  PROVE  /\ Response(p, a).text = FoldLeft(AddText, 0, a.blocks)
         /\ Response(p, a).calls = CallIds(a)
         /\ Response(p, a).thinking = Thought(a.blocks, Len(a.blocks))
<1>. DEFINE n == Len(a.blocks)
            text == FoldLeft(AddText, 0, a.blocks)
            any == \E i \in 1..n : a.blocks[i].kind = "thinking"
<1>1. DOMAIN a.blocks = 1..n
  BY SeqIs
<1>2. \A reason : /\ Given(a, TRUE, reason).text = text /\ Given(a, FALSE, reason).text = text
                  /\ Given(a, TRUE, reason).calls = CallIds(a)
                  /\ Given(a, FALSE, reason).calls = CallIds(a)
                  /\ Given(a, TRUE, reason).thinking = TRUE
                  /\ Given(a, FALSE, reason).thinking = FALSE
  BY DEF Given
<1>3. CASE p = "anthropic"
  <2>1. \E reason :
          Response(p, a)
            = Given(a, \E i \in DOMAIN a.blocks : a.blocks[i].kind = "thinking", reason)
    BY <1>3, Zenon DEF Response, AnthropicResponse
  <2>2. CASE any
    <3>1. \E reason : Response(p, a) = Given(a, TRUE, reason)
      BY <1>1, <2>1, <2>2, Zenon
    <3>2. Thought(a.blocks, n) = TRUE
      BY <2>2 DEF Thought
    <3>3. /\ Response(p, a).text = text /\ Response(p, a).calls = CallIds(a)
          /\ Response(p, a).thinking = TRUE
      <4>. HIDE DEF text
      <4>. QED BY <1>2, <3>1, Zenon
    <3>. QED BY <3>2, <3>3, Zenon
  <2>3. CASE ~any
    <3>1. \E reason : Response(p, a) = Given(a, FALSE, reason)
      BY <1>1, <2>1, <2>3, Zenon
    <3>2. Thought(a.blocks, n) = FALSE
      BY <2>3 DEF Thought
    <3>3. /\ Response(p, a).text = text /\ Response(p, a).calls = CallIds(a)
          /\ Response(p, a).thinking = FALSE
      <4>. HIDE DEF text
      <4>. QED BY <1>2, <3>1, Zenon
    <3>. QED BY <3>2, <3>3, Zenon
  <2>. QED BY <2>2, <2>3
<1>4. CASE p # "anthropic"
  <2>1. \E reason : Response(p, a) = Given(a, FALSE, reason)
    BY <1>4 DEF Response, OpenAIResponse, GeminiResponse, CompatResponse, Providers
  <2>2. ~any
    BY <1>4 DEF Spoken
  <2>3. Thought(a.blocks, n) = FALSE
    BY <2>2 DEF Thought
  <2>4. /\ Response(p, a).text = text /\ Response(p, a).calls = CallIds(a)
        /\ Response(p, a).thinking = FALSE
    <3>. HIDE DEF text
    <3>. QED BY <1>2, <2>1, Zenon
  <2>. QED BY <2>3, <2>4, Zenon
<1>. QED BY <1>3, <1>4

----------------------------------------------------------------------------
(* A stream gives what complete() gives                                    *)

\* The step agrees with what complete() returns for the answer.
AgreesWith(y) ==
  LET whole == Response(setup.provider, answer)
  IN y.text = whole.text /\ y.calls = whole.calls /\ y.thinking = whole.thinking

\* The events that are due lead to a state from which what is left of the wire leads
\* to an end that agrees; or one of them is refused.
OnTrack ==
  \/ Doomed(due)
  \/ \E s, t : /\ s.is = "open" /\ s.ad = ad /\ Leads(x.acc, due, s.acc)
               /\ Run(setup.provider, s, wire, t)
               /\ t.is = "open" => AgreesWith(t.acc)

StreamInv ==
  setup.mode # "warn" =>
    /\ pc = "stream" => /\ setup.provider \in Providers
                        /\ IsSeq(wire) /\ IsSeq(due) /\ OnTrack
    /\ setup.api = "stream" /\ pc \in {"tools", "done"} => AgreesWith(result)

LEMMA LedNowhere ==
  ASSUME NEW acc, NEW goal, Leads(acc, <<>>, goal)
  PROVE  goal = acc
<1>1. Len(<<>>) = 0
  OBVIOUS
<1>. QED BY <1>1 DEF Leads

LEMMA RunNowhere ==
  ASSUME NEW p, NEW s, NEW t, Run(p, s, <<>>, t)
  PROVE  t = s
<1>1. Len(<<>>) = 0
  OBVIOUS
<1>. QED BY <1>1 DEF Run

LEMMA TailIs ==
  ASSUME NEW s, IsSeq(s), s # <<>>
  PROVE  /\ IsSeq(Tail(s)) /\ Head(s) = s[1] /\ Len(s) \in Nat \ {0} /\ Len(Tail(s)) = Len(s) - 1
         /\ \A k \in 1..(Len(s) - 1) : Tail(s)[k] = s[k + 1]
<1>1. PICK S : s \in Seq(S)
  BY DEF IsSeq
<1>2. Tail(s) \in Seq(S)
  BY <1>1
<1>3. IsSeq(Tail(s))
  BY <1>2 DEF IsSeq
<1>. QED BY <1>1, <1>3

LEMMA DoomedOn ==
  ASSUME NEW out, IsSeq(out), out # <<>>, Doomed(out)
  PROVE  Dooms(Head(out)) \/ Doomed(Tail(out))
<1>. DEFINE n == Len(out)
            rest == Tail(out)
<1>1. PICK k \in 1..n : Dooms(out[k])
  BY DEF Doomed
<1>2. /\ n \in Nat /\ Len(rest) = n - 1 /\ Head(out) = out[1]
      /\ \A i \in 1..(n - 1) : rest[i] = out[i + 1]
  BY TailIs
<1>. HIDE DEF n, rest
<1>3. CASE k = 1
  BY <1>1, <1>2, <1>3
<1>4. CASE k # 1
  <2>1. k - 1 \in 1..(n - 1) /\ (k - 1) + 1 = k
    BY <1>2, <1>4
  <2>2. Dooms(rest[k - 1]) /\ k - 1 \in 1..Len(rest)
    BY <1>1, <1>2, <2>1
  <2>3. Doomed(rest)
    BY <2>2 DEF Doomed
  <2>. QED BY <2>3 DEF rest
<1>. QED BY <1>3, <1>4

LEMMA StreamConnected ==
  ASSUME setup.provider \in Providers, round \in Nat, NEW a \in Answers, StreamConnects(a)
  PROVE  StreamInv'
<1>. DEFINE p == setup.provider
<1>1. /\ setup' = setup /\ answer' = a /\ wire' = WireOf(p, a) /\ ad' = AdapterInit
      /\ due' = <<>> /\ x' = StreamInit /\ pc' = "stream"
  BY DEF StreamConnects
<1>2. IsSeq(a.blocks) /\ \A i \in 1..Len(a.blocks) : Spoken(p, a.blocks[i])
  BY AnswersSpoken
<1>3. PICK t : /\ Run(p, Start, WireOf(p, a), t)
               /\ Agrees(t, FoldLeft(AddText, 0, a.blocks), CallIds(a),
                         Thought(a.blocks, Len(a.blocks)))
  BY <1>2, WireRuns
<1>4. IsSeq(WireOf(p, a))
  BY <1>2, WireRuns
<1>5. /\ Response(p, a).text = FoldLeft(AddText, 0, a.blocks)
      /\ Response(p, a).calls = CallIds(a)
      /\ Response(p, a).thinking = Thought(a.blocks, Len(a.blocks))
  BY <1>2, ResponseIs
<1>6. t.is = "open" => /\ t.acc.text = Response(p, a).text
                       /\ t.acc.calls = Response(p, a).calls
                       /\ t.acc.thinking = Response(p, a).thinking
  BY <1>3, <1>5, Zenon DEF Agrees
<1>7. t.is = "open" => AgreesWith(t.acc)'
  BY <1>1, <1>6 DEF AgreesWith
<1>8. Start.is = "open" /\ Start.ad = AdapterInit /\ Start.acc = StreamInit.acc
  BY DEF Start, State, StreamInit
<1>9. Leads(x'.acc, due', Start.acc)
  BY <1>1, <1>8, LeadsNowhere
<1>10. Run(setup'.provider, Start, wire', t)
  BY <1>1, <1>3
<1>11. Start.is = "open" /\ Start.ad = ad'
  BY <1>1, <1>8
<1>12. OnTrack'
  BY <1>7, <1>9, <1>10, <1>11 DEF OnTrack
<1>13. IsSeq(wire') /\ IsSeq(due')
  BY <1>1, <1>4, EmptyIs
<1>. QED BY <1>1, <1>12, <1>13 DEF StreamInv

LEMMA StreamReads ==
  ASSUME StreamInv, WireEvent
  PROVE  StreamInv'
<1>. DEFINE p == setup.provider
            w == Head(wire)
            to == Adapt(p, ad, w)
<1>1. /\ pc = "stream" /\ due = <<>> /\ wire # <<>> /\ wire' = Tail(wire) /\ ad' = to.st
      /\ due' = to.out /\ UNCHANGED <<setup, pc, answer, x>>
  BY DEF WireEvent
<1>2. SUFFICES ASSUME setup.mode # "warn"
               PROVE  IsSeq(wire') /\ IsSeq(due') /\ OnTrack'
  BY <1>1 DEF StreamInv
<1>3. IsSeq(wire) /\ OnTrack /\ p \in Providers
  BY <1>1, <1>2 DEF StreamInv
<1>4. IsSeq(wire')
  BY <1>1, <1>3, TailIs
<1>6. PICK s, t : /\ s.is = "open" /\ s.ad = ad /\ Leads(x.acc, due, s.acc)
                  /\ Run(p, s, wire, t) /\ (t.is = "open" => AgreesWith(t.acc))
  <2>1. ~Doomed(due)
    BY <1>1, LeadsNowhere
  <2>. QED BY <1>3, <2>1 DEF OnTrack
<1>7. s.acc = x.acc
  BY <1>1, <1>6, LedNowhere
<1>8. PICK r : Fed(p, s, w, r) /\ Run(p, r, Tail(wire), t)
  BY <1>1, <1>3, <1>6, RunOn
<1>9. /\ IsSeq(to.out) /\ r.ad = to.st /\ r.is = (IF Doomed(to.out) THEN "doomed" ELSE "open")
      /\ r.is = "open" => Leads(s.acc, to.out, r.acc)
  BY <1>6, <1>8 DEF Fed
<1>5. IsSeq(due')
  BY <1>1, <1>9
<1>10. CASE Doomed(to.out)
  <2>1. Doomed(due')
    BY <1>1, <1>10
  <2>. QED BY <1>4, <1>5, <2>1 DEF OnTrack
<1>11. CASE ~Doomed(to.out)
  <2>1. r.is = "open" /\ r.ad = ad' /\ Leads(x'.acc, due', r.acc)
    BY <1>1, <1>7, <1>9, <1>11
  <2>2. Run(setup'.provider, r, wire', t)
    BY <1>1, <1>8
  <2>3. t.is = "open" => AgreesWith(t.acc)'
    BY <1>1, <1>6 DEF AgreesWith
  <2>4. OnTrack'
    BY <2>1, <2>2, <2>3 DEF OnTrack
  <2>. QED BY <1>4, <1>5, <2>4
<1>. QED BY <1>10, <1>11

LEMMA StreamGives ==
  ASSUME StreamInv, EventArrives,
         x = [v |-> x.v, acc |-> x.acc, given |-> x.given, refused |-> x.refused]
  PROVE  StreamInv'
<1>. DEFINE e == Head(due)
<1>1. pc = "stream" /\ due # <<>> /\ UNCHANGED <<setup, answer, wire, ad, result>>
  BY DEF EventArrives
<1>2. CASE pc' # pc
  <2>1. pc' \in {"raised", "sleep"}
    BY <1>2 DEF EventArrives, StreamFailed, Failed, Raise
  <2>. QED BY <2>1 DEF StreamInv
<1>3. CASE pc' = pc
  <2>1. due' = Tail(due) /\ x' = Through(setup.mode, x, e) /\ ~x'.refused
    BY <1>1, <1>3 DEF EventArrives, StreamFailed, Failed, Raise
  <2>2. SUFFICES ASSUME setup.mode # "warn"
                 PROVE  IsSeq(due') /\ OnTrack'
    BY <1>1, <1>3 DEF StreamInv
  <2>3. IsSeq(due) /\ OnTrack
    BY <1>1, <2>2 DEF StreamInv
  <2>4. IsSeq(due')
    BY <1>1, <2>1, <2>3, TailIs
  <2>5. ~Violates(x.v, e) /\ x'.acc = Accumulated(x.acc, e)
    <3>. HIDE DEF e
    <3>1. CASE Violates(x.v, e)
      <4>1. x' = [x EXCEPT !.refused = TRUE]
        BY <2>1, <2>2, <3>1 DEF Through
      <4>. QED BY <2>1, <4>1
    <3>2. CASE ~Violates(x.v, e)
      BY <2>1, <3>2 DEF Through
    <3>. QED BY <3>1, <3>2
  <2>6. ~Dooms(e)
    <3>. HIDE DEF e
    <3>. QED BY <2>5 DEF Dooms, Violates
  <2>7. CASE Doomed(due)
    <3>1. Doomed(due')
      BY <1>1, <2>1, <2>3, <2>6, <2>7, DoomedOn
    <3>. QED BY <2>4, <3>1 DEF OnTrack
  <2>8. CASE ~Doomed(due)
    <3>1. PICK s, t : /\ s.is = "open" /\ s.ad = ad /\ Leads(x.acc, due, s.acc)
                      /\ Run(setup.provider, s, wire, t) /\ (t.is = "open" => AgreesWith(t.acc))
      BY <2>3, <2>8 DEF OnTrack
    <3>2. Leads(x'.acc, due', s.acc)
      BY <1>1, <2>1, <2>3, <2>5, <3>1, LeadsOn
    <3>3. s.ad = ad' /\ Run(setup'.provider, s, wire', t)
      BY <1>1, <3>1
    <3>4. t.is = "open" => AgreesWith(t.acc)'
      BY <1>1, <3>1 DEF AgreesWith
    <3>5. OnTrack'
      BY <3>1, <3>2, <3>3, <3>4 DEF OnTrack
    <3>. QED BY <2>4, <3>5
  <2>. QED BY <2>7, <2>8
<1>. QED BY <1>2, <1>3

LEMMA StreamStops ==
  ASSUME StreamInv, StreamEnds
  PROVE  StreamInv'
<1>1. /\ pc = "stream" /\ wire = <<>> /\ due = <<>> /\ result' = x.acc
      /\ UNCHANGED <<setup, answer>>
  BY DEF StreamEnds
<1>2. pc' \in {"raised", "sleep", "tools", "done"}
  BY DEF StreamEnds, StreamFailed, Failed, Raise
<1>3. SUFFICES ASSUME setup.mode # "warn" PROVE AgreesWith(result)'
  BY <1>1, <1>2 DEF StreamInv
<1>4. OnTrack /\ ~Doomed(due)
  BY <1>1, <1>3, LeadsNowhere DEF StreamInv
<1>5. PICK s, t : /\ s.is = "open" /\ s.ad = ad /\ Leads(x.acc, due, s.acc)
                  /\ Run(setup.provider, s, wire, t) /\ (t.is = "open" => AgreesWith(t.acc))
  BY <1>4 DEF OnTrack
<1>6. s.acc = x.acc /\ t = s
  BY <1>1, <1>5, LedNowhere, RunNowhere
<1>7. AgreesWith(x.acc)
  BY <1>5, <1>6
<1>. QED BY <1>1, <1>7 DEF AgreesWith

LEMMA StreamStep ==
  ASSUME BudgetInv, GivenInv, StreamInv, Next
  PROVE  StreamInv'
<1>1. setup \in Setups /\ round \in Nat
  BY SetupsAssumption, BoundsAssumption DEF BudgetInv
<1>2. CASE WireEvent
  BY <1>2, StreamReads
<1>3. CASE EventArrives
  BY <1>3, StreamGives DEF GivenInv, WellTyped
<1>4. CASE StreamEnds
  BY <1>4, StreamStops
<1>5. CASE Sendable /\ \E a \in Answers : StreamConnects(a)
  <2>1. setup.provider \in Providers
    BY <1>5, RegisteredAssumption DEF Sendable, Routed
  <2>. QED BY <1>1, <1>5, <2>1, StreamConnected
<1>6. CASE \E a \in Answers : CallAnswers(a)
  <2>1. setup' = setup /\ setup.api = "complete" /\ pc' \in {"tools", "done"}
    BY <1>6 DEF CallAnswers
  <2>. QED BY <2>1 DEF StreamInv
<1>7. CASE \/ BeginRound \/ CallRefused \/ CallDenied \/ SleepOver
           \/ \E f \in Failures : CallFails(f)
           \/ \E f \in Failures : StreamBreaks(f)
           \/ Cancelled
  <2>1. pc' \notin {"stream", "tools", "done"}
    BY <1>7 DEF BeginRound, CallRefused, CallDenied, SleepOver, CallFails, StreamBreaks,
                Cancelled, StreamFailed, Failed, Raise
  <2>. QED BY <2>1 DEF StreamInv
<1>8. CASE ToolsDone \/ TakeObject \/ StreamedObject \/ Abort \/ DeadlinePasses
  <2>1. setup' = setup /\ UNCHANGED step
    BY <1>8 DEF ToolsDone, TakeObject, StreamedObject, Abort, DeadlinePasses
  <2>2. pc' = pc \/ pc' \notin {"stream", "tools", "done"} \/ (pc = "tools" /\ pc' = "done")
    BY <1>8 DEF ToolsDone, TakeObject, StreamedObject, Abort, DeadlinePasses, Raise
  <2>3. OnTrack => OnTrack'
    BY <2>1 DEF OnTrack, AgreesWith, step
  <2>4. AgreesWith(result) => AgreesWith(result)'
    BY <2>1 DEF AgreesWith, step
  <2>. QED BY <2>1, <2>2, <2>3, <2>4 DEF StreamInv, step
<1>. QED BY <1>2, <1>3, <1>4, <1>5, <1>6, <1>7, <1>8 DEF Next, Program

LEMMA StreamAlways == Spec => []StreamInv
<1>1. Init => StreamInv
  BY DEF Init, StreamInv
<1>2. WorkInv /\ GivenInv /\ StreamInv /\ [Next]_vars => StreamInv'
  <2>1. StreamInv /\ UNCHANGED vars => StreamInv'
    BY DEF vars, StreamInv, OnTrack, AgreesWith
  <2>. QED BY <2>1, StreamStep DEF WorkInv
<1>. QED BY <1>1, <1>2, WorkAlways, GivenAlways, PTL DEF Spec

\* A strict stream that ends has given what complete() returns for the same answer: the
\* same text, the same calls in the same order, and thinking where it has thinking.  Of
\* any answer, in any number of deltas, through any of the four adapters: the events that
\* are due lead the accumulator to a state from which the rest of the wire leads to that
\* response (adapters/*.py, StreamAccumulator, stream_validation.py).
THEOREM StreamsAgree == Spec => []StreamAgrees
<1>1. StreamInv => StreamAgrees
  BY DEF StreamInv, StreamAgrees, AgreesWith
<1>. QED BY <1>1, StreamAlways, PTL

----------------------------------------------------------------------------
(* The ids of the calls                                                    *)

\* The ids of the calls of an answer of this round are new ones, and distinct.
Distinct(ids, n) ==
  /\ IsSeq(ids) /\ IsInjective(ids)
  /\ \A i \in 1..Len(ids) : ids[i] \in (n + 1)..(n + MaxCalls)

LEMMA AnswersDistinct ==
  ASSUME round \in Nat, NEW a \in Answers
  PROVE  /\ IsSeq(a.blocks)
         /\ \A i \in 1..Len(a.blocks) : IsCall(a.blocks[i]) =>
              /\ a.blocks[i].id \in (FirstId(round) + 1)..(FirstId(round) + MaxCalls)
              /\ \A j \in 1..Len(a.blocks) : a.blocks[j].id = a.blocks[i].id => i = j
<1>. DEFINE n == FirstId(round)
<1>1. PICK b \in AnswerShapes : a = Numbered(b, n)
  BY DEF Answers
<1>2. n \in Nat /\ MaxCalls \in Nat
  BY BoundsAssumption DEF FirstId
<1>3. /\ b = [blocks |-> b.blocks, ending |-> b.ending, bare |-> b.bare]
      /\ b.blocks \in Seq(Blocks)
      /\ \A i \in DOMAIN b.blocks :
           /\ IsCall(b.blocks[i]) <=> b.blocks[i].id # 0
           /\ \A j \in DOMAIN b.blocks :
                IsCall(b.blocks[i]) /\ b.blocks[j].id = b.blocks[i].id => i = j
  BY <1>1, AnswerShapesAssumption
<1>. DEFINE num(e) == Renumbered(e, n)
            m == Len(b.blocks)
<1>4. m \in Nat /\ DOMAIN b.blocks = 1..m /\ \A i \in 1..m : b.blocks[i] \in Blocks
  BY <1>3
<1>5. a.blocks = [i \in 1..m |-> num(b.blocks[i])]
  <2>. DEFINE F == [i \in DOMAIN b.blocks |-> num(b.blocks[i])]
  <2>1. a = [b EXCEPT !.blocks = F]
    BY <1>1 DEF Numbered
  <2>. HIDE DEF F
  <2>2. a.blocks = F
    BY <1>3, <2>1
  <2>. QED BY <1>4, <2>2 DEF F
<1>6. \A e \in Blocks : /\ num(e).kind = e.kind /\ e.id \in 0..MaxCalls
                        /\ num(e).id = IF e.id = 0 THEN 0 ELSE n + e.id
  BY DEF Blocks, Renumbered
<1>7. \A e \in Blocks : IsCall(num(e)) <=> IsCall(e)
  BY <1>6 DEF IsCall
<1>. HIDE DEF num, n, m
<1>8. IsSeq(a.blocks) /\ Len(a.blocks) = m
  <2>. DEFINE S == {num(b.blocks[i]) : i \in 1..m}
  <2>1. a.blocks \in Seq(S) /\ Len(a.blocks) = m
    BY <1>4, <1>5
  <2>. QED BY <2>1 DEF IsSeq
<1>9. ASSUME NEW i \in 1..m, IsCall(a.blocks[i])
      PROVE  /\ a.blocks[i].id \in (n + 1)..(n + MaxCalls)
             /\ \A j \in 1..m : a.blocks[j].id = a.blocks[i].id => i = j
  <2>1. IsCall(b.blocks[i]) /\ b.blocks[i].id # 0 /\ b.blocks[i].id \in 0..MaxCalls
    BY <1>3, <1>4, <1>5, <1>6, <1>7, <1>9
  <2>2. a.blocks[i].id = n + b.blocks[i].id
    BY <1>4, <1>5, <1>6, <2>1
  <2>3. ASSUME NEW j \in 1..m, a.blocks[j].id = a.blocks[i].id PROVE i = j
    <3>1. /\ a.blocks[j].id = IF b.blocks[j].id = 0 THEN 0 ELSE n + b.blocks[j].id
          /\ b.blocks[j].id \in 0..MaxCalls
      BY <1>4, <1>5, <1>6
    <3>2. b.blocks[j].id = b.blocks[i].id
      BY <1>2, <2>1, <2>2, <2>3, <3>1
    <3>. QED BY <1>3, <1>4, <2>1, <3>2
  <2>4. a.blocks[i].id \in (n + 1)..(n + MaxCalls)
    BY <1>2, <2>1, <2>2
  <2>. QED BY <2>3, <2>4
<1>. QED BY <1>8, <1>9 DEF n

LEMMA CallsDistinct ==
  ASSUME round \in Nat, NEW a \in Answers
  PROVE  Distinct(CallIds(a), FirstId(round))
<1>. DEFINE n == FirstId(round)
            s == a.blocks
            m == Len(s)
<1>1. /\ IsSeq(s)
      /\ \A i \in 1..m : IsCall(s[i]) => /\ s[i].id \in (n + 1)..(n + MaxCalls)
                                         /\ \A j \in 1..m : s[j].id = s[i].id => i = j
  BY AnswersDistinct
<1>2. m \in Nat
  BY <1>1, SeqIs
<1>. HIDE DEF s, n
<1>3. PICK g : Accrues(g, "calls", <<>>, s) /\ g[m] = FoldLeft(AddCall, <<>>, s)
  BY <1>1, FoldsCalls
<1>. HIDE DEF m
<1>4. g[0] = <<>> /\ \A k \in 1..m : g[k] = AddCall(g[k - 1], s[k])
  <2>1. \A acc, e : Took("calls", acc, e) = AddCall(acc, e)
    BY DEF Took
  <2>. QED BY <1>3, <2>1, Zenon DEF Accrues, m
<1>. DEFINE Good(k) ==
              /\ Distinct(g[k], n)
              /\ \A i \in 1..Len(g[k]) : \E j \in 1..k : IsCall(s[j]) /\ s[j].id = g[k][i]
            N == {k \in Nat : k <= m => Good(k)}
<1>5. 0 \in N
  <2>1. IsSeq(<<>>) /\ Len(<<>>) = 0 /\ DOMAIN <<>> = {}
    BY EmptyIs
  <2>2. Distinct(<<>>, n)
    BY <2>1 DEF Distinct, IsInjective
  <2>3. Good(0)
    BY <1>4, <2>1, <2>2
  <2>. QED BY <2>3
<1>6. ASSUME NEW k \in Nat, k \in N PROVE k + 1 \in N
  <2>1. SUFFICES ASSUME k + 1 <= m PROVE Good(k + 1)
    OBVIOUS
  <2>2. Good(k) /\ k + 1 \in 1..m /\ (k + 1) - 1 = k /\ \A j \in 1..k : j \in 1..(k + 1) /\ j \in 1..m
    BY <1>2, <1>6, <2>1
  <2>. DEFINE u == g[k]
              v == g[k + 1]
              e == s[k + 1]
  <2>3. v = AddCall(u, e)
    BY <1>4, <2>2
  <2>4. /\ IsSeq(u) /\ IsInjective(u) /\ \A i \in 1..Len(u) : u[i] \in (n + 1)..(n + MaxCalls)
        /\ \A i \in 1..Len(u) : \E j \in 1..k : IsCall(s[j]) /\ s[j].id = u[i]
    BY <2>2 DEF Distinct
  <2>5. CASE ~IsCall(e)
    <3>1. v = u
      BY <2>3, <2>5 DEF AddCall
    <3>. HIDE DEF u, v
    <3>2. Distinct(v, n)
      BY <2>4, <3>1 DEF Distinct
    <3>3. \A i \in 1..Len(v) : \E j \in 1..(k + 1) : IsCall(s[j]) /\ s[j].id = v[i]
      BY <2>2, <2>4, <3>1
    <3>. QED BY <3>2, <3>3 DEF v
  <2>6. CASE IsCall(e)
    <3>1. v = Append(u, e.id)
      BY <2>3, <2>6 DEF AddCall
    <3>2. e.id \in (n + 1)..(n + MaxCalls) /\ \A j \in 1..m : s[j].id = e.id => k + 1 = j
      BY <1>1, <2>2, <2>6 DEF m
    <3>. HIDE DEF u, v, e
    <3>. DEFINE l == Len(u)
    <3>3. /\ IsSeq(v) /\ l \in Nat /\ Len(v) = l + 1 /\ DOMAIN v = 1..(l + 1) /\ DOMAIN u = 1..l
          /\ \A i \in 1..l : v[i] = u[i]
          /\ v[l + 1] = e.id
      BY <2>4, <3>1, AppendIs
    <3>4. \A i \in 1..l : u[i] # e.id
      <4>1. SUFFICES ASSUME NEW i \in 1..l, u[i] = e.id PROVE FALSE
        OBVIOUS
      <4>2. PICK j \in 1..k : s[j].id = e.id
        BY <2>4, <4>1
      <4>3. k + 1 = j
        BY <2>2, <3>2, <4>2
      <4>. QED BY <4>2, <4>3
    <3>. HIDE DEF l
    <3>5. \A i \in 1..(l + 1) : i \in 1..l \/ i = l + 1
      BY <3>3
    <3>6. IsInjective(v)
      BY <2>4, <3>3, <3>4, <3>5 DEF IsInjective
    <3>7. \A i \in 1..(l + 1) : v[i] \in (n + 1)..(n + MaxCalls)
      <4>1. \A i \in 1..l : v[i] \in (n + 1)..(n + MaxCalls)
        BY <2>4, <3>3 DEF l
      <4>. QED BY <3>2, <3>3, <3>5, <4>1
    <3>8. \A i \in 1..(l + 1) : \E j \in 1..(k + 1) : IsCall(s[j]) /\ s[j].id = v[i]
      <4>1. \A i \in 1..l : \E j \in 1..(k + 1) : IsCall(s[j]) /\ s[j].id = v[i]
        BY <2>2, <2>4, <3>3 DEF l
      <4>2. k + 1 \in 1..(k + 1) /\ IsCall(s[k + 1]) /\ s[k + 1].id = v[l + 1]
        BY <2>2, <2>6, <3>3 DEF e
      <4>. QED BY <3>5, <4>1, <4>2
    <3>9. Distinct(v, n)
      BY <3>3, <3>6, <3>7 DEF Distinct
    <3>. QED BY <3>3, <3>8, <3>9 DEF v
  <2>. QED BY <2>5, <2>6
<1>. HIDE DEF N, Good
<1>7. m \in N
  BY <1>2, <1>5, <1>6, CountUp
<1>8. Good(m)
  BY <1>2, <1>7 DEF N
<1>9. Distinct(g[m], n)
  BY <1>8 DEF Good
<1>10. CallIds(a) = g[m]
  BY <1>3 DEF CallIds, s, m
<1>. QED BY <1>9, <1>10 DEF n

----------------------------------------------------------------------------
(* The turns of a request                                                  *)

\* The m turns after turn j, up to the next one of the assistant, answer its calls.
IsAnswered(ts, j, m) ==
  /\ j + m <= Len(ts)
  /\ \A k \in 1..m : ts[j + k].role # "assistant"
  /\ j + m < Len(ts) => ts[j + m + 1].role = "assistant"
  /\ FlattenSeq([k \in 1..m |-> ts[j + k].calls]) = ts[j].calls

Settled(ts) ==
  \A j \in 1..Len(ts) : ts[j].role = "assistant" =>
    /\ IsInjective(ts[j].calls)
    /\ \E m \in Nat : IsAnswered(ts, j, m)

\* User and assistant take turns, and it is the user's.
Alternate(ts) ==
  /\ Len(ts) > 0 /\ ts[Len(ts)].role = "user"
  /\ \A j \in 1..(Len(ts) - 1) : ts[j].role # ts[j + 1].role

\* The elements of s, then e, then those of w.
Follows(v, s, e, w) ==
  /\ IsSeq(v) /\ Len(s) \in Nat /\ Len(w) \in Nat /\ Len(v) = Len(s) + 1 + Len(w)
  /\ \A k \in 1..Len(s) : v[k] = s[k]
  /\ v[Len(s) + 1] = e
  /\ \A k \in 1..Len(w) : v[Len(s) + 1 + k] = w[k]

LEMMA AskedThen ==
  ASSUME NEW ts, IsSeq(ts), NEW a, NEW us, IsSeq(us)
  PROVE  Follows(ts \o (<<a>> \o us), ts, a, us)
<1>. DEFINE o == <<a>>
            w == o \o us
            v == ts \o w
            n == Len(ts)
            l == Len(us)
<1>0. IsSeq(o)
  BY OneIs
<1>1. Len(o) = 1 /\ o[1] = a
  BY OneIs
<1>. HIDE DEF o
<1>2. IsSeq(w) /\ Len(w) = Len(o) + l /\ l \in Nat
  BY <1>0, Concatenated
<1>3. \A k \in 1..Len(o) : w[k] = o[k]
  BY <1>0, Concatenated
<1>4. \A k \in 1..l : w[Len(o) + k] = us[k]
  BY <1>0, Concatenated
<1>. HIDE DEF w
<1>12. IsSeq(w)
  BY <1>2
<1>5. IsSeq(v) /\ Len(v) = n + Len(w) /\ n \in Nat
  BY <1>12, Concatenated
<1>6. \A k \in 1..n : v[k] = ts[k]
  BY <1>12, Concatenated
<1>7. \A k \in 1..Len(w) : v[n + k] = w[k]
  BY <1>12, Concatenated
<1>. HIDE DEF v, n, l
<1>8. v[n + 1] = a
  BY <1>1, <1>2, <1>3, <1>7
<1>9. ASSUME NEW k \in 1..l PROVE v[n + 1 + k] = us[k]
  <2>1. 1 + k \in 1..Len(w) /\ n + (1 + k) = n + 1 + k
    BY <1>1, <1>2, <1>5
  <2>. QED BY <1>1, <1>4, <1>7, <2>1
<1>10. Len(v) = n + 1 + l
  BY <1>1, <1>2, <1>5
<1>11. Follows(v, ts, a, us)
  BY <1>2, <1>5, <1>6, <1>8, <1>9, <1>10 DEF Follows, n, l
<1>. QED BY <1>11 DEF v, w, o

\* One more turn of the assistant and the answers to its calls.
LEMMA SettledOn ==
  ASSUME NEW ts, IsSeq(ts), Settled(ts), NEW a, a.role = "assistant", IsInjective(a.calls),
         NEW us, IsSeq(us), \A k \in 1..Len(us) : us[k].role # "assistant",
         FlattenSeq([k \in 1..Len(us) |-> us[k].calls]) = a.calls
  PROVE  Settled(ts \o (<<a>> \o us))
<1>. DEFINE v == ts \o (<<a>> \o us)
            n == Len(ts)
            l == Len(us)
<1>1. /\ n \in Nat /\ l \in Nat /\ Len(v) = n + 1 + l
      /\ \A k \in 1..n : v[k] = ts[k]
      /\ v[n + 1] = a
      /\ \A k \in 1..l : v[n + 1 + k] = us[k]
  BY AskedThen DEF Follows
<1>. HIDE DEF v, n
<1>2. ASSUME NEW j \in 1..n, NEW m \in Nat, IsAnswered(ts, j, m)
      PROVE  IsAnswered(v, j, m)
  <2>1. /\ j + m <= n /\ \A k \in 1..m : ts[j + k].role # "assistant"
        /\ j + m < n => ts[j + m + 1].role = "assistant"
        /\ FlattenSeq([k \in 1..m |-> ts[j + k].calls]) = ts[j].calls
    BY <1>2 DEF IsAnswered, n
  <2>2. \A k \in 1..m : j + k \in 1..n /\ v[j + k] = ts[j + k]
    <3>1. \A k \in 1..m : j + k \in 1..n
      BY <1>1, <2>1
    <3>. QED BY <1>1, <3>1
  <2>3. [k \in 1..m |-> v[j + k].calls] = [k \in 1..m |-> ts[j + k].calls]
    BY <2>2
  <2>4. v[j] = ts[j]
    BY <1>1
  <2>5. FlattenSeq([k \in 1..m |-> v[j + k].calls]) = v[j].calls
    BY <2>1, <2>3, <2>4, Zenon
  <2>6. j + m <= Len(v)
    BY <1>1, <2>1
  <2>8. \A k \in 1..m : v[j + k].role # "assistant"
    BY <2>1, <2>2
  <2>7. v[j + m + 1].role = "assistant"
    <3>1. CASE j + m = n
      BY <1>1, <3>1
    <3>2. CASE j + m # n
      <4>1. j + m + 1 \in 1..n /\ j + m < n
        BY <1>1, <2>1, <3>2
      <4>. QED BY <1>1, <2>1, <4>1
    <3>. QED BY <3>1, <3>2
  <2>. QED BY <2>5, <2>6, <2>7, <2>8 DEF IsAnswered
<1>3. IsAnswered(v, n + 1, l)
  <2>1. [k \in 1..l |-> v[n + 1 + k].calls] = [k \in 1..l |-> us[k].calls]
    BY <1>1
  <2>2. FlattenSeq([k \in 1..l |-> v[n + 1 + k].calls]) = v[n + 1].calls
    BY <1>1, <2>1, Zenon
  <2>3. n + 1 + l <= Len(v) /\ ~(n + 1 + l < Len(v))
    BY <1>1
  <2>4. \A k \in 1..l : v[n + 1 + k].role # "assistant"
    BY <1>1
  <2>. HIDE DEF l
  <2>. QED BY <2>2, <2>3, <2>4 DEF IsAnswered
<1>4. ASSUME NEW j \in 1..Len(v), v[j].role = "assistant"
      PROVE  IsInjective(v[j].calls) /\ \E m \in Nat : IsAnswered(v, j, m)
  <2>1. CASE j \in 1..n
    <3>1. ts[j].role = "assistant" /\ v[j] = ts[j]
      BY <1>1, <1>4, <2>1
    <3>2. IsInjective(ts[j].calls) /\ \E m \in Nat : IsAnswered(ts, j, m)
      BY <2>1, <3>1 DEF Settled, n
    <3>. QED BY <1>2, <2>1, <3>1, <3>2
  <2>2. CASE j = n + 1
    BY <1>1, <1>3, <2>2
  <2>3. CASE j \notin 1..n /\ j # n + 1
    <3>1. j - (n + 1) \in 1..l /\ n + 1 + (j - (n + 1)) = j
      BY <1>1, <2>3
    <3>. QED BY <1>1, <1>4, <3>1
  <2>. QED BY <2>1, <2>2, <2>3
<1>. QED BY <1>4 DEF Settled, v

LEMMA AlternateOn ==
  ASSUME NEW ts, IsSeq(ts), Alternate(ts), NEW a, a.role = "assistant", NEW u, u.role = "user"
  PROVE  Alternate(ts \o (<<a>> \o <<u>>))
<1>. DEFINE us == <<u>>
            v == ts \o (<<a>> \o us)
            n == Len(ts)
<1>0. IsSeq(us)
  BY OneIs
<1>1. Len(us) = 1 /\ us[1] = u
  BY OneIs
<1>. HIDE DEF us
<1>2. /\ n \in Nat /\ Len(v) = n + 1 + Len(us)
      /\ \A k \in 1..n : v[k] = ts[k]
      /\ v[n + 1] = a
      /\ \A k \in 1..Len(us) : v[n + 1 + k] = us[k]
  BY <1>0, AskedThen DEF Follows
<1>. HIDE DEF v, n
<1>3. Len(v) = n + 2 /\ v[n + 2] = u
  <2>1. Len(v) = n + 2 /\ 1 \in 1..Len(us) /\ n + 1 + 1 = n + 2
    BY <1>1, <1>2
  <2>. QED BY <1>1, <1>2, <2>1
<1>4. n > 0 /\ ts[n].role = "user" /\ \A j \in 1..(n - 1) : ts[j].role # ts[j + 1].role
  BY DEF Alternate, n
<1>5. ASSUME NEW j \in 1..(Len(v) - 1) PROVE v[j].role # v[j + 1].role
  <2>1. CASE j \in 1..(n - 1)
    <3>1. j \in 1..n /\ j + 1 \in 1..n
      BY <1>2, <2>1
    <3>. QED BY <1>2, <1>4, <2>1, <3>1
  <2>2. CASE j = n
    <3>1. j \in 1..n
      BY <1>2, <1>4, <2>2
    <3>. QED BY <1>2, <1>4, <2>2, <3>1
  <2>3. CASE j = n + 1
    <3>1. j + 1 = n + 2
      BY <1>2, <2>3
    <3>. QED BY <1>2, <1>3, <2>3, <3>1
  <2>. QED BY <1>2, <1>3, <2>1, <2>2, <2>3
<1>6. Alternate(v)
  BY <1>2, <1>3, <1>5 DEF Alternate
<1>. QED BY <1>6 DEF v, us

\* The providers whose adapters merge no messages.
PlainProviders == {"openai", "gemini", "compat"}

\* What an adapter makes of one message:
TurnOf(p, m) ==
  CASE p = "openai" -> Turn(m.role, m)
    [] p = "gemini" -> Turn(IF m.role = "tool" THEN "user" ELSE m.role, m)
    [] OTHER -> IF m.role = "tool" THEN [role |-> "tool", calls |-> <<Head(m.calls)>>]
                ELSE Turn(m.role, m)

LEMMA TurnByTurn ==
  ASSUME NEW p \in PlainProviders, NEW s, IsSeq(s)
  PROVE  /\ IsSeq(Turns(p, s)) /\ Len(Turns(p, s)) = Len(s)
         /\ \A i \in 1..Len(s) : Turns(p, s)[i] = TurnOf(p, s[i])
<1>. DEFINE n == Len(s)
            F == [i \in 1..n |-> TurnOf(p, s[i])]
<1>1. n \in Nat /\ DOMAIN s = 1..n
  BY SeqIs
<1>. HIDE DEF n
<1>2. Turns(p, s) = F
  <2>1. CASE p = "openai"
    BY <1>1, <2>1 DEF Turns, OpenAITurns, TurnOf
  <2>2. CASE p = "gemini"
    BY <1>1, <2>2 DEF Turns, GeminiTurns, TurnOf
  <2>3. CASE p = "compat"
    BY <1>1, <2>3 DEF Turns, CompatTurns, TurnOf
  <2>. QED BY <2>1, <2>2, <2>3 DEF PlainProviders
<1>3. F \in Seq({TurnOf(p, s[i]) : i \in 1..n}) /\ Len(F) = n
  BY <1>1
<1>4. IsSeq(F)
  BY <1>3 DEF IsSeq
<1>. QED BY <1>2, <1>3, <1>4 DEF n

\* A message of the assistant, and those that answer its calls.
Exchange(m, rs) ==
  /\ m.role = "assistant" /\ IsSeq(m.calls)
  /\ IsSeq(rs) /\ Len(rs) > 0
  /\ \A i \in 1..Len(rs) : /\ rs[i].role \in {"user", "tool"} /\ IsSeq(rs[i].calls)
                           /\ rs[i].role = "tool" => Len(rs[i].calls) = 1
  /\ FlattenSeq([i \in 1..Len(rs) |-> rs[i].calls]) = m.calls

\* The turns us answer the calls.
Replied(us, calls) ==
  /\ IsSeq(us) /\ \A k \in 1..Len(us) : us[k].role # "assistant"
  /\ FlattenSeq([k \in 1..Len(us) |-> us[k].calls]) = calls

\* v is ts, the turn of m and turns that answer its calls.
TurnsAdded(v, ts, m) ==
  \E us : Replied(us, m.calls) /\ v = ts \o (<<Turn("assistant", m)>> \o us)

LEMMA SingleIs ==
  ASSUME NEW c, IsSeq(c), Len(c) = 1
  PROVE  <<Head(c)>> = c
<1>1. PICK S : c \in Seq(S)
  BY DEF IsSeq
<1>. QED BY <1>1

LEMMA PlainTurns ==
  ASSUME NEW p \in PlainProviders, NEW s, IsSeq(s), NEW m, NEW rs, Exchange(m, rs)
  PROVE  TurnsAdded(Turns(p, s \o (<<m>> \o rs)), Turns(p, s), m)
<1>. DEFINE c == s \o (<<m>> \o rs)
            us == Turns(p, rs)
            ts == Turns(p, s)
            a == Turn("assistant", m)
            v == ts \o (<<a>> \o us)
            n == Len(s)
            l == Len(rs)
<1>1. /\ m.role = "assistant" /\ IsSeq(rs)
      /\ \A i \in 1..l : /\ rs[i].role \in {"user", "tool"} /\ IsSeq(rs[i].calls)
                         /\ rs[i].role = "tool" => Len(rs[i].calls) = 1
      /\ FlattenSeq([i \in 1..l |-> rs[i].calls]) = m.calls
  BY DEF Exchange
<1>2. IsSeq(us) /\ Len(us) = l /\ \A i \in 1..l : us[i] = TurnOf(p, rs[i])
  BY <1>1, TurnByTurn
<1>3. IsSeq(ts) /\ Len(ts) = n /\ \A i \in 1..n : ts[i] = TurnOf(p, s[i])
  BY TurnByTurn
<1>4. Follows(c, s, m, rs)
  BY <1>1, AskedThen
<1>. HIDE DEF us, ts, c
<1>5. Follows(v, ts, a, us)
  BY <1>2, <1>3, AskedThen
<1>6. IsSeq(Turns(p, c)) /\ Len(Turns(p, c)) = Len(c)
      /\ \A i \in 1..Len(c) : Turns(p, c)[i] = TurnOf(p, c[i])
  BY <1>4, TurnByTurn DEF Follows
<1>7. \A i \in 1..l : us[i].role # "assistant" /\ us[i].calls = rs[i].calls
  <2>1. SUFFICES ASSUME NEW i \in 1..l
                 PROVE  us[i].role # "assistant" /\ us[i].calls = rs[i].calls
    OBVIOUS
  <2>. DEFINE r == rs[i]
  <2>2. r.role \in {"user", "tool"} /\ us[i] = TurnOf(p, r)
        /\ (r.role = "tool" => <<Head(r.calls)>> = r.calls)
    BY <1>1, <1>2, SingleIs
  <2>. HIDE DEF r
  <2>3. us[i].role # "assistant" /\ us[i].calls = r.calls
    BY <2>2 DEF TurnOf, Turn
  <2>. QED BY <2>3 DEF r
<1>8. TurnOf(p, m) = a
  BY <1>1 DEF TurnOf
<1>. HIDE DEF v, a, n, l
<1>9. Replied(us, m.calls)
  <2>1. [k \in 1..Len(us) |-> us[k].calls] = [i \in 1..l |-> rs[i].calls]
    BY <1>2, <1>7
  <2>2. FlattenSeq([k \in 1..Len(us) |-> us[k].calls]) = m.calls
    BY <1>1, <2>1, Zenon
  <2>3. \A k \in 1..Len(us) : us[k].role # "assistant"
    BY <1>2, <1>7
  <2>. QED BY <1>2, <2>2, <2>3 DEF Replied
<1>10. Turns(p, c) = v
  <2>1. /\ Len(c) = n + 1 + l /\ n \in Nat /\ l \in Nat
        /\ \A k \in 1..n : c[k] = s[k]
        /\ c[n + 1] = m
        /\ \A k \in 1..l : c[n + 1 + k] = rs[k]
    BY <1>4 DEF Follows, n, l
  <2>2. /\ IsSeq(v) /\ Len(v) = n + 1 + l
        /\ \A k \in 1..n : v[k] = ts[k]
        /\ v[n + 1] = a
        /\ \A k \in 1..l : v[n + 1 + k] = us[k]
    BY <1>2, <1>3, <1>5 DEF Follows
  <2>3. ASSUME NEW i \in 1..Len(c) PROVE TurnOf(p, c[i]) = v[i]
    <3>1. CASE i \in 1..n
      BY <1>3, <2>1, <2>2, <3>1
    <3>2. CASE i = n + 1
      BY <1>8, <2>1, <2>2, <3>2
    <3>3. CASE i \notin 1..n /\ i # n + 1
      <4>1. PICK k \in 1..l : i = n + 1 + k
        <5>1. i - (n + 1) \in 1..l /\ i = n + 1 + (i - (n + 1))
          BY <2>1, <3>3
        <5>. QED BY <5>1
      <4>. QED BY <1>2, <2>1, <2>2, <4>1
    <3>. QED BY <3>1, <3>2, <3>3
  <2>4. \A i \in 1..Len(Turns(p, c)) : Turns(p, c)[i] = v[i]
    BY <1>6, <2>3
  <2>5. Len(Turns(p, c)) = Len(v)
    BY <1>6, <2>1, <2>2
  <2>. QED BY <1>6, <2>2, <2>4, <2>5, SameSeq
<1>11. TurnsAdded(Turns(p, c), ts, m)
  BY <1>9, <1>10 DEF v, a, TurnsAdded
<1>. QED BY <1>11 DEF ts, c

\* The role a message has for Anthropic.
MergedRole(e) == IF e.role = "tool" THEN "user" ELSE e.role

LEMMA MergeNew ==
  ASSUME NEW ts, NEW e, ts = <<>> \/ ts[Len(ts)].role # MergedRole(e)
  PROVE  MergeInto(ts, e) = Append(ts, Turn(MergedRole(e), e))
BY DEF MergeInto, MergedRole, Last

LEMMA MergeSame ==
  ASSUME NEW us, IsSeq(us), NEW c, NEW e
  PROVE  MergeInto(Append(us, [role |-> MergedRole(e), calls |-> c]), e)
           = Append(us, [role |-> MergedRole(e), calls |-> c \o e.calls])
<1>. DEFINE r == MergedRole(e)
            t == [role |-> r, calls |-> c]
            d == c \o e.calls
            ts == Append(us, t)
            n == Len(us) + 1
            q == Append(us, [role |-> r, calls |-> d])
<1>1. /\ IsSeq(ts) /\ Len(ts) = n /\ n \in Nat \ {0} /\ DOMAIN ts = 1..n
      /\ \A i \in 1..(n - 1) : ts[i] = us[i]
      /\ ts[n] = t
  <2>1. Len(us) \in Nat /\ n - 1 = Len(us)
    BY AppendIs
  <2>. HIDE DEF t
  <2>. QED BY <2>1, AppendIs
<1>2. /\ IsSeq(q) /\ Len(q) = n /\ DOMAIN q = 1..n
      /\ \A i \in 1..(n - 1) : q[i] = us[i]
      /\ q[n] = [role |-> r, calls |-> d]
  <2>1. Len(us) \in Nat /\ n - 1 = Len(us)
    BY AppendIs
  <2>. HIDE DEF d, r
  <2>. QED BY <2>1, AppendIs
<1>3. t.role = r /\ t.calls = c /\ [t EXCEPT !.calls = d] = [role |-> r, calls |-> d]
  <2>. HIDE DEF d, r
  <2>. QED OBVIOUS
<1>. HIDE DEF ts, n, q
<1>4. ts # <<>>
  <2>1. Len(<<>>) = 0
    OBVIOUS
  <2>. QED BY <1>1, <2>1
<1>5. MergeInto(ts, e) = [ts EXCEPT ![n].calls = @ \o e.calls]
  <2>1. Last(ts).role = r
    BY <1>1, <1>3 DEF Last
  <2>. QED BY <1>1, <1>4, <2>1 DEF MergeInto, r, MergedRole
<1>6. MergeInto(ts, e) = [i \in 1..n |-> IF i = n THEN [role |-> r, calls |-> d] ELSE ts[i]]
  BY <1>1, <1>3, <1>5
<1>7. q = [i \in 1..n |-> IF i = n THEN [role |-> r, calls |-> d] ELSE ts[i]]
  <2>. DEFINE F == [i \in 1..n |-> IF i = n THEN [role |-> r, calls |-> d] ELSE ts[i]]
  <2>1. \A i \in 1..n : i = n \/ i \in 1..(n - 1)
    BY <1>1
  <2>2. \A i \in 1..n : q[i] = F[i]
    BY <1>1, <1>2, <2>1
  <2>3. q = [i \in 1..n |-> q[i]]
    BY <1>2 DEF IsSeq
  <2>4. F = [i \in 1..n |-> F[i]]
    OBVIOUS
  <2>. HIDE DEF F
  <2>5. q = F
    BY <2>2, <2>3, <2>4
  <2>. QED BY <2>5 DEF F
<1>8. MergeInto(ts, e) = q
  BY <1>6, <1>7
<1>. QED BY <1>8 DEF ts, q, t, r, d

\* What accrues over a beginning is what accrues over it alone.
LEMMA SameBeginning ==
  ASSUME NEW how, NEW base, NEW s, IsSeq(s), NEW w, IsSeq(w), Len(s) <= Len(w),
         \A k \in 1..Len(s) : w[k] = s[k],
         NEW g, Accrues(g, how, base, w), NEW h, Accrues(h, how, base, s)
  PROVE  g[Len(s)] = h[Len(s)]
<1>. DEFINE n == Len(s)
            N == {k \in Nat : k <= n => g[k] = h[k]}
<1>1. n \in Nat /\ Len(w) \in Nat /\ n <= Len(w)
  BY SeqIs
<1>2. 0 \in N
  BY DEF Accrues
<1>3. ASSUME NEW k \in Nat, k \in N PROVE k + 1 \in N
  <2>1. SUFFICES ASSUME k + 1 <= n PROVE g[k + 1] = h[k + 1]
    OBVIOUS
  <2>2. k + 1 \in 1..n /\ k + 1 \in 1..Len(w) /\ (k + 1) - 1 = k /\ g[k] = h[k]
    BY <1>1, <1>3, <2>1
  <2>3. g[k + 1] = Took(how, g[k], w[k + 1])
    BY <2>2 DEF Accrues
  <2>4. h[k + 1] = Took(how, h[k], s[k + 1])
    BY <2>2 DEF Accrues
  <2>. QED BY <2>2, <2>3, <2>4
<1>. HIDE DEF N
<1>4. n \in N
  BY <1>1, <1>2, <1>3, CountUp
<1>. QED BY <1>1, <1>4 DEF N

LEMMA AppendedBoth ==
  ASSUME NEW ts, IsSeq(ts), NEW a, NEW u
  PROVE  Append(Append(ts, a), u) = ts \o (<<a>> \o <<u>>)
<1>1. PICK S : ts \in Seq(S)
  BY DEF IsSeq
<1>. DEFINE us == <<u>>
            v == ts \o (<<a>> \o us)
            o == Append(ts, a)
            q == Append(o, u)
            n == Len(ts)
<1>2. IsSeq(us)
  BY OneIs
<1>3. Len(us) = 1 /\ us[1] = u
  BY OneIs
<1>. HIDE DEF us
<1>4. /\ n \in Nat /\ IsSeq(v) /\ Len(v) = n + 1 + Len(us)
      /\ \A k \in 1..n : v[k] = ts[k]
      /\ v[n + 1] = a
      /\ \A k \in 1..Len(us) : v[n + 1 + k] = us[k]
  <2>1. Follows(v, ts, a, us)
    BY <1>2, AskedThen
  <2>. QED BY <2>1 DEF Follows
<1>5. /\ IsSeq(o) /\ Len(o) = n + 1 /\ o[n + 1] = a
      /\ \A k \in 1..n : o[k] = ts[k]
  BY AppendIs
<1>. HIDE DEF v, o, n
<1>6. /\ IsSeq(q) /\ Len(q) = Len(o) + 1 /\ q[Len(o) + 1] = u
      /\ \A k \in 1..Len(o) : q[k] = o[k]
  BY <1>5, AppendIs
<1>. HIDE DEF q
<1>7. v[n + 1 + 1] = u
  BY <1>3, <1>4
<1>8. ASSUME NEW k \in 1..Len(q) PROVE q[k] = v[k]
  <2>1. CASE k \in 1..n
    <3>1. k \in 1..Len(o)
      BY <1>4, <1>5, <2>1
    <3>. QED BY <1>4, <1>5, <1>6, <2>1, <3>1
  <2>2. CASE k = n + 1
    <3>1. k \in 1..Len(o)
      BY <1>4, <1>5, <2>2
    <3>. QED BY <1>4, <1>5, <1>6, <2>2, <3>1
  <2>3. CASE k \notin 1..n /\ k # n + 1
    <3>1. k = n + 1 + 1
      BY <1>4, <1>5, <1>6, <2>3
    <3>. QED BY <1>5, <1>6, <1>7, <3>1
  <2>. QED BY <2>1, <2>2, <2>3
<1>9. Len(q) = Len(v)
  BY <1>3, <1>4, <1>5, <1>6
<1>10. q = v
  BY <1>4, <1>6, <1>8, <1>9, SameSeq
<1>. QED BY <1>10 DEF q, v, o, us

\* For Anthropic the answers become one turn of the user.
LEMMA MergedTurns ==
  ASSUME NEW s, IsSeq(s), IsSeq(AnthropicTurns(s)), Alternate(AnthropicTurns(s)),
         NEW m, NEW rs, Exchange(m, rs)
  PROVE  AnthropicTurns(s \o (<<m>> \o rs))
           = AnthropicTurns(s)
               \o (<<Turn("assistant", m)>> \o <<[role |-> "user", calls |-> m.calls]>>)
<1>. DEFINE w == s \o (<<m>> \o rs)
            ts == AnthropicTurns(s)
            a == Turn("assistant", m)
            asked == Append(ts, a)
            F == [i \in 1..Len(rs) |-> rs[i].calls]
            n == Len(s)
            l == Len(rs)
<1>1. /\ m.role = "assistant" /\ IsSeq(rs) /\ l > 0
      /\ \A i \in 1..l : rs[i].role \in {"user", "tool"} /\ IsSeq(rs[i].calls)
      /\ FlattenSeq(F) = m.calls
  BY DEF Exchange
<1>2. Follows(w, s, m, rs)
  BY <1>1, AskedThen
<1>3. n \in Nat /\ l \in Nat
  BY <1>2 DEF Follows
<1>4. IsSeq(F) /\ Len(F) = l /\ AllSeqs(F)
  <2>1. F \in Seq({rs[i].calls : i \in 1..l}) /\ Len(F) = l
    BY <1>3
  <2>2. IsSeq(F)
    BY <2>1 DEF IsSeq
  <2>. QED BY <1>1, <2>1, <2>2 DEF AllSeqs
<1>5. \A i \in 1..l : F[i] = rs[i].calls
  OBVIOUS
<1>. HIDE DEF F
<1>6. PICK G : Grows(G, F) /\ m.calls = G[l]
  <2>1. \E G : Grows(G, F) /\ FlattenSeq(F) = G[Len(F)]
    BY <1>4, FlattenGrows
  <2>. QED BY <1>1, <1>4, <2>1, Zenon
<1>7. G[0] = <<>> /\ \A k \in 1..l : G[k] = G[k - 1] \o F[k]
  BY <1>4, <1>6 DEF Grows
<1>8. IsSeq(w) /\ Len(w) = n + 1 + l
  BY <1>2 DEF Follows
<1>9. PICK h : Accrues(h, "turns", <<>>, s) /\ h[n] = ts
  BY FoldsTurns
<1>10. PICK g : Accrues(g, "turns", <<>>, w) /\ g[n + 1 + l] = AnthropicTurns(w)
  <2>1. \E g : Accrues(g, "turns", <<>>, w) /\ g[Len(w)] = AnthropicTurns(w)
    BY <1>8, FoldsTurns
  <2>. QED BY <1>8, <2>1
<1>. DEFINE U(k) == [role |-> "user", calls |-> G[k]]
<1>. HIDE DEF w, ts
<1>11. \A k \in 1..(n + 1 + l) : g[k] = MergeInto(g[k - 1], w[k])
  BY <1>8, <1>10 DEF Accrues, Took
<1>12. g[n] = ts
  <2>1. \A k \in 1..n : w[k] = s[k]
    BY <1>2 DEF Follows
  <2>2. n <= Len(w)
    BY <1>3, <1>8
  <2>3. g[n] = h[n]
    BY <1>8, <1>9, <1>10, <2>1, <2>2, SameBeginning
  <2>. QED BY <1>9, <2>3
<1>13. IsSeq(ts) /\ Len(ts) \in Nat /\ ts[Len(ts)].role = "user"
  BY SeqIs DEF Alternate, ts
<1>14. g[n + 1] = asked
  <2>1. n + 1 \in 1..(n + 1 + l) /\ (n + 1) - 1 = n
    BY <1>3
  <2>2. g[n + 1] = MergeInto(ts, w[n + 1])
    BY <1>11, <1>12, <2>1
  <2>3. w[n + 1] = m
    BY <1>2 DEF Follows
  <2>4. MergedRole(m) = "assistant" /\ ts[Len(ts)].role # MergedRole(m)
    BY <1>1, <1>13 DEF MergedRole
  <2>5. MergeInto(ts, m) = Append(ts, Turn(MergedRole(m), m))
    BY <2>4, MergeNew
  <2>. QED BY <2>2, <2>3, <2>4, <2>5
<1>15. /\ IsSeq(asked) /\ Len(asked) \in Nat /\ asked[Len(asked)] = a
  BY <1>13, AppendIs
<1>16. a.role = "assistant"
  BY DEF Turn
<1>. HIDE DEF asked, a, n, l
<1>. DEFINE N == {k \in Nat : k + 1 <= l => g[n + 1 + (k + 1)] = Append(asked, U(k + 1))}
<1>17. \A k \in 1..l : /\ g[n + 1 + k] = MergeInto(g[n + 1 + (k - 1)], rs[k])
                       /\ MergedRole(rs[k]) = "user"
  <2>1. SUFFICES ASSUME NEW k \in 1..l
                 PROVE  /\ g[n + 1 + k] = MergeInto(g[n + 1 + (k - 1)], rs[k])
                        /\ MergedRole(rs[k]) = "user"
    OBVIOUS
  <2>2. n + 1 + k \in 1..(n + 1 + l) /\ (n + 1 + k) - 1 = n + 1 + (k - 1)
    BY <1>3
  <2>3. w[n + 1 + k] = rs[k]
    BY <1>2 DEF Follows, n, l
  <2>4. MergedRole(rs[k]) = "user"
    BY <1>1 DEF MergedRole
  <2>. QED BY <1>11, <2>2, <2>3, <2>4
<1>18. 0 \in N
  <2>1. SUFFICES ASSUME 1 <= l PROVE g[n + 1 + 1] = Append(asked, U(1))
    OBVIOUS
  <2>2. 1 \in 1..l /\ n + 1 + (1 - 1) = n + 1
    BY <1>3, <2>1
  <2>3. g[n + 1 + 1] = MergeInto(asked, rs[1]) /\ MergedRole(rs[1]) = "user"
    BY <1>14, <1>17, <2>2
  <2>4. MergeInto(asked, rs[1]) = Append(asked, Turn("user", rs[1]))
    <3>1. asked[Len(asked)].role # MergedRole(rs[1])
      BY <1>15, <1>16, <2>3
    <3>. QED BY <2>3, <3>1, MergeNew
  <2>5. G[1] = rs[1].calls
    <3>1. G[1] = <<>> \o F[1]
      <4>1. 1 - 1 = 0
        OBVIOUS
      <4>. QED BY <1>7, <2>2, <4>1
    <3>2. IsSeq(F[1])
      BY <1>4, <2>2 DEF AllSeqs
    <3>. QED BY <1>5, <2>2, <3>1, <3>2, AfterNothing
  <2>6. Turn("user", rs[1]) = U(1)
    BY <2>5 DEF Turn
  <2>. QED BY <2>3, <2>4, <2>6
<1>19. ASSUME NEW k \in Nat, k \in N PROVE k + 1 \in N
  <2>1. SUFFICES ASSUME (k + 1) + 1 <= l
                 PROVE  g[n + 1 + ((k + 1) + 1)] = Append(asked, U((k + 1) + 1))
    OBVIOUS
  <2>. DEFINE j == k + 1
              r == rs[j + 1]
  <2>2. /\ j + 1 \in 1..l /\ (j + 1) - 1 = j
        /\ g[n + 1 + j] = Append(asked, [role |-> "user", calls |-> G[j]])
    BY <1>3, <1>19, <2>1
  <2>. HIDE DEF j, N
  <2>3. g[n + 1 + (j + 1)] = MergeInto(g[n + 1 + j], r) /\ MergedRole(r) = "user"
    BY <1>17, <2>2
  <2>4. G[j + 1] = G[j] \o r.calls
    BY <1>5, <1>7, <2>2
  <2>. HIDE DEF r
  <2>5. MergeInto(Append(asked, [role |-> MergedRole(r), calls |-> G[j]]), r)
          = Append(asked, [role |-> MergedRole(r), calls |-> G[j] \o r.calls])
    BY <1>15, MergeSame
  <2>6. g[n + 1 + (j + 1)] = Append(asked, U(j + 1))
    BY <2>2, <2>3, <2>4, <2>5
  <2>. QED BY <2>6 DEF j
<1>. HIDE DEF N
<1>20. l - 1 \in Nat /\ (l - 1) + 1 = l
  BY <1>1, <1>3
<1>21. l - 1 \in N
  BY <1>18, <1>19, <1>20, CountUp
<1>22. g[n + 1 + l] = Append(asked, U(l))
  BY <1>3, <1>20, <1>21 DEF N
<1>23. AnthropicTurns(w) = Append(Append(ts, a), [role |-> "user", calls |-> m.calls])
  BY <1>6, <1>10, <1>22 DEF asked
<1>. DEFINE u == [role |-> "user", calls |-> m.calls]
<1>. HIDE DEF u
<1>24. Append(Append(ts, a), u) = ts \o (<<a>> \o <<u>>)
  BY <1>13, AppendedBoth
<1>. QED BY <1>23, <1>24 DEF w, ts, a, u

LEMMA OneFlat ==
  ASSUME NEW c, IsSeq(c)
  PROVE  FlattenSeq(<<c>>) = c
<1>. DEFINE s == <<c>>
<1>1. IsSeq(s)
  BY OneIs
<1>2. Len(s) = 1 /\ s[1] = c
  BY OneIs
<1>. HIDE DEF s
<1>3. AllSeqs(s)
  BY <1>2 DEF AllSeqs
<1>4. PICK g : Grows(g, s) /\ FlattenSeq(s) = g[Len(s)]
  BY <1>1, <1>3, FlattenGrows
<1>5. g[1] = g[1 - 1] \o s[1] /\ g[0] = <<>>
  BY <1>2, <1>4 DEF Grows
<1>8. 1 - 1 = 0 /\ s[1] = c
  BY <1>2
<1>6. g[1] = <<>> \o c
  BY <1>5, <1>8, Zenon
<1>7. FlattenSeq(s) = c
  BY <1>2, <1>4, <1>6, AfterNothing
<1>. QED BY <1>7 DEF s

LEMMA SinglesFlat ==
  ASSUME NEW c, IsSeq(c)
  PROVE  FlattenSeq([i \in 1..Len(c) |-> <<c[i]>>]) = c
<1>. DEFINE n == Len(c)
            F == [i \in 1..n |-> <<c[i]>>]
<1>1. n \in Nat
  BY SeqIs
<1>2. F \in Seq({<<c[i]>> : i \in 1..n}) /\ Len(F) = n
  BY <1>1
<1>3. IsSeq(F) /\ \A i \in 1..n : F[i] = <<c[i]>>
  BY <1>2 DEF IsSeq
<1>. HIDE DEF F, n
<1>4. AllSeqs(F)
  BY <1>2, <1>3, OneIs DEF AllSeqs
<1>5. PICK g : Grows(g, F) /\ FlattenSeq(F) = g[n]
  BY <1>2, <1>3, <1>4, FlattenGrows
<1>. DEFINE Good(k) == IsSeq(g[k]) /\ Len(g[k]) = k /\ \A i \in 1..k : g[k][i] = c[i]
            N == {k \in Nat : k <= n => Good(k)}
<1>6. 0 \in N
  <2>1. g[0] = <<>>
    BY <1>5 DEF Grows
  <2>. QED BY <2>1, EmptyIs
<1>7. ASSUME NEW k \in Nat, k \in N PROVE k + 1 \in N
  <2>1. SUFFICES ASSUME k + 1 <= n PROVE Good(k + 1)
    OBVIOUS
  <2>2. Good(k) /\ k + 1 \in 1..n /\ (k + 1) - 1 = k
    BY <1>1, <1>7, <2>1
  <2>. DEFINE u == g[k]
              o == <<c[k + 1]>>
              v == u \o o
  <2>3. g[k + 1] = v
    BY <1>2, <1>3, <1>5, <2>2 DEF Grows
  <2>4. IsSeq(u) /\ Len(u) = k /\ \A i \in 1..k : u[i] = c[i]
    BY <2>2
  <2>5. IsSeq(o)
    BY OneIs
  <2>6. Len(o) = 1 /\ o[1] = c[k + 1]
    BY OneIs
  <2>. HIDE DEF u, o, Good, N
  <2>7. IsSeq(v) /\ Len(v) = Len(u) + Len(o)
    BY <2>4, <2>5, Concatenated
  <2>12. IsSeq(u)
    BY <2>4
  <2>8. \A i \in 1..Len(u) : v[i] = u[i]
    BY <2>5, <2>12, Concatenated
  <2>9. \A i \in 1..Len(o) : v[Len(u) + i] = o[i]
    BY <2>5, <2>12, Concatenated
  <2>. HIDE DEF v
  <2>10. v[k + 1] = c[k + 1] /\ Len(v) = k + 1
    BY <2>4, <2>6, <2>7, <2>9
  <2>11. ASSUME NEW i \in 1..(k + 1) PROVE v[i] = c[i]
    <3>1. CASE i = k + 1
      BY <2>10, <3>1
    <3>2. CASE i # k + 1
      <4>1. i \in 1..k
        BY <3>2
      <4>. QED BY <2>4, <2>8, <4>1
    <3>. QED BY <3>1, <3>2
  <2>. QED BY <2>3, <2>7, <2>10, <2>11 DEF Good
<1>. HIDE DEF N, Good
<1>8. n \in N
  BY <1>1, <1>6, <1>7, CountUp
<1>9. IsSeq(g[n]) /\ Len(g[n]) = n /\ \A i \in 1..n : g[n][i] = c[i]
  BY <1>1, <1>8 DEF N, Good
<1>10. g[n] = c
  BY <1>9, SameSeq DEF n
<1>. QED BY <1>5, <1>10 DEF F, n

----------------------------------------------------------------------------
(* The requests                                                            *)

\* What a provider is sent for the conversation c.
Fine(p, mode, c) ==
  /\ IsSeq(c) /\ IsSeq(Turns(p, c))
  /\ mode # "warn" => Settled(Turns(p, c))
  /\ p = "anthropic" => Alternate(Turns(p, c))

LEMMA FineOn ==
  ASSUME NEW p \in Providers, NEW mode, NEW s, Fine(p, mode, s), NEW m, NEW rs, Exchange(m, rs),
         mode # "warn" => IsInjective(m.calls)
  PROVE  Fine(p, mode, s \o (<<m>> \o rs))
<1>. DEFINE c == s \o (<<m>> \o rs)
            ts == Turns(p, s)
            a == Turn("assistant", m)
            u == [role |-> "user", calls |-> m.calls]
<1>1. IsSeq(s) /\ IsSeq(ts) /\ (mode # "warn" => Settled(ts)) /\ (p = "anthropic" => Alternate(ts))
  BY DEF Fine
<1>2. IsSeq(c)
  BY <1>1, AskedThen DEF Exchange, Follows
<1>3. a.role = "assistant" /\ a.calls = m.calls
  BY DEF Turn
<1>. HIDE DEF a
<1>4. TurnsAdded(Turns(p, c), ts, m)
  <2>1. CASE p = "anthropic"
    <3>1. AnthropicTurns(s) = ts /\ AnthropicTurns(c) = Turns(p, c)
      BY <2>1 DEF Turns
    <3>2. Turns(p, c) = ts \o (<<a>> \o <<u>>)
      BY <1>1, <2>1, <3>1, MergedTurns DEF a
    <3>3. Replied(<<u>>, m.calls)
      <4>1. IsSeq(<<u>>) /\ Len(<<u>>) = 1 /\ <<u>>[1] = u
        BY OneIs
      <4>2. [k \in 1..1 |-> <<u>>[k].calls] = <<m.calls>>
        OBVIOUS
      <4>3. FlattenSeq(<<m.calls>>) = m.calls
        BY OneFlat DEF Exchange
      <4>4. FlattenSeq([k \in 1..Len(<<u>>) |-> <<u>>[k].calls]) = m.calls
        BY <4>1, <4>2, <4>3
      <4>5. u.role # "assistant"
        OBVIOUS
      <4>. HIDE DEF u
      <4>6. \A k \in 1..Len(<<u>>) : <<u>>[k].role # "assistant"
        BY <4>1, <4>5
      <4>. QED BY <4>1, <4>4, <4>6 DEF Replied
    <3>. HIDE DEF c, ts, u
    <3>. QED BY <3>2, <3>3 DEF TurnsAdded, a
  <2>2. CASE p # "anthropic"
    <3>1. p \in PlainProviders
      BY <2>2 DEF Providers, PlainProviders
    <3>2. IsSeq(s)
      BY <1>1
    <3>. QED BY <3>1, <3>2, PlainTurns
  <2>. QED BY <2>1, <2>2
<1>5. PICK us : Replied(us, m.calls) /\ Turns(p, c) = ts \o (<<a>> \o us)
  BY <1>4 DEF TurnsAdded, a
<1>6. /\ IsSeq(us) /\ \A k \in 1..Len(us) : us[k].role # "assistant"
      /\ FlattenSeq([k \in 1..Len(us) |-> us[k].calls]) = a.calls
  BY <1>3, <1>5 DEF Replied
<1>. HIDE DEF c
<1>7. IsSeq(Turns(p, c))
  <2>. HIDE DEF ts
  <2>1. Follows(ts \o (<<a>> \o us), ts, a, us)
    BY <1>1, <1>6, AskedThen
  <2>. QED BY <1>5, <2>1 DEF Follows
<1>8. mode # "warn" => Settled(Turns(p, c))
  <2>1. SUFFICES ASSUME mode # "warn" PROVE Settled(Turns(p, c))
    OBVIOUS
  <2>2. Settled(ts) /\ IsInjective(a.calls)
    BY <1>1, <1>3, <2>1
  <2>. HIDE DEF ts
  <2>. QED BY <1>1, <1>3, <1>5, <1>6, <2>2, SettledOn
<1>9. p = "anthropic" => Alternate(Turns(p, c))
  <2>1. SUFFICES ASSUME p = "anthropic" PROVE Alternate(Turns(p, c))
    OBVIOUS
  <2>2. Turns(p, c) = ts \o (<<a>> \o <<u>>)
    BY <1>1, <2>1, MergedTurns DEF a, c, Turns
  <2>3. u.role = "user" /\ Alternate(ts)
    BY <1>1, <2>1
  <2>. HIDE DEF ts, u
  <2>. QED BY <1>1, <1>3, <2>2, <2>3, AlternateOn
<1>. QED BY <1>2, <1>7, <1>8, <1>9 DEF Fine, c

LEMMA ThreeIs ==
  ASSUME NEW d, NEW e, NEW f
  PROVE  <<d, e, f>> = <<d>> \o (<<e>> \o <<f>>)
<1>. DEFINE u == <<d>>
            w == <<f>>
            q == <<d, e, f>>
            v == u \o (<<e>> \o w)
<1>1. /\ q \in Seq({d, e, f}) /\ Len(q) = 3
      /\ q[1] = d /\ q[2] = e /\ q[3] = f
  OBVIOUS
<1>2. IsSeq(q)
  BY <1>1 DEF IsSeq
<1>3. IsSeq(u) /\ IsSeq(w)
  BY OneIs
<1>4. Len(u) = 1 /\ u[1] = d /\ Len(w) = 1 /\ w[1] = f
  BY OneIs
<1>. HIDE DEF u, w, q
<1>5. Follows(v, u, e, w)
  BY <1>3, AskedThen
<1>. HIDE DEF v
<1>6. IsSeq(v) /\ Len(v) = 3 /\ v[1] = d /\ v[2] = e /\ v[3] = f
  BY <1>4, <1>5 DEF Follows
<1>7. \A k \in 1..3 : k = 1 \/ k = 2 \/ k = 3
  OBVIOUS
<1>8. \A k \in 1..3 : q[k] = v[k]
  BY <1>1, <1>6, <1>7
<1>9. Len(q) = 3
  BY <1>1
<1>10. q = v
  BY <1>2, <1>6, <1>8, <1>9, SameSeq
<1>. QED BY <1>10 DEF u, w, q, v

\* The conversations a generation may begin with.
LEMMA FineFirst ==
  ASSUME NEW p \in Providers, NEW mode, NEW e, e.role = "user"
  PROVE  Fine(p, mode, <<e>>)
<1>. DEFINE s == <<e>>
            ts == Turns(p, s)
<1>0. IsSeq(s)
  BY OneIs
<1>1. Len(s) = 1 /\ s[1] = e
  BY OneIs
<1>. HIDE DEF s
<1>2. IsSeq(ts) /\ Len(ts) = 1 /\ ts[1].role = "user"
  <2>1. CASE p \in PlainProviders
    <3>1. IsSeq(ts) /\ Len(ts) = Len(s)
      BY <1>0, <2>1, TurnByTurn
    <3>2. \A i \in 1..Len(s) : ts[i] = TurnOf(p, s[i])
      BY <1>0, <2>1, TurnByTurn
    <3>3. TurnOf(p, e).role = "user"
      BY DEF TurnOf, Turn
    <3>. HIDE DEF ts
    <3>. QED BY <1>1, <3>1, <3>2, <3>3
  <2>2. CASE p \notin PlainProviders
    <3>1. ts = AnthropicTurns(s)
      BY <2>2 DEF Turns, Providers, PlainProviders
    <3>2. PICK g : Accrues(g, "turns", <<>>, s) /\ g[Len(s)] = AnthropicTurns(s)
      BY <1>0, FoldsTurns
    <3>3. g[0] = <<>> /\ g[1] = MergeInto(g[1 - 1], s[1])
      BY <1>1, <3>2 DEF Accrues, Took
    <3>4. g[1] = Append(<<>>, Turn("user", e))
      <4>1. 1 - 1 = 0 /\ s[1] = e /\ MergedRole(e) = "user"
        BY <1>1 DEF MergedRole
      <4>2. g[1] = MergeInto(<<>>, e)
        BY <3>3, <4>1
      <4>. QED BY <4>1, <4>2, MergeNew
    <3>5. Turn("user", e).role = "user"
      BY DEF Turn
    <3>6. ts = Append(<<>>, Turn("user", e))
      BY <1>1, <3>1, <3>2, <3>4
    <3>. DEFINE t == Turn("user", e)
    <3>. HIDE DEF t, ts
    <3>7. IsSeq(Append(<<>>, t)) /\ Len(Append(<<>>, t)) = 1 /\ Append(<<>>, t)[1] = t
      <4>. DEFINE o == <<>>
      <4>1. IsSeq(o) /\ Len(o) = 0
        BY EmptyIs
      <4>. HIDE DEF o
      <4>2. /\ IsSeq(Append(o, t)) /\ Len(Append(o, t)) = Len(o) + 1
            /\ Append(o, t)[Len(o) + 1] = t
        BY <4>1, AppendIs
      <4>. QED BY <4>1, <4>2 DEF o
    <3>. QED BY <3>5, <3>6, <3>7 DEF t
  <2>. QED BY <2>1, <2>2
<1>. HIDE DEF ts
<1>3. \A j \in 1..1 : j = 1
  OBVIOUS
<1>4. Settled(ts)
  BY <1>2, <1>3 DEF Settled
<1>5. Alternate(ts)
  BY <1>2 DEF Alternate
<1>. QED BY <1>0, <1>2, <1>4, <1>5 DEF Fine, ts, s

LEMMA FineInit ==
  ASSUME NEW p \in Providers, NEW mode, Init
  PROVE  Fine(p, mode, conv)
<1>. DEFINE e == Message("user", <<>>, FALSE)
            m == Message("assistant", <<>>, TRUE)
            rs == <<e>>
<1>1. conv = <<e>> \/ conv = <<e, m, e>>
  BY DEF Init
<1>2. e.role = "user" /\ e.calls = <<>> /\ m.role = "assistant" /\ m.calls = <<>>
  BY DEF Message
<1>. HIDE DEF e, m
<1>3. <<e, m, e>> = <<e>> \o (<<m>> \o <<e>>)
  BY ThreeIs
<1>4. Fine(p, mode, <<e>>)
  BY <1>2, FineFirst
<1>5. IsSeq(rs) /\ Len(rs) = 1 /\ rs[1] = e
  BY OneIs
<1>6. FlattenSeq([i \in 1..Len(rs) |-> rs[i].calls]) = m.calls
  <2>1. [i \in 1..1 |-> rs[i].calls] = <<e.calls>>
    OBVIOUS
  <2>2. FlattenSeq(<<e.calls>>) = e.calls
    BY <1>2, EmptyIs, OneFlat
  <2>. HIDE DEF rs
  <2>. QED BY <1>2, <1>5, <2>1, <2>2
<1>7. IsSeq(<<>>) /\ IsInjective(<<>>)
  BY EmptyIs DEF IsInjective
<1>. HIDE DEF rs
<1>8. \A i \in 1..Len(rs) : rs[i] = e
  BY <1>5
<1>9. Exchange(m, rs)
  BY <1>2, <1>5, <1>6, <1>7, <1>8 DEF Exchange
<1>10. Fine(p, mode, <<e>> \o (<<m>> \o rs))
  BY <1>2, <1>4, <1>7, <1>9, FineOn
<1>. QED BY <1>1, <1>3, <1>4, <1>10 DEF rs

\* A round's calls and their results.
LEMMA ContinuedIs ==
  ASSUME IsSeq(result.calls), result.calls # <<>>
  PROVE  \E m, rs : Exchange(m, rs) /\ m.calls = result.calls /\ Continued = <<m>> \o rs
<1>. DEFINE c == result.calls
            m == Message("assistant", result.calls, result.thinking)
            rs == [i \in DOMAIN result.calls |-> Message("tool", <<result.calls[i]>>, FALSE)]
            n == Len(c)
<1>1. IsSeq(c) /\ n \in Nat /\ DOMAIN c = 1..n /\ n # 0
  BY SeqIs
<1>2. Continued = <<m>> \o rs
  BY DEF Continued
<1>3. m.role = "assistant" /\ m.calls = c
  BY DEF Message
<1>. HIDE DEF m
<1>. DEFINE tool(i) == Message("tool", <<c[i]>>, FALSE)
<1>4. \A i : tool(i).role = "tool" /\ tool(i).calls = <<c[i]>>
  BY DEF Message
<1>5. rs = [i \in 1..n |-> tool(i)]
  BY <1>1
<1>. HIDE DEF tool, rs, c, n
<1>6. rs \in Seq({tool(i) : i \in 1..n}) /\ Len(rs) = n /\ \A i \in 1..n : rs[i] = tool(i)
  BY <1>1, <1>5
<1>7. IsSeq(rs)
  BY <1>6 DEF IsSeq
<1>8. \A i \in 1..n : rs[i].role = "tool" /\ rs[i].calls = <<c[i]>>
  BY <1>4, <1>6
<1>9. \A i \in 1..n : IsSeq(rs[i].calls) /\ Len(rs[i].calls) = 1
  BY <1>8, OneIs
<1>10. FlattenSeq([i \in 1..n |-> rs[i].calls]) = m.calls
  <2>1. [i \in 1..n |-> rs[i].calls] = [i \in 1..n |-> <<c[i]>>]
    BY <1>8
  <2>2. FlattenSeq([i \in 1..n |-> <<c[i]>>]) = c
    BY <1>1, SinglesFlat DEF n
  <2>. QED BY <1>3, <2>1, <2>2, Zenon
<1>11. n > 0
  BY <1>1
<1>12. FlattenSeq([i \in 1..Len(rs) |-> rs[i].calls]) = m.calls
  BY <1>6, <1>10
<1>13. Exchange(m, rs)
  BY <1>1, <1>3, <1>6, <1>7, <1>8, <1>9, <1>11, <1>12 DEF Exchange
<1>. QED BY <1>2, <1>3, <1>13 DEF c

----------------------------------------------------------------------------
(* The calls of a generation                                               *)

\* What is accumulated, the calls in their order.
Gathered(acc) ==
  /\ acc = [text |-> acc.text, thinking |-> acc.thinking, calls |-> acc.calls, reason |-> acc.reason]
  /\ IsSeq(acc.calls)

\* What is accumulated, and the calls of the step whose tools are to be executed.
CallsInv ==
  /\ Gathered(x.acc)
  /\ pc = "stream" => setup.api = "stream" /\ setup.provider \in Providers /\ answer \in Answers
  /\ pc = "tools" => /\ IsSeq(result.calls) /\ result.calls # <<>>
                     /\ setup.mode # "warn" => Distinct(result.calls, FirstId(round))

\* What was executed was asked for in earlier rounds.
RanInv ==
  setup.mode # "warn" =>
    /\ IsSeq(ran) /\ IsInjective(ran)
    /\ Running => \A i \in 1..Len(ran) : ran[i] \in 0..FirstId(round)

RequestsInv ==
  /\ setup.provider \in Providers => Fine(setup.provider, setup.mode, conv)
  /\ \A i \in 1..Len(sent) :
       setup.provider \in Providers /\ Fine(setup.provider, setup.mode, sent[i].conv)

LEMMA GatheredOn ==
  ASSUME NEW acc, NEW e, Gathered(acc)
  PROVE  Gathered(Accumulated(acc, e))
<1>. DEFINE to == Accumulated(acc, e)
<1>1. /\ acc = [text |-> acc.text, thinking |-> acc.thinking, calls |-> acc.calls,
                reason |-> acc.reason]
      /\ IsSeq(acc.calls) /\ IsSeq(Append(acc.calls, e.id))
  BY AppendIs DEF Gathered
<1>2. CASE e.type = "TOOL_CALL_END"
  <2>. DEFINE calls == Append(acc.calls, e.id)
  <2>1. to = [acc EXCEPT !.calls = calls]
    BY <1>2 DEF Accumulated
  <2>. HIDE DEF calls, to
  <2>2. /\ to = [text |-> to.text, thinking |-> to.thinking, calls |-> to.calls,
                reason |-> to.reason]
        /\ to.calls = calls
    BY <1>1, <2>1
  <2>3. IsSeq(to.calls)
    BY <1>1, <2>2 DEF calls
  <2>4. Gathered(to)
    BY <2>2, <2>3 DEF Gathered
  <2>. QED BY <2>4 DEF to
<1>3. CASE e.type # "TOOL_CALL_END"
  <2>1. /\ to = [text |-> to.text, thinking |-> to.thinking, calls |-> to.calls,
                reason |-> to.reason]
        /\ to.calls = acc.calls
    BY <1>1, <1>3 DEF Accumulated
  <2>. HIDE DEF to
  <2>2. Gathered(to)
    BY <1>1, <2>1 DEF Gathered
  <2>. QED BY <2>2 DEF to
<1>. QED BY <1>2, <1>3

LEMMA AccStep ==
  ASSUME GivenInv, CallsInv, Next
  PROVE  Gathered(x'.acc)
<1>1. \/ x' = x
      \/ x' = StreamInit
      \/ x' = Through(setup.mode, x, Head(due))
  BY DEF Next, Program, BeginRound, CallRefused, CallDenied, SleepOver, WireEvent, EventArrives,
         StreamEnds, ToolsDone, TakeObject, StreamedObject, CallFails, StreamBreaks, CallAnswers,
         StreamConnects, Cancelled, Abort, DeadlinePasses, step
<1>2. CASE x' = StreamInit
  <2>1. x'.acc = AccumulatorInit
    BY <1>2 DEF StreamInit
  <2>. QED BY <2>1, EmptyIs DEF AccumulatorInit, Gathered
<1>3. CASE x' = Through(setup.mode, x, Head(due))
  <2>. DEFINE e == Head(due)
  <2>1. x'.acc = x.acc \/ x'.acc = Accumulated(x.acc, e)
    <3>. HIDE DEF e
    <3>1. x = [v |-> x.v, acc |-> x.acc, given |-> x.given, refused |-> x.refused]
      BY DEF GivenInv, WellTyped
    <3>2. x' = Through(setup.mode, x, e)
      BY <1>3 DEF e
    <3>. QED BY <3>1, <3>2 DEF Through
  <2>. HIDE DEF e
  <2>. QED BY <2>1, GatheredOn DEF CallsInv
<1>. QED BY <1>1, <1>2, <1>3 DEF CallsInv

LEMMA CallsStep ==
  ASSUME BudgetInv, GivenInv, StreamInv', CallsInv, Next
  PROVE  CallsInv'
<1>. DEFINE p == setup.provider
<1>1. setup \in Setups /\ round \in Nat /\ setup' = setup
  <2>1. setup' = setup
    BY Steps DEF Sends, Goes, NextRound, Aborts
  <2>. QED BY <2>1, SetupsAssumption, BoundsAssumption DEF BudgetInv
<1>2. Gathered(x'.acc)
  BY AccStep
<1>3. ASSUME p \in Providers, NEW a \in Answers
      PROVE  /\ Response(p, a).calls = CallIds(a)
             /\ Distinct(CallIds(a), FirstId(round))
  <2>1. IsSeq(a.blocks) /\ \A i \in 1..Len(a.blocks) : Spoken(p, a.blocks[i])
    BY <1>1, <1>3, AnswersSpoken
  <2>2. Response(p, a).calls = CallIds(a)
    BY <1>3, <2>1, ResponseIs
  <2>. QED BY <1>1, <2>2, CallsDistinct
<1>4. CASE pc = "call" /\ Sendable /\ \E a \in Answers : StreamConnects(a)
  <2>1. PICK a \in Answers : StreamConnects(a)
    BY <1>4
  <2>2. p \in Providers
    BY <1>4, RegisteredAssumption DEF Sendable, Routed
  <2>3. pc' = "stream" /\ answer' = a /\ round' = round /\ setup.api = "stream"
    BY <2>1 DEF StreamConnects
  <2>4. answer' \in Answers'
    BY <1>1, <2>3 DEF Answers
  <2>. QED BY <1>1, <1>2, <2>2, <2>3, <2>4 DEF CallsInv
<1>5. CASE pc = "call" /\ Sendable /\ \E a \in Answers : CallAnswers(a)
  <2>1. PICK a \in Answers : CallAnswers(a)
    BY <1>5
  <2>2. p \in Providers
    BY <1>5, RegisteredAssumption DEF Sendable, Routed
  <2>3. /\ result' = Response(p, a) /\ round' = round
        /\ pc' \in {"tools", "done"} /\ (pc' = "tools" => result'.calls # <<>>)
    BY <2>1 DEF CallAnswers
  <2>4. result'.calls = CallIds(a) /\ Distinct(CallIds(a), FirstId(round))
    BY <1>3, <2>2, <2>3
  <2>5. IsSeq(result'.calls) /\ Distinct(result'.calls, FirstId(round'))
    BY <2>3, <2>4 DEF Distinct
  <2>. QED BY <1>2, <2>3, <2>5 DEF CallsInv
<1>6. CASE StreamEnds
  <2>1. /\ pc = "stream" /\ result' = x.acc /\ answer' = answer /\ round' = round
        /\ pc' \in {"tools", "done", "raised", "sleep"}
        /\ pc' = "tools" => x.acc.calls # <<>>
    BY <1>6 DEF StreamEnds, StreamFailed, Failed, Raise
  <2>2. setup.api = "stream" /\ p \in Providers /\ answer \in Answers /\ IsSeq(x.acc.calls)
    BY <2>1 DEF CallsInv, Gathered
  <2>3. ASSUME setup.mode # "warn", pc' = "tools"
        PROVE  Distinct(result'.calls, FirstId(round'))
    <3>1. result'.calls = Response(p, answer).calls
      BY <1>1, <2>1, <2>2, <2>3 DEF StreamInv, AgreesWith
    <3>2. Response(p, answer).calls = CallIds(answer) /\ Distinct(CallIds(answer), FirstId(round))
      BY <1>3, <2>2
    <3>. QED BY <2>1, <3>1, <3>2
  <2>. QED BY <1>1, <1>2, <2>1, <2>2, <2>3 DEF CallsInv
<1>7. CASE \/ BeginRound \/ CallRefused \/ CallDenied \/ SleepOver
           \/ \E f \in Failures : CallFails(f)
           \/ \E f \in Failures : StreamBreaks(f)
           \/ Cancelled \/ ToolsDone \/ TakeObject \/ StreamedObject
  <2>1. pc' \notin {"stream", "tools"}
    BY <1>7 DEF BeginRound, CallRefused, CallDenied, SleepOver, CallFails, StreamBreaks,
                Cancelled, ToolsDone, TakeObject, StreamedObject, StreamFailed, Failed, Raise
  <2>. QED BY <1>2, <2>1 DEF CallsInv
<1>8. CASE WireEvent \/ EventArrives \/ Abort \/ DeadlinePasses
  <2>1. UNCHANGED <<answer, round, result>> /\ (pc' = pc \/ pc' \in {"raised", "sleep"})
    BY <1>8 DEF WireEvent, EventArrives, Abort, DeadlinePasses, step, StreamFailed, Failed, Raise
  <2>2. Answers' = Answers
    BY <1>1, <2>1 DEF Answers
  <2>. QED BY <1>1, <1>2, <2>1, <2>2 DEF CallsInv
<1>. QED BY <1>4, <1>5, <1>6, <1>7, <1>8 DEF Next, Program

\* The calls of a round are none of those executed before.
LEMMA RanOn ==
  ASSUME NEW s, IsSeq(s), IsInjective(s), NEW n \in Nat,
         \A i \in 1..Len(s) : s[i] \in 0..n,
         NEW c, Distinct(c, n)
  PROVE  /\ IsSeq(s \o c) /\ IsInjective(s \o c)
         /\ \A i \in 1..Len(s \o c) : (s \o c)[i] \in 0..(n + MaxCalls + 1)
<1>. DEFINE v == s \o c
            l == Len(s)
            m == Len(c)
<1>1. IsSeq(c) /\ IsInjective(c) /\ \A i \in 1..m : c[i] \in (n + 1)..(n + MaxCalls)
  BY DEF Distinct
<1>2. IsSeq(v) /\ Len(v) = l + m /\ l \in Nat /\ m \in Nat
  BY <1>1, Concatenated
<1>3. \A k \in 1..l : v[k] = s[k]
  BY <1>1, Concatenated
<1>4. \A k \in 1..m : v[l + k] = c[k]
  BY <1>1, Concatenated
<1>5. DOMAIN v = 1..(l + m) /\ DOMAIN s = 1..l /\ DOMAIN c = 1..m
  <2>1. DOMAIN v = 1..Len(v) /\ DOMAIN s = 1..l /\ DOMAIN c = 1..m
    <3>. HIDE DEF v
    <3>. QED BY <1>1, <1>2, SeqIs
  <2>. QED BY <1>2, <2>1
<1>6. MaxCalls \in Nat
  BY BoundsAssumption
<1>. HIDE DEF v, l, m
<1>7. \A k \in 1..l : v[k] \in 0..n
  BY <1>3 DEF l
<1>8. ASSUME NEW k \in 1..(l + m), k \notin 1..l
      PROVE  /\ k - l \in 1..m /\ v[k] = c[k - l]
             /\ v[k] \in (n + 1)..(n + MaxCalls)
  <2>1. k - l \in 1..m /\ l + (k - l) = k
    BY <1>2, <1>8
  <2>2. v[k] = c[k - l]
    BY <1>4, <2>1
  <2>. QED BY <1>1, <2>1, <2>2
<1>9. ASSUME NEW i \in 1..(l + m), NEW j \in 1..(l + m), v[i] = v[j]
      PROVE  i = j
  <2>1. CASE i \in 1..l /\ j \in 1..l
    <3>1. s[i] = s[j]
      BY <1>3, <1>9, <2>1
    <3>. QED BY <1>5, <2>1, <3>1 DEF IsInjective
  <2>2. CASE i \notin 1..l /\ j \notin 1..l
    <3>1. c[i - l] = c[j - l] /\ i - l \in 1..m /\ j - l \in 1..m
      BY <1>8, <1>9, <2>2
    <3>2. i - l = j - l
      BY <1>1, <1>5, <3>1 DEF IsInjective
    <3>. QED BY <1>2, <3>2
  <2>3. ASSUME NEW a \in 1..l, NEW b \in 1..(l + m), b \notin 1..l, v[a] = v[b] PROVE FALSE
    <3>1. v[a] \in 0..n /\ v[b] \in (n + 1)..(n + MaxCalls)
      BY <1>7, <1>8, <2>3
    <3>. QED BY <1>6, <2>3, <3>1
  <2>. QED BY <1>9, <2>1, <2>2, <2>3
<1>10. IsInjective(v)
  BY <1>5, <1>9 DEF IsInjective
<1>11. \A i \in 1..(l + m) : v[i] \in 0..(n + MaxCalls + 1)
  <2>1. SUFFICES ASSUME NEW i \in 1..(l + m) PROVE v[i] \in 0..(n + MaxCalls + 1)
    OBVIOUS
  <2>2. CASE i \in 1..l
    <3>1. v[i] \in 0..n
      BY <1>7, <2>2
    <3>. QED BY <1>6, <3>1
  <2>3. CASE i \notin 1..l
    <3>1. v[i] \in (n + 1)..(n + MaxCalls)
      BY <1>8, <2>3
    <3>. QED BY <1>6, <3>1
  <2>. QED BY <2>2, <2>3
<1>. QED BY <1>2, <1>10, <1>11 DEF v

LEMMA FirstIds ==
  ASSUME round \in Nat
  PROVE  /\ FirstId(round) \in Nat /\ MaxCalls \in Nat
         /\ FirstId(round + 1) = FirstId(round) + MaxCalls + 1
<1>. DEFINE w == MaxCalls + 1
<1>1. w \in Nat /\ MaxCalls \in Nat
  BY BoundsAssumption
<1>. HIDE DEF w
<1>2. (round + 1) * w = round * w + w /\ round * w \in Nat
  BY <1>1
<1>. QED BY <1>1, <1>2 DEF FirstId, w

LEMMA RanStep ==
  ASSUME BudgetInv, CallsInv, RanInv, Next
  PROVE  RanInv'
<1>1. setup' = setup /\ round \in Nat
  <2>1. setup' = setup
    BY Steps DEF Sends, Goes, NextRound, Aborts
  <2>. QED BY <2>1, SetupsAssumption, BoundsAssumption DEF BudgetInv
<1>2. SUFFICES ASSUME setup.mode # "warn"
               PROVE  /\ IsSeq(ran') /\ IsInjective(ran')
                      /\ Running' => \A i \in 1..Len(ran') : ran'[i] \in 0..FirstId(round')
  BY <1>1 DEF RanInv
<1>3. /\ IsSeq(ran) /\ IsInjective(ran)
      /\ Running => \A i \in 1..Len(ran) : ran[i] \in 0..FirstId(round)
  BY <1>2 DEF RanInv
<1>4. CASE ToolsDone
  <2>. DEFINE n == FirstId(round)
              v == ran \o result.calls
  <2>1. /\ pc = "tools" /\ ran' = v
        /\ pc' \in {"done", "raised"} \/ (pc' = "round" /\ round' = round + 1)
    BY <1>4 DEF ToolsDone, Executed, Raise
  <2>2. Distinct(result.calls, n)
    BY <1>2, <2>1 DEF CallsInv
  <2>3. \A i \in 1..Len(ran) : ran[i] \in 0..n
    BY <1>3, <2>1 DEF Running
  <2>4. n \in Nat /\ FirstId(round + 1) = n + MaxCalls + 1
    BY <1>1, FirstIds
  <2>. HIDE DEF n
  <2>5. /\ IsSeq(v) /\ IsInjective(v)
        /\ \A i \in 1..Len(v) : v[i] \in 0..(n + MaxCalls + 1)
    BY <1>3, <2>2, <2>3, <2>4, RanOn
  <2>. HIDE DEF v
  <2>. QED BY <2>1, <2>4, <2>5 DEF Running
<1>5. CASE ~ToolsDone
  <2>1. ran' = ran /\ round' = round /\ (Running' => Running)
    BY <1>5 DEF Next, Program, BeginRound, CallRefused, CallDenied, SleepOver, WireEvent,
                EventArrives, StreamEnds, TakeObject, StreamedObject, CallFails, StreamBreaks,
                CallAnswers, StreamConnects, Cancelled, Abort, DeadlinePasses, Running,
                StreamFailed, Failed, Raise
  <2>. QED BY <1>3, <2>1
<1>. QED BY <1>4, <1>5

LEMMA RequestsStep ==
  ASSUME BudgetInv, CallsInv, RequestsInv, Next
  PROVE  RequestsInv'
<1>. DEFINE p == setup.provider
            mode == setup.mode
<1>1. setup' = setup
  BY Steps DEF Sends, Goes, NextRound, Aborts
<1>2. CASE ToolsDone
  <2>1. /\ pc = "tools" /\ sent' = sent
        /\ conv' = conv \/ conv' = conv \o Continued
    BY <1>2 DEF ToolsDone, Raise
  <2>2. /\ IsSeq(result.calls) /\ result.calls # <<>>
        /\ mode # "warn" => IsInjective(result.calls)
    BY <2>1 DEF CallsInv, Distinct
  <2>3. ASSUME p \in Providers PROVE Fine(p, mode, conv')
    <3>1. Fine(p, mode, conv)
      BY <2>3 DEF RequestsInv
    <3>2. PICK m, rs : Exchange(m, rs) /\ m.calls = result.calls /\ Continued = <<m>> \o rs
      BY <2>2, ContinuedIs
    <3>3. mode # "warn" => IsInjective(m.calls)
      BY <2>2, <3>2
    <3>. HIDE DEF p, mode
    <3>4. Fine(p, mode, conv \o (<<m>> \o rs))
      BY <2>3, <3>1, <3>2, <3>3, FineOn
    <3>. QED BY <2>1, <3>1, <3>2, <3>4
  <2>. QED BY <1>1, <2>1, <2>3 DEF RequestsInv
<1>3. CASE ~ToolsDone
  <2>1. conv' = conv
    BY <1>3 DEF Next, Program, BeginRound, CallRefused, CallDenied, SleepOver, WireEvent,
                EventArrives, StreamEnds, TakeObject, StreamedObject, CallFails, StreamBreaks,
                CallAnswers, StreamConnects, Cancelled, Abort, DeadlinePasses
  <2>2. sent' = sent \/ (p \in Registered /\ \E how : Sent(how))
    <3>1. CASE \E f \in Failures : CallFails(f)
      BY <3>1 DEF CallFails, Sendable, Routed
    <3>2. CASE pc = "call" /\ Sendable /\ \E a \in Answers : CallAnswers(a) \/ StreamConnects(a)
      <4>1. \E how : Sent(how)
        BY <3>2 DEF CallAnswers, StreamConnects
      <4>. QED BY <3>2, <4>1 DEF Sendable, Routed
    <3>3. CASE \/ BeginRound \/ CallRefused \/ CallDenied \/ SleepOver \/ WireEvent
               \/ EventArrives \/ StreamEnds \/ TakeObject \/ StreamedObject
               \/ \E f \in Failures : StreamBreaks(f)
               \/ Cancelled \/ Abort \/ DeadlinePasses
      BY <3>3 DEF BeginRound, CallRefused, CallDenied, SleepOver, WireEvent, EventArrives,
                  StreamEnds, TakeObject, StreamedObject, StreamBreaks, Cancelled, Abort,
                  DeadlinePasses
    <3>. QED BY <1>3, <3>1, <3>2, <3>3 DEF Next, Program
  <2>3. CASE sent' = sent
    BY <1>1, <2>1, <2>3 DEF RequestsInv
  <2>4. CASE p \in Registered /\ \E how : Sent(how)
    <3>1. PICK how : sent' = Append(sent, [conv |-> conv, round |-> round, how |-> how])
      BY <2>4 DEF Sent
    <3>. DEFINE e == [conv |-> conv, round |-> round, how |-> how]
                n == Len(sent)
    <3>2. e.conv = conv
      OBVIOUS
    <3>. HIDE DEF e
    <3>3. /\ n \in Nat /\ Len(sent') = n + 1
          /\ \A i \in 1..n : sent'[i] = sent[i]
          /\ sent'[n + 1] = e
      BY <3>1, AppendIs DEF BudgetInv, e
    <3>4. p \in Providers /\ Fine(p, mode, conv)
      BY <2>4, RegisteredAssumption DEF RequestsInv
    <3>5. \A i \in 1..n : p \in Providers /\ Fine(p, mode, sent[i].conv)
      BY DEF RequestsInv
    <3>. HIDE DEF n, p, mode
    <3>6. \A i \in 1..(n + 1) : i \in 1..n \/ i = n + 1
      BY <3>3
    <3>7. \A i \in 1..Len(sent') : p \in Providers /\ Fine(p, mode, sent'[i].conv)
      BY <3>2, <3>3, <3>4, <3>5, <3>6
    <3>. QED BY <1>1, <2>1, <3>4, <3>7 DEF RequestsInv, p, mode
  <2>. QED BY <2>2, <2>3, <2>4
<1>. QED BY <1>2, <1>3

\* The replies to a turn are those up to the assistant's next one.
LEMMA RepliesAre ==
  ASSUME NEW ts, IsSeq(ts), NEW j \in 1..Len(ts), NEW m \in Nat, IsAnswered(ts, j, m)
  PROVE  Cardinality({k \in (j + 1)..Len(ts) :
                        \A l \in (j + 1)..k : ~(ts[l].role = "assistant")}) = m
<1>. DEFINE n == Len(ts)
            R == {k \in (j + 1)..n : \A l \in (j + 1)..k : ~(ts[l].role = "assistant")}
<1>1. /\ j + m <= n
      /\ \A k \in 1..m : ts[j + k].role # "assistant"
      /\ j + m < n => ts[j + m + 1].role = "assistant"
  BY DEF IsAnswered
<1>2. n \in Nat /\ j \in Nat
  BY SeqIs
<1>. HIDE DEF n
<1>3. \A k \in (j + 1)..(j + m) : ts[k].role # "assistant"
  <2>1. SUFFICES ASSUME NEW k \in (j + 1)..(j + m) PROVE ts[k].role # "assistant"
    OBVIOUS
  <2>2. k - j \in 1..m /\ j + (k - j) = k
    BY <1>2
  <2>. QED BY <1>1, <2>2
<1>4. ASSUME NEW k \in (j + 1)..(j + m) PROVE k \in R
  <2>1. k \in (j + 1)..n /\ \A l \in (j + 1)..k : l \in (j + 1)..(j + m)
    BY <1>1, <1>2
  <2>. QED BY <1>3, <2>1
<1>5. ASSUME NEW k \in R PROVE k \in (j + 1)..(j + m)
  <2>1. SUFFICES ASSUME k \notin (j + 1)..(j + m) PROVE FALSE
    OBVIOUS
  <2>2. j + m + 1 \in (j + 1)..k /\ j + m < n
    BY <1>1, <1>2, <2>1
  <2>. QED BY <1>1, <2>2
<1>6. R = (j + 1)..(j + m)
  BY <1>4, <1>5
<1>. HIDE DEF R
<1>7. Cardinality((j + 1)..(j + m)) = m
  <2>1. Cardinality((j + 1)..(j + m)) = IF j + 1 > j + m THEN 0 ELSE (j + m) - (j + 1) + 1
    BY <1>2, FS_Interval
  <2>. QED BY <1>2, <2>1
<1>. QED BY <1>6, <1>7 DEF R, n

CallInv == CallsInv /\ RanInv /\ RequestsInv

LEMMA CallInit == Init => CallInv
<1>. SUFFICES ASSUME Init PROVE CallInv
  OBVIOUS
<1>1. pc = "round" /\ x = StreamInit /\ sent = <<>> /\ ran = <<>> /\ round = 0
  BY DEF Init
<1>2. IsSeq(<<>>) /\ Len(<<>>) = 0 /\ DOMAIN <<>> = {}
  BY EmptyIs
<1>3. Gathered(x.acc)
  BY <1>1, <1>2 DEF StreamInit, AccumulatorInit, Gathered
<1>4. CallsInv
  BY <1>1, <1>3 DEF CallsInv
<1>5. RanInv
  BY <1>1, <1>2 DEF RanInv, IsInjective
<1>6. RequestsInv
  <2>1. setup.provider \in Providers => Fine(setup.provider, setup.mode, conv)
    BY FineInit
  <2>2. \A i \in 1..Len(sent) : FALSE
    BY <1>1, <1>2
  <2>. QED BY <2>1, <2>2 DEF RequestsInv
<1>. QED BY <1>4, <1>5, <1>6 DEF CallInv

LEMMA AnsweredOnce ==
  ASSUME BudgetInv, CallInv
  PROVE  CallsAnsweredOnce
<1>. DEFINE p == setup.provider
            T(i) == Turns(p, sent[i].conv)
            asks(ts, j) == ts[j].role = "assistant"
            replies(ts, j) == {k \in (j + 1)..Len(ts) : \A l \in (j + 1)..k : ~asks(ts, l)}
            answered(ts, j) ==
              FlattenSeq([k \in 1..Cardinality(replies(ts, j)) |-> ts[j + k].calls])
<1>1. setup.mode # "warn" => IsInjective(ran)
  BY DEF CallInv, RanInv
<1>2. ASSUME NEW i \in DOMAIN sent PROVE p \in Providers /\ Fine(p, setup.mode, sent[i].conv)
  BY SeqIs DEF BudgetInv, CallInv, RequestsInv
<1>3. ASSUME NEW i \in DOMAIN sent, setup.mode # "warn",
             NEW j \in DOMAIN T(i), asks(T(i), j)
      PROVE  answered(T(i), j) = T(i)[j].calls /\ IsInjective(T(i)[j].calls)
  <2>. DEFINE ts == T(i)
  <2>1. IsSeq(ts) /\ Settled(ts)
    BY <1>2, <1>3 DEF Fine
  <2>. HIDE DEF T
  <2>2. j \in 1..Len(ts)
    BY <1>3, <2>1, SeqIs
  <2>3. asks(ts, j)
    BY <1>3
  <2>. HIDE DEF ts
  <2>4. PICK m \in Nat : IsAnswered(ts, j, m)
    BY <2>1, <2>2, <2>3 DEF Settled
  <2>5. Cardinality(replies(ts, j)) = m
    BY <2>1, <2>2, <2>4, RepliesAre
  <2>6. FlattenSeq([k \in 1..m |-> ts[j + k].calls]) = ts[j].calls
    BY <2>4 DEF IsAnswered
  <2>7. IsInjective(ts[j].calls)
    BY <2>1, <2>2, <2>3 DEF Settled
  <2>. HIDE DEF replies
  <2>8. answered(ts, j) = ts[j].calls
    BY <2>5, <2>6
  <2>. HIDE DEF answered
  <2>. QED BY <2>7, <2>8 DEF ts
<1>4. ASSUME NEW i \in DOMAIN sent, p = "anthropic", NEW j \in 1..(Len(T(i)) - 1)
      PROVE  T(i)[j].role # T(i)[j + 1].role
  <2>1. Alternate(T(i))
    BY <1>2, <1>4 DEF Fine
  <2>. QED BY <1>4, <2>1 DEF Alternate
<1>. QED BY <1>1, <1>3, <1>4 DEF CallsAnsweredOnce

\* Whatever the provider answers, in however many rounds and attempts, each call of an
\* assistant turn is answered in the turns right after it, once and in order, for
\* Anthropic in one user turn; and a strict stream, like complete(), executes no call
\* twice.  The ids of a round are new ones and distinct, a strict stream gives the calls
\* that complete() gives (StreamsAgree), and each adapter's translation carries an
\* exchange of calls and results over as one (generate.py, adapters/*.py).
THEOREM EachCallAnsweredOnce == Spec => []CallsAnsweredOnce
<1>1. WorkInv /\ GivenInv /\ StreamInv' /\ CallInv /\ [Next]_vars => CallInv'
  <2>. SUFFICES ASSUME WorkInv, GivenInv, StreamInv', CallInv, [Next]_vars PROVE CallInv'
    OBVIOUS
  <2>1. CASE Next
    BY <2>1, CallsStep, RanStep, RequestsStep DEF WorkInv, CallInv
  <2>2. CASE UNCHANGED vars
    BY <2>2 DEF vars, CallInv, CallsInv, RanInv, RequestsInv, Running, Answers
  <2>. QED BY <2>1, <2>2
<1>2. WorkInv /\ CallInv => CallsAnsweredOnce
  BY AnsweredOnce DEF WorkInv
<1>. QED BY <1>1, <1>2, CallInit, WorkAlways, GivenAlways, StreamAlways, PTL DEF Spec
=============================================================================

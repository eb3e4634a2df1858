----------------------------- MODULE LLMProvider -----------------------------
(***************************************************************************)
(* Calls of the language model: LLMService (services/llm_service.py) over  *)
(* OllamaProvider (llm/ollama.py).  All calls of the process share one     *)
(* semaphore; each sends a request to Ollama, retries it while nothing has *)
(* reached the caller, and counts itself in the metrics when it ends.      *)
(*                                                                         *)
(* A stream is a chain of async generators.  Cancelled at an await inside  *)
(* the chain it unwinds at once.  Cancelled while the consumer holds a     *)
(* chunk, only the outermost generator is closed (by aclosing); each of    *)
(* the others is closed by the event loop's finaliser one turn after the   *)
(* one around it.                                                          *)
(***************************************************************************)
EXTENDS Naturals, Sequences, FiniteSets, SequencesExt

CONSTANTS
  Calls,           \* calls in the life of the process
  MaxConcurrency,  \* llm_max_concurrency, the size of the semaphore
  MaxRetries,      \* llm_max_retries
  MaxChunks        \* bound: chunks of the longest answer

ASSUME ProviderConstantsOK ==
  /\ MaxConcurrency \in Nat \ {0}
  /\ MaxRetries \in Nat
  /\ MaxChunks \in Nat

VARIABLES
  kind,            \* kind[c]: "generate" (also structured) or "stream"
  at,              \* at[c]: where call c is suspended
  attempt,         \* attempt[c]: the local attempt
  emitted,         \* emitted[c]: the local emitted_chunk
  text,            \* text[c]: for each chunk the consumer got, the attempt it is from
  result,          \* result[c]: how the call ended for its caller
  counted,         \* counted[c]: the status the metrics recorded for it
  free,            \* the semaphore's value
  queue,           \* calls that wait in acquire without a slot, first come first served
  open,            \* calls whose HTTP request to Ollama is open
  inProgress       \* LLM_REQUESTS_IN_PROGRESS

semaphore == <<free, queue>>
metrics   == <<counted, inProgress>>
vars      == <<kind, at, attempt, emitted, text, result, semaphore, open, metrics>>

-----------------------------------------------------------------------------
(* Data *)

\* The generators left behind: all three, all but the service's, only _stream.
LeftBehind == {"abandoned", "service_closed", "provider_closed"}

Points == {"idle", "queued", "granted", "requesting", "reading", "yielded", "backoff",
           "done"} \cup LeftBehind

Transient == {"timeout", "connection"}
Results   == {"ok", "cancelled", "rejected", "invalid"} \cup Transient

\* The status label: an exception that is no cancellation is an error.
StatusOf(r) ==
  CASE r = "ok" -> "success"
    [] r = "cancelled" -> "cancelled"
    [] OTHER -> "error"

HoldsSlot(c) == at[c] \in {"granted", "requesting", "reading", "yielded", "backoff",
                           "abandoned", "service_closed"}

Init ==
  /\ kind = [c \in Calls |-> "none"]
  /\ at = [c \in Calls |-> "idle"]
  /\ attempt = [c \in Calls |-> 0]
  /\ emitted = [c \in Calls |-> FALSE]
  /\ text = [c \in Calls |-> <<>>]
  /\ result = [c \in Calls |-> "none"]
  /\ counted = [c \in Calls |-> "none"]
  /\ free = MaxConcurrency
  /\ queue = <<>>
  /\ open = {}
  /\ inProgress = 0

Goto(c, point) == at' = [at EXCEPT ![c] = point]

-----------------------------------------------------------------------------
(* The semaphore *)

\* Call c moves on; f slots are free and those of q wait: slots go to the first of
\* them, who find out when the event loop resumes them.
Pass(c, point, f, q) ==
  LET n == IF f < Len(q) THEN f ELSE Len(q)
  IN  /\ free' = f - n
      /\ queue' = SubSeq(q, n + 1, Len(q))
      /\ at' = [d \in Calls |-> IF d = c THEN point
                                ELSE IF \E i \in 1..n : q[i] = d THEN "granted" ELSE at[d]]

\* acquire does not overtake anybody who was woken but has not resumed yet.
Unlocked == free > 0 /\ queue = <<>> /\ \A d \in Calls : at[d] # "granted"

-----------------------------------------------------------------------------
(* The metrics: every call counts itself once, in the finally clause *)

Count(c, status) ==
  /\ counted' = [counted EXCEPT ![c] = status]
  /\ inProgress' = inProgress - 1

\* The call ends inside the chain: the response is closed, then the slot released.
End(c, r) ==
  /\ result' = [result EXCEPT ![c] = r]
  /\ Count(c, StatusOf(r))
  /\ open' = open \ {c}
  /\ Pass(c, "done", free + 1, queue)
  /\ UNCHANGED <<kind, attempt, emitted, text>>

-----------------------------------------------------------------------------
(* A call *)

Send(c) == open' = open \cup {c}

Start(c) ==
  /\ at[c] = "idle"
  /\ \E k \in {"generate", "stream"} : kind' = [kind EXCEPT ![c] = k]
  /\ inProgress' = inProgress + 1
  /\ IF Unlocked
     THEN Goto(c, "requesting") /\ free' = free - 1 /\ UNCHANGED queue /\ Send(c)
     ELSE Goto(c, "queued") /\ queue' = Append(queue, c) /\ UNCHANGED <<free, open>>
  /\ UNCHANGED <<attempt, emitted, text, result, counted>>

Enter(c) ==
  /\ at[c] = "granted"
  /\ Pass(c, "requesting", free, queue)
  /\ Send(c)
  /\ UNCHANGED <<kind, attempt, emitted, text, result, metrics>>

\* The status line of a streamed answer.
Respond(c) ==
  /\ at[c] = "requesting"
  /\ kind[c] = "stream"
  /\ Goto(c, "reading")
  /\ UNCHANGED <<kind, attempt, emitted, text, result, semaphore, open, metrics>>

\* A line with content: the chunk is handed through all generators.
Yield(c) ==
  /\ at[c] = "reading"
  /\ Len(text[c]) < MaxChunks
  /\ text' = [text EXCEPT ![c] = Append(@, attempt[c])]
  /\ emitted' = [emitted EXCEPT ![c] = TRUE]
  /\ Goto(c, "yielded")
  /\ UNCHANGED <<kind, attempt, result, semaphore, open, metrics>>

\* The consumer asks for more; the chunk may have come with the line that was done.
Resume(c) ==
  /\ at[c] = "yielded"
  /\ Goto(c, "reading")
  /\ UNCHANGED <<kind, attempt, emitted, text, result, semaphore, open, metrics>>

Complete(c) ==
  /\ \/ at[c] = "requesting" /\ kind[c] = "generate"
     \/ at[c] \in {"reading", "yielded"}
  /\ End(c, "ok")

\* Mutant: a call that gives up does not release its slot.
FailKeepingSlot(c, why) ==
  /\ at[c] \in {"requesting", "reading"}
  /\ open' = open \ {c}
  /\ IF emitted[c] \/ attempt[c] >= MaxRetries
     THEN /\ Goto(c, "done")
          /\ result' = [result EXCEPT ![c] = why]
          /\ Count(c, StatusOf(why))
     ELSE Goto(c, "backoff") /\ UNCHANGED <<result, metrics>>
  /\ UNCHANGED <<kind, attempt, emitted, text, semaphore>>

\* Mutant: a stream is retried whatever it has emitted.
FailRetryingAlways(c, why) ==
  /\ at[c] \in {"requesting", "reading"}
  /\ IF attempt[c] >= MaxRetries
     THEN End(c, why)
     ELSE /\ Goto(c, "backoff")
          /\ open' = open \ {c}
          /\ UNCHANGED <<kind, attempt, emitted, text, result, semaphore, metrics>>

\* A timeout or a broken transport: retried while nothing was emitted.  The slot is
\* kept during the delay, the HTTP request is not.
Fail(c, why) ==
  /\ at[c] \in {"requesting", "reading"}
  /\ IF emitted[c] \/ attempt[c] >= MaxRetries
     THEN End(c, why)
     ELSE /\ Goto(c, "backoff")
          /\ open' = open \ {c}
          /\ UNCHANGED <<kind, attempt, emitted, text, result, semaphore, metrics>>

\* Mutant: the delay is started again when it is over.
RetryNever(c) == at[c] = "backoff" /\ UNCHANGED vars

Retry(c) ==
  /\ at[c] = "backoff"
  /\ attempt' = [attempt EXCEPT ![c] = @ + 1]
  /\ emitted' = [emitted EXCEPT ![c] = FALSE]
  /\ Goto(c, "requesting")
  /\ Send(c)
  /\ UNCHANGED <<kind, text, result, semaphore, metrics>>

\* An HTTP error status, an error field in the stream.
Reject(c) == at[c] \in {"requesting", "reading"} /\ End(c, "rejected")

\* A body that does not parse or does not fit the schema, a stream that breaks off.
Garble(c) ==
  /\ \/ at[c] = "requesting" /\ kind[c] = "generate"
     \/ at[c] = "reading"
  /\ End(c, "invalid")

-----------------------------------------------------------------------------
(* Cancellation *)

CancelWaiting(c) ==
  /\ \/ at[c] = "granted" /\ Pass(c, "done", free + 1, queue)
     \/ \E i \in DOMAIN queue : queue[i] = c /\ Pass(c, "done", free, RemoveAt(queue, i))
  /\ result' = [result EXCEPT ![c] = "cancelled"]
  /\ Count(c, "cancelled")
  /\ UNCHANGED <<kind, attempt, emitted, text, open>>

CancelInside(c) ==
  /\ at[c] \in {"requesting", "reading", "backoff"}
  /\ End(c, "cancelled")

\* The consumer is cancelled, or fails, while it deals with a chunk.
Abandon(c) ==
  /\ at[c] = "yielded"
  /\ Goto(c, "abandoned")
  /\ result' = [result EXCEPT ![c] = "cancelled"]
  /\ UNCHANGED <<kind, attempt, emitted, text, semaphore, open, metrics>>

Cancel(c) == CancelWaiting(c) \/ CancelInside(c) \/ Abandon(c)

\* Mutant: the except clause of generate_stream does not name GeneratorExit.
CloseServiceAsSuccess(c) ==
  /\ at[c] = "abandoned"
  /\ Goto(c, "service_closed")
  /\ Count(c, "success")
  /\ UNCHANGED <<kind, attempt, emitted, text, result, semaphore, open>>

\* GeneratorExit in generate_stream.
CloseService(c) ==
  /\ at[c] = "abandoned"
  /\ Goto(c, "service_closed")
  /\ Count(c, "cancelled")
  /\ UNCHANGED <<kind, attempt, emitted, text, result, semaphore, open>>

\* GeneratorExit in stream: it leaves the semaphore's block, _stream is still open.
CloseProvider(c) ==
  /\ at[c] = "service_closed"
  /\ Pass(c, "provider_closed", free + 1, queue)
  /\ UNCHANGED <<kind, attempt, emitted, text, result, open, metrics>>

\* GeneratorExit in _stream: it leaves client.stream.
CloseResponse(c) ==
  /\ at[c] = "provider_closed"
  /\ Goto(c, "done")
  /\ open' = open \ {c}
  /\ UNCHANGED <<kind, attempt, emitted, text, result, semaphore, metrics>>

-----------------------------------------------------------------------------

\* What Ollama, the timers, the consumer and the event loop do for call c.
Progress(c) ==
  \/ Enter(c) \/ Respond(c) \/ Yield(c) \/ Resume(c) \/ Complete(c)
  \/ \E why \in Transient : Fail(c, why)
  \/ Retry(c) \/ Reject(c) \/ Garble(c)
  \/ CloseService(c) \/ CloseProvider(c) \/ CloseResponse(c)

Ended == (\A c \in Calls : at[c] = "done") /\ UNCHANGED vars

Next == (\E c \in Calls : Start(c) \/ Progress(c) \/ Cancel(c)) \/ Ended

Spec == Init /\ [][Next]_vars

\* Every read of the HTTP client has a timeout, the delays are finite, the consumer's
\* send returns or fails, and the event loop runs the finalisers.
FairSpec == Spec /\ \A c \in Calls : WF_vars(Progress(c))

-----------------------------------------------------------------------------
(* Properties *)

TypeOK ==
  /\ kind \in [Calls -> {"none", "generate", "stream"}]
  /\ at \in [Calls -> Points]
  /\ attempt \in [Calls -> 0..MaxRetries]
  /\ emitted \in [Calls -> BOOLEAN]
  /\ text \in [Calls -> Seq(0..MaxRetries)]
  /\ result \in [Calls -> Results \cup {"none"}]
  /\ counted \in [Calls -> {"none", "success", "error", "cancelled"}]
  /\ free \in 0..MaxConcurrency
  /\ queue \in Seq(Calls)
  /\ open \subseteq Calls
  /\ inProgress \in Nat

\* No path through a call loses its slot or gives it back twice, cancelled streams
\* with their late cleanup included; and a slot is never idle while somebody waits.
SlotsConserved ==
  /\ TypeOK
  /\ free + Cardinality({c \in Calls : HoldsSlot(c)}) = MaxConcurrency
  /\ queue # <<>> => free = 0 \/ \E c \in Calls : at[c] = "granted"

\* A consumer never gets text twice: all chunks of a stream are from one attempt,
\* although a failed stream may be tried again.
NoTextTwice == \A c \in Calls : \A i \in DOMAIN text[c] : text[c][i] = attempt[c]

\* The metrics tell what the callers saw: a call that counted itself did so under the
\* status of its result, and the gauge is the number of calls that have not yet.
CountedAsEnded ==
  /\ \A c \in Calls : counted[c] # "none" => counted[c] = StatusOf(result[c])
  /\ inProgress = Cardinality({c \in Calls : at[c] # "idle" /\ counted[c] = "none"})

\* Nobody waits for a slot for ever, and every call ends with its request closed,
\* whoever is cancelled and whatever Ollama does.
EveryCallEnds == \A c \in Calls : at[c] # "idle" ~> at[c] = "done" /\ c \notin open

\* The claim of the load-test results: at most MaxConcurrency requests are at the
\* model at a time.
RequestsBounded == Cardinality(open) <= MaxConcurrency

=============================================================================

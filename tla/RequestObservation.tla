------------------------- MODULE RequestObservation -------------------------
(***************************************************************************)
(* What the backend tells about its own work: the middleware around every  *)
(* request (from the outside in: tracing, request id, request log,         *)
(* metrics; api/app.py adds them in the reverse order), the exception      *)
(* handlers, and the instrumented multi-agent service.  Counters and       *)
(* gauges are shared by all requests; every layer keeps its own notion of  *)
(* how a request went.                                                     *)
(*                                                                         *)
(* The framework is external: a handled exception becomes a response       *)
(* inside the middleware, any other is answered outside of it, with 500,   *)
(* if no response has been started.                                        *)
(***************************************************************************)
EXTENDS Integers, FiniteSets

CONSTANTS
    Requests,       \* HTTP requests
    Sockets,        \* connections to the chat WebSocket
    MaxRuns,        \* bound: executions in the life of the process
    MaxMessages     \* bound: messages counted on the sockets

ASSUME ObservationAssumption ==
    /\ Requests \cap Sockets = {}
    /\ MaxRuns \in Nat /\ MaxMessages \in Nat

VARIABLES
    route,          \* route[r]: what the request asks for
    at,             \* at[c]: how far the request or connection is
    client,         \* client[r]: the status its client was sent
    hasIds,         \* hasIds[r]: that response names the request and its trace
    log,            \* log[r]: the status in its completion log
    span,           \* span[r]: the status its server span ended with
    httpGauge,      \* HTTP_REQUESTS_IN_PROGRESS
    httpTotal,      \* HTTP_REQUESTS_TOTAL, by status
    socketGauge,    \* WEBSOCKET_ACTIVE_CONNECTIONS
    socketTotal,    \* WEBSOCKET_CONNECTIONS_TOTAL
    messages,       \* WEBSOCKET_MESSAGES_TOTAL, by direction
    run,            \* run[c]: where the execution c asked for stands, or how it ended
    runGauge,       \* AGENT_EXECUTIONS_IN_PROGRESS
    runTotal,       \* AGENT_EXECUTIONS_TOTAL, by status
    steps,          \* AGENT_STEPS_TOTAL, by type of event
    results,        \* AGENT_RESULTS_TOTAL, by status
    errors          \* AGENT_ERRORS_TOTAL, by kind

request == <<route, at, client, hasIds, log, span>>
http    == <<httpGauge, httpTotal>>
socket  == <<socketGauge, socketTotal, messages>>
agents  == <<run, runGauge, runTotal, steps, results, errors>>
vars    == <<request, http, socket, agents>>

Callers == Requests \cup Sockets

\* "stream" is the mounted MCP application, which streams its responses.
Routes == {"api", "agents", "stream", "scrape"}

Statuses == {200, 500, 502, 503, 504}

None == 0

\* The exceptions that have a handler, with its answer.
HandlerStatus ==
    [e \in {"LLMTimeoutError", "LLMConnectionError", "LLMModelNotFoundError", "LLMHTTPError",
            "LLMInvalidResponseError", "MultiAgentUnavailableError", "MultiAgentExecutionError"} |->
        CASE e = "LLMTimeoutError" -> 504
          [] e \in {"LLMHTTPError", "LLMInvalidResponseError"} -> 502
          [] e = "MultiAgentExecutionError" -> 500
          [] OTHER -> 503]

\* agent_started is not among the known types of events.
EventTypes ==
    {"execution_started", "routing_completed", "unknown", "agent_result",
     "execution_completed", "execution_failed"}

\* A run publishes the result of its specialist, then that of the synthesizer.
ResultCount == 2

\* "routed", "assigned", "solved" or "unsolved", and "answered": the route, the specialist's
\* start, its result and the synthesizer's have been counted.  "broken" and "stopped": the
\* graph has raised or been cancelled, and the failure is being stored; "failing" and
\* "cancelling": it is being announced.
Active == {"starting", "started", "routed", "assigned", "solved", "unsolved", "answered",
           "storing", "completed", "broken", "stopped", "failing", "cancelling"}

\* Where an execution stands while its graph runs.
InGraph == {"started", "routed", "assigned", "solved", "unsolved", "answered"}

Outcomes == {"success", "error", "cancelled"}

TypeOK ==
    /\ route \in [Requests -> Routes]
    /\ at \in [Callers -> {"new", "connecting", "app", "open", "started", "closed", "done"}]
    /\ {client, log} \subseteq [Requests -> Statuses \cup {None}]
    /\ hasIds \in [Requests -> BOOLEAN]
    /\ span \in [Requests -> {"none", "ok", "error"}]
    /\ httpTotal \in [Statuses -> Nat] /\ {httpGauge, socketGauge, socketTotal, runGauge} \subseteq Nat
    /\ messages \in [{"received", "sent"} -> Nat]
    /\ run \in [Callers -> {"none"} \cup Active \cup Outcomes]
    /\ runTotal \in [Outcomes -> Nat] /\ steps \in [EventTypes -> Nat]
    /\ results \in [{"success", "failed"} -> Nat]
    /\ errors \in [{"agent_result", "execution_failed"} -> Nat]

Init ==
    /\ route \in [Requests -> Routes]
    /\ at = [c \in Callers |-> "new"]
    /\ client = [r \in Requests |-> None]
    /\ hasIds = [r \in Requests |-> FALSE]
    /\ log = [r \in Requests |-> None]
    /\ span = [r \in Requests |-> "none"]
    /\ httpGauge = 0 /\ httpTotal = [s \in Statuses |-> 0]
    /\ socketGauge = 0 /\ socketTotal = 0
    /\ messages = [d \in {"received", "sent"} |-> 0]
    /\ run = [c \in Callers |-> "none"]
    /\ runGauge = 0 /\ runTotal = [o \in Outcomes |-> 0]
    /\ steps = [t \in EventTypes |-> 0]
    /\ results = [s \in {"success", "failed"} |-> 0]
    /\ errors = [k \in {"agent_result", "execution_failed"} |-> 0]

Plus(counter, label) == [counter EXCEPT ![label] = @ + 1]

-----------------------------------------------------------------------------
(* HTTP *)

Moves(c, from, to) == at[c] = from /\ at' = [at EXCEPT ![c] = to]

IsMeasured(r) == route[r] # "scrape"

Enter(r) ==
    /\ Moves(r, "new", "app")
    /\ httpGauge' = IF IsMeasured(r) THEN httpGauge + 1 ELSE httpGauge
    /\ UNCHANGED <<route, client, hasIds, log, span, httpTotal, socket, agents>>

\* http.response.start on its way out: every layer notes the status, two add a header.
StartResponse(r, status) ==
    /\ Moves(r, "app", "started")
    /\ client' = [client EXCEPT ![r] = status]
    /\ hasIds' = [hasIds EXCEPT ![r] = TRUE]
    /\ UNCHANGED <<route, log, span, http, socket, agents>>

Return(r) ==
    /\ route[r] = "agents" => run[r] = "success"
    /\ StartResponse(r, 200)

RaiseHandled(r, e) ==
    /\ CASE e = "MultiAgentUnavailableError" -> route[r] = "agents" /\ run[r] = "none"
         [] e = "MultiAgentExecutionError" -> run[r] = "error"
         [] OTHER -> route[r] = "api"
    /\ StartResponse(r, HandlerStatus[e])

\* What the layers write when the application is through, one way or the other.
Account(r, status) ==
    /\ log' = [log EXCEPT ![r] = status]
    /\ span' = [span EXCEPT ![r] = IF status >= 500 THEN "error" ELSE "ok"]
    /\ IF IsMeasured(r)
       THEN httpTotal' = Plus(httpTotal, status) /\ httpGauge' = httpGauge - 1
       ELSE UNCHANGED http
    /\ UNCHANGED <<route, socket, agents>>

Finish(r) ==
    /\ Moves(r, "started", "done")
    /\ Account(r, client[r])
    /\ UNCHANGED <<client, hasIds>>

\* Mutant: what was not handled is not counted as a request.
RaiseUncounted(r) ==
    /\ route[r] = "agents" => run[r] \in {"none", "error"}
    /\ Moves(r, "app", "done")
    /\ log' = [log EXCEPT ![r] = 500] /\ span' = [span EXCEPT ![r] = "error"]
    /\ httpGauge' = IF IsMeasured(r) THEN httpGauge - 1 ELSE httpGauge
    /\ client' = [client EXCEPT ![r] = 500]
    /\ UNCHANGED <<route, hasIds, httpTotal, socket, agents>>

\* An exception without a handler: the framework answers outside of every layer.
Raise(r) ==
    /\ route[r] = "agents" => run[r] \in {"none", "error"}
    /\ Moves(r, "app", "done")
    /\ Account(r, 500)
    /\ client' = [client EXCEPT ![r] = 500]
    /\ UNCHANGED hasIds

\* An exception after the response was started: the client keeps what it has.
BreakOff(r) ==
    /\ route[r] = "stream"
    /\ Moves(r, "started", "done")
    /\ Account(r, 500)
    /\ UNCHANGED <<client, hasIds>>

-----------------------------------------------------------------------------
(* WebSocket *)

Connect(w) == Moves(w, "new", "connecting") /\ UNCHANGED <<route, client, hasIds, log, span, http, socket, agents>>

Accept(w) ==
    /\ Moves(w, "connecting", "open")
    /\ socketGauge' = socketGauge + 1 /\ socketTotal' = socketTotal + 1
    /\ UNCHANGED <<route, client, hasIds, log, span, http, messages, agents>>

\* Closed before it was accepted.
Deny(w) == Moves(w, "connecting", "done") /\ UNCHANGED <<route, client, hasIds, log, span, http, socket, agents>>

\* A message is counted before it is sent, hence also when sending it fails.
CountMessage(w, direction) ==
    /\ at[w] = "open"
    /\ messages.received + messages.sent < MaxMessages
    /\ messages' = Plus(messages, direction)
    /\ UNCHANGED <<request, http, socketGauge, socketTotal, agents>>

CloseSocket(w) ==
    /\ Moves(w, "open", "closed")
    /\ socketGauge' = socketGauge - 1
    /\ UNCHANGED <<route, client, hasIds, log, span, http, socketTotal, messages, agents>>

\* Mutant: the end of the route counts a disconnection even after a close.
LeaveSocketAgain(w) ==
    /\ run[w] \notin Active
    /\ Moves(w, "open", "done") \/ Moves(w, "closed", "done")
    /\ socketGauge' = socketGauge - 1
    /\ UNCHANGED <<route, client, hasIds, log, span, http, socketTotal, messages, agents>>

\* The route ends, by an exception or not; it has cancelled its execution.
LeaveSocket(w) ==
    /\ run[w] \notin Active
    /\ Moves(w, "open", "done") \/ Moves(w, "closed", "done")
    /\ socketGauge' = IF at[w] = "open" THEN socketGauge - 1 ELSE socketGauge
    /\ UNCHANGED <<route, client, hasIds, log, span, http, socketTotal, messages, agents>>

-----------------------------------------------------------------------------
(* InstrumentedMultiAgentService around MultiAgentService.execute *)

RunMoves(c, from, to) ==
    /\ run[c] \in from
    /\ run' = [run EXCEPT ![c] = to]
    /\ UNCHANGED <<request, http, socket>>

\* The finally clause.
End(c, from, outcome) ==
    /\ RunMoves(c, from, outcome)
    /\ runTotal' = Plus(runTotal, outcome)
    /\ runGauge' = runGauge - 1
    /\ UNCHANGED <<steps, results, errors>>

\* An event is counted, then passed on; nobody is told if passing it on fails.
Record(c, from, to, type) ==
    /\ RunMoves(c, from, to)
    /\ steps' = Plus(steps, type)
    /\ UNCHANGED <<runGauge, runTotal>>

\* No event tells of this step.
Proceed(c, from, to) ==
    /\ RunMoves(c, from, to)
    /\ UNCHANGED <<runGauge, runTotal, steps, results, errors>>

BeginRun(c) ==
    /\ at[c] \in {"app", "open"}
    /\ c \in Requests => route[c] = "agents" /\ run[c] = "none"
    /\ runGauge + runTotal.success + runTotal.error + runTotal.cancelled < MaxRuns
    /\ RunMoves(c, {"none"} \cup Outcomes, "starting")
    /\ runGauge' = runGauge + 1
    /\ UNCHANGED <<runTotal, steps, results, errors>>

\* Its start cannot be stored, or the final write fails: no event tells of it.
FailSilently(c) == End(c, {"starting", "storing"}, "error")

AnnounceStart(c) ==
    /\ Record(c, {"starting"}, "started", "execution_started")
    /\ UNCHANGED <<results, errors>>

AnnounceRoute(c) ==
    /\ Record(c, {"started"}, "routed", "routing_completed")
    /\ UNCHANGED <<results, errors>>

AnnounceAgent(c) ==
    /\ Record(c, {"routed"}, "assigned", "unknown")
    /\ UNCHANGED <<results, errors>>

RecordResult(c, from, to, status) ==
    /\ Record(c, from, to, "agent_result")
    /\ results' = Plus(results, status)
    /\ errors' = IF status = "failed" THEN Plus(errors, "agent_result") ELSE errors

AnnounceResult(c) ==
    \/ RecordResult(c, {"assigned"}, "solved", "success")
    \/ RecordResult(c, {"assigned"}, "unsolved", "failed")

\* Mutant: emitted_agent_results stays what it was, and the next state repeats the result.
AnnounceAnswerAgain(c) ==
    /\ RunMoves(c, {"solved"}, "answered")
    /\ steps' = Plus(Plus(steps, "agent_result"), "agent_result")
    /\ results' = Plus(Plus(results, "success"), "success")
    /\ UNCHANGED <<runGauge, runTotal, errors>>

\* The synthesizer's result: it fails if and only if the specialist's did.
AnnounceAnswer(c) ==
    \/ RecordResult(c, {"solved"}, "answered", "success")
    \/ RecordResult(c, {"unsolved"}, "answered", "failed")

AnswerIsReady(c) == Proceed(c, {"answered"}, "storing")

AnnounceCompletion(c) ==
    /\ Record(c, {"storing"}, "completed", "execution_completed")
    /\ UNCHANGED <<results, errors>>

Succeed(c) == End(c, {"completed"}, "success")

\* The supervisor or the specialist raises; what a failed store raises is swallowed.
GraphRaises(c) == Proceed(c, {"started", "assigned"}, "broken")

\* A socket may cancel its execution at any await.  While the graph runs that is
\* announced as a failure, elsewhere it is not.
CancelGraph(c) == c \in Sockets /\ Proceed(c, InGraph, "stopped")

AnnounceFailure(c) ==
    /\ \/ Record(c, {"broken"}, "failing", "execution_failed")
       \/ Record(c, {"stopped"}, "cancelling", "execution_failed")
    /\ errors' = Plus(errors, "execution_failed")
    /\ UNCHANGED results

Fail(c) == End(c, {"failing"}, "error")

\* Where a cancellation ends the execution without a further event.
OutsideGraph == {"starting", "started", "storing", "completed",
                 "broken", "stopped", "failing", "cancelling"}

\* Mutant: a cancellation is no Exception, and the status stays what it was.
CancelAsSuccess(c) == c \in Sockets /\ End(c, OutsideGraph, "success")

Cancel(c) == c \in Sockets /\ End(c, OutsideGraph, "cancelled")

-----------------------------------------------------------------------------
Next ==
    \/ \E r \in Requests :
        \/ Enter(r) \/ Return(r) \/ Finish(r) \/ Raise(r) \/ BreakOff(r)
        \/ \E e \in DOMAIN HandlerStatus : RaiseHandled(r, e)
    \/ \E w \in Sockets :
        \/ Connect(w) \/ Accept(w) \/ Deny(w) \/ CloseSocket(w) \/ LeaveSocket(w)
        \/ \E d \in {"received", "sent"} : CountMessage(w, d)
    \/ \E c \in Callers :
        \/ BeginRun(c) \/ FailSilently(c) \/ AnnounceStart(c) \/ AnnounceRoute(c)
        \/ AnnounceAgent(c) \/ AnnounceResult(c) \/ AnnounceAnswer(c)
        \/ AnswerIsReady(c) \/ AnnounceCompletion(c) \/ Succeed(c)
        \/ GraphRaises(c) \/ CancelGraph(c) \/ AnnounceFailure(c) \/ Fail(c) \/ Cancel(c)

Spec == Init /\ [][Next]_vars

-----------------------------------------------------------------------------
(* Properties *)

\* The gauges return: each shows how many requests, connections or executions are in
\* progress, however they end (observability/middleware.py:118-178, 238-248,
\* agent_metrics.py:283-305).
GaugesAreExact ==
    /\ TypeOK
    /\ httpGauge = Cardinality({r \in Requests : at[r] \in {"app", "started"} /\ IsMeasured(r)})
    /\ socketGauge = Cardinality({w \in Sockets : at[w] = "open"})
    /\ runGauge = Cardinality({c \in Callers : run[c] \in Active})

\* Log, counter, span and client agree on every request that is over, whichever layer
\* answered it (observability/middleware.py:140-178, request_logging.py:40-77); only of a
\* stream that broke off does the client know better.  A response without the ids that
\* lead to its log is one of the framework's own, and there is no 200 without them.  A
\* request that executed agents was answered 200 exactly if its execution was counted a
\* success.
AccountsAgree ==
    /\ \A s \in Statuses :
         httpTotal[s] = Cardinality({r \in Requests : IsMeasured(r) /\ log[r] = s})
    /\ \A r \in Requests : at[r] = "done" =>
         /\ span[r] = "error" <=> log[r] >= 500
         /\ client[r] = log[r] \/ (route[r] = "stream" /\ log[r] = 500)
         /\ ~hasIds[r] => client[r] = 500 /\ log[r] = 500
         /\ route[r] = "agents" => (client[r] = 200 <=> run[r] = "success")

\* What is counted of the executions adds up (agent_metrics.py:128-305,
\* multi_agent_service.py:238-663): no success without an announced completion, no
\* announced failure that is not an error or a cancellation, never two endings of one
\* start, no route without a start and no specialist without a route; a route brings at
\* most two results, and a completion has brought both; a failed result is an error, and
\* so is an announced failure.  A failure to store the result has no step of its own.
RunAccountsAgree ==
    LET In(state) == Cardinality({c \in Callers : run[c] = state})
    IN  /\ runTotal.success + In("completed") <= steps["execution_completed"]
        /\ steps["execution_completed"] <= runTotal.success + runTotal.cancelled + In("completed")
        /\ steps["execution_failed"] <= runTotal.error + runTotal.cancelled
                                            + In("failing") + In("cancelling")
        /\ steps["execution_failed"] + steps["execution_completed"] <= steps["execution_started"]
        /\ steps["unknown"] <= steps["routing_completed"]
        /\ steps["routing_completed"] <= steps["execution_started"]
        /\ steps["agent_result"] <= ResultCount * steps["unknown"]
        /\ ResultCount * steps["execution_completed"] <= steps["agent_result"]
        /\ results.success + results.failed = steps["agent_result"]
        /\ errors["agent_result"] = results.failed
        /\ errors["execution_failed"] = steps["execution_failed"]

=============================================================================

-------------------------- MODULE WebSocketSession --------------------------
(***************************************************************************)
(* One connection to /api/v1/ws/chat (api/routes/websocket.py): the        *)
(* handler coroutine that reads the client's messages, and the task that   *)
(* answers the current request.  Both send on the same socket, both are    *)
(* suspended at every await, and only the handler can cancel the task.     *)
(*                                                                         *)
(* A chat task streams an LLM answer; an agent task runs                   *)
(* MultiAgentService.execute, of which only the events are visible here.   *)
(***************************************************************************)
EXTENDS Naturals, Sequences, FiniteSets

CONSTANTS
  RequestIds,      \* the request_id values a client uses; it may use one again
  MaxMessages,     \* bound: messages one client sends
  MaxChunks        \* bound: chunks, or events before the last, of one answer

ASSUME SessionConstantsOK ==
  /\ MaxMessages \in Nat
  /\ MaxChunks \in Nat

VARIABLES
  connected,       \* the transport is up: neither side has closed it
  inbox,           \* messages of the client the server has not read yet
  sends,           \* messages the client has sent
  handler,         \* where the handler coroutine is suspended
  armed,           \* the receive it waits in runs under the idle timeout
  timedOut,        \* the idle timeout has closed this connection
  reply,           \* the event the handler is sending
  registered,      \* connection_manager holds this socket
  active,          \* active_task: the number of a task, or NoTask
  activeRequest,   \* active_request_id
  requestOf,       \* requestOf[t]: the request task t answers
  kindOf,          \* kindOf[t]: "chat" or "agent"
  stage,           \* stage[t]: where task t is suspended
  cancelling,      \* cancelling[t]: task.cancel() was called, not yet thrown
  chunks,          \* chunks[t]: chunks or agent events task t has sent
  sent             \* what the client got about its tasks, in the order of the wire

client     == <<connected, inbox, sends>>
coroutine  == <<handler, armed, timedOut, reply, registered, active, activeRequest>>
tasks      == <<requestOf, kindOf, stage, cancelling, chunks>>
vars       == <<client, coroutine, tasks, sent>>

-----------------------------------------------------------------------------
(* Data *)

Tasks     == 1..MaxMessages
NoTask    == 0
NoRequest == "no_request"
NoReply   == [type |-> "none", request |-> NoRequest]

\* "invalid" stands for every message a schema refuses, "malformed" for a frame
\* that is not JSON.
Messages ==
  [type : {"ping", "invalid", "malformed"}, request : {NoRequest}]
  \cup [type : {"cancel", "chat", "agent_execute"}, request : RequestIds]

Codes == {"pong", "invalid_request", "stream_not_found", "stream_in_progress",
          "agent_unavailable", "cancelled"}

EventTypes == {"started", "chunk", "completed", "agent_event", "agent_completed",
               "agent_failed", "error", "cancelled"}

\* After one of these the client expects nothing more about its request, except
\* that a request which ended while it was being cancelled is reported cancelled.
Closing == {"completed", "agent_completed", "error", "cancelled"}

Stages == {"none", "created", "starting", "working", "sending", "completing",
           "failing", "erring", "unwinding", "done"}

Live(t) == stage[t] \notin {"none", "done"}

\* active_task is not None and not active_task.done()
StreamActive == active # NoTask /\ Live(active)

NextTask == Cardinality({t \in Tasks : stage[t] # "none"}) + 1

Init ==
  /\ connected = TRUE
  /\ inbox = <<>>
  /\ sends = 0
  /\ handler = "accept"
  /\ armed = FALSE
  /\ timedOut = FALSE
  /\ reply = NoReply
  /\ registered = FALSE
  /\ active = NoTask
  /\ activeRequest = NoRequest
  /\ requestOf = [t \in Tasks |-> NoRequest]
  /\ kindOf = [t \in Tasks |-> "none"]
  /\ stage = [t \in Tasks |-> "none"]
  /\ cancelling = [t \in Tasks |-> FALSE]
  /\ chunks = [t \in Tasks |-> 0]
  /\ sent = <<>>

Enter(t, s) == stage' = [stage EXCEPT ![t] = s]

Tell(t, type) == sent' = Append(sent, [task |-> t, type |-> type])

-----------------------------------------------------------------------------
(* The client *)

ClientSends ==
  /\ connected
  /\ sends < MaxMessages
  /\ \E m \in Messages : inbox' = Append(inbox, m)
  /\ sends' = sends + 1
  /\ UNCHANGED <<connected, coroutine, tasks, sent>>

ClientLeaves ==
  /\ connected
  /\ connected' = FALSE
  /\ UNCHANGED <<inbox, sends, coroutine, tasks, sent>>

-----------------------------------------------------------------------------
(* The handler *)

\* The top of the loop: drop a task that is done, then receive, under the idle
\* timeout only when no stream is active.  There is no await before receive_json.
BackToReceive ==
  /\ handler' = "receive"
  /\ armed' = ~StreamActive
  /\ IF StreamActive
     THEN UNCHANGED <<active, activeRequest>>
     ELSE active' = NoTask /\ activeRequest' = NoRequest

\* WebSocketDisconnect, or any other exception, reaches the finally clause.
Leave ==
  /\ reply' = NoReply
  /\ armed' = FALSE
  /\ UNCHANGED <<active, activeRequest>>
  /\ IF StreamActive
     THEN /\ handler' = "cleanup"
          /\ cancelling' = [cancelling EXCEPT ![active] = TRUE]
          /\ UNCHANGED <<registered, connected>>
     ELSE /\ handler' = "closed"
          /\ registered' = FALSE
          /\ connected' = FALSE
          /\ UNCHANGED cancelling

\* accept() stands before the try: when it fails nothing was registered.
Accept ==
  /\ handler = "accept"
  /\ IF connected
     THEN BackToReceive /\ registered' = TRUE
     ELSE handler' = "closed" /\ UNCHANGED <<armed, active, activeRequest, registered>>
  /\ UNCHANGED <<client, timedOut, reply, tasks, sent>>

Receive(type) ==
  /\ handler = "receive"
  /\ inbox # <<>>
  /\ Head(inbox).type = type
  /\ inbox' = Tail(inbox)
  /\ UNCHANGED <<sends, timedOut, sent>>

Answer(code) ==
  /\ handler' = "reply"
  /\ armed' = FALSE
  /\ reply' = [type |-> code, request |-> Head(inbox).request]
  /\ UNCHANGED <<connected, registered, active, activeRequest, tasks>>

ReceivePing == Receive("ping") /\ Answer("pong")

ReceiveInvalid == Receive("invalid") /\ Answer("invalid_request")

\* receive_json raises a ValueError no clause catches.
ReceiveMalformed ==
  /\ Receive("malformed")
  /\ Leave
  /\ UNCHANGED <<requestOf, kindOf, stage, chunks>>

CancelHits == StreamActive /\ activeRequest = Head(inbox).request

ReceiveStrayCancel ==
  /\ Receive("cancel")
  /\ ~CancelHits
  /\ Answer("stream_not_found")

ReceiveCancel ==
  /\ Receive("cancel")
  /\ CancelHits
  /\ cancelling' = [cancelling EXCEPT ![active] = TRUE]
  /\ handler' = "cancel"
  /\ armed' = FALSE
  /\ UNCHANGED <<connected, registered, active, activeRequest, reply,
                 requestOf, kindOf, stage, chunks>>

\* Mutant: the task is cancelled but not awaited.
CancelWithoutWaiting ==
  /\ handler = "cancel"
  /\ handler' = "reply"
  /\ reply' = [type |-> "cancelled", request |-> activeRequest]
  /\ active' = NoTask
  /\ activeRequest' = NoRequest
  /\ UNCHANGED <<client, armed, timedOut, registered, tasks, sent>>

\* The awaited task is over: the handler forgets it and reports the cancellation.
CancelDone ==
  /\ handler = "cancel"
  /\ ~Live(active)
  /\ handler' = "reply"
  /\ reply' = [type |-> "cancelled", request |-> activeRequest]
  /\ active' = NoTask
  /\ activeRequest' = NoRequest
  /\ UNCHANGED <<client, armed, timedOut, registered, tasks, sent>>

ReceiveWhileBusy ==
  /\ Receive("chat") \/ Receive("agent_execute")
  /\ StreamActive
  /\ Answer("stream_in_progress")

\* app.state holds a multi-agent service or it does not: the route asks every time.
ReceiveAgentUnavailable ==
  /\ Receive("agent_execute")
  /\ ~StreamActive
  /\ Answer("agent_unavailable")

\* Mutant: the check for another active stream is missing.
StartTaskAnyway(type) ==
  /\ Receive(type)
  /\ active' = NextTask
  /\ activeRequest' = Head(inbox).request
  /\ requestOf' = [requestOf EXCEPT ![NextTask] = Head(inbox).request]
  /\ kindOf' = [kindOf EXCEPT ![NextTask] = IF type = "chat" THEN "chat" ELSE "agent"]
  /\ Enter(NextTask, "created")
  /\ handler' = "receive"
  /\ armed' = FALSE
  /\ UNCHANGED <<connected, reply, registered, cancelling, chunks>>

\* create_task, and back to the loop: the task has not run yet, the stream is active.
StartTask(type) ==
  /\ Receive(type)
  /\ ~StreamActive
  /\ active' = NextTask
  /\ activeRequest' = Head(inbox).request
  /\ requestOf' = [requestOf EXCEPT ![NextTask] = Head(inbox).request]
  /\ kindOf' = [kindOf EXCEPT ![NextTask] = IF type = "chat" THEN "chat" ELSE "agent"]
  /\ Enter(NextTask, "created")
  /\ handler' = "receive"
  /\ armed' = FALSE
  /\ UNCHANGED <<connected, reply, registered, cancelling, chunks>>

StartChat == StartTask("chat")

StartAgent == StartTask("agent_execute")

\* The task the cancelled event is about is the last one that was started.
SendReply ==
  /\ handler = "reply"
  /\ BackToReceive
  /\ reply' = NoReply
  /\ IF reply.type = "cancelled" /\ connected
     THEN Tell(NextTask - 1, "cancelled")
     ELSE UNCHANGED sent
  /\ UNCHANGED <<client, timedOut, registered, tasks>>

\* Once the transport is down a send may raise, and a receive does so when the
\* messages before the disconnect are read, or at once after a send has failed.
HandlerFails ==
  /\ handler \in {"receive", "reply"}
  /\ ~connected
  /\ Leave
  /\ UNCHANGED <<inbox, sends, timedOut, requestOf, kindOf, stage, chunks, sent>>

\* The timer may win over a message that has just arrived: that one is never read.
IdleTimeout ==
  /\ handler = "receive"
  /\ armed
  /\ connected
  /\ timedOut' = TRUE
  /\ Leave
  /\ UNCHANGED <<inbox, sends, requestOf, kindOf, stage, chunks, sent>>

\* Mutant: the finally clause cancels the task but does not await it.
CleanupWithoutWaiting ==
  /\ handler = "cleanup"
  /\ handler' = "closed"
  /\ registered' = FALSE
  /\ connected' = FALSE
  /\ UNCHANGED <<inbox, sends, armed, timedOut, reply, active, activeRequest, tasks, sent>>

CleanupDone ==
  /\ handler = "cleanup"
  /\ ~Live(active)
  /\ handler' = "closed"
  /\ registered' = FALSE
  /\ connected' = FALSE
  /\ UNCHANGED <<inbox, sends, armed, timedOut, reply, active, activeRequest, tasks, sent>>

-----------------------------------------------------------------------------
(* The tasks.  A pending cancellation is thrown when the task next runs, so no  *)
(* other step of it comes first.                                                *)

Runs(t, s) ==
  /\ stage[t] = s
  /\ ~cancelling[t]
  /\ UNCHANGED <<client, coroutine, requestOf, kindOf, cancelling>>

Begin(t) ==
  /\ Runs(t, "created")
  /\ Enter(t, IF kindOf[t] = "chat" THEN "starting" ELSE "working")
  /\ UNCHANGED <<chunks, sent>>

\* A send of the task: it goes out while the transport is up.  When it is down, it
\* vanishes or raises; an agent task swallows the exception, a chat task ends.
SendStep(t, from, type, next) ==
  /\ Runs(t, from)
  /\ IF connected
     THEN Tell(t, type) /\ Enter(t, next)
     ELSE /\ UNCHANGED sent
          /\ \/ Enter(t, next)
             \/ kindOf[t] = "chat" /\ Enter(t, "done")

SendStarted(t) == SendStep(t, "starting", "started", "working") /\ UNCHANGED chunks

\* The LLM yields a chunk, or the execution has an event to publish.
Produce(t) ==
  /\ Runs(t, "working")
  /\ chunks[t] < MaxChunks
  /\ chunks' = [chunks EXCEPT ![t] = @ + 1]
  /\ Enter(t, "sending")
  /\ UNCHANGED sent

SendProgress(t) ==
  /\ SendStep(t, "sending", IF kindOf[t] = "chat" THEN "chunk" ELSE "agent_event", "working")
  /\ UNCHANGED chunks

Succeed(t) ==
  /\ Runs(t, "working")
  /\ Enter(t, "completing")
  /\ UNCHANGED <<chunks, sent>>

SendCompleted(t) ==
  /\ SendStep(t, "completing",
              IF kindOf[t] = "chat" THEN "completed" ELSE "agent_completed", "done")
  /\ UNCHANGED chunks

\* Mutant: the exception ends the task without an error event.
FailSilently(t) ==
  /\ Runs(t, "working")
  /\ Enter(t, "done")
  /\ UNCHANGED <<chunks, sent>>

\* An execution publishes its failure and raises; it only raises when MongoDB
\* refused the start or the result.
Fail(t) ==
  /\ Runs(t, "working")
  /\ \/ Enter(t, "erring")
     \/ kindOf[t] = "agent" /\ Enter(t, "failing")
  /\ UNCHANGED <<chunks, sent>>

SendFailed(t) == SendStep(t, "failing", "agent_failed", "erring") /\ UNCHANGED chunks

\* This send is inside the except clause: whatever it raises ends the task.
SendError(t) ==
  /\ Runs(t, "erring")
  /\ IF connected THEN Tell(t, "error") ELSE UNCHANGED sent
  /\ Enter(t, "done")
  /\ UNCHANGED chunks

SentAt(t) ==
  CASE stage[t] = "starting" -> "started"
    [] stage[t] = "sending" -> IF kindOf[t] = "chat" THEN "chunk" ELSE "agent_event"
    [] stage[t] = "completing" -> IF kindOf[t] = "chat" THEN "completed" ELSE "agent_completed"
    [] stage[t] = "failing" -> "agent_failed"
    [] OTHER -> "error"

\* CancelledError is thrown at the await, or before the first line of a task that
\* never ran.  An event that was being sent may be on its way to the client.  A
\* stream is closed and an execution records its failure before the task ends.
Interrupt(t) ==
  /\ Live(t)
  /\ cancelling[t]
  /\ cancelling' = [cancelling EXCEPT ![t] = FALSE]
  /\ \/ connected /\ stage[t] \notin {"created", "working"} /\ Tell(t, SentAt(t))
     \/ UNCHANGED sent
  /\ Enter(t, IF stage[t] \in {"working", "sending"} THEN "unwinding" ELSE "done")
  /\ UNCHANGED <<client, coroutine, requestOf, kindOf, chunks>>

\* Mutant: an interrupted task does not end before its last event is out.
UnwindWhenSent(t) ==
  /\ Runs(t, "unwinding")
  /\ connected
  /\ \/ kindOf[t] = "agent" /\ Tell(t, "agent_failed")
     \/ UNCHANGED sent
  /\ Enter(t, "done")
  /\ UNCHANGED chunks

Unwind(t) ==
  /\ Runs(t, "unwinding")
  /\ \/ kindOf[t] = "agent" /\ connected /\ Tell(t, "agent_failed")
     \/ UNCHANGED sent
  /\ Enter(t, "done")
  /\ UNCHANGED chunks

-----------------------------------------------------------------------------

ServerReads ==
  \/ ReceivePing \/ ReceiveInvalid \/ ReceiveMalformed \/ ReceiveStrayCancel
  \/ ReceiveCancel \/ ReceiveWhileBusy \/ ReceiveAgentUnavailable
  \/ StartChat \/ StartAgent

HandlerStep ==
  \/ Accept \/ ServerReads \/ SendReply \/ HandlerFails
  \/ CancelDone \/ CleanupDone

TaskStep(t) ==
  \/ Begin(t) \/ SendStarted(t) \/ Produce(t) \/ SendProgress(t) \/ Succeed(t)
  \/ SendCompleted(t) \/ Fail(t) \/ SendFailed(t) \/ SendError(t)
  \/ Interrupt(t) \/ Unwind(t)

Ended == handler = "closed" /\ UNCHANGED vars

Next ==
  \/ ClientSends \/ ClientLeaves \/ HandlerStep \/ IdleTimeout
  \/ \E t \in Tasks : TaskStep(t)
  \/ Ended

Spec == Init /\ [][Next]_vars

\* The event loop resumes whatever can run, the timer of an armed receive fires, and
\* every call a task awaits answers or times out.  Clients promise nothing.
FairSpec ==
  /\ Spec
  /\ WF_vars(HandlerStep)
  /\ WF_vars(IdleTimeout)
  /\ \A t \in Tasks : WF_vars(TaskStep(t))

-----------------------------------------------------------------------------
(* Properties *)

TypeOK ==
  /\ connected \in BOOLEAN
  /\ inbox \in Seq(Messages)
  /\ sends \in 0..MaxMessages
  /\ handler \in {"accept", "receive", "reply", "cancel", "cleanup", "closed"}
  /\ armed \in BOOLEAN
  /\ timedOut \in BOOLEAN
  /\ reply \in [type : Codes \cup {"none"}, request : RequestIds \cup {NoRequest}]
  /\ registered \in BOOLEAN
  /\ active \in Tasks \cup {NoTask}
  /\ activeRequest \in RequestIds \cup {NoRequest}
  /\ requestOf \in [Tasks -> RequestIds \cup {NoRequest}]
  /\ kindOf \in [Tasks -> {"none", "chat", "agent"}]
  /\ stage \in [Tasks -> Stages]
  /\ cancelling \in [Tasks -> BOOLEAN]
  /\ chunks \in [Tasks -> 0..MaxChunks]
  /\ sent \in Seq([task : Tasks, type : EventTypes])

\* No task is orphaned: one that still runs is the one the handler holds, under the
\* request id it was started for, so a cancel message and the finally clause reach
\* it.  In particular two tasks never stream over one socket at a time.
NoOrphanTask ==
  /\ TypeOK
  /\ \A t \in Tasks : Live(t) => active = t /\ activeRequest = requestOf[t]

\* When the handler has returned, nothing of the connection is left behind: no task
\* runs and the connection manager has forgotten the socket.  After an idle timeout
\* there was never anything to stop: it does not close a connection on which an answer
\* is on its way, although the choice to arm it was made before the wait
\* (_receive_client_message).
ClosedLeavesNothing ==
  /\ handler = "closed" => ~registered /\ \A t \in Tasks : ~Live(t)
  /\ timedOut => handler = "closed"

\* "cancelled" is the last word on a request, and after any other closing event the
\* client hears at most that: _cancel_stream_task waits for the task's own events,
\* which an interrupted execution still sends, before the handler replies.
NothingAfterClosing ==
  \A j \in DOMAIN sent : \A i \in 1..(j - 1) :
    sent[i].task = sent[j].task /\ sent[i].type \in Closing =>
      sent[i].type # "cancelled" /\ sent[j].type = "cancelled"

HasClosing(t) == \E i \in DOMAIN sent : sent[i].task = t /\ sent[i].type \in Closing

\* The client is never left waiting: while its connection is up, a task that is over
\* has sent a closing event, or the handler is about to report it cancelled.
NoSilentEnd ==
  \A t \in Tasks :
    stage[t] = "done" /\ connected /\ handler # "cleanup" =>
      \/ HasClosing(t)
      \/ handler = "cancel" /\ active = t
      \/ handler = "reply" /\ reply.type = "cancelled" /\ t = NextTask - 1

\* Neither the handler, which waits for the tasks it cancels and for its sends, nor a
\* task, cancelled or not, waits for ever.  Between two tasks there is a state in which
\* none runs.  A client that has left keeps nothing alive: the handler notices, stops
\* the task and unregisters the socket, whatever either was waiting for.
NobodyHangs ==
  /\ ~connected ~> handler = "closed"
  /\ handler \in {"accept", "reply", "cancel", "cleanup"} ~> handler \in {"receive", "closed"}
  /\ (\E t \in Tasks : Live(t)) ~> (\A t \in Tasks : ~Live(t))

Idle == handler = "receive" /\ ~StreamActive /\ inbox = <<>>

\* The claim of the heartbeat tests: a connection on which nothing happens is closed
\* after the timeout.
IdleConnectionsClose == Idle ~> ~Idle

=============================================================================

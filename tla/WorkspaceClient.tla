--------------------------- MODULE WorkspaceClient ---------------------------
(***************************************************************************)
(* The browser's end of a chat: WebSocketService (core/services) and       *)
(* WorkspaceStateService (features/workspace/services), against the server *)
(* end of one connection, reduced from api/routes/websocket.py to the      *)
(* messages it reads and the events it sends.                              *)
(*                                                                         *)
(* JavaScript runs each handler to its end, so a handler is one action,    *)
(* with the subscribers it calls.  A request is the value of               *)
(* requestCounter it was created with.                                     *)
(***************************************************************************)
EXTENDS Naturals, Sequences

CONSTANTS
  MaxRequests,     \* queries the user submits
  MaxAttempts,     \* WEBSOCKET_MAX_RECONNECT_ATTEMPTS
  MaxProgress,     \* events of one answer before the closing one
  MaxInFlight      \* no cancellation while so many messages and events are unread

ASSUME ClientConstants ==
  /\ MaxRequests \in Nat \ {0}
  /\ MaxAttempts \in Nat
  /\ MaxProgress \in Nat
  /\ MaxInFlight \in Nat \ {0}

RequestsOfUser == 1..MaxRequests
None == 0

VARIABLES
  socket,          \* "none", or the readyState of the WebSocket the service holds
  reconnectTimer,  \* a reconnection is scheduled
  reconnectAttempts,
  connectionState, \* what the page knows of the socket
  requestCounter,
  mode,            \* mode[r]: "agent" or "direct"
  pendingRequest,  \* waits for a connection
  activeRequest,   \* activeRequestId; isRunning says whether there is one
  shown,           \* shown[r]: what the page tells the user of r
  parts,           \* parts[r]: events of the answer the page has taken in
  serving,         \* the request the server's task works on
  failing,         \* that task has published execution_failed, its error is to come
  produced,        \* produced[r]: events of the answer the server has sent
  ended,           \* ended[r]: how the server ended r
  toServer,        \* messages of this connection, in order
  toClient

net == <<toServer, toClient>>
link == <<socket, reconnectTimer, reconnectAttempts, connectionState>>
server == <<serving, failing, produced, ended>>
page == <<requestCounter, mode, pendingRequest, activeRequest, shown, parts>>
vars == <<link, page, server, net>>

Final == {"completed", "failed", "cancelled", "interrupted"}
Msg(type, r) == [type |-> type, request |-> r]
Messages == [type : {"request", "cancel"}, request : RequestsOfUser]
EventNames == {"progress", "completed", "execution_failed", "error", "cancelled"}
Events == [type : EventNames, request : RequestsOfUser]

Init ==
  /\ socket = "none"
  /\ reconnectTimer = FALSE
  /\ reconnectAttempts = 0
  /\ connectionState = "disconnected"
  /\ requestCounter = 0
  /\ mode = [r \in RequestsOfUser |-> "agent"]
  /\ pendingRequest = None
  /\ activeRequest = None
  /\ shown = [r \in RequestsOfUser |-> "nothing"]
  /\ parts = [r \in RequestsOfUser |-> 0]
  /\ serving = None
  /\ failing = FALSE
  /\ produced = [r \in RequestsOfUser |-> 0]
  /\ ended = [r \in RequestsOfUser |-> "not"]
  /\ toServer = <<>>
  /\ toClient = <<>>

-----------------------------------------------------------------------------
(* The page *)

\* The message list and the execution panel show the outcome, the request is free.
Show(r, outcome) ==
  /\ shown' = [shown EXCEPT ![r] = outcome]
  /\ activeRequest' = None
  /\ pendingRequest' = None

Waiting == pendingRequest # None

\* A socket that is closing makes send throw, although connectionState is still
\* "connected".
CanSend == socket = "open"

Create(r, m) ==
  /\ activeRequest = None
  /\ requestCounter < MaxRequests
  /\ r = requestCounter + 1
  /\ requestCounter' = r
  /\ mode' = [mode EXCEPT ![r] = m]
  /\ UNCHANGED <<parts, server, toClient>>

SubmitConnected(r, m) ==
  /\ connectionState = "connected"
  /\ Create(r, m)
  /\ \/ /\ CanSend
        /\ toServer' = Append(toServer, Msg("request", r))
        /\ activeRequest' = r
        /\ shown' = [shown EXCEPT ![r] = "running"]
        /\ UNCHANGED pendingRequest
     \/ /\ ~CanSend
        /\ Show(r, "failed")
        /\ UNCHANGED toServer
  /\ UNCHANGED link

\* connect drops the timer and opens a socket unless one is being opened.  It does
\* not reset the number of attempts.
SubmitAndConnect(r, m) ==
  /\ connectionState # "connected"
  /\ Create(r, m)
  /\ pendingRequest' = r
  /\ activeRequest' = r
  /\ shown' = [shown EXCEPT ![r] = "running"]
  /\ socket' = "connecting"
  /\ connectionState' = "connecting"
  /\ reconnectTimer' = FALSE
  /\ UNCHANGED <<reconnectAttempts, toServer>>

CancelPending ==
  /\ activeRequest # None
  /\ Waiting
  /\ Show(activeRequest, "cancelled")
  /\ UNCHANGED <<requestCounter, mode, parts, link, server, net>>

\* Mutant: the page does not wait for the server to confirm.
CancelSentAndForget ==
  /\ activeRequest # None
  /\ ~Waiting
  /\ connectionState = "connected"
  /\ CanSend
  /\ Len(toServer) + Len(toClient) < MaxInFlight
  /\ toServer' = Append(toServer, Msg("cancel", activeRequest))
  /\ Show(activeRequest, "cancelled")
  /\ UNCHANGED <<requestCounter, mode, parts, link, server, toClient>>

\* Nothing changes until the server answers; on a closing socket the call throws.
CancelSent ==
  /\ activeRequest # None
  /\ ~Waiting
  /\ connectionState = "connected"
  /\ CanSend
  /\ Len(toServer) + Len(toClient) < MaxInFlight
  /\ toServer' = Append(toServer, Msg("cancel", activeRequest))
  /\ UNCHANGED <<page, link, server, toClient>>

\* The catch around the cancellation ignores a closing socket.
ResetConversation ==
  /\ toServer' = IF activeRequest # None /\ ~Waiting /\ connectionState = "connected" /\ CanSend
                 THEN Append(toServer, Msg("cancel", activeRequest)) ELSE toServer
  /\ shown' = [r \in RequestsOfUser |-> IF r <= requestCounter THEN "dismissed" ELSE shown[r]]
  /\ activeRequest' = None
  /\ pendingRequest' = None
  /\ UNCHANGED <<requestCounter, mode, parts, link, server, toClient>>

-----------------------------------------------------------------------------
(* The socket *)

\* Mutant: the request stays pending after it has been sent.
SocketOpensKeepingPending ==
  /\ socket = "connecting"
  /\ socket' = "open"
  /\ reconnectAttempts' = 0
  /\ connectionState' = "connected"
  /\ toServer' = IF Waiting THEN <<Msg("request", pendingRequest)>> ELSE <<>>
  /\ UNCHANGED <<reconnectTimer, page, server, toClient>>

\* onopen, and the pending request goes out.
SocketOpens ==
  /\ socket = "connecting"
  /\ socket' = "open"
  /\ reconnectAttempts' = 0
  /\ connectionState' = "connected"
  /\ toServer' = IF Waiting THEN <<Msg("request", pendingRequest)>> ELSE <<>>
  /\ pendingRequest' = None
  /\ UNCHANGED <<reconnectTimer, requestCounter, mode, activeRequest, shown, parts,
                 server, toClient>>

\* The transport breaks or the server closes, for instance an idle connection.  What
\* is on the way is lost, and a later connection meets a new session.
ConnectionLost ==
  /\ socket = "open"
  /\ socket' = "closing"
  /\ toServer' = <<>>
  /\ toClient' = <<>>
  /\ serving' = None
  /\ failing' = FALSE
  /\ UNCHANGED <<reconnectTimer, reconnectAttempts, connectionState, produced, ended, page>>

\* connectionState passes through "disconnected"; the next attempt is announced at once.
ScheduleReconnect ==
  IF reconnectTimer \/ reconnectAttempts >= MaxAttempts
  THEN /\ connectionState' = "disconnected"
       /\ UNCHANGED <<reconnectTimer, reconnectAttempts>>
  ELSE /\ connectionState' = "connecting"
       /\ reconnectTimer' = TRUE
       /\ reconnectAttempts' = reconnectAttempts + 1

\* Mutant: a request in progress is left to the next connection.
SocketClosesKeepingRequest ==
  /\ socket \in {"connecting", "closing"}
  /\ socket' = "none"
  /\ ScheduleReconnect
  /\ UNCHANGED <<page, server, net>>

\* onclose.  The page fails the request it had sent, and keeps one that still waits.
SocketCloses ==
  /\ socket \in {"connecting", "closing"}
  /\ socket' = "none"
  /\ ScheduleReconnect
  /\ IF connectionState = "connected" /\ activeRequest # None /\ ~Waiting
     THEN Show(activeRequest, "interrupted")
     ELSE UNCHANGED <<shown, activeRequest, pendingRequest>>
  /\ UNCHANGED <<requestCounter, mode, parts, server, net>>

ReconnectTimerFires ==
  /\ reconnectTimer
  /\ reconnectTimer' = FALSE
  /\ socket' = "connecting"
  /\ connectionState' = "connecting"
  /\ UNCHANGED <<reconnectAttempts, page, server, net>>

-----------------------------------------------------------------------------
(* Events of the server *)

Outcome(type) ==
  CASE type = "completed" -> "completed"
    [] type = "cancelled" -> "cancelled"
    [] OTHER -> "failed"

NextEvent ==
  /\ socket = "open"
  /\ toClient # <<>>
  /\ toClient' = Tail(toClient)
  /\ UNCHANGED <<requestCounter, mode, link, server, toServer>>

\* Mutant: the request an event belongs to is not compared with the active one.
IgnoreEventNever ==
  /\ NextEvent
  /\ Head(toClient).request # activeRequest
  /\ shown' = IF Head(toClient).type = "progress" THEN shown
              ELSE [shown EXCEPT ![Head(toClient).request] = Outcome(Head(toClient).type)]
  /\ UNCHANGED <<pendingRequest, activeRequest, parts>>

\* handleServerEvent returns early.
IgnoreEvent ==
  /\ NextEvent
  /\ Head(toClient).request # activeRequest
  /\ UNCHANGED <<pendingRequest, activeRequest, shown, parts>>

TakeProgress ==
  /\ NextEvent
  /\ Head(toClient) = Msg("progress", activeRequest)
  /\ parts' = [parts EXCEPT ![activeRequest] = @ + 1]
  /\ UNCHANGED <<pendingRequest, activeRequest, shown>>

\* Mutant: an error event is displayed but does not release the request.
TakeClosingEventExceptErrors ==
  /\ NextEvent
  /\ Head(toClient).request = activeRequest
  /\ Head(toClient).type # "progress"
  /\ IF Head(toClient).type = "error"
     THEN UNCHANGED <<pendingRequest, activeRequest, shown>>
     ELSE Show(activeRequest, Outcome(Head(toClient).type))
  /\ UNCHANGED parts

TakeClosingEvent ==
  /\ NextEvent
  /\ Head(toClient).request = activeRequest
  /\ Head(toClient).type # "progress"
  /\ Show(activeRequest, Outcome(Head(toClient).type))
  /\ UNCHANGED parts

-----------------------------------------------------------------------------
(* The server end of the connection *)

Send(type, r) == toClient' = Append(toClient, Msg(type, r))

Reads(type) ==
  /\ socket = "open"
  /\ toServer # <<>>
  /\ Head(toServer).type = type
  /\ toServer' = Tail(toServer)
  /\ UNCHANGED <<page, link>>

StartTask(r) ==
  /\ Reads("request")
  /\ r = Head(toServer).request
  /\ serving = None
  /\ serving' = r
  /\ UNCHANGED <<failing, produced, ended, toClient>>

\* stream_in_progress
RefuseSecond(r) ==
  /\ Reads("request")
  /\ r = Head(toServer).request
  /\ serving # None
  /\ Send("error", r)
  /\ ended' = [ended EXCEPT ![r] = "refused"]
  /\ UNCHANGED <<serving, failing, produced>>

\* The multi-agent service is unavailable, or the request is invalid.
RefuseRequest(r) ==
  /\ Reads("request")
  /\ r = Head(toServer).request
  /\ serving = None
  /\ Send("error", r)
  /\ ended' = [ended EXCEPT ![r] = "failed"]
  /\ UNCHANGED <<serving, failing, produced>>

\* stream_not_found
RefuseCancel(r) ==
  /\ Reads("cancel")
  /\ r = Head(toServer).request
  /\ serving # r
  /\ Send("error", r)
  /\ UNCHANGED server

\* What a task that is being cancelled may still send before the handler replies: the
\* event it was sending, and an execution inside the graph publishes its failure.
Parting(r) ==
  IF failing THEN {<<>>, <<Msg("error", r)>>}
  ELSE {<<>>, <<Msg("completed", r)>>, <<Msg("error", r)>>}
       \cup (IF mode[r] = "agent" THEN {<<Msg("execution_failed", r)>>} ELSE {})

CancelTask(r) ==
  /\ Reads("cancel")
  /\ r = Head(toServer).request
  /\ serving = r
  /\ \E last \in Parting(r) :
       /\ toClient' = toClient \o last \o <<Msg("cancelled", r)>>
       /\ ended' = [ended EXCEPT ![r] =
            IF failing \/ last = <<Msg("error", r)>> THEN "failed"
            ELSE IF last = <<Msg("completed", r)>> THEN "completed" ELSE "cancelled"]
  /\ serving' = None
  /\ failing' = FALSE
  /\ UNCHANGED produced

Works == serving # None /\ ~failing /\ UNCHANGED <<page, link, toServer>>

Produce ==
  /\ Works
  /\ produced[serving] < MaxProgress
  /\ produced' = [produced EXCEPT ![serving] = @ + 1]
  /\ Send("progress", serving)
  /\ UNCHANGED <<serving, failing, ended>>

Ends(outcome) ==
  /\ ended' = [ended EXCEPT ![serving] = outcome]
  /\ UNCHANGED produced

Complete ==
  /\ Works
  /\ Ends("completed")
  /\ Send("completed", serving)
  /\ serving' = None
  /\ UNCHANGED failing

\* An exception outside execute's failure path, or a chat stream that fails.
Fail ==
  /\ Works
  /\ Ends("failed")
  /\ Send("error", serving)
  /\ serving' = None
  /\ UNCHANGED failing

\* execute publishes its failure, and the route reports the exception in its turn.
FailExecution ==
  /\ Works
  /\ mode[serving] = "agent"
  /\ Ends("failed")
  /\ Send("execution_failed", serving)
  /\ failing' = TRUE
  /\ UNCHANGED serving

ReportError ==
  /\ failing
  /\ Send("error", serving)
  /\ failing' = FALSE
  /\ serving' = None
  /\ UNCHANGED <<page, link, produced, ended, toServer>>

-----------------------------------------------------------------------------

User ==
  \/ \E r \in RequestsOfUser, m \in {"agent", "direct"} :
       SubmitConnected(r, m) \/ SubmitAndConnect(r, m)
  \/ CancelPending \/ CancelSent \/ ResetConversation

Network == SocketOpens \/ ConnectionLost

Browser == SocketCloses \/ ReconnectTimerFires \/ IgnoreEvent \/ TakeProgress \/ TakeClosingEvent

Server ==
  \/ \E r \in RequestsOfUser :
       \/ StartTask(r) \/ RefuseSecond(r) \/ RefuseRequest(r)
       \/ RefuseCancel(r) \/ CancelTask(r)
  \/ Produce \/ Complete \/ Fail \/ FailExecution \/ ReportError

Next == User \/ Network \/ Browser \/ Server

Spec == Init /\ [][Next]_vars

\* The browser calls its handlers and the server answers what it has read, each as
\* WebSocketSession shows; whether a connection can be made is up to the network.
FairSpec == Spec /\ WF_vars(Browser) /\ WF_vars(Server)

-----------------------------------------------------------------------------
(* Properties *)

TypeOK ==
  /\ socket \in {"none", "connecting", "open", "closing"}
  /\ reconnectTimer \in BOOLEAN
  /\ reconnectAttempts \in 0..MaxAttempts
  /\ connectionState \in {"disconnected", "connecting", "connected"}
  /\ requestCounter \in 0..MaxRequests
  /\ mode \in [RequestsOfUser -> {"agent", "direct"}]
  /\ {pendingRequest, activeRequest, serving} \subseteq 0..requestCounter
  /\ shown \in [RequestsOfUser -> Final \cup {"nothing", "running", "dismissed"}]
  /\ parts \in [RequestsOfUser -> 0..MaxProgress]
  /\ failing \in BOOLEAN
  /\ produced \in [RequestsOfUser -> 0..MaxProgress]
  /\ ended \in [RequestsOfUser -> {"not", "refused", "completed", "failed", "cancelled"}]
  /\ toServer \in Seq(Messages)
  /\ toClient \in Seq(Events)

\* connectionState, from which the page decides whether to send or to connect, tells
\* the truth about socket and timer, which several handlers change: never two sockets,
\* nor a timer that opens a second one.
StateTellsSocket ==
  /\ connectionState = "connected" <=> socket \in {"open", "closing"}
  /\ connectionState = "connecting" <=> (socket = "connecting" \/ reconnectTimer)
  /\ reconnectTimer => socket = "none"

\* The page is never stuck on a request nobody works on: a request it has sent has a
\* connection that will answer or break, and one that waits has an attempt to connect
\* ahead of it, until the attempts are used up.
RunningIsWorkedOn ==
  /\ StateTellsSocket
  /\ activeRequest # None =>
       IF Waiting THEN connectionState = "connecting" \/ reconnectAttempts = MaxAttempts
       ELSE connectionState = "connected"

\* A query is put to the server once, whatever reconnections it takes: while it waits
\* no server has heard of it.
AskedOnce ==
  /\ TypeOK
  /\ Waiting =>
       /\ pendingRequest # serving
       /\ \A i \in DOMAIN toServer : toServer[i].request # pendingRequest
       /\ ended[pendingRequest] = "not" /\ produced[pendingRequest] = 0

\* What the page reports of a request is what the server did with it, although late
\* events of earlier requests still arrive and the user may cancel at any time.  The
\* server refuses requests because it is busy only in the instant between the two
\* events of a failed execution, which came right before them: on every other path the
\* page lets the user ask again only when the task is gone or its cancellation is under
\* way.
ShownMatchesServer ==
  \A r \in RequestsOfUser :
    /\ shown[r] = "completed" => ended[r] = "completed" /\ parts[r] = produced[r]
    /\ shown[r] = "cancelled" => ended[r] \in {"not", "cancelled"} /\ serving # r
    /\ shown[r] = "failed" => ended[r] # "completed"
    /\ ended[r] = "refused" =>
         \E q \in 1..(r - 1) : ended[q] = "failed" /\ \A p \in (q + 1)..r : ended[p] = "refused"

\* A reported outcome stays, until the conversation is reset; a late event, a second
\* cancellation or a lost connection does not change it.
OutcomeStays ==
  [][\A r \in RequestsOfUser :
       shown[r] \in Final => shown'[r] \in {shown[r], "dismissed"}]_vars

\* A request that was sent comes to an end on the page, by an event of the server or
\* the loss of the connection.
EverySentRequestEnds ==
  \A r \in RequestsOfUser :
    (activeRequest = r /\ ~Waiting) ~> activeRequest # r

\* The claim of the workspace tests: a request the server has cancelled at the user's
\* wish is shown as cancelled, not as failed.
CancelledIsShownCancelled ==
  \A r \in RequestsOfUser : ended[r] = "cancelled" => shown[r] # "failed"

=============================================================================

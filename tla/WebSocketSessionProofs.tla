----------------------- MODULE WebSocketSessionProofs -----------------------
(***************************************************************************)
(* What holds of WebSocketSession for any number of messages, requests and *)
(* chunks.  IInv adds to the properties which task the handler holds when, *)
(* who may be cancelling, and what the client has already heard about the  *)
(* task a "cancelled" reply is about.                                      *)
(***************************************************************************)
EXTENDS WebSocketSession, FiniteSetTheorems, SequenceTheorems, TLAPS

Started == {t \in Tasks : stage[t] # "none"}

\* The task that was started last.
Last == NextTask - 1

Stopping == handler \in {"cancel", "cleanup"}

ReportsCancelled == handler = "reply" /\ reply.type = "cancelled"

\* Tasks are numbered as they are started, and each was started by a message.
NumberInv ==
  /\ Started = 1 .. Last
  /\ Last + Len(inbox) <= sends

\* The handler holds the last task, if any, and no other one runs.
TaskInv ==
  /\ active # NoTask => active = Last
  /\ \A t \in Tasks : Live(t) => active = t /\ activeRequest = requestOf[t]
  /\ \A t \in Tasks : cancelling[t] => Live(t) /\ Stopping
  /\ \A t \in Tasks : stage[t] = "unwinding" => Stopping

HandlerInv ==
  /\ handler = "accept" => ~ registered /\ active = NoTask
  /\ Stopping => active # NoTask
  /\ ReportsCancelled => active = NoTask /\ Last \in Tasks
  /\ handler = "closed" => ~ registered /\ ~ StreamActive
  /\ armed => handler = "receive" /\ ~ StreamActive
  /\ timedOut => handler = "closed"

\* Nothing closing was said of a task that runs, and it was not called cancelled before
\* the handler says so.
SentInv ==
  \A i \in DOMAIN sent :
    /\ sent[i].task \in Started
    /\ sent[i].type \in Closing => ~ Live(sent[i].task)
    /\ sent[i].type = "cancelled" =>
         /\ ~ (handler = "cancel" /\ active = sent[i].task)
         /\ ~ (ReportsCancelled /\ Last = sent[i].task)

IInv ==
  /\ TypeOK /\ NumberInv /\ TaskInv /\ HandlerInv /\ SentInv
  /\ NothingAfterClosing /\ NoSilentEnd

-----------------------------------------------------------------------------
(* Numbers of tasks *)

\* As tasks are numbered in the order they start, the last one is as many as have started.
LEMMA LastIsATaskOrNone ==
  ASSUME TypeOK
  PROVE  /\ Last \in 0 .. MaxMessages /\ NextTask = Last + 1
         /\ IsFiniteSet(Started) /\ Last = Cardinality(Started)
<1>1. MaxMessages \in Nat
  BY SessionConstantsOK
<1>2. IsFiniteSet(1 .. MaxMessages) /\ Cardinality(1 .. MaxMessages) = MaxMessages
  BY <1>1, FS_Interval
<1>3. Started \subseteq 1 .. MaxMessages
  BY DEF Started, Tasks
<1>4. IsFiniteSet(Started) /\ Cardinality(Started) <= MaxMessages /\ Cardinality(Started) \in Nat
  <2> HIDE DEF Started
  <2>1. IsFiniteSet(Started) /\ Cardinality(Started) <= Cardinality(1 .. MaxMessages)
    BY <1>2, <1>3, FS_Subset
  <2> QED
    BY <2>1, <1>2, FS_CardinalityType
<1>5. NextTask = Cardinality(Started) + 1
  BY DEF NextTask, Started
<1> QED
  BY <1>1, <1>4, <1>5 DEF Last

\* Only tasks start and end tasks.
LEMMA StagesKept ==
  ASSUME UNCHANGED stage
  PROVE  /\ Started' = Started /\ Last' = Last /\ NextTask' = NextTask
         /\ \A t : Live(t)' <=> Live(t)
BY DEF Started, Last, NextTask, Live

\* A stream is active when some task runs.
LEMMA ActiveIsLive ==
  ASSUME TypeOK, TaskInv
  PROVE  /\ StreamActive => active \in Tasks /\ Live(active) /\ active = Last
         /\ StreamActive <=> \E t \in Tasks : Live(t)
<1>1. active \in Tasks \cup {NoTask} /\ NoTask \notin Tasks
  BY SessionConstantsOK DEF TypeOK, Tasks, NoTask
<1> QED
  BY <1>1 DEF TaskInv, StreamActive

-----------------------------------------------------------------------------
(* The client *)

\* What the client does changes only the inbox and the connection.
LEMMA ClientStep ==
  ASSUME IInv, ClientSends \/ ClientLeaves
  PROVE  IInv'
<1>1. /\ UNCHANGED <<coroutine, tasks, sent>>
      /\ connected' => connected
  BY DEF ClientSends, ClientLeaves, IInv, TypeOK
<1>2. /\ UNCHANGED <<handler, armed, timedOut, reply, registered, active, activeRequest>>
      /\ UNCHANGED <<requestOf, kindOf, stage, cancelling, chunks, sent>>
  BY <1>1 DEF coroutine, tasks
<1>3. /\ inbox' \in Seq(Messages) /\ sends' \in 0 .. MaxMessages
      /\ Len(inbox') - sends' = Len(inbox) - sends
      /\ connected' \in BOOLEAN
  <2>1. CASE ClientSends
    <3>1. PICK m \in Messages : inbox' = Append(inbox, m)
      BY <2>1 DEF ClientSends
    <3>2. inbox \in Seq(Messages) /\ sends \in 0 .. MaxMessages /\ MaxMessages \in Nat
      BY SessionConstantsOK DEF IInv, TypeOK
    <3>3. sends' = sends + 1 /\ sends < MaxMessages /\ connected' = connected
      BY <2>1 DEF ClientSends
    <3>4. inbox' \in Seq(Messages) /\ Len(inbox') = Len(inbox) + 1 /\ Len(inbox) \in Nat
      BY <3>1, <3>2
    <3> QED
      BY <3>2, <3>3, <3>4 DEF IInv, TypeOK
  <2>2. CASE ClientLeaves
    BY <2>2 DEF ClientLeaves, IInv, TypeOK
  <2> QED
    BY <2>1, <2>2
<1>4. TypeOK'
  BY <1>2, <1>3 DEF IInv, TypeOK
<1>5. /\ Started' = Started /\ Last' = Last /\ NextTask' = NextTask
      /\ \A t : Live(t)' <=> Live(t)
  BY <1>2, StagesKept
<1>6. NumberInv'
  <2>1. /\ Len(inbox) \in Nat /\ Len(inbox') \in Nat /\ sends \in Nat /\ sends' \in Nat
        /\ Last \in Nat
    BY <1>3, LastIsATaskOrNone, SessionConstantsOK DEF IInv, TypeOK
  <2> QED
    BY <2>1, <1>3, <1>5 DEF IInv, NumberInv
<1>7. TaskInv' /\ HandlerInv' /\ SentInv'
  BY <1>2, <1>5
  DEF IInv, TaskInv, HandlerInv, SentInv, Stopping, ReportsCancelled, StreamActive
<1>8. NothingAfterClosing' /\ NoSilentEnd'
  BY <1>1, <1>2, <1>5 DEF IInv, NothingAfterClosing, NoSilentEnd, HasClosing
<1> QED
  BY <1>4, <1>6, <1>7, <1>8 DEF IInv

-----------------------------------------------------------------------------
(* The handler *)

\* What every handler step but the start of a task leaves alone.
LeavesTasks ==
  /\ UNCHANGED <<requestOf, kindOf, stage, chunks, sends>>
  /\ connected' => connected
  /\ \/ inbox' = inbox
     \/ inbox # <<>> /\ inbox' = Tail(inbox)

\* What the handler reads is a message, and one less is left.
LEMMA InboxEffect ==
  ASSUME TypeOK
  PROVE  /\ inbox # <<>> => /\ Head(inbox) \in Messages
                            /\ Head(inbox).request \in RequestIds \cup {NoRequest}
                            /\ Tail(inbox) \in Seq(Messages)
                            /\ Len(Tail(inbox)) = Len(inbox) - 1
         /\ Len(inbox) \in Nat
<1>1. inbox \in Seq(Messages)
  BY DEF TypeOK
<1>2. \A m \in Messages : m.request \in RequestIds \cup {NoRequest}
  BY DEF Messages
<1> QED
  BY <1>1, <1>2

\* A step that starts no task keeps the numbers of the tasks.
LEMMA NumbersKept ==
  ASSUME TypeOK, NumberInv, LeavesTasks
  PROVE  /\ Started' = Started /\ Last' = Last /\ NextTask' = NextTask
         /\ \A t : Live(t)' <=> Live(t)
         /\ NumberInv' /\ inbox' \in Seq(Messages)
         /\ Last \in 0 .. MaxMessages
<1>1. /\ Started' = Started /\ Last' = Last /\ NextTask' = NextTask
      /\ \A t : Live(t)' <=> Live(t)
  BY StagesKept DEF LeavesTasks
<1>2. inbox' \in Seq(Messages) /\ Len(inbox') <= Len(inbox) /\ Len(inbox') \in Nat
  <2>1. inbox \in Seq(Messages)
    BY DEF TypeOK
  <2> QED
    BY <2>1, InboxEffect DEF LeavesTasks
<1>3. /\ Len(inbox) \in Nat /\ sends \in Nat /\ Last \in 0 .. MaxMessages
      /\ sends' = sends /\ Last + Len(inbox) <= sends /\ MaxMessages \in Nat
  BY InboxEffect, LastIsATaskOrNone, SessionConstantsOK DEF TypeOK, LeavesTasks, NumberInv
<1>4. Last' + Len(inbox') <= sends'
  BY <1>1, <1>2, <1>3
<1>5. Started' = 1 .. Last'
  BY <1>1 DEF NumberInv
<1> QED
  BY <1>1, <1>2, <1>3, <1>4, <1>5 DEF NumberInv

\* A reply other than "cancelled" tells the client nothing about a task.
LEMMA AnswerStep ==
  ASSUME IInv, NEW code \in Codes \ {"cancelled"},
         handler = "receive", inbox # <<>>, inbox' = Tail(inbox),
         UNCHANGED <<sends, timedOut, sent>>, Answer(code)
  PROVE  IInv'
<1>1. /\ handler' = "reply" /\ armed' = FALSE
      /\ reply' = [type |-> code, request |-> Head(inbox).request]
      /\ UNCHANGED <<connected, registered, active, activeRequest>>
      /\ UNCHANGED <<requestOf, kindOf, stage, cancelling, chunks>>
  BY DEF Answer, tasks
<1>2. LeavesTasks
  BY <1>1 DEF LeavesTasks
<1>3. /\ Started' = Started /\ Last' = Last /\ NextTask' = NextTask
      /\ \A t : Live(t)' <=> Live(t)
      /\ NumberInv' /\ inbox' \in Seq(Messages)
  BY <1>2, NumbersKept DEF IInv
<1>4. TypeOK'
  <2>1. reply' \in [type : Codes \cup {"none"}, request : RequestIds \cup {NoRequest}]
    BY <1>1, InboxEffect DEF IInv
  <2> QED
    BY <2>1, <1>1, <1>3 DEF IInv, TypeOK
<1>5. reply'.type # "cancelled" /\ timedOut = FALSE
  BY <1>1 DEF IInv, TypeOK, HandlerInv
<1>6. TaskInv' /\ HandlerInv'
  BY <1>1, <1>3, <1>5 DEF IInv, TaskInv, HandlerInv, Stopping, ReportsCancelled, StreamActive
<1>7. SentInv'
  BY <1>1, <1>3, <1>5 DEF IInv, SentInv, ReportsCancelled
<1>8. NothingAfterClosing'
  BY DEF IInv, NothingAfterClosing
<1>9. NoSilentEnd'
  BY <1>1, <1>3 DEF IInv, NoSilentEnd, HasClosing
<1> QED
  BY <1>3, <1>4, <1>6, <1>7, <1>8, <1>9 DEF IInv

\* The handler gives up: either no task runs, or the last one is cancelled and awaited.
LEMMA LeaveStep ==
  ASSUME IInv, handler \in {"receive", "reply"}, ~ Stopping,
         inbox' = inbox \/ (inbox # <<>> /\ inbox' = Tail(inbox)),
         UNCHANGED <<sends, requestOf, kindOf, stage, chunks, sent>>,
         timedOut' = timedOut \/ (timedOut' = TRUE /\ armed),
         handler = "reply" => ~ connected,
         Leave
  PROVE  IInv'
<1>1. /\ reply' = NoReply /\ armed' = FALSE
      /\ UNCHANGED <<active, activeRequest>>
  BY DEF Leave
<1>2. connected' => connected
  BY DEF Leave
<1>3. LeavesTasks
  BY <1>2 DEF LeavesTasks
<1>4. /\ Started' = Started /\ Last' = Last /\ NextTask' = NextTask
      /\ \A t : Live(t)' <=> Live(t)
      /\ NumberInv' /\ inbox' \in Seq(Messages)
  BY <1>3, NumbersKept DEF IInv
<1>5. reply' \in [type : Codes \cup {"none"}, request : RequestIds \cup {NoRequest}]
      /\ reply'.type # "cancelled"
  BY <1>1 DEF NoReply
<1>6. timedOut = FALSE /\ (StreamActive => timedOut' = FALSE) /\ timedOut' \in BOOLEAN
  BY DEF IInv, HandlerInv, TypeOK
<1>7. NothingAfterClosing'
  BY DEF IInv, NothingAfterClosing
<1>8. CASE StreamActive
  <2>1. /\ handler' = "cleanup"
        /\ cancelling' = [cancelling EXCEPT ![active] = TRUE]
        /\ UNCHANGED <<registered, connected>>
    BY <1>8 DEF Leave
  <2>2. active \in Tasks /\ Live(active) /\ active = Last
    BY <1>8, ActiveIsLive DEF IInv
  <2>3. /\ cancelling' \in [Tasks -> BOOLEAN]
        /\ \A t \in Tasks : cancelling'[t] => cancelling[t] \/ t = active
    BY <2>1 DEF IInv, TypeOK
  <2>4. TypeOK'
    BY <2>1, <2>3, <1>1, <1>4, <1>5, <1>6 DEF IInv, TypeOK
  <2>5. Stopping' /\ ~ ReportsCancelled' /\ NoTask \notin Tasks
    BY <2>1 DEF Stopping, ReportsCancelled, Tasks, NoTask
  <2>6. TaskInv'
    BY <2>2, <2>3, <2>5, <1>1, <1>4 DEF IInv, TaskInv
  <2>7. HandlerInv'
    BY <2>1, <2>2, <2>5, <1>1, <1>6, <1>8 DEF HandlerInv
  <2>8. SentInv'
    BY <2>1, <2>5, <1>4 DEF IInv, SentInv
  <2>9. NoSilentEnd'
    BY <2>1 DEF NoSilentEnd
  <2> QED
    BY <2>4, <2>6, <2>7, <2>8, <2>9, <1>4, <1>7 DEF IInv
<1>9. CASE ~ StreamActive
  <2>1. /\ handler' = "closed" /\ registered' = FALSE /\ connected' = FALSE
        /\ cancelling' = cancelling
    BY <1>9 DEF Leave
  <2>2. TypeOK'
    BY <2>1, <1>1, <1>4, <1>5, <1>6 DEF IInv, TypeOK
  <2>3. ~ Stopping' /\ ~ ReportsCancelled' /\ ~ StreamActive'
    BY <2>1, <1>1, <1>4, <1>9 DEF Stopping, ReportsCancelled, StreamActive
  <2>4. TaskInv'
    BY <2>1, <2>3, <1>1, <1>4 DEF IInv, TaskInv
  <2>5. HandlerInv'
    BY <2>1, <2>3, <1>1, <1>6 DEF HandlerInv
  <2>6. SentInv'
    BY <2>1, <2>3, <1>4 DEF IInv, SentInv
  <2>7. NoSilentEnd'
    BY <2>1 DEF NoSilentEnd
  <2> QED
    BY <2>2, <2>4, <2>5, <2>6, <2>7, <1>4, <1>7 DEF IInv
<1> QED
  BY <1>8, <1>9

\* A cancel request is passed to the running task (websocket.py:319).
LEMMA ReceiveCancelStep ==
  ASSUME IInv, ReceiveCancel
  PROVE  IInv'
<1>1. /\ handler = "receive" /\ handler' = "cancel" /\ armed' = FALSE /\ StreamActive
      /\ cancelling' = [cancelling EXCEPT ![active] = TRUE]
      /\ inbox # <<>> /\ inbox' = Tail(inbox)
      /\ UNCHANGED <<sends, timedOut, sent, connected, registered, active, activeRequest>>
      /\ UNCHANGED <<reply, requestOf, kindOf, stage, chunks>>
  BY DEF ReceiveCancel, Receive, CancelHits
<1>2. LeavesTasks
  BY <1>1 DEF LeavesTasks
<1>3. /\ Started' = Started /\ Last' = Last /\ NextTask' = NextTask
      /\ \A t : Live(t)' <=> Live(t)
      /\ NumberInv' /\ inbox' \in Seq(Messages)
  BY <1>2, NumbersKept DEF IInv
<1>4. active \in Tasks /\ Live(active) /\ active = Last
  BY <1>1, ActiveIsLive DEF IInv
<1>5. /\ cancelling' \in [Tasks -> BOOLEAN]
      /\ \A t \in Tasks : cancelling'[t] => cancelling[t] \/ t = active
  BY <1>1 DEF IInv, TypeOK
<1>6. TypeOK'
  BY <1>1, <1>3, <1>5 DEF IInv, TypeOK
<1>7. Stopping' /\ ~ ReportsCancelled' /\ NoTask \notin Tasks /\ timedOut = FALSE
  BY <1>1 DEF Stopping, ReportsCancelled, Tasks, NoTask, IInv, HandlerInv, TypeOK
<1>8. TaskInv'
  BY <1>1, <1>3, <1>4, <1>5, <1>7 DEF IInv, TaskInv
<1>9. HandlerInv'
  BY <1>1, <1>4, <1>7 DEF HandlerInv
<1>10. SentInv'
  BY <1>1, <1>3, <1>4, <1>7 DEF IInv, SentInv, Closing
<1>11. NothingAfterClosing'
  BY <1>1 DEF IInv, NothingAfterClosing
<1>12. NoSilentEnd'
  BY <1>1, <1>3 DEF IInv, NoSilentEnd, HasClosing
<1> QED
  BY <1>3, <1>6, <1>8, <1>9, <1>10, <1>11, <1>12 DEF IInv

\* The cancelled task is over and the handler turns to reporting it.
LEMMA CancelDoneStep ==
  ASSUME IInv, CancelDone
  PROVE  IInv'
<1>1. /\ handler = "cancel" /\ handler' = "reply" /\ ~ Live(active)
      /\ reply' = [type |-> "cancelled", request |-> activeRequest]
      /\ active' = NoTask /\ activeRequest' = NoRequest
      /\ UNCHANGED <<connected, inbox, sends, armed, timedOut, registered, sent>>
      /\ UNCHANGED <<requestOf, kindOf, stage, cancelling, chunks>>
  BY DEF CancelDone, client, tasks
<1>2. LeavesTasks
  BY <1>1 DEF LeavesTasks
<1>3. /\ Started' = Started /\ Last' = Last /\ NextTask' = NextTask
      /\ \A t : Live(t)' <=> Live(t)
      /\ NumberInv' /\ inbox' \in Seq(Messages)
  BY <1>2, NumbersKept DEF IInv
<1>4. TypeOK'
  <2>1. reply' \in [type : Codes \cup {"none"}, request : RequestIds \cup {NoRequest}]
    BY <1>1 DEF IInv, TypeOK, Codes
  <2> QED
    BY <2>1, <1>1, <1>3 DEF IInv, TypeOK
<1>5. /\ \A t \in Tasks : ~ Live(t) /\ ~ cancelling[t]
      /\ active \in Tasks /\ active = Last
  BY <1>1 DEF IInv, TypeOK, TaskInv, HandlerInv, Stopping
<1>6. \A t \in Tasks : stage[t] # "unwinding"
  BY <1>5 DEF Live
<1>7. TaskInv'
  BY <1>1, <1>3, <1>5, <1>6 DEF TaskInv
<1>8. ReportsCancelled' /\ ~ Stopping' /\ ~ StreamActive'
  BY <1>1 DEF ReportsCancelled, Stopping, StreamActive
<1>9. HandlerInv'
  BY <1>1, <1>3, <1>5, <1>8 DEF IInv, HandlerInv
<1>10. SentInv'
  BY <1>1, <1>3, <1>5 DEF IInv, SentInv
<1>11. NothingAfterClosing'
  BY <1>1 DEF IInv, NothingAfterClosing
<1>12. NoSilentEnd'
  BY <1>1, <1>3, <1>5 DEF IInv, NoSilentEnd, HasClosing, Last
<1> QED
  BY <1>3, <1>4, <1>7, <1>9, <1>10, <1>11, <1>12 DEF IInv

\* The handler returns after its task has ended (websocket.py:456).
LEMMA CleanupDoneStep ==
  ASSUME IInv, CleanupDone
  PROVE  IInv'
<1>1. /\ handler = "cleanup" /\ handler' = "closed" /\ ~ Live(active)
      /\ registered' = FALSE /\ connected' = FALSE
      /\ UNCHANGED <<inbox, sends, armed, timedOut, reply, active, activeRequest, sent>>
      /\ UNCHANGED <<requestOf, kindOf, stage, cancelling, chunks>>
  BY DEF CleanupDone, tasks
<1>2. LeavesTasks
  BY <1>1 DEF LeavesTasks
<1>3. /\ Started' = Started /\ Last' = Last /\ NextTask' = NextTask
      /\ \A t : Live(t)' <=> Live(t)
      /\ NumberInv' /\ inbox' \in Seq(Messages)
  BY <1>2, NumbersKept DEF IInv
<1>4. TypeOK'
  BY <1>1, <1>3 DEF IInv, TypeOK
<1>5. \A t \in Tasks : ~ Live(t) /\ ~ cancelling[t] /\ stage[t] # "unwinding"
  <2>1. \A t \in Tasks : ~ Live(t) /\ ~ cancelling[t]
    BY <1>1 DEF IInv, TaskInv
  <2> QED
    BY <2>1 DEF Live
<1>6. TaskInv'
  BY <1>1, <1>3, <1>5 DEF IInv, TaskInv
<1>7. ~ ReportsCancelled' /\ ~ Stopping' /\ ~ StreamActive' /\ armed = FALSE
  BY <1>1, <1>3 DEF ReportsCancelled, Stopping, StreamActive, IInv, HandlerInv, TypeOK
<1>8. HandlerInv'
  BY <1>1, <1>7 DEF HandlerInv
<1>9. SentInv'
  BY <1>1, <1>3, <1>7 DEF IInv, SentInv
<1>10. NothingAfterClosing' /\ NoSilentEnd'
  BY <1>1 DEF IInv, NothingAfterClosing, NoSilentEnd
<1> QED
  BY <1>3, <1>4, <1>6, <1>8, <1>9, <1>10 DEF IInv

\* The top of the loop, as far as it is the same for an accepted connection and a reply.
LEMMA BackToReceiveEffect ==
  ASSUME IInv, LeavesTasks, BackToReceive, ~ Stopping, UNCHANGED <<cancelling, timedOut>>,
         handler # "closed"
  PROVE  /\ handler' = "receive" /\ armed' \in BOOLEAN
         /\ active' \in Tasks \cup {NoTask} /\ activeRequest' \in RequestIds \cup {NoRequest}
         /\ TaskInv' /\ HandlerInv'
<1>1. /\ Started' = Started /\ Last' = Last
      /\ \A t : Live(t)' <=> Live(t)
      /\ UNCHANGED <<requestOf, stage>>
  BY NumbersKept DEF IInv, LeavesTasks
<1>2. handler' = "receive" /\ armed' = ~ StreamActive
  BY DEF BackToReceive
<1>3. ~ Stopping' /\ ~ ReportsCancelled' /\ timedOut' = FALSE
  BY <1>2 DEF Stopping, ReportsCancelled, IInv, HandlerInv, TypeOK
<1>4. CASE StreamActive
  <2>1. active' = active /\ activeRequest' = activeRequest /\ armed' = FALSE
    BY <1>2, <1>4 DEF BackToReceive
  <2>2. TaskInv'
    BY <2>1, <1>1, <1>3 DEF IInv, TaskInv
  <2>3. HandlerInv'
    BY <2>1, <1>2, <1>3 DEF HandlerInv
  <2> QED
    BY <2>1, <2>2, <2>3, <1>2 DEF IInv, TypeOK
<1>5. CASE ~ StreamActive
  <2>1. active' = NoTask /\ activeRequest' = NoRequest /\ armed' = TRUE
    BY <1>2, <1>5 DEF BackToReceive
  <2>2. \A t \in Tasks : ~ Live(t) /\ ~ cancelling[t] /\ stage[t] # "unwinding"
    <3>1. \A t \in Tasks : ~ Live(t)
      BY <1>5, ActiveIsLive DEF IInv
    <3>2. \A t \in Tasks : ~ cancelling[t]
      BY <3>1 DEF IInv, TaskInv
    <3> QED
      BY <3>1, <3>2 DEF Live
  <2>3. TaskInv'
    BY <2>1, <2>2, <1>1 DEF TaskInv
  <2>4. HandlerInv'
    BY <2>1, <1>2, <1>3 DEF HandlerInv, StreamActive
  <2> QED
    BY <2>1, <2>3, <2>4, <1>2
<1> QED
  BY <1>4, <1>5

\* The connection is accepted and registered, or the client was gone before.
LEMMA AcceptStep ==
  ASSUME IInv, Accept
  PROVE  IInv'
<1>1. /\ handler = "accept"
      /\ UNCHANGED <<connected, inbox, sends, timedOut, reply, sent>>
      /\ UNCHANGED <<requestOf, kindOf, stage, cancelling, chunks>>
  BY DEF Accept, client, tasks
<1>2. LeavesTasks
  BY <1>1 DEF LeavesTasks
<1>3. /\ Started' = Started /\ Last' = Last /\ NextTask' = NextTask
      /\ \A t : Live(t)' <=> Live(t)
      /\ NumberInv' /\ inbox' \in Seq(Messages)
  BY <1>2, NumbersKept DEF IInv
<1>4. /\ handler' \in {"receive", "closed"}
      /\ armed' \in BOOLEAN /\ registered' \in BOOLEAN
      /\ active' \in Tasks \cup {NoTask} /\ activeRequest' \in RequestIds \cup {NoRequest}
      /\ TaskInv' /\ HandlerInv'
  <2>1. CASE connected
    <3>1. BackToReceive /\ registered' = TRUE
      BY <2>1 DEF Accept
    <3>2. ~ Stopping
      BY <1>1 DEF Stopping
    <3> QED
      BY <3>1, <3>2, <1>1, <1>2, BackToReceiveEffect
  <2>2. CASE ~ connected
    <3>1. handler' = "closed" /\ UNCHANGED <<armed, active, activeRequest, registered>>
      BY <2>2 DEF Accept
    <3>2. ~ registered /\ active = NoTask /\ ~ armed
      BY <1>1 DEF IInv, HandlerInv
    <3>3. ~ Stopping /\ ~ Stopping' /\ ~ ReportsCancelled' /\ ~ StreamActive'
      BY <1>1, <3>1, <3>2 DEF Stopping, ReportsCancelled, StreamActive
    <3>4. TaskInv'
      BY <3>1, <3>3, <1>1, <1>3 DEF IInv, TaskInv
    <3>5. HandlerInv'
      BY <3>1, <3>2, <3>3 DEF HandlerInv
    <3> QED
      BY <3>1, <3>4, <3>5 DEF IInv, TypeOK
  <2> QED
    BY <2>1, <2>2
<1>5. TypeOK'
  BY <1>1, <1>3, <1>4 DEF IInv, TypeOK
<1>6. handler' # "cancel" /\ ~ ReportsCancelled'
  BY <1>4 DEF ReportsCancelled
<1>7. SentInv'
  BY <1>1, <1>3, <1>6 DEF IInv, SentInv
<1>8. NothingAfterClosing'
  BY <1>1 DEF IInv, NothingAfterClosing
<1>9. NoSilentEnd'
  BY <1>1, <1>3, <1>4 DEF IInv, NoSilentEnd, HasClosing
<1> QED
  BY <1>3, <1>4, <1>5, <1>7, <1>8, <1>9 DEF IInv

\* The handler's own events, of which only "cancelled" is about a task.
LEMMA SendReplyStep ==
  ASSUME IInv, SendReply
  PROVE  IInv'
<1>1. /\ handler = "reply" /\ BackToReceive /\ reply' = NoReply
      /\ UNCHANGED <<connected, inbox, sends, timedOut, registered>>
      /\ UNCHANGED <<requestOf, kindOf, stage, cancelling, chunks>>
      /\ IF reply.type = "cancelled" /\ connected
         THEN sent' = Append(sent, [task |-> Last, type |-> "cancelled"])
         ELSE sent' = sent
  BY DEF SendReply, client, tasks, Tell, Last
<1>2. LeavesTasks /\ ~ Stopping
  BY <1>1 DEF LeavesTasks, Stopping
<1>3. /\ Started' = Started /\ Last' = Last /\ NextTask' = NextTask
      /\ \A t : Live(t)' <=> Live(t)
      /\ NumberInv' /\ inbox' \in Seq(Messages)
  BY <1>2, NumbersKept DEF IInv
<1>4. /\ handler' = "receive" /\ armed' \in BOOLEAN
      /\ active' \in Tasks \cup {NoTask} /\ activeRequest' \in RequestIds \cup {NoRequest}
      /\ TaskInv' /\ HandlerInv'
  BY <1>1, <1>2, BackToReceiveEffect
<1>5. ~ Stopping' /\ ~ ReportsCancelled' /\ handler' # "cancel"
      /\ reply' \in [type : Codes \cup {"none"}, request : RequestIds \cup {NoRequest}]
  BY <1>1, <1>4 DEF Stopping, ReportsCancelled, NoReply
<1>6. CASE sent' = sent /\ ~ (reply.type = "cancelled" /\ connected)
  <2>1. TypeOK'
    BY <1>1, <1>3, <1>4, <1>5, <1>6 DEF IInv, TypeOK
  <2>2. SentInv' /\ NothingAfterClosing'
    BY <1>3, <1>5, <1>6 DEF IInv, SentInv, NothingAfterClosing
  <2>3. NoSilentEnd'
    BY <1>1, <1>3, <1>6 DEF IInv, NoSilentEnd, HasClosing
  <2> QED
    BY <2>1, <2>2, <2>3, <1>3, <1>4 DEF IInv
<1>7. CASE reply.type = "cancelled" /\ connected
  <2> DEFINE e == [task |-> Last, type |-> "cancelled"]
             n == Len(sent) + 1
  <2>1. Last \in Tasks /\ active = NoTask /\ ReportsCancelled
    BY <1>1, <1>7 DEF IInv, HandlerInv, ReportsCancelled
  <2>2. e \in [task : Tasks, type : EventTypes] /\ e.task = Last /\ e.type = "cancelled"
    BY <2>1 DEF EventTypes
  <2>3. sent \in Seq([task : Tasks, type : EventTypes]) /\ sent' = Append(sent, e)
    BY <1>1, <1>7 DEF IInv, TypeOK
  <2> HIDE DEF e
  <2>4. /\ sent' \in Seq([task : Tasks, type : EventTypes])
        /\ DOMAIN sent' = 1 .. n /\ DOMAIN sent = 1 .. n - 1 /\ n \in Nat \ {0}
        /\ sent'[n] = e /\ \A i \in 1 .. n - 1 : sent'[i] = sent[i]
    BY <2>2, <2>3
  <2> HIDE DEF n
  <2>5. TypeOK'
    BY <2>4, <1>1, <1>3, <1>4, <1>5 DEF IInv, TypeOK
  <2>6. Last \in Started /\ ~ Live(Last)
    <3>1. Started = 1 .. Last /\ NoTask \notin Tasks
      BY DEF IInv, NumberInv, Tasks, NoTask
    <3>2. Last \in 1 .. Last
      BY <2>1, SessionConstantsOK DEF Tasks
    <3> QED
      BY <2>1, <3>1, <3>2 DEF IInv, TaskInv
  <2>7. SentInv'
    <3> SUFFICES ASSUME NEW i \in 1 .. n
                 PROVE  sent'[i].task \in Started /\ (sent'[i].type \in Closing => ~ Live(sent'[i].task))
      BY <2>4, <1>3, <1>5 DEF SentInv
    <3>1. CASE i = n
      BY <3>1, <2>2, <2>4, <2>6
    <3>2. CASE i # n
      <4>1. i \in 1 .. n - 1 /\ i \in DOMAIN sent /\ sent'[i] = sent[i]
        BY <3>2, <2>4
      <4> QED
        BY <4>1 DEF IInv, SentInv
    <3> QED
      BY <3>1, <3>2
  <2>8. NothingAfterClosing'
    <3> SUFFICES ASSUME NEW j \in 1 .. n, NEW i \in 1 .. j - 1,
                        sent'[i].task = sent'[j].task, sent'[i].type \in Closing
                 PROVE  sent'[i].type # "cancelled" /\ sent'[j].type = "cancelled"
      BY <2>4 DEF NothingAfterClosing
    <3>1. i \in 1 .. n - 1 /\ i \in DOMAIN sent /\ sent'[i] = sent[i]
      BY <2>4
    <3>2. CASE j = n
      BY <3>1, <3>2, <2>1, <2>2, <2>4 DEF IInv, SentInv
    <3>3. CASE j # n
      <4>1. j \in DOMAIN sent /\ sent'[j] = sent[j]
        BY <3>3, <2>4
      <4> QED
        BY <3>1, <4>1 DEF IInv, NothingAfterClosing
    <3> QED
      BY <3>2, <3>3
  <2>9. NoSilentEnd'
    <3>1. \A t \in Tasks : HasClosing(t) => HasClosing(t)'
      BY <2>4 DEF HasClosing
    <3>2. HasClosing(Last)'
      BY <2>2, <2>4, <1>3 DEF HasClosing, Closing
    <3> QED
      BY <3>1, <3>2, <1>1, <1>3 DEF IInv, NoSilentEnd, Last
  <2> QED
    BY <2>5, <2>7, <2>8, <2>9, <1>3, <1>4 DEF IInv
<1> QED
  BY <1>1, <1>6, <1>7

\* A request starts the next task, and no other one runs.
LEMMA StartTaskStep ==
  ASSUME IInv, NEW type \in {"chat", "agent_execute"}, StartTask(type)
  PROVE  IInv'
<1> DEFINE new == NextTask
<1>1. /\ handler = "receive" /\ handler' = "receive" /\ armed' = FALSE /\ ~ StreamActive
      /\ inbox # <<>> /\ inbox' = Tail(inbox)
      /\ active' = new /\ activeRequest' = Head(inbox).request
      /\ requestOf' = [requestOf EXCEPT ![new] = Head(inbox).request]
      /\ kindOf' = [kindOf EXCEPT ![new] = IF type = "chat" THEN "chat" ELSE "agent"]
      /\ stage' = [stage EXCEPT ![new] = "created"]
      /\ UNCHANGED <<sends, timedOut, sent, connected, reply, registered, cancelling, chunks>>
  BY DEF StartTask, Receive, Enter
<1>2. /\ Head(inbox).request \in RequestIds \cup {NoRequest}
      /\ inbox' \in Seq(Messages) /\ Len(inbox') = Len(inbox) - 1
      /\ Len(inbox) \in Nat /\ Len(inbox') \in Nat
  <2>1. TypeOK
    BY DEF IInv
  <2>2. Len(inbox') \in Nat
    BY <2>1, <1>1, InboxEffect
  <2> QED
    BY <2>1, <2>2, <1>1, InboxEffect
<1>3. /\ Last \in 0 .. MaxMessages /\ new = Last + 1 /\ IsFiniteSet(Started)
      /\ Last = Cardinality(Started) /\ Started = 1 .. Last
      /\ Last + Len(inbox) <= sends /\ sends \in 0 .. MaxMessages /\ MaxMessages \in Nat
  BY LastIsATaskOrNone, SessionConstantsOK DEF IInv, NumberInv, TypeOK
<1> HIDE DEF new
<1>4. new \in Tasks /\ new \notin Started /\ stage[new] = "none"
  <2>1. Len(inbox) >= 1
    BY <1>2
  <2> DEFINE k == Last
             n == Len(inbox)
  <2>2. /\ k \in Nat /\ n \in Nat /\ n >= 1 /\ k + n <= sends /\ sends <= MaxMessages
        /\ sends \in Nat /\ MaxMessages \in Nat /\ new = k + 1
    BY <2>1, <1>2, <1>3
  <2> HIDE DEF k, n
  <2>3. new \in 1 .. MaxMessages /\ new \notin 1 .. k
    BY <2>2
  <2>4. new \in Tasks /\ new \notin Started
    BY <2>3, <1>3 DEF Tasks, k
  <2> QED
    BY <2>4 DEF Started
<1>5. /\ stage'[new] = "created" /\ requestOf'[new] = Head(inbox).request
      /\ \A t \in Tasks \ {new} : stage'[t] = stage[t] /\ requestOf'[t] = requestOf[t]
  BY <1>1, <1>4 DEF IInv, TypeOK
<1>6. TypeOK'
  <2>1. /\ stage' \in [Tasks -> Stages]
        /\ requestOf' \in [Tasks -> RequestIds \cup {NoRequest}]
        /\ kindOf' \in [Tasks -> {"none", "chat", "agent"}]
    BY <1>1, <1>2, <1>4 DEF IInv, TypeOK, Stages
  <2> QED
    BY <2>1, <1>1, <1>2, <1>4 DEF IInv, TypeOK
<1>7. Started' = Started \cup {new}
  BY <1>4, <1>5 DEF Started
<1>8. Last' = new /\ Last' = Last + 1
  <2>1. Cardinality(Started') = Cardinality(Started) + 1
    BY <1>3, <1>4, <1>7, FS_AddElement
  <2>2. NextTask' = Cardinality(Started') + 1
    BY DEF NextTask, Started
  <2>3. Last' = NextTask' - 1
    BY DEF Last
  <2> QED
    BY <2>1, <2>2, <2>3, <1>3
<1>9. NumberInv'
  <2> DEFINE k == Last
  <2>1. k \in Nat /\ Started' = (1 .. k) \cup {k + 1} /\ Last' = k + 1
    <3>1. k \in Nat /\ new = k + 1
      BY <1>3
    <3>2. Started = 1 .. k
      BY <1>3
    <3> HIDE DEF k
    <3>3. Started' = (1 .. k) \cup {new}
      BY <3>2, <1>7
    <3> QED
      BY <3>1, <3>3, <1>8
  <2> HIDE DEF k
  <2>2. (1 .. k) \cup {k + 1} = 1 .. (k + 1)
    BY <2>1
  <2>3. Last' + Len(inbox') <= sends'
    BY <1>1, <1>2, <1>3, <1>8
  <2> QED
    BY <2>1, <2>2, <2>3 DEF NumberInv
<1>10. \A t \in Tasks : ~ Live(t) /\ ~ cancelling[t] /\ stage[t] # "unwinding"
  <2>1. \A t \in Tasks : ~ Live(t)
    BY <1>1, ActiveIsLive DEF IInv
  <2> QED
    BY <2>1 DEF IInv, TaskInv, Live
<1>11. \A t \in Tasks : Live(t)' <=> t = new
  BY <1>5, <1>10 DEF Live
<1>12. TaskInv'
  BY <1>1, <1>5, <1>8, <1>10, <1>11 DEF TaskInv
<1>13. ~ Stopping' /\ ~ ReportsCancelled' /\ timedOut = FALSE
  BY <1>1 DEF Stopping, ReportsCancelled, IInv, HandlerInv, TypeOK
<1>14. HandlerInv'
  BY <1>1, <1>13 DEF HandlerInv
<1>15. SentInv'
  <2> SUFFICES ASSUME NEW i \in DOMAIN sent
               PROVE  /\ sent[i].task \in Started'
                      /\ ~ Live(sent[i].task)'
    BY <1>1, <1>13 DEF SentInv
  <2>1. sent[i].task \in Started
    BY DEF IInv, SentInv
  <2>2. sent[i].task \in Tasks /\ sent[i].task # new
    BY <2>1, <1>4 DEF Started
  <2>3. ~ Live(sent[i].task)
    BY <2>2, <1>10
  <2>4. sent'[i].task = sent[i].task /\ stage'[sent[i].task] = stage[sent[i].task]
    BY <2>2, <1>1, <1>5
  <2> QED
    BY <2>1, <2>3, <2>4, <1>7, <1>1 DEF Live
<1>16. NothingAfterClosing'
  BY <1>1 DEF IInv, NothingAfterClosing
<1>17. NoSilentEnd'
  <2> SUFFICES ASSUME NEW t \in Tasks, stage'[t] = "done", connected' PROVE HasClosing(t)'
    BY DEF NoSilentEnd
  <2>1. t # new /\ stage[t] = "done" /\ connected
    BY <1>1, <1>5
  <2>2. HasClosing(t)
    BY <2>1, <1>1 DEF IInv, NoSilentEnd
  <2> QED
    BY <2>2, <1>1 DEF HasClosing
<1> QED
  BY <1>6, <1>9, <1>12, <1>14, <1>15, <1>16, <1>17 DEF IInv

-----------------------------------------------------------------------------
(* The tasks *)

\* What a step that brings a task to stage s may do.
TaskEffect(t, s) ==
  /\ Live(t) /\ s \in Stages \ {"none"}
  /\ stage' = [stage EXCEPT ![t] = s]
  /\ UNCHANGED <<client, coroutine, requestOf, kindOf>>
  /\ chunks' \in [Tasks -> 0 .. MaxChunks] /\ cancelling' \in [Tasks -> BOOLEAN]
  /\ \A u \in Tasks : cancelling'[u] => cancelling[u] /\ u # t
  /\ s = "unwinding" => Stopping
  /\ \/ sent' = sent /\ (s = "done" => ~ connected \/ Stopping)
     \/ \E type \in EventTypes \ {"cancelled"} :
           /\ Tell(t, type)
           /\ type \in Closing => s = "done"
           /\ s = "done" => type \in Closing \/ Stopping

\* A step that is no interruption.
LEMMA RunEffect ==
  ASSUME TypeOK, TaskInv, NEW t \in Tasks, NEW from \in Stages \ {"none", "done"}, Runs(t, from),
         NEW s \in Stages \ {"none"}, Enter(t, s), s # "unwinding",
         chunks' \in [Tasks -> 0 .. MaxChunks],
         \/ sent' = sent /\ (s = "done" => ~ connected \/ Stopping)
         \/ \E type \in EventTypes \ {"cancelled"} :
               /\ Tell(t, type)
               /\ type \in Closing => s = "done"
               /\ s = "done" => type \in Closing \/ Stopping
  PROVE  TaskEffect(t, s)
<1>1. Live(t) /\ UNCHANGED <<client, coroutine, requestOf, kindOf, cancelling>> /\ ~ cancelling[t]
  BY DEF Runs, Live
<1>2. cancelling' \in [Tasks -> BOOLEAN] /\ \A u \in Tasks : cancelling'[u] => cancelling[u] /\ u # t
  BY <1>1 DEF TypeOK
<1> QED
  BY <1>1, <1>2 DEF TaskEffect, Enter

\* A task that sends goes on, ends, or finds the connection down.
LEMMA SendEffect ==
  ASSUME TypeOK, TaskInv, NEW t \in Tasks, NEW from \in Stages \ {"none", "done"},
         NEW type \in EventTypes \ {"cancelled"}, NEW next \in Stages \ {"none", "unwinding"},
         type \in Closing <=> next = "done", SendStep(t, from, type, next), UNCHANGED chunks
  PROVE  \E s : TaskEffect(t, s)
<1>1. Runs(t, from) /\ chunks' \in [Tasks -> 0 .. MaxChunks]
  BY DEF SendStep, TypeOK
<1>2. CASE connected
  <2>1. Tell(t, type) /\ Enter(t, next)
    BY <1>2 DEF SendStep
  <2> QED
    BY <2>1, <1>1, RunEffect
<1>3. CASE ~ connected
  <2>1. PICK s \in {next, "done"} : Enter(t, s) /\ sent' = sent
    BY <1>3 DEF SendStep
  <2>2. s \in Stages \ {"none"} /\ s # "unwinding"
    BY DEF Stages
  <2> QED
    BY <2>1, <2>2, <1>1, <1>3, RunEffect
<1> QED
  BY <1>2, <1>3

\* Whatever a task does, it changes its own stage and sends at most one event.
LEMMA TaskStepEffect ==
  ASSUME TypeOK, TaskInv, NEW t \in Tasks, TaskStep(t)
  PROVE  \E s : TaskEffect(t, s)
<1>0. chunks \in [Tasks -> 0 .. MaxChunks] /\ kindOf \in [Tasks -> {"none", "chat", "agent"}]
      /\ stage \in [Tasks -> Stages]
  BY DEF TypeOK
<1>1. CASE Begin(t)
  <2>1. PICK s \in {"starting", "working"} : Enter(t, s)
    BY <1>1 DEF Begin
  <2>2. Runs(t, "created") /\ chunks' = chunks /\ sent' = sent
    BY <1>1 DEF Begin
  <2> QED
    BY <2>1, <2>2, <1>0, RunEffect DEF Stages
<1>2. CASE SendStarted(t)
  BY <1>2, SendEffect DEF SendStarted, Stages, EventTypes, Closing
<1>3. CASE Produce(t)
  <2>1. chunks' \in [Tasks -> 0 .. MaxChunks]
    <3>1. chunks[t] + 1 \in 0 .. MaxChunks
      BY <1>0, <1>3, SessionConstantsOK DEF Produce
    <3> QED
      BY <1>0, <1>3, <3>1 DEF Produce
  <2>2. Runs(t, "working") /\ Enter(t, "sending") /\ sent' = sent
    BY <1>3 DEF Produce
  <2> QED
    BY <2>1, <2>2, RunEffect DEF Stages
<1>4. CASE SendProgress(t)
  <2>1. PICK type \in {"chunk", "agent_event"} : SendStep(t, "sending", type, "working")
    BY <1>4 DEF SendProgress
  <2>2. chunks' = chunks
    BY <1>4 DEF SendProgress
  <2> QED
    BY <2>1, <2>2, SendEffect DEF Stages, EventTypes, Closing
<1>5. CASE Succeed(t)
  <2>1. Runs(t, "working") /\ Enter(t, "completing") /\ chunks' = chunks /\ sent' = sent
    BY <1>5 DEF Succeed
  <2> QED
    BY <2>1, <1>0, RunEffect DEF Stages
<1>6. CASE SendCompleted(t)
  <2>1. PICK type \in {"completed", "agent_completed"} : SendStep(t, "completing", type, "done")
    BY <1>6 DEF SendCompleted
  <2>2. chunks' = chunks
    BY <1>6 DEF SendCompleted
  <2> QED
    BY <2>1, <2>2, SendEffect DEF Stages, EventTypes, Closing
<1>7. CASE Fail(t)
  <2>1. PICK s \in {"erring", "failing"} : Enter(t, s)
    BY <1>7 DEF Fail
  <2>2. Runs(t, "working") /\ chunks' = chunks /\ sent' = sent
    BY <1>7 DEF Fail
  <2> QED
    BY <2>1, <2>2, <1>0, RunEffect DEF Stages
<1>8. CASE SendFailed(t)
  BY <1>8, SendEffect DEF SendFailed, Stages, EventTypes, Closing
<1>9. CASE SendError(t)
  <2>1. Runs(t, "erring") /\ Enter(t, "done") /\ chunks' = chunks
    BY <1>9 DEF SendError
  <2>2. (connected /\ Tell(t, "error")) \/ (~ connected /\ sent' = sent)
    BY <1>9 DEF SendError
  <2> QED
    BY <2>1, <2>2, <1>0, RunEffect DEF Stages, EventTypes, Closing
<1>10. CASE Interrupt(t)
  <2> DEFINE s == IF stage[t] \in {"working", "sending"} THEN "unwinding" ELSE "done"
  <2>1. /\ Live(t) /\ cancelling[t] /\ chunks' = chunks
        /\ cancelling' = [cancelling EXCEPT ![t] = FALSE]
        /\ UNCHANGED <<client, coroutine, requestOf, kindOf>>
        /\ stage' = [stage EXCEPT ![t] = s]
    BY <1>10 DEF Interrupt, Enter
  <2>2. Stopping
    BY <2>1 DEF TaskInv
  <2>3. /\ cancelling' \in [Tasks -> BOOLEAN]
        /\ \A u \in Tasks : cancelling'[u] => cancelling[u] /\ u # t
    BY <2>1 DEF TypeOK
  <2>4. \/ sent' = sent
        \/ Tell(t, SentAt(t)) /\ stage[t] \notin {"created", "working"}
    BY <1>10 DEF Interrupt
  <2>5. /\ SentAt(t) \in EventTypes \ {"cancelled"}
        /\ SentAt(t) \in Closing => stage[t] \notin {"working", "sending"} \/ stage[t] = "working"
    BY DEF SentAt, EventTypes, Closing
  <2>6. \/ sent' = sent
        \/ \E type \in EventTypes \ {"cancelled"} :
              Tell(t, type) /\ (type \in Closing => s = "done")
    BY <2>4, <2>5
  <2>7. s \in Stages \ {"none"}
    BY DEF Stages
  <2> HIDE DEF s
  <2>8. TaskEffect(t, s)
    BY <1>0, <2>1, <2>2, <2>3, <2>6, <2>7 DEF TaskEffect
  <2> QED
    BY <2>8
<1>11. CASE Unwind(t)
  <2>1. Runs(t, "unwinding") /\ Enter(t, "done") /\ chunks' = chunks
    BY <1>11 DEF Unwind
  <2>2. Stopping
    BY <2>1 DEF Runs, TaskInv
  <2>3. Tell(t, "agent_failed") \/ sent' = sent
    BY <1>11 DEF Unwind
  <2> QED
    BY <2>1, <2>2, <2>3, <1>0, RunEffect DEF Stages, EventTypes, Closing
<1> QED
  BY <1>1, <1>2, <1>3, <1>4, <1>5, <1>6, <1>7, <1>8, <1>9, <1>10, <1>11 DEF TaskStep

\* So no step of a task leaves the invariant.
LEMMA TaskStepKeeps ==
  ASSUME IInv, NEW t \in Tasks, NEW s, TaskEffect(t, s)
  PROVE  IInv'
<1>1. /\ UNCHANGED <<connected, inbox, sends, handler, armed, timedOut, reply, registered>>
      /\ UNCHANGED <<active, activeRequest, requestOf, kindOf>>
      /\ Live(t) /\ s \in Stages \ {"none"} /\ stage' = [stage EXCEPT ![t] = s]
      /\ \A u \in Tasks : cancelling'[u] => cancelling[u] /\ u # t
      /\ s = "unwinding" => Stopping
  BY DEF TaskEffect, client, coroutine
<1>2. /\ stage'[t] = s /\ stage' \in [Tasks -> Stages]
      /\ \A u \in Tasks \ {t} : stage'[u] = stage[u]
  BY <1>1 DEF IInv, TypeOK
<1>3. /\ Started' = Started
      /\ \A u \in Tasks : Live(u)' => Live(u)
      /\ t \in Started /\ stage[t] # "done"
  BY <1>1, <1>2 DEF Started, Live
<1>4. Last' = Last /\ NextTask' = NextTask
  <2>1. NextTask' = Cardinality(Started') + 1 /\ NextTask = Cardinality(Started) + 1
    BY DEF NextTask, Started
  <2> QED
    BY <2>1, <1>3 DEF Last
<1>5. active = t /\ activeRequest = requestOf[t] /\ active # NoTask /\ StreamActive
  BY <1>1 DEF IInv, TaskInv, StreamActive, Tasks, NoTask
<1>6. NumberInv'
  BY <1>1, <1>3, <1>4 DEF IInv, NumberInv
<1>7. TaskInv'
  <2>1. \A u \in Tasks : cancelling'[u] => Live(u)' /\ Stopping'
    <3> SUFFICES ASSUME NEW u \in Tasks, cancelling'[u] PROVE Live(u)' /\ Stopping'
      OBVIOUS
    <3>1. cancelling[u] /\ u # t
      BY <1>1
    <3>2. Live(u) /\ Stopping
      BY <3>1 DEF IInv, TaskInv
    <3> QED
      BY <3>1, <3>2, <1>1, <1>2 DEF Live, Stopping
  <2>2. \A u \in Tasks : stage'[u] = "unwinding" => Stopping'
    BY <1>1, <1>2 DEF IInv, TaskInv, Stopping
  <2>3. active' # NoTask => active' = Last'
    BY <1>1, <1>4 DEF IInv, TaskInv
  <2>4. \A u \in Tasks : Live(u)' => active' = u /\ activeRequest' = requestOf'[u]
    BY <1>1, <1>3 DEF IInv, TaskInv
  <2> QED
    BY <2>1, <2>2, <2>3, <2>4 DEF TaskInv
<1>8. ~ ReportsCancelled /\ handler # "closed" /\ ~ armed /\ handler # "accept"
  BY <1>5 DEF IInv, HandlerInv
<1>9. HandlerInv'
  <2>1. ~ ReportsCancelled'
    BY <1>1, <1>8 DEF ReportsCancelled
  <2>2. Stopping' => active' # NoTask
    BY <1>1, <1>5
  <2>3. ~ timedOut'
    BY <1>1, <1>8 DEF IInv, HandlerInv
  <2> QED
    BY <2>1, <2>2, <2>3, <1>1, <1>8 DEF HandlerInv
<1>10. \A i \in DOMAIN sent : sent[i].task = t => sent[i].type \notin Closing
  BY <1>1 DEF IInv, SentInv
<1>11. ASSUME NEW i \in DOMAIN sent
       PROVE  /\ sent[i].task \in Started
              /\ sent[i].type \in Closing => stage'[sent[i].task] \in {"none", "done"}
              /\ sent[i].type = "cancelled" =>
                   ~ (handler = "cancel" /\ active = sent[i].task)
  <2>1. /\ sent[i].task \in Started
        /\ sent[i].type \in Closing => ~ Live(sent[i].task)
        /\ sent[i].type = "cancelled" => ~ (handler = "cancel" /\ active = sent[i].task)
    BY DEF IInv, SentInv
  <2>2. sent[i].type \in Closing => sent[i].task \in Tasks \ {t}
    BY <2>1, <1>10 DEF Started
  <2>3. sent[i].type \in Closing => stage'[sent[i].task] = stage[sent[i].task]
    BY <2>2, <1>2
  <2> QED
    BY <2>1, <2>3 DEF Live
<1>12. /\ chunks' \in [Tasks -> 0 .. MaxChunks] /\ cancelling' \in [Tasks -> BOOLEAN]
  BY DEF TaskEffect
<1>13. CASE sent' = sent /\ (s = "done" => ~ connected \/ Stopping)
  <2>1. TypeOK'
    BY <1>1, <1>2, <1>12, <1>13 DEF IInv, TypeOK
  <2>2. SentInv'
    BY <1>1, <1>3, <1>4, <1>8, <1>11, <1>13 DEF SentInv, Live, ReportsCancelled
  <2>3. NothingAfterClosing'
    BY <1>13 DEF IInv, NothingAfterClosing
  <2>4. NoSilentEnd'
    <3> SUFFICES ASSUME NEW u \in Tasks, stage'[u] = "done", connected', handler' # "cleanup"
                 PROVE  HasClosing(u)' \/ (handler' = "cancel" /\ active' = u)
      BY DEF NoSilentEnd
    <3>1. CASE u = t
      BY <3>1, <1>1, <1>2, <1>5, <1>13 DEF Stopping
    <3>2. CASE u # t
      <4>1. stage[u] = "done" /\ connected /\ handler # "cleanup"
        BY <3>2, <1>1, <1>2
      <4>2. HasClosing(u)
        BY <4>1, <3>2, <1>5, <1>8 DEF IInv, NoSilentEnd, ReportsCancelled
      <4> QED
        BY <4>2, <1>13 DEF HasClosing
    <3> QED
      BY <3>1, <3>2
  <2> QED
    BY <2>1, <2>2, <2>3, <2>4, <1>6, <1>7, <1>9 DEF IInv
<1>14. ASSUME NEW type \in EventTypes \ {"cancelled"}, Tell(t, type),
              type \in Closing => s = "done",
              s = "done" => type \in Closing \/ Stopping
       PROVE  IInv'
  <2> DEFINE e == [task |-> t, type |-> type]
             n == Len(sent) + 1
  <2>1. e \in [task : Tasks, type : EventTypes] /\ e.task = t /\ e.type = type
    OBVIOUS
  <2>2. sent \in Seq([task : Tasks, type : EventTypes]) /\ sent' = Append(sent, e)
    BY <1>14 DEF IInv, TypeOK, Tell
  <2> HIDE DEF e
  <2>3. /\ sent' \in Seq([task : Tasks, type : EventTypes])
        /\ DOMAIN sent' = 1 .. n /\ DOMAIN sent = 1 .. n - 1 /\ n \in Nat \ {0}
        /\ sent'[n] = e /\ \A i \in 1 .. n - 1 : sent'[i] = sent[i]
    BY <2>1, <2>2
  <2> HIDE DEF n
  <2>4. TypeOK'
    BY <2>3, <1>1, <1>2, <1>12 DEF IInv, TypeOK
  <2>5. SentInv'
    <3>1. ~ ReportsCancelled'
      BY <1>1, <1>8 DEF ReportsCancelled
    <3> SUFFICES ASSUME NEW i \in 1 .. n
                 PROVE  /\ sent'[i].task \in Started
                        /\ sent'[i].type \in Closing => stage'[sent'[i].task] \in {"none", "done"}
                        /\ sent'[i].type = "cancelled" =>
                             ~ (handler = "cancel" /\ active = sent'[i].task)
      BY <2>3, <3>1, <1>1, <1>3 DEF SentInv, Live
    <3>2. CASE i = n
      BY <3>2, <2>1, <2>3, <1>2, <1>3, <1>14
    <3>3. CASE i # n
      <4>1. i \in DOMAIN sent /\ sent'[i] = sent[i]
        BY <3>3, <2>3
      <4> QED
        BY <4>1, <1>11
    <3> QED
      BY <3>2, <3>3
  <2>6. NothingAfterClosing'
    <3> SUFFICES ASSUME NEW j \in 1 .. n, NEW i \in 1 .. j - 1,
                        sent'[i].task = sent'[j].task, sent'[i].type \in Closing
                 PROVE  sent'[i].type # "cancelled" /\ sent'[j].type = "cancelled"
      BY <2>3 DEF NothingAfterClosing
    <3>1. i \in DOMAIN sent /\ sent'[i] = sent[i]
      BY <2>3
    <3>2. CASE j = n
      BY <3>1, <3>2, <2>1, <2>3, <1>10
    <3>3. CASE j # n
      <4>1. j \in DOMAIN sent /\ sent'[j] = sent[j]
        BY <3>3, <2>3
      <4> QED
        BY <3>1, <4>1 DEF IInv, NothingAfterClosing
    <3> QED
      BY <3>2, <3>3
  <2>7. NoSilentEnd'
    <3> SUFFICES ASSUME NEW u \in Tasks, stage'[u] = "done", connected', handler' # "cleanup"
                 PROVE  HasClosing(u)' \/ (handler' = "cancel" /\ active' = u)
      BY DEF NoSilentEnd
    <3>1. CASE u = t
      <4>1. type \in Closing \/ Stopping
        BY <3>1, <1>2, <1>14
      <4>2. CASE type \in Closing
        <5>1. n \in DOMAIN sent' /\ sent'[n].task = u /\ sent'[n].type \in Closing
          BY <4>2, <3>1, <2>1, <2>3
        <5> QED
          BY <5>1 DEF HasClosing
      <4>3. CASE Stopping
        BY <4>3, <3>1, <1>1, <1>5 DEF Stopping
      <4> QED
        BY <4>1, <4>2, <4>3
    <3>2. CASE u # t
      <4>1. stage[u] = "done" /\ connected /\ handler # "cleanup"
        BY <3>2, <1>1, <1>2
      <4>2. HasClosing(u)
        BY <4>1, <3>2, <1>5, <1>8 DEF IInv, NoSilentEnd, ReportsCancelled
      <4> QED
        BY <4>2, <2>3 DEF HasClosing
    <3> QED
      BY <3>1, <3>2
  <2> QED
    BY <2>4, <2>5, <2>6, <2>7, <1>6, <1>7, <1>9 DEF IInv
<1> QED
  BY <1>13, <1>14 DEF TaskEffect

-----------------------------------------------------------------------------

\* Before the connection is accepted nothing has been started or sent.
LEMMA InvInit == Init => IInv
<1> SUFFICES ASSUME Init PROVE IInv
  OBVIOUS
<1> USE SessionConstantsOK
<1>1. TypeOK
  <2>1. reply \in [type : Codes \cup {"none"}, request : RequestIds \cup {NoRequest}]
    BY DEF Init, NoReply
  <2>2. /\ inbox \in Seq(Messages) /\ sends \in 0 .. MaxMessages
        /\ sent \in Seq([task : Tasks, type : EventTypes])
    BY DEF Init
  <2>3. /\ requestOf \in [Tasks -> RequestIds \cup {NoRequest}]
        /\ kindOf \in [Tasks -> {"none", "chat", "agent"}] /\ stage \in [Tasks -> Stages]
        /\ cancelling \in [Tasks -> BOOLEAN] /\ chunks \in [Tasks -> 0 .. MaxChunks]
    BY DEF Init, Stages
  <2> QED
    BY <2>1, <2>2, <2>3 DEF Init, TypeOK, NoTask
<1>2. Started = {} /\ Last = 0
  <2>1. Started = {}
    BY DEF Init, Started
  <2> QED
    BY <2>1, <1>1, LastIsATaskOrNone, FS_EmptySet
<1>3. NumberInv
  <2>1. sends = 0 /\ Len(inbox) = 0
    BY DEF Init
  <2> QED
    BY <1>2, <2>1 DEF NumberInv
<1>4. TaskInv
  BY DEF Init, TaskInv, Live, NoTask
<1>5. HandlerInv
  BY DEF Init, HandlerInv, Stopping, ReportsCancelled
<1>6. SentInv /\ NothingAfterClosing /\ NoSilentEnd
  BY DEF Init, SentInv, NothingAfterClosing, NoSilentEnd
<1> QED
  BY <1>1, <1>3, <1>4, <1>5, <1>6 DEF IInv

\* A step that changes nothing leaves the invariant alone.
LEMMA StutterStep ==
  ASSUME IInv, UNCHANGED vars
  PROVE  IInv'
<1>1. /\ UNCHANGED <<connected, inbox, sends, handler, armed, timedOut, reply, registered>>
      /\ UNCHANGED <<active, activeRequest, requestOf, kindOf, stage, cancelling, chunks, sent>>
  BY DEF vars, client, coroutine, tasks
<1>2. /\ Started' = Started /\ Last' = Last /\ NextTask' = NextTask
      /\ \A t : Live(t)' <=> Live(t)
  BY <1>1, StagesKept
<1>3. TypeOK' /\ NumberInv'
  BY <1>1, <1>2 DEF IInv, TypeOK, NumberInv
<1>4. TaskInv' /\ HandlerInv' /\ SentInv'
  BY <1>1, <1>2
  DEF IInv, TaskInv, HandlerInv, SentInv, Stopping, ReportsCancelled, StreamActive
<1>5. NothingAfterClosing' /\ NoSilentEnd'
  BY <1>1, <1>2 DEF IInv, NothingAfterClosing, NoSilentEnd, HasClosing
<1> QED
  BY <1>3, <1>4, <1>5 DEF IInv

\* No step of the client, the handler or a task leaves the invariant.
LEMMA InvStep == IInv /\ [Next]_vars => IInv'
<1> SUFFICES ASSUME IInv, [Next]_vars PROVE IInv'
  OBVIOUS
<1>1. CASE ClientSends \/ ClientLeaves
  BY <1>1, ClientStep
<1>2. ASSUME NEW code \in Codes \ {"cancelled"}, NEW type, Receive(type), Answer(code)
      PROVE  IInv'
  BY <1>2, AnswerStep DEF Receive
<1>3. CASE ReceivePing \/ ReceiveInvalid \/ ReceiveStrayCancel \/ ReceiveWhileBusy
           \/ ReceiveAgentUnavailable
  BY <1>2, <1>3 DEF ReceivePing, ReceiveInvalid, ReceiveStrayCancel, ReceiveWhileBusy,
                    ReceiveAgentUnavailable, Codes
<1>4. CASE ReceiveMalformed
  <2>1. /\ handler = "receive" /\ inbox # <<>> /\ inbox' = Tail(inbox)
        /\ UNCHANGED <<sends, timedOut, sent, requestOf, kindOf, stage, chunks>> /\ Leave
    BY <1>4 DEF ReceiveMalformed, Receive
  <2> QED
    BY <2>1, LeaveStep DEF Stopping
<1>5. CASE ReceiveCancel
  BY <1>5, ReceiveCancelStep
<1>6. CASE StartChat \/ StartAgent
  BY <1>6, StartTaskStep DEF StartChat, StartAgent
<1>7. CASE Accept \/ SendReply
  BY <1>7, AcceptStep, SendReplyStep
<1>8. CASE HandlerFails
  <2>1. /\ handler \in {"receive", "reply"} /\ ~ connected /\ Leave
        /\ UNCHANGED <<inbox, sends, timedOut, requestOf, kindOf, stage, chunks, sent>>
    BY <1>8 DEF HandlerFails
  <2> QED
    BY <2>1, LeaveStep DEF Stopping
<1>9. CASE IdleTimeout
  <2>1. /\ handler = "receive" /\ armed /\ timedOut' = TRUE /\ Leave
        /\ UNCHANGED <<inbox, sends, requestOf, kindOf, stage, chunks, sent>>
    BY <1>9 DEF IdleTimeout
  <2> QED
    BY <2>1, LeaveStep DEF Stopping
<1>10. CASE CancelDone \/ CleanupDone
  BY <1>10, CancelDoneStep, CleanupDoneStep
<1>11. CASE \E t \in Tasks : TaskStep(t)
  <2>1. PICK t \in Tasks : TaskStep(t)
    BY <1>11
  <2>2. PICK s : TaskEffect(t, s)
    BY <2>1, TaskStepEffect DEF IInv
  <2> QED
    BY <2>2, TaskStepKeeps
<1>12. CASE UNCHANGED vars
  BY <1>12, StutterStep
<1> QED
  BY <1>1, <1>3, <1>4, <1>5, <1>6, <1>7, <1>8, <1>9, <1>10, <1>11, <1>12
  DEF Next, HandlerStep, ServerReads, Ended

\* The inductive invariant, for any number of messages, requests and chunks.
THEOREM SessionInvariant == Spec => []IInv
BY InvInit, InvStep, PTL DEF Spec

\* api/routes/websocket.py: a task that still runs is the one the handler holds.
THEOREM SessionOrphansNoTask == Spec => []NoOrphanTask
<1>1. IInv => NoOrphanTask
  BY DEF IInv, TaskInv, NoOrphanTask
<1> QED
  BY <1>1, SessionInvariant, PTL

\* api/routes/websocket.py: when the handler has returned no task runs and the socket is
\* forgotten; the idle timeout never closes a connection on which an answer is on its way.
THEOREM SessionLeavesNothing == Spec => []ClosedLeavesNothing
<1>1. IInv => ClosedLeavesNothing
  <2> SUFFICES ASSUME IInv PROVE ClosedLeavesNothing
    OBVIOUS
  <2>1. StreamActive <=> \E t \in Tasks : Live(t)
    BY ActiveIsLive DEF IInv
  <2> QED
    BY <2>1 DEF IInv, HandlerInv, ClosedLeavesNothing
<1> QED
  BY <1>1, SessionInvariant, PTL

\* api/routes/websocket.py: nothing but a report of its cancellation follows the closing
\* event of a request.
THEOREM SessionClosesOnce == Spec => []NothingAfterClosing
<1>1. IInv => NothingAfterClosing
  BY DEF IInv
<1> QED
  BY <1>1, SessionInvariant, PTL

\* api/routes/websocket.py: while the connection is up every task that is over has sent a
\* closing event, or the handler is about to.
THEOREM SessionEndsAloud == Spec => []NoSilentEnd
<1>1. IInv => NoSilentEnd
  BY DEF IInv
<1> QED
  BY <1>1, SessionInvariant, PTL

-----------------------------------------------------------------------------
(* The order on the wire *)

\* The client has been told that task t has started.
Heard(t) == \E i \in DOMAIN sent : sent[i] = [task |-> t, type |-> "started"]

\* The answers of one connection come one after the other: no event of a request follows
\* one of a later request, a chat answer begins with "started", which comes first of all
\* it has, and no chunk or completion is sent of one that was not announced.
AnswersInOrder ==
  \A j \in DOMAIN sent :
    /\ \A i \in 1 .. j - 1 :
          /\ sent[i].task <= sent[j].task
          /\ sent[j].type = "started" => sent[i].task # sent[j].task
    /\ sent[j].type \in {"chunk", "completed"} =>
          \E i \in 1 .. j - 1 : sent[i] = [task |-> sent[j].task, type |-> "started"]

\* A task that has not come past "started" has sent nothing, and one that has, has said so.
WireInv ==
  /\ \A t \in Tasks : stage[t] \in {"none", "created", "starting"} =>
                        \A i \in DOMAIN sent : sent[i].task # t
  /\ \A t \in Tasks :
        connected /\ kindOf[t] = "chat" /\ stage[t] \in {"working", "sending", "completing"} =>
          Heard(t)
  /\ AnswersInOrder

\* What one more event of task t does to the wire.
LEMMA TellEffect ==
  ASSUME TypeOK, NEW t \in Tasks, NEW type \in EventTypes, Tell(t, type),
         AnswersInOrder, \A i \in DOMAIN sent : sent[i].task <= t,
         type = "started" => \A i \in DOMAIN sent : sent[i].task # t,
         type \in {"chunk", "completed"} => Heard(t)
  PROVE  /\ AnswersInOrder'
         /\ \A u \in Tasks : Heard(u) => Heard(u)'
         /\ type = "started" => Heard(t)'
         /\ \A u \in Tasks \ {t} :
               (\A i \in DOMAIN sent : sent[i].task # u) => \A i \in DOMAIN sent' : sent'[i].task # u
<1> DEFINE n == Len(sent) + 1
           e == [task |-> t, type |-> type]
<1>1. /\ sent' = Append(sent, e) /\ e \in [task : Tasks, type : EventTypes]
      /\ e.task = t /\ e.type = type
      /\ sent \in Seq([task : Tasks, type : EventTypes])
      /\ \A u : e = [task |-> u, type |-> "started"] <=> u = t /\ type = "started"
  BY DEF Tell, TypeOK
<1> HIDE DEF e
<1>2. /\ DOMAIN sent' = 1 .. n /\ DOMAIN sent = 1 .. n - 1 /\ n \in Nat \ {0}
      /\ sent'[n] = e /\ \A i \in 1 .. n - 1 : sent'[i] = sent[i]
  BY <1>1
<1> HIDE DEF n
<1>3. ASSUME NEW u \in Tasks, Heard(u) PROVE Heard(u)'
  BY <1>2, <1>3 DEF Heard
<1>4. type = "started" => Heard(t)'
  BY <1>1, <1>2 DEF Heard
<1>5. ASSUME NEW u \in Tasks \ {t}, \A i \in DOMAIN sent : sent[i].task # u,
             NEW i \in DOMAIN sent'
      PROVE  sent'[i].task # u
  <2>1. CASE i = n
    BY <1>1, <1>2, <2>1
  <2>2. CASE i # n
    BY <1>2, <1>5, <2>2
  <2> QED
    BY <2>1, <2>2
<1>6. ASSUME NEW j \in DOMAIN sent'
      PROVE  /\ \A i \in 1 .. j - 1 :
                   /\ sent'[i].task <= sent'[j].task
                   /\ sent'[j].type = "started" => sent'[i].task # sent'[j].task
             /\ sent'[j].type \in {"chunk", "completed"} =>
                   \E i \in 1 .. j - 1 : sent'[i] = [task |-> sent'[j].task, type |-> "started"]
  <2>1. CASE j = n
    <3>1. /\ j - 1 = n - 1 /\ sent'[j].task = t /\ sent'[j].type = type
          /\ \A i \in 1 .. n - 1 : sent'[i] = sent[i]
      BY <1>1, <1>2, <2>1
    <3>2. \A i \in 1 .. n - 1 : sent[i].task <= t /\ (type = "started" => sent[i].task # t)
      BY <1>2
    <3>3. type \in {"chunk", "completed"} =>
             \E i \in 1 .. n - 1 : sent[i] = [task |-> t, type |-> "started"]
      BY <1>2 DEF Heard
    <3> QED
      BY <3>1, <3>2, <3>3
  <2>2. CASE j # n
    <3>1. j \in DOMAIN sent /\ sent'[j] = sent[j] /\ \A i \in 1 .. j - 1 : sent'[i] = sent[i]
      BY <1>2, <2>2
    <3> QED
      BY <3>1 DEF AnswersInOrder
  <2> QED
    BY <2>1, <2>2
<1>7. AnswersInOrder'
  BY <1>6 DEF AnswersInOrder
<1> QED
  BY <1>3, <1>4, <1>5, <1>7

\* A step of task t, as far as the order on the wire is concerned.
OwnWire(t) ==
  /\ \/ sent' = sent
     \/ \E type \in EventTypes :
           /\ Tell(t, type)
           /\ type = "started" => stage[t] = "starting"
           /\ type \in {"chunk", "completed"} => Heard(t)
  /\ stage'[t] \in {"none", "created", "starting"} => stage[t] = "created" /\ sent' = sent
  /\ connected /\ kindOf[t] = "chat" /\ stage'[t] \in {"working", "sending", "completing"} =>
        Heard(t) \/ Tell(t, "started")

\* A send of a task.
LEMMA SendWire ==
  ASSUME TypeOK, WireInv, NEW t \in Tasks, NEW from, NEW type \in EventTypes, NEW next,
         SendStep(t, from, type, next),
         type = "started" => from = "starting",
         type \in {"chunk", "completed"} =>
            from \in {"working", "sending", "completing"} /\ kindOf[t] = "chat",
         next \notin {"none", "created", "starting"},
         kindOf[t] = "chat" /\ next \in {"working", "sending", "completing"} =>
            from \in {"working", "sending", "completing"} \/ type = "started"
  PROVE  OwnWire(t)
<1>1. stage[t] = from /\ stage \in [Tasks -> Stages]
  BY DEF SendStep, Runs, TypeOK
<1>2. CASE connected
  BY <1>1, <1>2 DEF SendStep, Enter, OwnWire, WireInv
<1>3. CASE ~ connected
  BY <1>1, <1>3 DEF SendStep, Enter, OwnWire
<1> QED
  BY <1>2, <1>3

\* Whatever a task does, it announces itself first.
LEMMA TaskWire ==
  ASSUME TypeOK, TaskInv, WireInv, NEW t \in Tasks, TaskStep(t)
  PROVE  OwnWire(t)
<1>0. stage \in [Tasks -> Stages]
  BY DEF TypeOK
<1>1. CASE Begin(t)
  <2>1. /\ sent' = sent /\ stage[t] = "created"
        /\ stage'[t] = IF kindOf[t] = "chat" THEN "starting" ELSE "working"
    BY <1>0, <1>1 DEF Begin, Runs, Enter
  <2> QED
    BY <2>1 DEF OwnWire
<1>2. CASE SendStarted(t)
  BY <1>2, SendWire DEF SendStarted, EventTypes
<1>3. CASE Produce(t) \/ Succeed(t) \/ Fail(t)
  <2>1. /\ sent' = sent /\ stage[t] = "working"
        /\ stage'[t] \in {"sending", "completing", "erring", "failing"}
    BY <1>0, <1>3 DEF Produce, Succeed, Fail, Runs, Enter
  <2> QED
    BY <2>1 DEF OwnWire, WireInv
<1>4. CASE SendProgress(t)
  BY <1>4, SendWire DEF SendProgress, EventTypes
<1>5. CASE SendCompleted(t)
  BY <1>5, SendWire DEF SendCompleted, EventTypes
<1>6. CASE SendFailed(t)
  BY <1>6, SendWire DEF SendFailed, EventTypes
<1>7. CASE SendError(t)
  <2>1. stage'[t] = "done" /\ (sent' = sent \/ Tell(t, "error"))
    BY <1>0, <1>7 DEF SendError, Enter
  <2> QED
    BY <2>1 DEF OwnWire, EventTypes
<1>8. CASE Interrupt(t)
  <2>1. /\ stage'[t] \in {"unwinding", "done"}
        /\ \/ sent' = sent
           \/ connected /\ stage[t] \notin {"created", "working"} /\ Tell(t, SentAt(t))
    BY <1>0, <1>8 DEF Interrupt, Enter
  <2>2. /\ SentAt(t) \in EventTypes
        /\ SentAt(t) = "started" => stage[t] = "starting"
        /\ SentAt(t) \in {"chunk", "completed"} =>
              stage[t] \in {"sending", "completing"} /\ kindOf[t] = "chat"
    BY DEF SentAt, EventTypes
  <2> QED
    BY <2>1, <2>2 DEF OwnWire, WireInv
<1>9. CASE Unwind(t)
  <2>1. stage'[t] = "done" /\ (sent' = sent \/ Tell(t, "agent_failed"))
    BY <1>0, <1>9 DEF Unwind, Enter
  <2> QED
    BY <2>1 DEF OwnWire, EventTypes
<1> QED
  BY <1>1, <1>2, <1>3, <1>4, <1>5, <1>6, <1>7, <1>8, <1>9 DEF TaskStep

\* Nothing is on the wire of a task that has not been started.
LEMMA WireOfStarted ==
  ASSUME IInv
  PROVE  /\ \A i \in DOMAIN sent : sent[i].task \in Tasks /\ sent[i].task <= Last
         /\ Last \in 0 .. MaxMessages /\ Started = 1 .. Last
<1>1. Last \in 0 .. MaxMessages /\ Started = 1 .. Last
  BY LastIsATaskOrNone DEF IInv, NumberInv
<1>2. \A i \in DOMAIN sent : sent[i].task \in Started /\ sent[i].task \in Tasks
  BY DEF IInv, SentInv, Started
<1> QED
  BY <1>1, <1>2

\* A task keeps to the order.
LEMMA TaskWireStep ==
  ASSUME IInv, WireInv, NEW t \in Tasks, TaskStep(t)
  PROVE  WireInv'
<1>1. OwnWire(t)
  BY TaskWire DEF IInv
<1>2. /\ Live(t) /\ connected' = connected /\ kindOf' = kindOf
      /\ \A u \in Tasks \ {t} : stage'[u] = stage[u]
  <2>1. PICK s : TaskEffect(t, s)
    BY TaskStepEffect DEF IInv
  <2> QED
    BY <2>1 DEF TaskEffect, client, IInv, TypeOK
<1>3. t = Last /\ TypeOK /\ \A i \in DOMAIN sent : sent[i].task <= t
  BY <1>2, WireOfStarted DEF IInv, TaskInv, Tasks, NoTask
<1>4. ASSUME NEW type \in EventTypes, Tell(t, type),
             type = "started" => stage[t] = "starting",
             type \in {"chunk", "completed"} => Heard(t)
      PROVE  /\ AnswersInOrder'
             /\ \A u \in Tasks : Heard(u) => Heard(u)'
             /\ type = "started" => Heard(t)'
             /\ \A u \in Tasks \ {t} :
                   (\A i \in DOMAIN sent : sent[i].task # u) => \A i \in DOMAIN sent' : sent'[i].task # u
  <2>1. type = "started" => \A i \in DOMAIN sent : sent[i].task # t
    BY <1>4 DEF WireInv
  <2>2. AnswersInOrder
    BY DEF WireInv
  <2> QED
    BY <1>3, <1>4, <2>1, <2>2, TellEffect
<1>5. /\ AnswersInOrder'
      /\ \A u \in Tasks : Heard(u) => Heard(u)'
      /\ \A u \in Tasks \ {t} :
            (\A i \in DOMAIN sent : sent[i].task # u) => \A i \in DOMAIN sent' : sent'[i].task # u
  <2>1. CASE sent' = sent
    BY <2>1 DEF WireInv, AnswersInOrder, Heard
  <2>2. CASE sent' # sent
    BY <1>1, <1>4, <2>2 DEF OwnWire
  <2> QED
    BY <2>1, <2>2
<1>6. Tell(t, "started") => Heard(t)'
  BY <1>3 DEF Tell, Heard, TypeOK
<1>7. ASSUME NEW u \in Tasks, stage'[u] \in {"none", "created", "starting"}
      PROVE  \A i \in DOMAIN sent' : sent'[i].task # u
  <2>1. CASE u = t
    BY <1>1, <1>7, <2>1 DEF OwnWire, WireInv
  <2>2. CASE u # t
    BY <1>2, <1>5, <1>7, <2>2 DEF WireInv
  <2> QED
    BY <2>1, <2>2
<1>8. ASSUME NEW u \in Tasks, connected', kindOf'[u] = "chat",
             stage'[u] \in {"working", "sending", "completing"}
      PROVE  Heard(u)'
  <2>1. CASE u = t
    BY <1>1, <1>2, <1>5, <1>6, <1>8, <2>1 DEF OwnWire
  <2>2. CASE u # t
    BY <1>2, <1>5, <1>8, <2>2 DEF WireInv
  <2> QED
    BY <2>1, <2>2
<1> QED
  BY <1>5, <1>7, <1>8 DEF WireInv

\* The handler starts the next task and speaks of the last one.
LEMMA HandlerWireStep ==
  ASSUME IInv, WireInv, ClientSends \/ ClientLeaves \/ HandlerStep \/ IdleTimeout \/ UNCHANGED vars
  PROVE  WireInv'
<1>1. ASSUME UNCHANGED <<kindOf, stage, sent>>, connected' => connected PROVE WireInv'
  BY <1>1 DEF WireInv, AnswersInOrder, Heard
<1>2. CASE ClientSends \/ ClientLeaves \/ UNCHANGED vars
  BY <1>1, <1>2 DEF ClientSends, ClientLeaves, vars, client, tasks
<1>3. CASE \E type : StartTask(type)
  <2> DEFINE new == NextTask
  <2>1. /\ sent' = sent /\ connected' = connected
        /\ stage' = [stage EXCEPT ![new] = "created"]
        /\ \E k : kindOf' = [kindOf EXCEPT ![new] = k]
    BY <1>3 DEF StartTask, Receive, Enter
  <2>2. new = Last + 1
    BY LastIsATaskOrNone DEF IInv
  <2> HIDE DEF new
  <2>3. \A i \in DOMAIN sent : sent[i].task # new
    BY <2>2, WireOfStarted, SessionConstantsOK DEF Tasks
  <2>4. ASSUME NEW u \in Tasks \ {new} PROVE stage'[u] = stage[u] /\ kindOf'[u] = kindOf[u]
    BY <2>1 DEF IInv, TypeOK
  <2>5. ASSUME new \in Tasks PROVE stage'[new] = "created"
    BY <2>1, <2>5 DEF IInv, TypeOK
  <2> QED
    BY <2>1, <2>3, <2>4, <2>5 DEF WireInv, AnswersInOrder, Heard
<1>4. CASE SendReply
  <2>1. /\ UNCHANGED <<kindOf, stage, connected>>
        /\ sent' = sent \/ (ReportsCancelled /\ Tell(Last, "cancelled"))
    BY <1>4 DEF SendReply, client, tasks, Last, ReportsCancelled
  <2>2. CASE sent' = sent
    BY <1>1, <2>1, <2>2
  <2>3. CASE ReportsCancelled /\ Tell(Last, "cancelled")
    <3>1. Last \in Tasks /\ stage[Last] # "none" /\ active = NoTask
      <4>1. Last \in Tasks /\ active = NoTask
        BY <2>3 DEF IInv, HandlerInv
      <4>2. Last \in Started
        BY <4>1, WireOfStarted, SessionConstantsOK DEF Tasks
      <4> QED
        BY <4>1, <4>2 DEF Started
    <3>2. stage[Last] = "done"
      BY <3>1 DEF IInv, TaskInv, Live, Tasks, NoTask
    <3>3. /\ AnswersInOrder' /\ \A u \in Tasks : Heard(u) => Heard(u)'
          /\ \A u \in Tasks \ {Last} :
                (\A i \in DOMAIN sent : sent[i].task # u) => \A i \in DOMAIN sent' : sent'[i].task # u
      <4> DEFINE t == Last
      <4>1. t \in Tasks /\ Tell(t, "cancelled") /\ \A i \in DOMAIN sent : sent[i].task <= t
        BY <2>3, <3>1, WireOfStarted
      <4> HIDE DEF t
      <4>2. "cancelled" \in EventTypes /\ TypeOK /\ AnswersInOrder
        BY DEF EventTypes, IInv, WireInv
      <4>3. /\ AnswersInOrder' /\ \A u \in Tasks : Heard(u) => Heard(u)'
            /\ \A u \in Tasks \ {t} :
                  (\A i \in DOMAIN sent : sent[i].task # u) => \A i \in DOMAIN sent' : sent'[i].task # u
        BY <4>1, <4>2, TellEffect
      <4> QED
        BY <4>3 DEF t
    <3>4. \A u \in Tasks : stage'[u] \in {"none", "created", "starting"} => u # Last
      BY <2>1, <3>2
    <3> QED
      BY <2>1, <3>3, <3>4 DEF WireInv
  <2> QED
    BY <2>1, <2>2, <2>3
<1>5. CASE Accept \/ ReceiveMalformed \/ HandlerFails \/ IdleTimeout \/ CancelDone \/ CleanupDone
           \/ ReceivePing \/ ReceiveInvalid \/ ReceiveStrayCancel \/ ReceiveCancel
           \/ ReceiveWhileBusy \/ ReceiveAgentUnavailable
  <2>1. UNCHANGED <<kindOf, stage, sent>>
    BY <1>5 DEF Accept, ReceiveMalformed, HandlerFails, IdleTimeout, CancelDone, CleanupDone,
       ReceivePing, ReceiveInvalid, ReceiveStrayCancel, ReceiveCancel, ReceiveWhileBusy,
       ReceiveAgentUnavailable, Receive, Answer, tasks
  <2>2. connected' => connected
    BY <1>5 DEF Accept, ReceiveMalformed, HandlerFails, IdleTimeout, CancelDone, CleanupDone,
       ReceivePing, ReceiveInvalid, ReceiveStrayCancel, ReceiveCancel, ReceiveWhileBusy,
       ReceiveAgentUnavailable, Receive, Answer, Leave, client
  <2> QED
    BY <1>1, <2>1, <2>2
<1> QED
  BY <1>2, <1>3, <1>4, <1>5 DEF HandlerStep, ServerReads, StartChat, StartAgent

\* The invariant of the wire.
LEMMA WireStep == IInv /\ WireInv /\ [Next]_vars => WireInv'
BY TaskWireStep, HandlerWireStep DEF Next, Ended

\* api/routes/websocket.py: the answers of one connection come one after the other, each
\* announced before its text.
THEOREM SessionAnswersInOrder == Spec => []AnswersInOrder
<1>1. Init => WireInv
  BY DEF Init, WireInv, AnswersInOrder
<1>2. WireInv => AnswersInOrder
  BY DEF WireInv
<1> QED
  BY <1>1, <1>2, WireStep, SessionInvariant, PTL DEF Spec

=============================================================================

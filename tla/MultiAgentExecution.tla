------------------------ MODULE MultiAgentExecution ------------------------
(***************************************************************************)
(* MultiAgentService.execute (services/multi_agent_service.py): one        *)
(* asyncio task per execution that runs the agent graph, keeps a status    *)
(* document and a list of workflow events in MongoDB, and publishes live   *)
(* events through an optional callback.                                    *)
(*                                                                         *)
(* The task is split at its awaits.  A database call has two halves: the   *)
(* server applies the write (Land), then the driver's reply resumes the    *)
(* task.  A repository error, a cancellation or a crash of the process may *)
(* come before or after the write has landed.                              *)
(***************************************************************************)
EXTENDS Naturals, Sequences, FiniteSets

CONSTANTS
  Executions,      \* execution identifiers, one fresh uuid4 per call of execute
  Modes,           \* how calls listen to their events: not at all ("no"), "live" with
                   \* astream, or "after" the end of a graph that has ainvoke only
  DatabaseFaults,  \* TRUE: a repository call may raise RepositoryError
  MaxCancels,      \* bound: how often task.cancel() may hit one execution
  MaxCrashes       \* bound: how often the backend process may die

ASSUME ConstantsOK ==
  /\ Modes \subseteq {"no", "live", "after"}
  /\ DatabaseFaults \in BOOLEAN
  /\ MaxCancels \in Nat
  /\ MaxCrashes \in Nat

VARIABLES
  persisted,       \* persisted[e]: conversation_id given and repositories wired
  listening,       \* listening[e]: whether an event_callback was passed, and how it is used
  pc,              \* the await (or local step) the task of e stands at
  results,         \* number of agent_results in the graph state
  nextSequence,    \* the local next_sequence
  callbackSequence,\* the local callback_sequence, later event_sequence
  cause,           \* which except clause runs: "error", "cancel" or "none"
  outcome,         \* what the caller of execute saw
  landed,          \* the write e is waiting for has been applied by the server
  faulted,         \* a repository call of e raised RepositoryError
  cancels,         \* cancellations e has received
  crashes,         \* deaths of the process
  document,        \* agent_executions: the status stored for e
  history,         \* workflow_history: (execution_id, sequence) -> event type
  delivered        \* live events the callback has handed to the client

request == <<persisted, listening>>
store   == <<document, history>>
faults  == <<faulted, cancels, crashes>>
locals  == <<results, nextSequence, callbackSequence, cause>>
vars    == <<request, pc, locals, outcome, landed, faults, store, delivered>>

-----------------------------------------------------------------------------
(* Data *)

ResultCount == 2                  \* the specialist's and the synthesizer's result
Positions   == 0..(ResultCount + 2)
NoEvent     == "no_event"

\* The event a successful run stores under each sequence number.
PlannedEvent(s) ==
  CASE s = 0 -> "execution_started"
    [] s = 1 -> "routing_completed"
    [] s = ResultCount + 2 -> "execution_completed"
    [] OTHER -> "agent_result"

EventTypes == {"execution_started", "routing_completed", "agent_started",
               "agent_result", "execution_completed", "execution_failed"}

GraphPoints == {"supervisor", "emit_routing", "emit_agent_started",
                "specialist", "emit_result", "synthesizer"}
InsertPoints == {"record_started", "record_result", "record_failed"}
StatusPoints == {"create_document", "replace_completed", "replace_failed"}
WritePoints == InsertPoints \cup StatusPoints
EmitPoints == {"emit_started", "emit_routing", "emit_agent_started", "emit_result",
               "tail_routing", "tail_result", "emit_completed", "emit_failed"}
Points == {"idle", "check", "done", "lost"} \cup GraphPoints \cup WritePoints \cup EmitPoints

\* The callback is awaited only when there is one; every write and every graph
\* node suspends the task.  "check" is straight-line code.
Suspended(e) ==
  /\ pc[e] \in GraphPoints \cup WritePoints \cup EmitPoints
  /\ pc[e] \in EmitPoints => listening[e] # "no"

Live(e) == listening[e] = "live"

InFlight(e) == pc[e] \notin {"idle", "done", "lost"}

Init ==
  /\ persisted = [e \in Executions |-> FALSE]
  /\ listening = [e \in Executions |-> "no"]
  /\ pc = [e \in Executions |-> "idle"]
  /\ results = [e \in Executions |-> 0]
  /\ nextSequence = [e \in Executions |-> 0]
  /\ callbackSequence = [e \in Executions |-> 0]
  /\ cause = [e \in Executions |-> "none"]
  /\ outcome = [e \in Executions |-> "pending"]
  /\ landed = [e \in Executions |-> FALSE]
  /\ faulted = [e \in Executions |-> FALSE]
  /\ cancels = [e \in Executions |-> 0]
  /\ crashes = 0
  /\ document = [e \in Executions |-> "none"]
  /\ history = [e \in Executions |-> [s \in Positions |-> NoEvent]]
  /\ delivered = [e \in Executions |-> <<>>]

Goto(e, point) == pc' = [pc EXCEPT ![e] = point]

Finish(e, result) ==
  /\ Goto(e, "done")
  /\ outcome' = [outcome EXCEPT ![e] = result]

-----------------------------------------------------------------------------
(* MongoDB *)

\* The event type an insert stands for.
InsertedEvent(e) ==
  CASE pc[e] = "record_started" -> "execution_started"
    [] pc[e] = "record_failed"  -> "execution_failed"
    [] OTHER                    -> PlannedEvent(nextSequence[e])

WrittenStatus(e) ==
  CASE pc[e] = "create_document"   -> "running"
    [] pc[e] = "replace_completed" -> "completed"
    [] OTHER                       -> "failed"

\* insert_one into workflow_history: the unique index on (execution_id, sequence)
\* refuses a sequence number that is taken.
LandEvent(e) ==
  /\ pc[e] \in InsertPoints
  /\ history[e][nextSequence[e]] = NoEvent
  /\ history' = [history EXCEPT ![e][nextSequence[e]] = InsertedEvent(e)]
  /\ UNCHANGED document

\* Mutant: the filter of replace_one matches every document.
LandStatusUnkeyed(e) ==
  /\ pc[e] \in StatusPoints
  /\ pc[e] = "create_document" <=> document[e] = "none"
  /\ document' = [f \in Executions |->
                    IF f = e \/ document[f] # "none" THEN WrittenStatus(e) ELSE "none"]
  /\ UNCHANGED history

\* insert_one and replace_one on agent_executions.
LandStatus(e) ==
  /\ pc[e] \in StatusPoints
  /\ pc[e] = "create_document" <=> document[e] = "none"
  /\ document' = [document EXCEPT ![e] = WrittenStatus(e)]
  /\ UNCHANGED history

Land(e) ==
  /\ ~landed[e]
  /\ LandEvent(e) \/ LandStatus(e)
  /\ landed' = [landed EXCEPT ![e] = TRUE]
  /\ UNCHANGED <<request, pc, locals, outcome, faults, delivered>>

\* The reply to the write made at point: the task goes on.
Reply(e, point) ==
  /\ pc[e] = point
  /\ landed[e]
  /\ landed' = [landed EXCEPT ![e] = FALSE]
  /\ UNCHANGED <<request, faults, store, delivered>>

\* RepositoryError: swallowed while a failure is being recorded, otherwise it
\* ends the call as MultiAgentExecutionError with nothing cleaned up.
WriteFails(e) ==
  /\ DatabaseFaults
  /\ pc[e] \in WritePoints
  /\ faulted' = [faulted EXCEPT ![e] = TRUE]
  /\ landed' = [landed EXCEPT ![e] = FALSE]
  /\ IF pc[e] \in {"record_failed", "replace_failed"}
     THEN Goto(e, "emit_failed") /\ UNCHANGED outcome
     ELSE Finish(e, "raised")
  /\ UNCHANGED <<request, locals, cancels, crashes, store, delivered>>

-----------------------------------------------------------------------------
(* Live events: _emit_event swallows whatever the callback raises, so an     *)
(* event is delivered or lost and the task goes on either way.               *)

EmittedType(e) ==
  CASE pc[e] = "emit_started"                      -> "execution_started"
    [] pc[e] \in {"emit_routing", "tail_routing"}  -> "routing_completed"
    [] pc[e] = "emit_agent_started"                -> "agent_started"
    [] pc[e] \in {"emit_result", "tail_result"}    -> "agent_result"
    [] pc[e] = "emit_completed"                    -> "execution_completed"
    [] OTHER                                       -> "execution_failed"

Deliver(e) ==
  /\ listening[e] # "no"
  /\ delivered' = [delivered EXCEPT ![e] =
       Append(@, [sequence |-> callbackSequence[e], type |-> EmittedType(e)])]

\* Mutant: callback_sequence += 1 forgotten.
EmitWithoutCounting(e, point, next) ==
  /\ pc[e] = point
  /\ Deliver(e) \/ UNCHANGED delivered
  /\ Goto(e, next)
  /\ UNCHANGED <<request, results, callbackSequence, cause, outcome, landed, faults, store>>

Emit(e, point, next) ==
  /\ pc[e] = point
  /\ Deliver(e) \/ UNCHANGED delivered
  /\ callbackSequence' = [callbackSequence EXCEPT ![e] = @ + 1]
  /\ Goto(e, next)
  /\ UNCHANGED <<request, results, cause, outcome, landed, faults, store>>

-----------------------------------------------------------------------------
(* execute, up to the graph *)

Start(e) ==
  /\ pc[e] = "idle"
  /\ \E p \in BOOLEAN, l \in Modes :
       /\ persisted' = [persisted EXCEPT ![e] = p]
       /\ listening' = [listening EXCEPT ![e] = l]
       /\ Goto(e, IF p THEN "create_document" ELSE "emit_started")
  /\ UNCHANGED <<locals, outcome, landed, faults, store, delivered>>

CreateDocument(e) ==
  /\ Reply(e, "create_document")
  /\ Goto(e, "record_started")
  /\ UNCHANGED <<locals, outcome>>

RecordStarted(e) ==
  /\ Reply(e, "record_started")
  /\ Goto(e, "emit_started")
  /\ UNCHANGED <<locals, outcome>>

EmitStarted(e) ==
  /\ Emit(e, "emit_started", "supervisor")
  /\ nextSequence' = [nextSequence EXCEPT ![e] = @ + 1]

-----------------------------------------------------------------------------
(* The graph: supervisor, then one specialist, then the synthesizer *)

\* Mutant: a failure is announced but not persisted.
BeginFailureUnrecorded(e, why) ==
  /\ cause' = [cause EXCEPT ![e] = why]
  /\ Goto(e, "emit_failed")

\* Both except clauses and both rejections go through here.
BeginFailure(e, why) ==
  /\ cause' = [cause EXCEPT ![e] = why]
  /\ Goto(e, IF persisted[e] THEN "record_failed" ELSE "emit_failed")

NodeEnds(e, node) ==
  /\ pc[e] = node
  /\ UNCHANGED <<request, nextSequence, callbackSequence, cause,
                 outcome, landed, faults, store, delivered>>

Supervise(e) ==
  /\ NodeEnds(e, "supervisor")
  /\ Goto(e, IF Live(e) THEN "emit_routing" ELSE "specialist")
  /\ UNCHANGED results

EmitRouting(e) ==
  /\ Emit(e, "emit_routing", "emit_agent_started")
  /\ UNCHANGED nextSequence

EmitAgentStarted(e) ==
  /\ Emit(e, "emit_agent_started", "specialist")
  /\ UNCHANGED nextSequence

\* A successful or a failed AgentResult: either is one more agent result.
Specialize(e) ==
  /\ NodeEnds(e, "specialist")
  /\ results' = [results EXCEPT ![e] = @ + 1]
  /\ Goto(e, IF Live(e) THEN "emit_result" ELSE "synthesizer")

Synthesize(e) ==
  /\ NodeEnds(e, "synthesizer")
  /\ results' = [results EXCEPT ![e] = @ + 1]
  /\ Goto(e, IF Live(e) THEN "emit_result" ELSE "check")

EmitResult(e) ==
  /\ Emit(e, "emit_result", IF results[e] < ResultCount THEN "synthesizer" ELSE "check")
  /\ UNCHANGED nextSequence

\* LLM, embedding and routing errors leave the supervisor and the specialists as
\* exceptions; the synthesizer makes no call on the paths the graph can take.
NodeRaises(e) ==
  /\ pc[e] \in {"supervisor", "specialist"}
  /\ BeginFailure(e, "error")
  /\ UNCHANGED <<request, results, nextSequence, callbackSequence,
                 outcome, landed, faults, store, delivered>>

\* Mutant: a rejected result is announced but not persisted.
RejectResultUnrecorded(e) ==
  /\ pc[e] = "check"
  /\ ~Live(e)
  /\ cause' = [cause EXCEPT ![e] = "error"]
  /\ Goto(e, "emit_failed")
  /\ callbackSequence' = [callbackSequence EXCEPT ![e] = nextSequence[e]]
  /\ UNCHANGED <<request, results, nextSequence, outcome, landed, faults, store, delivered>>

\* No valid route or no final response; a graph that is streamed is one compiled by
\* LangGraph, whose edges never end without them.  The event is published under
\* next_sequence, not under callback_sequence.
RejectResult(e) ==
  /\ pc[e] = "check"
  /\ ~Live(e)
  /\ BeginFailure(e, "error")
  /\ callbackSequence' = [callbackSequence EXCEPT ![e] = nextSequence[e]]
  /\ UNCHANGED <<request, results, nextSequence, outcome, landed, faults, store, delivered>>

AfterPersistence(e) == IF Live(e) THEN "emit_completed" ELSE "tail_routing"

\* Mutant: the document is completed before the result's events are written.
AcceptResultStatusFirst(e) ==
  /\ pc[e] = "check"
  /\ Goto(e, IF persisted[e] THEN "replace_completed" ELSE AfterPersistence(e))
  /\ UNCHANGED <<request, locals, outcome, landed, faults, store, delivered>>

AcceptResult(e) ==
  /\ pc[e] = "check"
  /\ Goto(e, IF persisted[e] THEN "record_result" ELSE AfterPersistence(e))
  /\ UNCHANGED <<request, locals, outcome, landed, faults, store, delivered>>

-----------------------------------------------------------------------------
(* Persisting and announcing the result *)

RecordResult(e) ==
  /\ Reply(e, "record_result")
  /\ IF nextSequence[e] < ResultCount + 2
     THEN /\ nextSequence' = [nextSequence EXCEPT ![e] = @ + 1]
          /\ UNCHANGED pc
     ELSE /\ Goto(e, "replace_completed")
          /\ UNCHANGED nextSequence
  /\ UNCHANGED <<results, callbackSequence, cause, outcome>>

ReplaceCompleted(e) ==
  /\ Reply(e, "replace_completed")
  /\ Goto(e, AfterPersistence(e))
  /\ UNCHANGED <<locals, outcome>>

\* Without live streaming the routing and the results are published afterwards.
TailRouting(e) ==
  /\ Emit(e, "tail_routing", "tail_result")
  /\ UNCHANGED nextSequence

TailResult(e) ==
  /\ Emit(e, "tail_result",
          IF callbackSequence[e] <= ResultCount THEN "tail_result" ELSE "emit_completed")
  /\ UNCHANGED nextSequence

EmitCompleted(e) ==
  /\ pc[e] = "emit_completed"
  /\ Deliver(e) \/ UNCHANGED delivered
  /\ Finish(e, "returned")
  /\ UNCHANGED <<request, locals, landed, faults, store>>

-----------------------------------------------------------------------------
(* Recording and announcing a failure *)

RecordFailed(e) ==
  /\ Reply(e, "record_failed")
  /\ Goto(e, "replace_failed")
  /\ UNCHANGED <<locals, outcome>>

ReplaceFailed(e) ==
  /\ Reply(e, "replace_failed")
  /\ Goto(e, "emit_failed")
  /\ UNCHANGED <<locals, outcome>>

EmitFailed(e) ==
  /\ pc[e] = "emit_failed"
  /\ Deliver(e) \/ UNCHANGED delivered
  /\ Finish(e, IF cause[e] = "cancel" THEN "cancelled" ELSE "raised")
  /\ UNCHANGED <<request, locals, landed, faults, store>>

-----------------------------------------------------------------------------
(* Cancellation and crash *)

\* Mutant: the CancelledError clause publishes the failure without storing it.
CancelUnrecorded(e) ==
  /\ cancels[e] < MaxCancels
  /\ Suspended(e)
  /\ cancels' = [cancels EXCEPT ![e] = @ + 1]
  /\ landed' = [landed EXCEPT ![e] = FALSE]
  /\ UNCHANGED delivered
  /\ IF pc[e] \in GraphPoints
     THEN /\ cause' = [cause EXCEPT ![e] = "cancel"]
          /\ Goto(e, "emit_failed")
          /\ UNCHANGED outcome
     ELSE Finish(e, "cancelled") /\ UNCHANGED cause
  /\ UNCHANGED <<request, results, nextSequence, callbackSequence, faulted, crashes, store>>

\* CancelledError is thrown at the await.  Only the awaits inside the graph's try
\* have a handler; anywhere else it leaves execute at once, from the handlers too.
\* A live event may be on its way to the client when the await is cancelled.
Cancel(e) ==
  /\ cancels[e] < MaxCancels
  /\ Suspended(e)
  /\ cancels' = [cancels EXCEPT ![e] = @ + 1]
  /\ landed' = [landed EXCEPT ![e] = FALSE]
  /\ \/ pc[e] \in EmitPoints /\ Deliver(e)
     \/ UNCHANGED delivered
  /\ IF pc[e] \in GraphPoints
     THEN BeginFailure(e, "cancel") /\ UNCHANGED outcome
     ELSE Finish(e, "cancelled") /\ UNCHANGED cause
  /\ UNCHANGED <<request, results, nextSequence, callbackSequence, faulted, crashes, store>>

\* The process dies with every task in it; nothing at startup looks for runs that
\* were left behind.  Executions still idle are started by the next process.
Crash ==
  /\ crashes < MaxCrashes
  /\ \E e \in Executions : InFlight(e)
  /\ crashes' = crashes + 1
  /\ pc' = [e \in Executions |-> IF InFlight(e) THEN "lost" ELSE pc[e]]
  /\ landed' = [e \in Executions |-> FALSE]
  /\ UNCHANGED <<request, locals, outcome, faulted, cancels, store, delivered>>

-----------------------------------------------------------------------------

\* What the task of e does next, when it is resumed.
Proceed(e) ==
  \/ WriteFails(e) \/ CreateDocument(e) \/ RecordStarted(e) \/ EmitStarted(e)
  \/ Supervise(e) \/ EmitRouting(e) \/ EmitAgentStarted(e)
  \/ Specialize(e) \/ Synthesize(e) \/ EmitResult(e) \/ NodeRaises(e)
  \/ RejectResult(e) \/ AcceptResult(e)
  \/ RecordResult(e) \/ ReplaceCompleted(e)
  \/ TailRouting(e) \/ TailResult(e) \/ EmitCompleted(e)
  \/ RecordFailed(e) \/ ReplaceFailed(e) \/ EmitFailed(e)

\* What the task of e, or the server for it, does next.
Advance(e) == Land(e) \/ Proceed(e)

AllEnded == \A e \in Executions : pc[e] \in {"done", "lost"}

Quiescent == AllEnded /\ UNCHANGED vars

Next ==
  \/ \E e \in Executions : Start(e) \/ Advance(e) \/ Cancel(e)
  \/ Crash
  \/ Quiescent

Spec == Init /\ [][Next]_vars

\* The event loop runs a resumed task, every awaited call of the graph and of the
\* database has a timeout.  Nobody has to start, cancel or crash anything.
FairSpec == Spec /\ \A e \in Executions : WF_vars(Advance(e))

-----------------------------------------------------------------------------
(* Properties *)

TypeOK ==
  /\ persisted \in [Executions -> BOOLEAN]
  /\ listening \in [Executions -> {"no", "live", "after"}]
  /\ pc \in [Executions -> Points]
  /\ results \in [Executions -> 0..ResultCount]
  /\ nextSequence \in [Executions -> Positions]
  /\ callbackSequence \in [Executions -> Nat]
  /\ cause \in [Executions -> {"none", "error", "cancel"}]
  /\ outcome \in [Executions -> {"pending", "returned", "raised", "cancelled"}]
  /\ landed \in [Executions -> BOOLEAN]
  /\ faulted \in [Executions -> BOOLEAN]
  /\ cancels \in [Executions -> Nat]
  /\ crashes \in Nat
  /\ document \in [Executions -> {"none", "running", "completed", "failed"}]
  /\ history \in [Executions -> [Positions -> EventTypes \cup {NoEvent}]]
  /\ delivered \in [Executions -> Seq([sequence : Nat, type : EventTypes])]

Terminal == {"completed", "failed"}

\* The first n events of a run that goes well, and nothing after them.
HasPrefix(e, n) ==
  \A s \in Positions : history[e][s] = IF s < n THEN PlannedEvent(s) ELSE NoEvent

HasFailed(e) ==
  /\ history[e][0] = "execution_started"
  /\ history[e][1] = "execution_failed"
  /\ \A s \in Positions \ {0, 1} : history[e][s] = NoEvent

\* What the Runs page may conclude from a status: a completed run has its whole
\* history, a failed one exactly its start and its failure, an unfinished one a
\* prefix of either.  It rests on the order in which execute and _persist_failure
\* write, and has to survive every fault, cancellation and crash in between.
Backed(e) ==
  /\ document[e] = "none" => HasPrefix(e, 0)
  /\ document[e] = "running" =>
       HasFailed(e) \/ \E n \in 0..(ResultCount + 3) : HasPrefix(e, n)
  /\ document[e] = "completed" => HasPrefix(e, ResultCount + 3)
  /\ document[e] = "failed" => HasFailed(e)

StatusBackedByHistory == \A e \in Executions : Backed(e)

\* The failure event reuses sequence number 1, which the first event of a result
\* also uses.  No insert ever meets the unique index on (execution_id, sequence).
NoSequenceConflict ==
  \A e \in Executions :
    pc[e] \in InsertPoints /\ ~landed[e] => history[e][nextSequence[e]] = NoEvent

HasDelivered(e, type) == \E i \in DOMAIN delivered[e] : delivered[e][i].type = type

\* A client that has seen the closing event of a persisted run finds that run
\* closed in MongoDB, unless recording the failure itself met a database error:
\* live events are published after the write they report.
AnnouncedOutcomeIsStored ==
  \A e \in Executions : persisted[e] =>
    /\ HasDelivered(e, "execution_completed") => document[e] = "completed"
    /\ HasDelivered(e, "execution_failed") => document[e] = "failed" \/ faulted[e]

\* What the caller of execute is told agrees with what is stored: a returned run is
\* completed, a run that raised without a database error is failed, and a run that
\* a single cancellation stopped inside the graph is failed too.
OutcomeAgrees(e) ==
  persisted[e] =>
    /\ outcome[e] = "returned" => document[e] = "completed"
    /\ outcome[e] = "raised" /\ ~faulted[e] => document[e] = "failed"
    /\ outcome[e] = "cancelled" /\ cause[e] = "cancel" /\ cancels[e] = 1 /\ ~faulted[e]
         => document[e] = "failed"

OutcomeMatchesStore == \A e \in Executions : OutcomeAgrees(e)

\* The client sees events in the order of their sequence numbers, each number once,
\* and nothing after a closing event.  The one exception is the failure published
\* for a cancelled run, which may repeat the number of the event being sent.
LiveEventsOrdered ==
  \A e \in Executions : \A j \in DOMAIN delivered[e] : \A i \in 1..(j - 1) :
    LET a == delivered[e][i]
        b == delivered[e][j]
    IN  /\ a.type \notin {"execution_completed", "execution_failed"}
        /\ \/ a.sequence < b.sequence
           \/ a.sequence = b.sequence /\ b.type = "execution_failed" /\ cause[e] = "cancel"

\* Once the stored status is final neither it nor the history changes any more,
\* whatever is still in flight for the run.
FinalRunsAreFrozen ==
  [][\A e \in Executions : document[e] \in Terminal =>
       document'[e] = document[e] /\ history'[e] = history[e]]_vars

\* Every execution that was started ends: no await is left that nothing answers.  And
\* a run whose document was created is eventually closed, unless a database error, a
\* cancellation or the death of the process came in between.
EveryRunSettles ==
  \A e \in Executions :
    /\ InFlight(e) ~> ~InFlight(e)
    /\ document[e] = "running" ~>
         document[e] \in Terminal \/ faulted[e] \/ cancels[e] > 0 \/ pc[e] = "lost"

\* The claim of the README on persistence: after the request of a persisted run has
\* finished, and no database call failed, the run is not shown as running any more.
FinishedRunsAreInspectable ==
  \A e \in Executions :
    outcome[e] # "pending" /\ ~faulted[e] => document[e] # "running"

\* The claim of the event tests: the numbers of the delivered events are distinct.
LiveSequenceUnique ==
  \A e \in Executions : \A i, j \in DOMAIN delivered[e] :
    i # j => delivered[e][i].sequence # delivered[e][j].sequence

-----------------------------------------------------------------------------
(* The inductive invariant *)

Stored(e, status, n) == document[e] = status /\ HasPrefix(e, n)

\* What is stored for a persisted run at each point of its task.
StoreAtPoint(e) ==
  /\ pc[e] = "create_document" =>
       Stored(e, IF landed[e] THEN "running" ELSE "none", 0) /\ nextSequence[e] = 0
  /\ pc[e] = "record_started" =>
       Stored(e, "running", IF landed[e] THEN 1 ELSE 0) /\ nextSequence[e] = 0
  /\ pc[e] = "emit_started" => Stored(e, "running", 1)
  /\ pc[e] \in GraphPoints \cup {"check"} => Stored(e, "running", 1)
  /\ pc[e] = "record_result" =>
       /\ Stored(e, "running", nextSequence[e] + (IF landed[e] THEN 1 ELSE 0))
       /\ nextSequence[e] >= 1
  /\ pc[e] = "replace_completed" =>
       Stored(e, IF landed[e] THEN "completed" ELSE "running", ResultCount + 3)
  /\ pc[e] \in {"tail_routing", "tail_result", "emit_completed"} =>
       Stored(e, "completed", ResultCount + 3)
  /\ pc[e] = "record_failed" =>
       /\ document[e] = "running" /\ nextSequence[e] = 1
       /\ IF landed[e] THEN HasFailed(e) ELSE HasPrefix(e, 1)
  /\ pc[e] = "replace_failed" =>
       /\ document[e] = IF landed[e] THEN "failed" ELSE "running"
       /\ HasFailed(e)
  /\ pc[e] = "emit_failed" => document[e] = "failed" \/ faulted[e]

StoreInvAt(e) ==
  /\ Backed(e)
  /\ landed[e] => pc[e] \in WritePoints
  /\ pc[e] \in WritePoints => persisted[e]
  /\ pc[e] \in {"idle", "emit_started"} => nextSequence[e] = 0
  /\ pc[e] \in GraphPoints \cup {"check"} => nextSequence[e] = 1
  /\ pc[e] = "idle" \/ ~persisted[e] => document[e] = "none"
  /\ persisted[e] => StoreAtPoint(e)

StoreInv == \A e \in Executions : StoreInvAt(e)

\* How the task got where it is: a failure has a cause, a cancellation counts, and
\* only an ended task has an outcome.
ControlInvAt(e) ==
  /\ outcome[e] # "pending" => pc[e] = "done"
  /\ pc[e] \in {"record_failed", "replace_failed", "emit_failed"} => cause[e] # "none"
  /\ cause[e] # "none" =>
       pc[e] \in {"record_failed", "replace_failed", "emit_failed", "done", "lost"}
  /\ cause[e] = "cancel" => cancels[e] >= 1
  /\ pc[e] \in {"idle", "create_document", "record_started", "emit_started", "supervisor",
                "emit_routing", "emit_agent_started", "specialist"} => results[e] = 0
  /\ pc[e] = "emit_result" => results[e] >= 1
  /\ pc[e] = "synthesizer" => results[e] = 1

ControlInv == \A e \in Executions : ControlInvAt(e)

IInv == TypeOK /\ StoreInv /\ ControlInv /\ OutcomeMatchesStore

-----------------------------------------------------------------------------
(* Refinement *)

StoredPositions(e) == {s \in Positions : history[e][s] # NoEvent}

StoredLog == [e \in Executions |->
               [i \in 1..Cardinality(StoredPositions(e)) |-> history[e][i - 1]]]

Abstract == INSTANCE RunHistory WITH status <- document, log <- StoredLog

\* The store behaves as RunHistory says: one event at a time in a fixed order with
\* no gap, and the status follows the event that announces it.
ImplementsRunHistory == Abstract!Spec

=============================================================================

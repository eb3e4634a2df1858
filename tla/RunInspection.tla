--------------------------- MODULE RunInspection ---------------------------
(***************************************************************************)
(* GET /executions/{id} (api/routes/executions.py, get_execution) beside   *)
(* the executions themselves.  The route reads the status document and     *)
(* then, in a second call, the workflow events: the execution may write in *)
(* between, so what the route returns is no snapshot.                      *)
(***************************************************************************)
EXTENDS MultiAgentExecution

CONSTANTS
  Requests,        \* concurrent GET requests
  MaxEvents        \* the limit the route passes to list_for_execution

\* The route passes 100; a run has at most one event per position.
ASSUME MaxEventsOK == MaxEvents \in Nat /\ MaxEvents >= ResultCount + 3

VARIABLES
  step,            \* step[r]: "ready", "events" (document read), or the response
  asked,           \* asked[r]: the execution whose details are read
  seenStatus,      \* the status in the document that was read
  seenEvents       \* the events that were read, by sequence number

readers == <<step, asked, seenStatus, seenEvents>>

InspectionInit ==
  /\ Init
  /\ step = [r \in Requests |-> "ready"]
  /\ asked \in [Requests -> Executions]
  /\ seenStatus = [r \in Requests |-> "none"]
  /\ seenEvents = [r \in Requests |-> [s \in Positions |-> NoEvent]]

\* A missing document is answered with 404, a RepositoryError with 503.
ReadDocument(r) ==
  /\ step[r] = "ready"
  /\ seenStatus' = [seenStatus EXCEPT ![r] = document[asked[r]]]
  /\ step' = [step EXCEPT ![r] = IF document[asked[r]] = "none" THEN "404" ELSE "events"]
  /\ UNCHANGED <<vars, asked, seenEvents>>

\* Sorted by sequence number, at most MaxEvents of them.
ReadEvents(r) ==
  /\ step[r] = "events"
  /\ seenEvents' = [seenEvents EXCEPT ![r] =
       [s \in Positions |->
          IF Cardinality({p \in StoredPositions(asked[r]) : p < s}) < MaxEvents
          THEN history[asked[r]][s] ELSE NoEvent]]
  /\ step' = [step EXCEPT ![r] = "200"]
  /\ UNCHANGED <<vars, asked, seenStatus>>

ReadFails(r) ==
  /\ DatabaseFaults
  /\ step[r] \in {"ready", "events"}
  /\ step' = [step EXCEPT ![r] = "503"]
  /\ UNCHANGED <<vars, asked, seenStatus, seenEvents>>

InspectionNext ==
  \/ Next /\ UNCHANGED readers
  \/ \E r \in Requests : ReadDocument(r) \/ ReadEvents(r) \/ ReadFails(r)

InspectionSpec == InspectionInit /\ [][InspectionNext]_<<vars, readers>>

-----------------------------------------------------------------------------

\* What a response shows is a history that was possible, although it is read in two
\* steps while the run goes on.  A closed run is shown whole: every event of a completed
\* run, the failure of a failed one.  The route reads the status first and execute
\* writes it last.  No event is missing between two that are shown.
ResponsesTellTheStory ==
  \A r \in Requests :
    /\ step[r] = "200" /\ seenStatus[r] = "completed" =>
         \A s \in Positions : seenEvents[r][s] = PlannedEvent(s)
    /\ step[r] = "200" /\ seenStatus[r] = "failed" => seenEvents[r][1] = "execution_failed"
    /\ \A s \in Positions : \A p \in 0..s :
         seenEvents[r][s] # NoEvent => seenEvents[r][p] # NoEvent

=============================================================================

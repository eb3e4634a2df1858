----------------------------- MODULE RunHistory -----------------------------
(***************************************************************************)
(* What a reader of MongoDB may rely on for a persisted multi-agent run:   *)
(* its status document and its workflow events, and nothing of how the     *)
(* service produces them.  MultiAgentExecution implements this module.     *)
(*                                                                         *)
(* A run is opened once, its events are appended in one fixed order, and   *)
(* the status is closed only after the event that announces the closing.   *)
(***************************************************************************)
EXTENDS Naturals, Sequences

CONSTANT
  Executions       \* the identifiers of the runs (one uuid4 per execute call)

VARIABLES
  status,          \* status[e]: "none" before the document exists, then its status
  log              \* log[e]: the event types of e in sequence-number order

vars == <<status, log>>

EventTypes == {"execution_started", "routing_completed", "agent_result",
               "execution_completed", "execution_failed"}

Statuses == {"none", "running", "completed", "failed"}

TypeOK ==
  /\ status \in [Executions -> Statuses]
  /\ log \in [Executions -> Seq(EventTypes)]

Init ==
  /\ status = [e \in Executions |-> "none"]
  /\ log = [e \in Executions |-> <<>>]

(***************************************************************************)
(* The grammar of a history: started, then either a failure or a routing,  *)
(* the results of the specialist and of the synthesizer, and completion.   *)
(***************************************************************************)
MayFollow(l) ==
  CASE Len(l) = 0 -> {"execution_started"}
    [] Len(l) = 1 -> {"routing_completed", "execution_failed"}
    [] Len(l) \in {2, 3} /\ l[2] = "routing_completed" -> {"agent_result"}
    [] Len(l) = 4 -> {"execution_completed"}
    [] OTHER -> {}

Open(e) ==
  /\ status[e] = "none"
  /\ status' = [status EXCEPT ![e] = "running"]
  /\ UNCHANGED log

AppendEvent(e) ==
  /\ status[e] = "running"
  /\ \E t \in MayFollow(log[e]) : log' = [log EXCEPT ![e] = Append(@, t)]
  /\ UNCHANGED status

Close(e) ==
  /\ status[e] = "running"
  /\ log[e] # <<>>
  /\ \/ /\ log[e][Len(log[e])] = "execution_completed"
        /\ status' = [status EXCEPT ![e] = "completed"]
     \/ /\ log[e][Len(log[e])] = "execution_failed"
        /\ status' = [status EXCEPT ![e] = "failed"]
  /\ UNCHANGED log

Next == \E e \in Executions : Open(e) \/ AppendEvent(e) \/ Close(e)

Spec == Init /\ [][Next]_vars

=============================================================================

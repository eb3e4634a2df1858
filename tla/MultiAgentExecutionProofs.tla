--------------------- MODULE MultiAgentExecutionProofs ---------------------
(***************************************************************************)
(* What holds of MultiAgentExecution for every value of its constants.     *)
(* IInv is shown inductive along the three kinds of steps: a task moves    *)
(* without touching the store, a write lands, the process dies.  The       *)
(* safety properties follow from it.  Two more invariants say what was     *)
(* delivered: AnnounceInv when a closing event is, OrderInv in what order. *)
(* InspectionInv adds what a reader knows between its two reads, and the   *)
(* last section maps every step of an execution to a step of RunHistory.   *)
(***************************************************************************)
EXTENDS RunInspection, FiniteSetTheorems, TLAPS

Event == [sequence : Nat, type : EventTypes]

\* Every emit point publishes an event of a known type.
LEMMA EmittedTypeTyped ==
  ASSUME NEW e \in Executions
  PROVE  EmittedType(e) \in EventTypes
BY DEF EmittedType, EventTypes

\* Handing an event to the callback keeps every client's list a list of events.
LEMMA DeliverTyped ==
  ASSUME TypeOK, NEW e \in Executions, Deliver(e)
  PROVE  delivered' \in [Executions -> Seq(Event)]
<1> DEFINE ev == [sequence |-> callbackSequence[e], type |-> EmittedType(e)]
<1>1. ev \in Event
  BY EmittedTypeTyped DEF TypeOK, Event
<1>2. delivered[e] \in Seq(Event) /\ delivered \in [Executions -> Seq(Event)]
  BY DEF TypeOK, Event
<1>3. Append(delivered[e], ev) \in Seq(Event)
  BY <1>1, <1>2
<1>4. delivered' = [delivered EXCEPT ![e] = Append(delivered[e], ev)]
  BY DEF Deliver
<1> HIDE DEF ev
<1> QED
  BY <1>2, <1>3, <1>4

\* A live event leaves the state well typed, whatever the task does with next_sequence.
LEMMA EmitTyped ==
  ASSUME TypeOK, NEW e \in Executions, NEW point, NEW next \in Points, Emit(e, point, next),
         nextSequence' \in [Executions -> Positions]
  PROVE  TypeOK'
<1>1. delivered' \in [Executions -> Seq(Event)]
  BY DeliverTyped DEF Emit, TypeOK, Event
<1>2. callbackSequence' \in [Executions -> Nat]
  BY DEF Emit, TypeOK
<1>3. pc' \in [Executions -> Points]
  BY DEF Emit, Goto, TypeOK
<1>4. UNCHANGED <<request, results, cause, outcome, landed, faults, store>>
  BY DEF Emit
<1> QED
  BY <1>1, <1>2, <1>3, <1>4 DEF TypeOK, Event, request, faults, store

\* A write the server applies leaves the state well typed: an insert only ever fills a
\* position of the history with a known event type.
LEMMA LandTyped ==
  ASSUME TypeOK, NEW e \in Executions, Land(e)
  PROVE  TypeOK'
<1>1. document' \in [Executions -> {"none", "running", "completed", "failed"}]
  <2>1. WrittenStatus(e) \in {"none", "running", "completed", "failed"}
    BY DEF WrittenStatus
  <2>2. document \in [Executions -> {"none", "running", "completed", "failed"}]
    BY DEF TypeOK
  <2>3. document' = document \/ document' = [document EXCEPT ![e] = WrittenStatus(e)]
    BY DEF Land, LandEvent, LandStatus
  <2> QED
    BY <2>1, <2>2, <2>3
<1>2. InsertedEvent(e) \in EventTypes
  BY DEF InsertedEvent, PlannedEvent, EventTypes
<1>3. history' \in [Executions -> [Positions -> EventTypes \cup {NoEvent}]]
  <2>1. CASE LandEvent(e)
    <3>1. [history[e] EXCEPT ![nextSequence[e]] = InsertedEvent(e)]
            \in [Positions -> EventTypes \cup {NoEvent}]
      BY <1>2 DEF TypeOK
    <3>2. history' = [history EXCEPT ![e] =
                        [history[e] EXCEPT ![nextSequence[e]] = InsertedEvent(e)]]
      BY <2>1 DEF LandEvent
    <3> QED
      BY <3>1, <3>2 DEF TypeOK
  <2>2. CASE LandStatus(e)
    BY <2>2 DEF LandStatus, TypeOK
  <2> QED
    BY <2>1, <2>2 DEF Land
<1>4. landed' \in [Executions -> BOOLEAN]
  BY DEF Land, TypeOK
<1>5. UNCHANGED <<request, pc, locals, outcome, faults, delivered>>
  BY DEF Land
<1> QED
  BY <1>1, <1>3, <1>4, <1>5 DEF TypeOK, request, locals, faults

\* Every step keeps the types; the rest of IInv bounds the counters.
LEMMA TypeStep == IInv /\ [Next]_vars => TypeOK'
<1> SUFFICES ASSUME IInv, [Next]_vars PROVE TypeOK'
  OBVIOUS
<1>0. TypeOK
  BY DEF IInv
<1> USE <1>0 DEF request, locals, store, faults
<1> USE DEF Goto, Points, GraphPoints, InsertPoints, StatusPoints, WritePoints, EmitPoints
<1>1. ASSUME NEW e \in Executions, Land(e) PROVE TypeOK'
  BY <1>1, LandTyped
<1>2. ASSUME NEW e \in Executions, WriteFails(e) PROVE TypeOK'
  BY <1>2 DEF WriteFails, Finish, TypeOK
<1>5. ASSUME NEW e \in Executions, EmitStarted(e) PROVE TypeOK'
  <2>1. nextSequence' \in [Executions -> Positions]
    BY <1>5 DEF EmitStarted, Emit, IInv, StoreInv, StoreInvAt, TypeOK, Positions, ResultCount
  <2> QED
    BY <1>5, <2>1, EmitTyped DEF EmitStarted
<1>7. ASSUME NEW e \in Executions,
             EmitRouting(e) \/ EmitAgentStarted(e) \/ TailRouting(e)
      PROVE  TypeOK'
  <2>1. nextSequence' \in [Executions -> Positions]
    BY <1>7 DEF EmitRouting, EmitAgentStarted, TailRouting, TypeOK
  <2> QED
    BY <1>7, <2>1, EmitTyped DEF EmitRouting, EmitAgentStarted, TailRouting
<1>15. ASSUME NEW e \in Executions, RecordResult(e) PROVE TypeOK'
  <2>1. pc' \in [Executions -> Points]
    BY <1>15 DEF RecordResult, TypeOK
  <2>2. nextSequence' \in [Executions -> Positions]
    <3>1. CASE nextSequence[e] < ResultCount + 2
      <4>0. nextSequence[e] \in Positions
        BY DEF TypeOK
      <4>1. nextSequence[e] + 1 \in Positions
        BY <3>1, <4>0 DEF Positions, ResultCount
      <4> QED
        BY <1>15, <3>1, <4>1 DEF RecordResult, TypeOK
    <3> QED
      BY <1>15, <3>1 DEF RecordResult, TypeOK
  <2> QED
    BY <1>15, <2>1, <2>2 DEF RecordResult, Reply, TypeOK
<1>19. ASSUME NEW e \in Executions, EmitCompleted(e) PROVE TypeOK'
  <2>1. delivered' \in [Executions -> Seq(Event)]
    BY <1>19, DeliverTyped DEF EmitCompleted, TypeOK, Event
  <2> QED
    BY <1>19, <2>1 DEF EmitCompleted, Finish, TypeOK, Event
<1>24. ASSUME NEW e \in Executions, Cancel(e) PROVE TypeOK'
  <2>1. delivered' \in [Executions -> Seq(Event)]
    BY <1>24, DeliverTyped DEF Cancel, TypeOK, Event
  <2>2. /\ pc' \in [Executions -> Points]
        /\ cause' \in [Executions -> {"none", "error", "cancel"}]
        /\ outcome' \in [Executions -> {"pending", "returned", "raised", "cancelled"}]
    <3>1. CASE BeginFailure(e, "cancel") /\ UNCHANGED outcome
      BY <3>1 DEF BeginFailure, TypeOK
    <3>2. CASE Finish(e, "cancelled") /\ UNCHANGED cause
      BY <3>2 DEF Finish, TypeOK
    <3> QED
      BY <1>24, <3>1, <3>2 DEF Cancel
  <2>3. /\ landed' \in [Executions -> BOOLEAN]
        /\ cancels' \in [Executions -> Nat]
    BY <1>24 DEF Cancel, TypeOK
  <2>4. UNCHANGED <<request, results, nextSequence, callbackSequence, faulted, crashes, store>>
    BY <1>24 DEF Cancel
  <2> QED
    BY <2>1, <2>2, <2>3, <2>4 DEF TypeOK, Event
<1>25. ASSUME NEW e \in Executions,
              CreateDocument(e) \/ RecordStarted(e) \/ RecordFailed(e) \/ ReplaceFailed(e)
       PROVE  TypeOK'
  <2>1. pc' \in [Executions -> Points]
    BY <1>25 DEF CreateDocument, RecordStarted, RecordFailed, ReplaceFailed, TypeOK
  <2>2. landed' \in [Executions -> BOOLEAN]
    BY <1>25 DEF CreateDocument, RecordStarted, RecordFailed, ReplaceFailed, Reply, TypeOK
  <2>3. UNCHANGED <<request, locals, outcome, faults, store, delivered>>
    BY <1>25 DEF CreateDocument, RecordStarted, RecordFailed, ReplaceFailed, Reply
  <2> QED
    BY <2>1, <2>2, <2>3 DEF TypeOK
<1>26. ASSUME NEW e \in Executions, ReplaceCompleted(e) \/ AcceptResult(e) PROVE TypeOK'
  <2>1. pc' \in [Executions -> Points]
    <3>1. AfterPersistence(e) \in {"emit_completed", "tail_routing"}
      BY DEF AfterPersistence
    <3>2. pc \in [Executions -> Points]
      BY DEF TypeOK
    <3>3. \E q \in {"record_result", "emit_completed", "tail_routing"} :
             pc' = [pc EXCEPT ![e] = q]
      BY <1>26, <3>1 DEF ReplaceCompleted, AcceptResult
    <3> QED
      BY <3>2, <3>3
  <2>2. landed' \in [Executions -> BOOLEAN]
    BY <1>26 DEF ReplaceCompleted, AcceptResult, Reply, TypeOK
  <2>3. UNCHANGED <<request, locals, outcome, faults, store, delivered>>
    BY <1>26 DEF ReplaceCompleted, AcceptResult, Reply
  <2> QED
    BY <2>1, <2>2, <2>3 DEF TypeOK
<1>27. ASSUME NEW e \in Executions, Start(e) PROVE TypeOK'
  <2>1. PICK p \in BOOLEAN, l \in Modes :
          /\ persisted' = [persisted EXCEPT ![e] = p]
          /\ listening' = [listening EXCEPT ![e] = l]
          /\ Goto(e, IF p THEN "create_document" ELSE "emit_started")
    BY <1>27 DEF Start
  <2>2. pc' \in [Executions -> Points]
    BY <2>1 DEF TypeOK
  <2>3. /\ persisted' \in [Executions -> BOOLEAN]
        /\ listening' \in [Executions -> {"no", "live", "after"}]
    BY <2>1, ConstantsOK DEF TypeOK
  <2>4. UNCHANGED <<locals, outcome, landed, faults, store, delivered>>
    BY <1>27 DEF Start
  <2> QED
    BY <2>2, <2>3, <2>4 DEF TypeOK
<1>28. ASSUME NEW e \in Executions, Supervise(e) PROVE TypeOK'
  BY <1>28 DEF Supervise, NodeEnds, TypeOK
<1>29. ASSUME NEW e \in Executions, Specialize(e) \/ Synthesize(e) PROVE TypeOK'
  <2>1. results[e] + 1 \in 0..ResultCount
    BY <1>29 DEF Specialize, Synthesize, NodeEnds, IInv, ControlInv, ControlInvAt, ResultCount
  <2>2. results' \in [Executions -> 0..ResultCount]
    BY <1>29, <2>1 DEF Specialize, Synthesize, TypeOK
  <2>3. pc' \in [Executions -> Points]
    BY <1>29 DEF Specialize, Synthesize, TypeOK
  <2>4. UNCHANGED <<request, nextSequence, callbackSequence, cause, outcome, landed, faults,
                    store, delivered>>
    BY <1>29 DEF Specialize, Synthesize, NodeEnds
  <2> QED
    BY <2>2, <2>3, <2>4 DEF TypeOK
<1>30. ASSUME NEW e \in Executions, EmitResult(e) \/ TailResult(e) PROVE TypeOK'
  <2>1. nextSequence' \in [Executions -> Positions]
    BY <1>30 DEF EmitResult, TailResult, TypeOK
  <2> QED
    BY <1>30, <2>1, EmitTyped DEF EmitResult, TailResult
<1>31. ASSUME NEW e \in Executions, NodeRaises(e) PROVE TypeOK'
  BY <1>31 DEF NodeRaises, BeginFailure, TypeOK
<1>32. ASSUME NEW e \in Executions, RejectResult(e) PROVE TypeOK'
  <2>0. nextSequence[e] \in Positions
    BY <1>32 DEF TypeOK
  <2>1. nextSequence[e] \in Nat
    BY <2>0 DEF Positions, ResultCount
  <2>2. callbackSequence' \in [Executions -> Nat]
    BY <1>32, <2>1 DEF RejectResult, TypeOK
  <2>3. /\ pc' \in [Executions -> Points]
        /\ cause' \in [Executions -> {"none", "error", "cancel"}]
    BY <1>32 DEF RejectResult, BeginFailure, TypeOK
  <2>4. UNCHANGED <<request, results, nextSequence, outcome, landed, faults, store, delivered>>
    BY <1>32 DEF RejectResult
  <2> QED
    BY <2>2, <2>3, <2>4 DEF TypeOK
<1>33. ASSUME NEW e \in Executions, EmitFailed(e) PROVE TypeOK'
  <2>1. delivered' \in [Executions -> Seq(Event)]
    BY <1>33, DeliverTyped DEF EmitFailed, TypeOK, Event
  <2> QED
    BY <1>33, <2>1 DEF EmitFailed, Finish, TypeOK, Event
<1>34. CASE Crash
  <2>1. pc' \in [Executions -> Points]
    BY <1>34 DEF Crash, TypeOK
  <2>2. crashes' \in Nat /\ landed' \in [Executions -> BOOLEAN]
    BY <1>34 DEF Crash, TypeOK
  <2> QED
    BY <1>34, <2>1, <2>2 DEF Crash, TypeOK
<1>35. CASE UNCHANGED vars
  BY <1>35 DEF vars, TypeOK
<1> QED
  BY <1>1, <1>2, <1>5, <1>7, <1>15, <1>19, <1>24, <1>25, <1>26, <1>27, <1>28, <1>29,
     <1>30, <1>31, <1>32, <1>33, <1>34, <1>35 DEF Next, Advance, Proceed, Quiescent

Same(x) ==
  /\ persisted'[x] = persisted[x] /\ pc'[x] = pc[x] /\ results'[x] = results[x]
  /\ nextSequence'[x] = nextSequence[x] /\ cause'[x] = cause[x] /\ outcome'[x] = outcome[x]
  /\ landed'[x] = landed[x] /\ faulted'[x] = faulted[x] /\ cancels'[x] = cancels[x]
  /\ document'[x] = document[x] /\ history'[x] = history[x]

\* Executions share nothing: a step of one task changes nothing of another's.
LEMMA OthersAreLeftAlone ==
  ASSUME TypeOK, NEW e \in Executions, NEW x \in Executions \ {e},
         Start(e) \/ Advance(e) \/ Cancel(e)
  PROVE  Same(x)
<1> USE DEF Same, TypeOK, Goto, request, locals, store, faults
<1>1. CASE Start(e)
  BY <1>1 DEF Start
<1>2. CASE Cancel(e)
  BY <1>2 DEF Cancel, BeginFailure, Finish
<1>3. CASE Land(e)
  BY <1>3 DEF Land, LandEvent, LandStatus
<1>4. CASE WriteFails(e)
  BY <1>4 DEF WriteFails, Finish
<1>5. CASE \/ CreateDocument(e) \/ RecordStarted(e) \/ RecordResult(e)
           \/ ReplaceCompleted(e) \/ RecordFailed(e) \/ ReplaceFailed(e)
  BY <1>5 DEF CreateDocument, RecordStarted, RecordResult, ReplaceCompleted,
              RecordFailed, ReplaceFailed, Reply
<1>6. CASE \/ EmitStarted(e) \/ EmitRouting(e) \/ EmitAgentStarted(e) \/ EmitResult(e)
           \/ TailRouting(e) \/ TailResult(e)
  BY <1>6 DEF EmitStarted, EmitRouting, EmitAgentStarted, EmitResult,
              TailRouting, TailResult, Emit
<1>7. CASE EmitCompleted(e) \/ EmitFailed(e)
  BY <1>7 DEF EmitCompleted, EmitFailed, Finish
<1>8. CASE Supervise(e) \/ Specialize(e) \/ Synthesize(e)
  BY <1>8 DEF Supervise, Specialize, Synthesize, NodeEnds
<1>9. CASE NodeRaises(e) \/ RejectResult(e) \/ AcceptResult(e)
  BY <1>9 DEF NodeRaises, RejectResult, AcceptResult, BeginFailure
<1> QED
  BY <1>1, <1>2, <1>3, <1>4, <1>5, <1>6, <1>7, <1>8, <1>9 DEF Advance, Proceed

\* An execution nothing of which changed keeps its part of the invariant.
LEMMA FramePreserves ==
  ASSUME NEW x \in Executions, Same(x), IInv
  PROVE  StoreInvAt(x)' /\ ControlInvAt(x)' /\ OutcomeAgrees(x)'
<1>1. /\ \A n : HasPrefix(x, n)' <=> HasPrefix(x, n)
      /\ HasFailed(x)' <=> HasFailed(x)
  BY DEF HasPrefix, HasFailed, Same
<1>2. Backed(x)' <=> Backed(x)
  BY <1>1 DEF Backed, Same
<1>3. StoreAtPoint(x)' <=> StoreAtPoint(x)
  BY <1>1 DEF StoreAtPoint, Stored, Same
<1> QED
  BY <1>2, <1>3 DEF Same, IInv, StoreInv, StoreInvAt, ControlInv, ControlInvAt,
                    OutcomeMatchesStore, OutcomeAgrees

\* A step of a task, or a cancellation of it, keeps the task's part of the invariant:
\* one step per action of Proceed.
LEMMA ActorPreserves ==
  ASSUME IInv, NEW e \in Executions,
         Start(e) \/ Proceed(e) \/ Cancel(e), UNCHANGED store
  PROVE  StoreInvAt(e)' /\ ControlInvAt(e)' /\ OutcomeAgrees(e)'
<1>1. /\ \A n : HasPrefix(e, n)' <=> HasPrefix(e, n)
      /\ HasFailed(e)' <=> HasFailed(e)
  BY DEF HasPrefix, HasFailed, store
<1>2. Backed(e)' <=> Backed(e)
  BY <1>1 DEF Backed, store
<1>3. TypeOK /\ StoreInvAt(e) /\ ControlInvAt(e) /\ OutcomeAgrees(e)
  BY DEF IInv, StoreInv, ControlInv, OutcomeMatchesStore
<1> USE <1>1, <1>2, <1>3 DEF StoreInvAt, StoreAtPoint, Stored, ControlInvAt, OutcomeAgrees, TypeOK
<1> USE DEF Goto, request, locals, store, faults, Same, GraphPoints, InsertPoints, StatusPoints, WritePoints, EmitPoints
<1>4. CASE CreateDocument(e)
  BY <1>4 DEF CreateDocument, Reply
<1>5. CASE RecordStarted(e)
  BY <1>5 DEF RecordStarted, Reply
<1>6. CASE ReplaceFailed(e)
  BY <1>6 DEF ReplaceFailed, Reply
<1>7. CASE RecordFailed(e)
  BY <1>7 DEF RecordFailed, Reply
<1>8. CASE RecordResult(e)
  <2>1. nextSequence[e] \in 1..(ResultCount + 2)
    BY <1>8 DEF RecordResult, Reply, Positions, ResultCount
  <2>2. /\ document[e] = "running" /\ persisted[e]
        /\ HasPrefix(e, nextSequence[e] + 1)
    BY <1>8 DEF RecordResult, Reply
  <2>3. CASE nextSequence[e] < ResultCount + 2
    <3>1. /\ nextSequence'[e] = nextSequence[e] + 1
          /\ nextSequence'[e] >= 1
          /\ landed'[e] = FALSE /\ pc' = pc /\ pc[e] = "record_result"
      BY <1>8, <2>1, <2>3 DEF RecordResult, Reply, ResultCount
    <3>2. HasPrefix(e, nextSequence'[e] + 0)
      BY <2>1, <2>2, <3>1 DEF ResultCount
    <3> QED
      BY <1>8, <2>2, <3>1, <3>2 DEF RecordResult, Reply
  <2>4. CASE ~ nextSequence[e] < ResultCount + 2
    <3>1. nextSequence[e] + 1 = ResultCount + 3
      BY <2>1, <2>4 DEF ResultCount
    <3> QED
      BY <1>8, <2>2, <2>4, <3>1 DEF RecordResult, Reply
  <2> QED
    BY <2>3, <2>4
<1>9. CASE ReplaceCompleted(e)
  BY <1>9 DEF ReplaceCompleted, Reply, AfterPersistence
<1>10. CASE WriteFails(e)
  BY <1>10 DEF WriteFails, Finish
<1>11. CASE EmitStarted(e)
  BY <1>11 DEF EmitStarted, Emit
<1>12. CASE EmitRouting(e)
  BY <1>12 DEF EmitRouting, Emit
<1>13. CASE EmitAgentStarted(e)
  BY <1>13 DEF EmitAgentStarted, Emit
<1>14. CASE EmitResult(e)
  <2>1. results[e] < ResultCount => results[e] = 1
    <3>1. results[e] \in 0..ResultCount /\ results[e] >= 1
      BY <1>14 DEF EmitResult, Emit
    <3> QED
      BY <3>1 DEF ResultCount
  <2> QED
    BY <1>14, <2>1 DEF EmitResult, Emit
<1>15. CASE TailRouting(e)
  BY <1>15 DEF TailRouting, Emit
<1>16. CASE TailResult(e)
  BY <1>16 DEF TailResult, Emit
<1>17. CASE EmitCompleted(e)
  BY <1>17 DEF EmitCompleted, Finish
<1>18. CASE EmitFailed(e)
  BY <1>18 DEF EmitFailed, Finish
<1>19. CASE Supervise(e)
  BY <1>19 DEF Supervise, NodeEnds
<1>20. CASE Specialize(e)
  BY <1>20 DEF Specialize, NodeEnds
<1>21. CASE Synthesize(e)
  BY <1>21 DEF Synthesize, NodeEnds
<1>22. CASE NodeRaises(e)
  BY <1>22 DEF NodeRaises, BeginFailure
<1>23. CASE RejectResult(e)
  BY <1>23 DEF RejectResult, BeginFailure
<1>24. CASE AcceptResult(e)
  BY <1>24 DEF AcceptResult, AfterPersistence
<1>25. CASE Start(e)
  <2>1. PICK p \in BOOLEAN :
          /\ persisted' = [persisted EXCEPT ![e] = p]
          /\ pc' = [pc EXCEPT ![e] = IF p THEN "create_document" ELSE "emit_started"]
    BY <1>25 DEF Start
  <2>2. document[e] = "none" /\ HasPrefix(e, 0) /\ ~landed[e] /\ nextSequence[e] = 0
    BY <1>25 DEF Start, Backed
  <2> QED
    BY <1>25, <2>1, <2>2 DEF Start
<1>26. CASE Cancel(e)
  BY <1>26 DEF Cancel, Suspended, BeginFailure, Finish
<1> QED
  BY <1>4, <1>5, <1>6, <1>7, <1>8, <1>9, <1>10, <1>11, <1>12, <1>13, <1>14, <1>15, <1>16,
     <1>17, <1>18, <1>19, <1>20, <1>21, <1>22, <1>23, <1>24, <1>25, <1>26 DEF Proceed

\* A write keeps the writer's part of the invariant: the stored prefix grows by the
\* next event, or the status follows the event it reports.
LEMMA LandPreserves ==
  ASSUME IInv, NEW e \in Executions, Land(e)
  PROVE  StoreInvAt(e)' /\ ControlInvAt(e)' /\ OutcomeAgrees(e)'
<1> DEFINE n == nextSequence[e]
<1>1. TypeOK /\ StoreInvAt(e) /\ ControlInvAt(e) /\ OutcomeAgrees(e)
  BY DEF IInv, StoreInv, ControlInv, OutcomeMatchesStore
<1>2. /\ persisted[e] /\ persisted' = persisted /\ pc' = pc /\ landed[e] = FALSE
      /\ landed'[e] = TRUE /\ nextSequence' = nextSequence /\ results' = results
      /\ outcome' = outcome /\ cause' = cause /\ cancels' = cancels /\ faulted' = faulted
      /\ pc[e] \in WritePoints /\ StoreAtPoint(e) /\ Backed(e)
  BY <1>1 DEF Land, LandEvent, LandStatus, WritePoints, StoreInvAt, TypeOK,
              request, locals, faults
<1>3. ControlInvAt(e)' /\ OutcomeAgrees(e)'
  BY <1>1, <1>2 DEF ControlInvAt, OutcomeAgrees, WritePoints, InsertPoints, StatusPoints
<1>4. CASE LandStatus(e)
  <2>1. /\ \A k : HasPrefix(e, k)' <=> HasPrefix(e, k)
        /\ HasFailed(e)' <=> HasFailed(e)
    BY <1>4 DEF LandStatus, HasPrefix, HasFailed
  <2>2. document'[e] = WrittenStatus(e) /\ pc[e] \in StatusPoints
    BY <1>1, <1>4 DEF LandStatus, TypeOK
  <2>3. Backed(e)'
    <3>1. CASE pc[e] = "create_document"
      BY <1>2, <2>1, <2>2, <3>1 DEF WrittenStatus, StoreAtPoint, Stored, Backed, ResultCount
    <3>2. CASE pc[e] = "replace_completed"
      BY <1>2, <2>1, <2>2, <3>2 DEF WrittenStatus, StoreAtPoint, Stored, Backed
    <3>3. CASE pc[e] = "replace_failed"
      BY <1>2, <2>1, <2>2, <3>3 DEF WrittenStatus, StoreAtPoint, Stored, Backed
    <3> QED
      BY <2>2, <3>1, <3>2, <3>3 DEF StatusPoints
  <2>4. StoreAtPoint(e)'
    BY <1>2, <2>1, <2>2 DEF WrittenStatus, StatusPoints, StoreAtPoint, Stored, GraphPoints
  <2> QED
    BY <1>1, <1>2, <1>3, <2>2, <2>3, <2>4
       DEF StoreInvAt, StatusPoints, WritePoints, GraphPoints
<1>5. CASE LandEvent(e)
  <2>1. /\ document' = document /\ pc[e] \in InsertPoints
        /\ history'[e][n] = InsertedEvent(e)
        /\ \A s \in Positions \ {n} : history'[e][s] = history[e][s]
    BY <1>1, <1>5 DEF LandEvent, TypeOK
  <2>2. n \in Positions
    BY <1>1 DEF TypeOK
  <2>3. CASE pc[e] = "record_started"
    <3>1. n = 0 /\ HasPrefix(e, 0) /\ document[e] = "running"
      BY <1>2, <2>3 DEF StoreAtPoint, Stored
    <3>2. HasPrefix(e, 1)'
      BY <2>1, <2>3, <3>1 DEF HasPrefix, InsertedEvent, PlannedEvent, Positions, ResultCount
    <3>3. Backed(e)'
      BY <2>1, <3>1, <3>2 DEF Backed, ResultCount
    <3> QED
      BY <1>2, <1>3, <2>1, <2>3, <3>1, <3>2, <3>3
         DEF StoreInvAt, StoreAtPoint, Stored, WritePoints, GraphPoints
  <2>4. CASE pc[e] = "record_result"
    <3>1. n \in 1..(ResultCount + 2) /\ HasPrefix(e, n) /\ document[e] = "running"
      <4>1. Stored(e, "running", n + 0) /\ n >= 1
        BY <1>2, <2>4 DEF StoreAtPoint
      <4> QED
        BY <2>2, <4>1 DEF Stored, Positions, ResultCount
    <3>2. HasPrefix(e, n + 1)'
      BY <1>2, <2>1, <2>4, <3>1 DEF HasPrefix, InsertedEvent, Positions, ResultCount
    <3>3. Backed(e)'
      <4>1. n + 1 \in 0..(ResultCount + 3)
        BY <3>1 DEF ResultCount
      <4> QED
        BY <1>2, <2>1, <3>1, <3>2, <4>1 DEF Backed
    <3> QED
      BY <1>2, <1>3, <2>1, <2>4, <3>1, <3>2, <3>3
         DEF StoreInvAt, StoreAtPoint, Stored, WritePoints, GraphPoints
  <2>5. CASE pc[e] = "record_failed"
    <3>1. n = 1 /\ HasPrefix(e, 1) /\ document[e] = "running"
      BY <1>2, <2>5 DEF StoreAtPoint
    <3>2. HasFailed(e)'
      BY <2>1, <2>5, <3>1
         DEF HasPrefix, HasFailed, InsertedEvent, PlannedEvent, Positions, ResultCount
    <3>3. Backed(e)'
      BY <2>1, <3>1, <3>2 DEF Backed
    <3> QED
      BY <1>2, <1>3, <2>1, <2>5, <3>1, <3>2, <3>3
         DEF StoreInvAt, StoreAtPoint, Stored, WritePoints, GraphPoints
  <2> QED
    BY <2>1, <2>3, <2>4, <2>5 DEF InsertPoints
<1> QED
  BY <1>4, <1>5 DEF Land

\* Only Land touches the store.
LEMMA TasksDoNotTouchTheStore ==
  ASSUME NEW e \in Executions, Start(e) \/ Proceed(e) \/ Cancel(e)
  PROVE  UNCHANGED store
BY DEF Start, Proceed, Cancel, WriteFails, CreateDocument, RecordStarted, RecordResult,
       ReplaceCompleted, RecordFailed, ReplaceFailed, Reply, EmitStarted, EmitRouting,
       EmitAgentStarted, EmitResult, TailRouting, TailResult, Emit, EmitCompleted, EmitFailed,
       Supervise, Specialize, Synthesize, NodeEnds, NodeRaises, RejectResult, AcceptResult

\* The death of the process freezes the store where it is, which is backed already.
LEMMA CrashPreserves ==
  ASSUME IInv, Crash, NEW x \in Executions
  PROVE  StoreInvAt(x)' /\ ControlInvAt(x)' /\ OutcomeAgrees(x)'
<1>1. /\ \A n : HasPrefix(x, n)' <=> HasPrefix(x, n)
      /\ HasFailed(x)' <=> HasFailed(x)
  BY DEF Crash, HasPrefix, HasFailed, store
<1>2. Backed(x)' <=> Backed(x)
  BY <1>1 DEF Crash, Backed, store
<1>3. /\ landed'[x] = FALSE
      /\ pc'[x] = IF InFlight(x) THEN "lost" ELSE pc[x]
      /\ outcome' = outcome /\ cause' = cause /\ cancels' = cancels /\ faulted' = faulted
      /\ nextSequence' = nextSequence /\ persisted' = persisted /\ document' = document
      /\ results' = results
  BY DEF Crash, request, locals, store
<1>4. StoreInvAt(x) /\ ControlInvAt(x) /\ OutcomeAgrees(x)
  BY DEF IInv, StoreInv, ControlInv, OutcomeMatchesStore
<1>5. CASE InFlight(x)
  BY <1>1, <1>2, <1>3, <1>4, <1>5
     DEF StoreInvAt, StoreAtPoint, ControlInvAt, OutcomeAgrees, WritePoints, InsertPoints,
         StatusPoints, GraphPoints, InFlight
<1>6. CASE ~InFlight(x)
  BY <1>1, <1>2, <1>3, <1>4, <1>6
     DEF StoreInvAt, StoreAtPoint, ControlInvAt, OutcomeAgrees, WritePoints, InsertPoints,
         StatusPoints, GraphPoints, InFlight
<1> QED
  BY <1>5, <1>6

\* Nothing is stored before anything has started.
LEMMA InitInv == Init => IInv
<1> SUFFICES ASSUME Init PROVE IInv
  OBVIOUS
<1>1. TypeOK
  BY DEF Init, TypeOK, Points, Positions, ResultCount, Event
<1>2. ASSUME NEW e \in Executions PROVE StoreInvAt(e) /\ ControlInvAt(e) /\ OutcomeAgrees(e)
  <2>1. Backed(e)
    BY DEF Init, Backed, HasPrefix, Positions, ResultCount
  <2> QED
    BY <2>1 DEF Init, StoreInvAt, ControlInvAt, OutcomeAgrees, WritePoints, InsertPoints,
                StatusPoints, GraphPoints
<1> QED
  BY <1>1, <1>2 DEF IInv, StoreInv, ControlInv, OutcomeMatchesStore

\* IInv is inductive: the actor keeps its own part, the others are left alone.
LEMMA StepInv == IInv /\ [Next]_vars => IInv'
<1> SUFFICES ASSUME IInv, [Next]_vars PROVE IInv'
  OBVIOUS
<1>1. TypeOK /\ TypeOK'
  BY TypeStep DEF IInv
<1>2. SUFFICES ASSUME NEW x \in Executions
               PROVE  StoreInvAt(x)' /\ ControlInvAt(x)' /\ OutcomeAgrees(x)'
  BY <1>1 DEF IInv, StoreInv, ControlInv, OutcomeMatchesStore
<1>3. ASSUME NEW e \in Executions, Start(e) \/ Advance(e) \/ Cancel(e)
      PROVE  StoreInvAt(x)' /\ ControlInvAt(x)' /\ OutcomeAgrees(x)'
  <2>1. CASE x # e
    BY <1>1, <1>3, <2>1, OthersAreLeftAlone, FramePreserves
  <2>2. CASE x = e /\ Land(e)
    BY <2>2, LandPreserves
  <2>3. CASE x = e /\ (Start(e) \/ Proceed(e) \/ Cancel(e))
    BY <2>3, TasksDoNotTouchTheStore, ActorPreserves
  <2> QED
    BY <1>3, <2>1, <2>2, <2>3 DEF Advance
<1>4. CASE UNCHANGED vars
  BY <1>4, FramePreserves DEF Same, vars, request, locals, faults, store
<1> QED
  BY <1>3, <1>4, CrashPreserves DEF Next, Quiescent

\* Every state satisfies IInv, for every set of executions, with or without streaming,
\* database faults, cancellations and crashes.
THEOREM InductiveInvariant == Spec => []IInv
BY InitInv, StepInv, PTL DEF Spec

\* Every state of every execution is well typed, whatever the bounds are.
THEOREM TypeCorrect == Spec => []TypeOK
BY InductiveInvariant, PTL DEF IInv

\* A stored status never says more than the stored events (StatusBackedByHistory).
THEOREM StatusIsBacked == Spec => []StatusBackedByHistory
<1>1. IInv => StatusBackedByHistory
  BY DEF IInv, StoreInv, StoreInvAt, StatusBackedByHistory
<1> QED
  BY <1>1, InductiveInvariant, PTL

\* What the caller of execute is told is what MongoDB holds (OutcomeMatchesStore).
THEOREM OutcomeIsStored == Spec => []OutcomeMatchesStore
BY InductiveInvariant, PTL DEF IInv

\* No workflow event is refused by the unique index (NoSequenceConflict).
THEOREM SequenceNumbersAreFresh == Spec => []NoSequenceConflict
<1>1. ASSUME IInv, NEW e \in Executions, pc[e] \in InsertPoints, ~landed[e]
      PROVE  history[e][nextSequence[e]] = NoEvent
  <2>1. StoreInvAt(e) /\ nextSequence[e] \in Positions
    BY <1>1 DEF IInv, StoreInv, TypeOK
  <2>2. StoreAtPoint(e)
    BY <1>1, <2>1 DEF StoreInvAt, WritePoints
  <2>3. HasPrefix(e, nextSequence[e])
    <3>1. CASE pc[e] = "record_started"
      BY <1>1, <2>2, <3>1 DEF StoreAtPoint, Stored
    <3>2. CASE pc[e] = "record_failed"
      BY <1>1, <2>2, <3>2 DEF StoreAtPoint, Stored
    <3>3. CASE pc[e] = "record_result"
      <4>1. HasPrefix(e, nextSequence[e] + 0)
        BY <1>1, <2>2, <3>3 DEF StoreAtPoint, Stored
      <4>2. nextSequence[e] + 0 = nextSequence[e]
        BY <2>1 DEF Positions, ResultCount
      <4> QED
        BY <4>1, <4>2
    <3> QED
      BY <1>1, <3>1, <3>2, <3>3 DEF InsertPoints
  <2> QED
    BY <2>1, <2>3 DEF HasPrefix, Positions, ResultCount
<1>2. IInv => NoSequenceConflict
  BY <1>1 DEF NoSequenceConflict
<1> QED
  BY <1>2, InductiveInvariant, PTL

\* A write never lands in a closed run, and nothing else touches the store.
LEMMA FinalStep ==
  ASSUME IInv, [Next]_vars, NEW x \in Executions, document[x] \in Terminal
  PROVE  document'[x] = document[x] /\ history'[x] = history[x]
<1>1. ASSUME NEW e \in Executions, Start(e) \/ Advance(e) \/ Cancel(e)
      PROVE  document'[x] = document[x] /\ history'[x] = history[x]
  <2>1. CASE x # e
    BY <1>1, <2>1, OthersAreLeftAlone DEF IInv, Same
  <2>2. CASE Start(e) \/ Proceed(e) \/ Cancel(e)
    BY <2>2, TasksDoNotTouchTheStore DEF store
  <2>3. CASE x = e /\ Land(e)
    <3>1. StoreInvAt(e) /\ persisted[e] \in BOOLEAN
      BY DEF IInv, StoreInv, TypeOK
    <3>2. StoreAtPoint(e) /\ ~landed[e] /\ pc[e] \in WritePoints
      BY <2>3, <3>1 DEF Land, LandEvent, LandStatus, StoreInvAt, WritePoints
    <3>3. document[e] \notin Terminal
      BY <3>2 DEF StoreAtPoint, Stored, WritePoints, InsertPoints, StatusPoints, Terminal
    <3> QED
      BY <2>3, <3>3
  <2> QED
    BY <1>1, <2>1, <2>2, <2>3 DEF Advance
<1>2. CASE Crash \/ UNCHANGED vars
  BY <1>2 DEF Crash, vars, store
<1> QED
  BY <1>1, <1>2 DEF Next, Quiescent

\* A closed run stays as it is, whatever its task still does (FinalRunsAreFrozen).
THEOREM FinalRunsStay == Spec => FinalRunsAreFrozen
<1>1. IInv /\ [Next]_vars =>
        [\A e \in Executions : document[e] \in Terminal =>
           document'[e] = document[e] /\ history'[e] = history[e]]_vars
  BY FinalStep
<1> QED
  BY <1>1, InductiveInvariant, PTL DEF Spec, FinalRunsAreFrozen

-----------------------------------------------------------------------------
(* Why every execution ends *)

\* How far the task of e has come: the points in the order in which a task can get to
\* them, the two that are repeated told apart by what has been counted meanwhile.
Place(e) ==
  CASE pc[e] = "idle" -> 0
    [] pc[e] = "create_document" -> 1
    [] pc[e] = "record_started" -> 2
    [] pc[e] = "emit_started" -> 3
    [] pc[e] = "supervisor" -> 4
    [] pc[e] = "emit_routing" -> 5
    [] pc[e] = "emit_agent_started" -> 6
    [] pc[e] = "specialist" -> 7
    [] pc[e] = "synthesizer" -> 9
    [] pc[e] = "emit_result" -> IF results[e] < ResultCount THEN 8 ELSE 10
    [] pc[e] = "check" -> 11
    [] pc[e] = "record_result" -> 12 + nextSequence[e]
    [] pc[e] = "replace_completed" -> 17
    [] pc[e] = "tail_routing" -> 18
    [] pc[e] = "tail_result" ->
         19 + (IF callbackSequence[e] <= ResultCount THEN callbackSequence[e] ELSE ResultCount + 1)
    [] pc[e] = "emit_completed" -> 23
    [] pc[e] = "record_failed" -> 24
    [] pc[e] = "replace_failed" -> 25
    [] pc[e] = "emit_failed" -> 26
    [] OTHER -> 27

\* The same with the write that is under way, which is one more step.
Work(e) == 2 * Place(e) + (IF landed[e] THEN 1 ELSE 0)

\* No task turns in circles, whatever fails and whoever cancels it: every step of the
\* program brings at least one execution further, throws none back, and none can come
\* further than to its end.  So an execution has at most 54 steps.
RunsAdvance ==
  [][/\ \A e \in Executions : Work(e) <= Work(e)' /\ Work(e)' <= 54
     /\ \E e \in Executions : Work(e) < Work(e)']_vars

\* A step of a task brings it further: one step per action of Proceed.
LEMMA TaskAdvances ==
  ASSUME IInv, NEW e \in Executions, Start(e) \/ Proceed(e) \/ Cancel(e)
  PROVE  Place(e) + 1 <= Place(e)'
<1>1. TypeOK /\ StoreInvAt(e) /\ ControlInvAt(e)
  BY DEF IInv, StoreInv, ControlInv
<1>2. /\ nextSequence[e] \in 0..4 /\ results[e] \in 0..2 /\ callbackSequence[e] \in Nat
      /\ pc[e] \in Points
      /\ pc \in [Executions -> Points] /\ results \in [Executions -> 0..ResultCount]
      /\ nextSequence \in [Executions -> Positions]
      /\ callbackSequence \in [Executions -> Nat]
  BY <1>1 DEF TypeOK, Positions, ResultCount
<1> USE <1>2 DEF Place, Goto, GraphPoints, InsertPoints, StatusPoints, WritePoints,
                 EmitPoints, ResultCount, locals
<1>4. CASE CreateDocument(e)
  BY <1>4 DEF CreateDocument, Reply
<1>5. CASE RecordStarted(e)
  BY <1>5 DEF RecordStarted, Reply
<1>6. CASE ReplaceFailed(e)
  BY <1>6 DEF ReplaceFailed, Reply
<1>7. CASE RecordFailed(e)
  BY <1>7 DEF RecordFailed, Reply
<1>8. CASE RecordResult(e)
  BY <1>8 DEF RecordResult, Reply
<1>9. CASE ReplaceCompleted(e)
  BY <1>9 DEF ReplaceCompleted, Reply, AfterPersistence
<1>10. CASE WriteFails(e)
  BY <1>10 DEF WriteFails, Finish
<1>11. CASE EmitStarted(e)
  BY <1>11 DEF EmitStarted, Emit
<1>12. CASE EmitRouting(e)
  BY <1>12 DEF EmitRouting, Emit
<1>13. CASE EmitAgentStarted(e)
  BY <1>13 DEF EmitAgentStarted, Emit
<1>14. CASE EmitResult(e)
  BY <1>14 DEF EmitResult, Emit
<1>15. CASE TailRouting(e)
  BY <1>15 DEF TailRouting, Emit
<1>16. CASE TailResult(e)
  BY <1>16 DEF TailResult, Emit
<1>17. CASE EmitCompleted(e)
  BY <1>17 DEF EmitCompleted, Finish
<1>18. CASE EmitFailed(e)
  BY <1>18 DEF EmitFailed, Finish
<1>19. CASE Supervise(e)
  BY <1>19 DEF Supervise, NodeEnds
<1>20. CASE Specialize(e)
  BY <1>1, <1>20 DEF Specialize, NodeEnds, ControlInvAt
<1>21. CASE Synthesize(e)
  BY <1>1, <1>21 DEF Synthesize, NodeEnds, ControlInvAt
<1>22. CASE NodeRaises(e)
  BY <1>22 DEF NodeRaises, BeginFailure
<1>23. CASE RejectResult(e)
  BY <1>23 DEF RejectResult, BeginFailure
<1>24. CASE AcceptResult(e)
  BY <1>24 DEF AcceptResult, AfterPersistence
<1>25. CASE Start(e)
  BY <1>25 DEF Start
<1>26. CASE Cancel(e)
  <2>1. CASE pc[e] \in GraphPoints
    <3>1. pc'[e] \in {"record_failed", "emit_failed"}
      BY <1>26, <2>1 DEF Cancel, BeginFailure
    <3>2. Place(e)' \in {24, 26}
      BY <3>1
    <3>3. Place(e) <= 10
      BY <2>1
    <3> QED
      BY <3>2, <3>3
  <2>2. CASE pc[e] \notin GraphPoints
    <3>1. Finish(e, "cancelled")
      BY <1>26, <2>2 DEF Cancel
    <3>2. Suspended(e)
      BY <1>26 DEF Cancel
    <3>3. pc' = [pc EXCEPT ![e] = "done"]
      BY <3>1 DEF Finish
    <3>4. Place(e)' = 27
      BY <3>3
    <3>5. Place(e) <= 26
      BY <3>2 DEF Suspended
    <3> QED
      BY <3>4, <3>5
  <2> QED
    BY <2>1, <2>2
<1> QED
  BY <1>4, <1>5, <1>6, <1>7, <1>8, <1>9, <1>10, <1>11, <1>12, <1>13, <1>14, <1>15, <1>16,
     <1>17, <1>18, <1>19, <1>20, <1>21, <1>22, <1>23, <1>24, <1>25, <1>26 DEF Proceed

\* There are twenty-eight places.
LEMMA PlaceRange ==
  ASSUME TypeOK, NEW e \in Executions
  PROVE  /\ Place(e) \in 0..27
         /\ InFlight(e) => Place(e) <= 26
         /\ ~ InFlight(e) => Place(e) = IF pc[e] = "idle" THEN 0 ELSE 27
<1>1. /\ nextSequence[e] \in 0..4 /\ results[e] \in 0..2 /\ callbackSequence[e] \in Nat
      /\ pc[e] \in Points
  BY DEF TypeOK, Positions, ResultCount
<1>2. Place(e) \in 0..27
  BY <1>1 DEF Place, ResultCount
<1>3. InFlight(e) => Place(e) <= 26
  BY <1>1 DEF Place, ResultCount, InFlight, Points, GraphPoints, InsertPoints, StatusPoints,
              WritePoints, EmitPoints
<1>4. ~ InFlight(e) => Place(e) = IF pc[e] = "idle" THEN 0 ELSE 27
  BY DEF Place, InFlight
<1> QED
  BY <1>2, <1>3, <1>4

\* How far an execution can have come.
Ranged ==
  \A e \in Executions :
    Place(e) \in 0..27 /\ landed[e] \in BOOLEAN /\ Work(e) \in 0..54

\* Only what is waiting for a write has one under way, so an ended task has done 54 steps.
LEMMA WorkRange == IInv => Ranged
<1> SUFFICES ASSUME IInv, NEW e \in Executions
             PROVE  Place(e) \in 0..27 /\ landed[e] \in BOOLEAN /\ Work(e) \in 0..54
  BY DEF Ranged
<1>1. Place(e) \in 0..27 /\ (InFlight(e) => Place(e) <= 26) /\ landed[e] \in BOOLEAN
  BY PlaceRange DEF IInv, TypeOK
<1>2. landed[e] => InFlight(e)
  BY DEF IInv, StoreInv, StoreInvAt, InFlight, WritePoints, InsertPoints, StatusPoints
<1>3. CASE landed[e]
  BY <1>1, <1>2, <1>3 DEF Work
<1>4. CASE ~ landed[e]
  BY <1>1, <1>4 DEF Work
<1> QED
  BY <1>1, <1>3, <1>4

\* After a step too.
LEMMA WorkStaysInRange == IInv /\ [Next]_vars => Ranged /\ Ranged'
  BY StepInv, WorkRange, PTL

\* Executions whose task, counters and write stand where they stood.
LEMMA WorkStays ==
  ASSUME NEW x \in Executions,
         pc'[x] = pc[x], results'[x] = results[x], nextSequence'[x] = nextSequence[x],
         callbackSequence'[x] = callbackSequence[x]
  PROVE  Place(x)' = Place(x)
BY DEF Place

\* A step of one execution leaves the counter of another one's events alone.
LEMMA CallbacksAreOwn ==
  ASSUME TypeOK, NEW e \in Executions, NEW x \in Executions \ {e},
         Start(e) \/ Advance(e) \/ Cancel(e)
  PROVE  callbackSequence'[x] = callbackSequence[x]
<1> USE DEF TypeOK, locals
<1>1. CASE Start(e) \/ Cancel(e)
  BY <1>1 DEF Start, Cancel
<1>2. CASE Land(e) \/ WriteFails(e)
  BY <1>2 DEF Land, WriteFails
<1>3. CASE \/ CreateDocument(e) \/ RecordStarted(e) \/ RecordResult(e)
           \/ ReplaceCompleted(e) \/ RecordFailed(e) \/ ReplaceFailed(e)
  BY <1>3 DEF CreateDocument, RecordStarted, RecordResult, ReplaceCompleted,
              RecordFailed, ReplaceFailed
<1>4. CASE \/ EmitStarted(e) \/ EmitRouting(e) \/ EmitAgentStarted(e) \/ EmitResult(e)
           \/ TailRouting(e) \/ TailResult(e)
  BY <1>4 DEF EmitStarted, EmitRouting, EmitAgentStarted, EmitResult,
              TailRouting, TailResult, Emit
<1>5. CASE EmitCompleted(e) \/ EmitFailed(e)
  BY <1>5 DEF EmitCompleted, EmitFailed
<1>6. CASE Supervise(e) \/ Specialize(e) \/ Synthesize(e)
  BY <1>6 DEF Supervise, Specialize, Synthesize, NodeEnds
<1>7. CASE NodeRaises(e) \/ RejectResult(e) \/ AcceptResult(e)
  BY <1>7 DEF NodeRaises, RejectResult, AcceptResult
<1> QED
  BY <1>1, <1>2, <1>3, <1>4, <1>5, <1>6, <1>7 DEF Advance, Proceed

\* A write that lands is a step by itself, and the reply, a failure or a cancellation
\* takes the task further.
LEMMA ActorWorks ==
  ASSUME IInv, NEW e \in Executions, Start(e) \/ Advance(e) \/ Cancel(e)
  PROVE  Work(e) < Work(e)'
<1>1. Ranged /\ Ranged'
  BY WorkStaysInRange DEF Next
<1>2. Place(e) \in 0..27 /\ landed[e] \in BOOLEAN /\ Work(e) \in Nat
  BY <1>1 DEF Ranged
<1>3. Place(e)' \in 0..27 /\ landed'[e] \in BOOLEAN /\ Work(e)' \in Nat
  BY <1>1 DEF Ranged
<1>4. CASE Land(e)
  <2>1. /\ pc' = pc /\ results' = results /\ nextSequence' = nextSequence
        /\ callbackSequence' = callbackSequence
        /\ landed[e] = FALSE /\ landed'[e] = TRUE
    BY <1>4 DEF Land, IInv, TypeOK, locals
  <2>2. Place(e)' = Place(e)
    BY <2>1, WorkStays
  <2> QED
    BY <1>2, <2>1, <2>2 DEF Work
<1>5. CASE Start(e) \/ Proceed(e) \/ Cancel(e)
  <2>1. Place(e) + 1 <= Place(e)'
    BY <1>5, TaskAdvances
  <2>2. Work(e) <= 2 * Place(e) + 1
    BY <1>2 DEF Work
  <2>3. Work(e)' >= 2 * Place(e)'
    BY <1>3 DEF Work
  <2>4. ASSUME NEW p \in 0..27, NEW q \in 0..27, p + 1 <= q PROVE 2 * p + 1 < 2 * q
    BY <2>4
  <2> QED
    BY <1>2, <1>3, <2>1, <2>2, <2>3, <2>4
<1> QED
  BY <1>4, <1>5 DEF Advance

\* A crash brings every execution that is under way to its end.
LEMMA CrashEnds ==
  ASSUME IInv, Crash, NEW x \in Executions
  PROVE  /\ Work(x) <= Work(x)'
         /\ InFlight(x) => Work(x) < Work(x)'
<1>1. /\ landed'[x] = FALSE /\ pc'[x] = IF InFlight(x) THEN "lost" ELSE pc[x]
      /\ results' = results /\ nextSequence' = nextSequence
      /\ callbackSequence' = callbackSequence
  BY DEF Crash, locals
<1>2. Place(x) \in 0..27 /\ (InFlight(x) => Place(x) <= 26) /\ landed[x] \in BOOLEAN
  BY PlaceRange DEF IInv, TypeOK
<1>3. landed[x] => InFlight(x)
  BY DEF IInv, StoreInv, StoreInvAt, InFlight, WritePoints, InsertPoints, StatusPoints
<1>4. CASE InFlight(x)
  <2>1. Place(x)' = 27
    BY <1>1, <1>4 DEF Place
  <2> QED
    BY <1>1, <1>2, <1>4, <2>1 DEF Work
<1>5. CASE ~ InFlight(x)
  <2>1. Place(x)' = Place(x)
    BY <1>1, <1>5, WorkStays
  <2>2. landed[x] = FALSE
    BY <1>2, <1>3, <1>5
  <2> QED
    BY <1>1, <1>2, <1>5, <2>1, <2>2 DEF Work
<1> QED
  BY <1>4, <1>5

\* execute: every step of an execution is one of at most 54, so an event loop that goes
\* on resuming its task brings it to its end, whatever fails on the way.
THEOREM EveryStepAdvances == Spec => RunsAdvance
<1>1. IInv /\ [Next]_vars
        => [/\ \A e \in Executions : Work(e) <= Work(e)' /\ Work(e)' <= 54
            /\ \E e \in Executions : Work(e) < Work(e)']_vars
  <2> SUFFICES ASSUME IInv, Next, ~ UNCHANGED vars
               PROVE  /\ \A e \in Executions : Work(e) <= Work(e)' /\ Work(e)' <= 54
                      /\ \E e \in Executions : Work(e) < Work(e)'
    OBVIOUS
  <2>1. \A x \in Executions : Work(x) \in 0..54 /\ Work(x)' \in 0..54
    BY WorkStaysInRange DEF Ranged
  <2>2. CASE Crash
    <3>1. PICK e \in Executions : InFlight(e)
      BY <2>2 DEF Crash
    <3>2. Work(e) < Work(e)'
      BY <2>2, <3>1, CrashEnds
    <3>3. \A x \in Executions : Work(x) <= Work(x)'
      BY <2>2, CrashEnds
    <3> QED
      BY <2>1, <3>2, <3>3
  <2>3. ASSUME NEW e \in Executions, Start(e) \/ Advance(e) \/ Cancel(e)
        PROVE  /\ \A x \in Executions : Work(x) <= Work(x)'
               /\ Work(e) < Work(e)'
    <3>1. Work(e) < Work(e)'
      BY <2>3, ActorWorks
    <3>2. ASSUME NEW x \in Executions PROVE Work(x) <= Work(x)'
      <4>1. CASE x = e
        BY <2>1, <3>1, <4>1
      <4>2. CASE x # e
        <5>1. Same(x) /\ callbackSequence'[x] = callbackSequence[x]
          BY <2>3, <4>2, OthersAreLeftAlone, CallbacksAreOwn DEF IInv
        <5>2. Place(x)' = Place(x) /\ landed'[x] = landed[x]
          BY <5>1, WorkStays DEF Same
        <5>3. Work(x)' = Work(x)
          BY <5>2 DEF Work
        <5> QED
          BY <2>1, <5>3
      <4> QED
        BY <4>1, <4>2
    <3> QED
      BY <3>1, <3>2
  <2>4. \/ Crash
        \/ \E e \in Executions : Start(e) \/ Advance(e) \/ Cancel(e)
    BY DEF Next, Quiescent
  <2> QED
    BY <2>1, <2>2, <2>3, <2>4
<1> QED
  BY <1>1, InductiveInvariant, PTL DEF Spec, RunsAdvance

-----------------------------------------------------------------------------
(* The live events *)

\* A closing event is the last thing an execution does, and is true when it is sent.
AnnounceInvAt(e) ==
  /\ HasDelivered(e, "execution_completed") =>
       pc[e] = "done" /\ (persisted[e] => document[e] = "completed")
  /\ HasDelivered(e, "execution_failed") =>
       pc[e] = "done" /\ (persisted[e] => document[e] = "failed" \/ faulted[e])

AnnounceInv == \A e \in Executions : AnnounceInvAt(e)

\* A delivery tells the client nothing but the event of the current emit point.
LEMMA DeliverAdds ==
  ASSUME TypeOK, NEW e \in Executions, Deliver(e), NEW t
  PROVE  HasDelivered(e, t)' => HasDelivered(e, t) \/ EmittedType(e) = t
<1> DEFINE ev == [sequence |-> callbackSequence[e], type |-> EmittedType(e)]
<1>1. delivered'[e] = Append(delivered[e], ev) /\ delivered[e] \in Seq(Event)
  BY DEF Deliver, TypeOK, Event
<1>2. SUFFICES ASSUME NEW i \in DOMAIN delivered'[e], delivered'[e][i].type = t
               PROVE  HasDelivered(e, t) \/ EmittedType(e) = t
  BY DEF HasDelivered
<1>3. CASE i = Len(delivered[e]) + 1
  BY <1>1, <1>2, <1>3
<1>4. CASE i # Len(delivered[e]) + 1
  BY <1>1, <1>2, <1>4 DEF HasDelivered
<1> QED
  BY <1>3, <1>4

\* A client whose list did not change knows what it knew.
LEMMA DeliveredIsKept ==
  ASSUME NEW x, delivered'[x] = delivered[x], NEW t
  PROVE  HasDelivered(x, t)' <=> HasDelivered(x, t)
BY DEF HasDelivered

\* AnnounceInv is preserved: a closing event is emitted only after the reply to the
\* write it reports, and nothing that is closed changes.
LEMMA AnnounceStep == IInv /\ AnnounceInv /\ [Next]_vars => AnnounceInv'
<1> SUFFICES ASSUME IInv, AnnounceInv, [Next]_vars, NEW x \in Executions
             PROVE  AnnounceInvAt(x)'
  BY DEF AnnounceInv
<1>1. AnnounceInvAt(x) /\ StoreInvAt(x) /\ TypeOK
  BY DEF IInv, StoreInv, AnnounceInv
<1>2. ASSUME Same(x), delivered'[x] = delivered[x] PROVE AnnounceInvAt(x)'
  BY <1>1, <1>2, DeliveredIsKept DEF AnnounceInvAt, Same
<1>3. ASSUME NEW e \in Executions, Start(e) \/ Advance(e) \/ Cancel(e) PROVE AnnounceInvAt(x)'
  <2>1. CASE x # e
    <3>1. delivered'[x] = delivered[x]
      BY <1>1, <1>3, <2>1
         DEF Start, Advance, Land, Proceed, Cancel, WriteFails, CreateDocument, RecordStarted,
             RecordResult, ReplaceCompleted, RecordFailed, ReplaceFailed, Reply, EmitStarted,
             EmitRouting, EmitAgentStarted, EmitResult, TailRouting, TailResult, Emit,
             EmitCompleted, EmitFailed, Supervise, Specialize, Synthesize, NodeEnds,
             NodeRaises, RejectResult, AcceptResult, Deliver, TypeOK
    <3> QED
      BY <1>1, <1>2, <1>3, <2>1, <3>1, OthersAreLeftAlone
  <2>2. CASE x = e /\ UNCHANGED delivered
    <3>1. HasDelivered(e, "execution_completed") \/ HasDelivered(e, "execution_failed")
            => FALSE
      BY <1>1, <1>3, <2>2
         DEF AnnounceInvAt, Start, Advance, Land, LandEvent, LandStatus, Proceed, Cancel,
             Suspended, WriteFails, CreateDocument, RecordStarted, RecordResult,
             ReplaceCompleted, RecordFailed, ReplaceFailed, Reply, EmitStarted, EmitRouting,
             EmitAgentStarted, EmitResult, TailRouting, TailResult, Emit, EmitCompleted,
             EmitFailed, Supervise, Specialize, Synthesize, NodeEnds, NodeRaises,
             RejectResult, AcceptResult, WritePoints, InsertPoints, StatusPoints,
             GraphPoints, EmitPoints
    <3> QED
      BY <2>2, <3>1, DeliveredIsKept DEF AnnounceInvAt
  <2>3. CASE x = e /\ ~UNCHANGED delivered
    <3>1. /\ \/ EmitStarted(e) \/ EmitRouting(e) \/ EmitAgentStarted(e) \/ EmitResult(e)
             \/ TailRouting(e) \/ TailResult(e) \/ EmitCompleted(e) \/ EmitFailed(e)
             \/ Cancel(e)
          /\ Deliver(e) /\ pc[e] \in EmitPoints
      BY <1>3, <2>3
         DEF Start, Advance, Land, Proceed, Cancel, WriteFails, CreateDocument, RecordStarted,
             RecordResult, ReplaceCompleted, RecordFailed, ReplaceFailed, Reply, EmitStarted,
             EmitRouting, EmitAgentStarted, EmitResult, TailRouting, TailResult, Emit,
             EmitCompleted, EmitFailed, Supervise, Specialize, Synthesize, NodeEnds,
             NodeRaises, RejectResult, AcceptResult, EmitPoints
    <3>2. ~HasDelivered(e, "execution_completed") /\ ~HasDelivered(e, "execution_failed")
      BY <1>1, <2>3, <3>1 DEF AnnounceInvAt, EmitPoints
    <3>3. ASSUME NEW t, HasDelivered(e, t)', t \in {"execution_completed", "execution_failed"}
          PROVE  EmittedType(e) = t
      BY <1>1, <3>1, <3>2, <3>3, DeliverAdds
    <3>4. UNCHANGED store /\ persisted' = persisted /\ faulted' = faulted
      BY <3>1, TasksDoNotTouchTheStore
         DEF Proceed, EmitStarted, EmitRouting, EmitAgentStarted, EmitResult, TailRouting,
             TailResult, Emit, EmitCompleted, EmitFailed, Cancel, request, faults
    <3>5. ASSUME pc[e] \in {"emit_completed", "emit_failed"}
          PROVE  pc'[e] = "done"
      BY <1>1, <3>1, <3>5
         DEF EmitStarted, EmitRouting, EmitAgentStarted, EmitResult, TailRouting, TailResult,
             Emit, EmitCompleted, EmitFailed, Cancel, Finish, Goto, GraphPoints, TypeOK
    <3>6. ASSUME HasDelivered(e, "execution_completed")'
          PROVE  pc'[e] = "done" /\ (persisted'[e] => document'[e] = "completed")
      <4>1. pc[e] = "emit_completed"
        BY <3>3, <3>6 DEF EmittedType
      <4> QED
        BY <1>1, <2>3, <3>4, <3>5, <4>1 DEF StoreInvAt, StoreAtPoint, Stored, store
    <3>7. ASSUME HasDelivered(e, "execution_failed")'
          PROVE  /\ pc'[e] = "done"
                 /\ persisted'[e] => document'[e] = "failed" \/ faulted'[e]
      <4>1. pc[e] = "emit_failed"
        BY <3>1, <3>3, <3>7 DEF EmittedType, EmitPoints
      <4> QED
        BY <1>1, <2>3, <3>4, <3>5, <4>1 DEF StoreInvAt, StoreAtPoint, store
    <3> QED
      BY <2>3, <3>6, <3>7 DEF AnnounceInvAt
  <2> QED
    BY <2>1, <2>2, <2>3
<1>4. CASE UNCHANGED vars
  BY <1>2, <1>4 DEF vars, request, locals, faults, store, Same
<1>5. CASE Crash
  <2>1. /\ delivered' = delivered /\ document' = document /\ persisted' = persisted
        /\ faulted' = faulted /\ pc'[x] = IF InFlight(x) THEN "lost" ELSE pc[x]
    BY <1>5 DEF Crash, request, store
  <2> QED
    BY <1>1, <2>1, DeliveredIsKept DEF AnnounceInvAt, InFlight
<1> QED
  BY <1>3, <1>4, <1>5 DEF Next, Quiescent

\* Whatever a client is told about the end of a persisted run is already stored
\* (AnnouncedOutcomeIsStored).
THEOREM AnnouncementsAreTrue == Spec => []AnnouncedOutcomeIsStored
<1>1. Init => AnnounceInv
  BY DEF Init, AnnounceInv, AnnounceInvAt, HasDelivered
<1>2. IInv /\ AnnounceInv /\ [Next]_vars => AnnounceInv'
  BY AnnounceStep
<1>3. AnnounceInv => AnnouncedOutcomeIsStored
  BY DEF AnnounceInv, AnnounceInvAt, AnnouncedOutcomeIsStored
<1> QED
  BY <1>1, <1>2, <1>3, InductiveInvariant, PTL DEF Spec

\* The numbers a task counts its live events by: nothing is counted before the first
\* event, and a task that does not stream counts on only when the graph has ended.
CountInvAt(e) ==
  /\ pc[e] \in {"idle", "create_document", "record_started", "emit_started"} =>
       callbackSequence[e] = 0
  /\ pc[e] \in {"emit_routing", "emit_agent_started", "emit_result"} => Live(e)
  /\ ~Live(e) /\ pc[e] \in GraphPoints \cup {"check"} => callbackSequence[e] = 1

\* Whatever was sent has a smaller number than the next event, except for an event that
\* a cancellation hit while it was on its way.
SentInvAt(e) ==
  \A i \in DOMAIN delivered[e] :
    \/ delivered[e][i].sequence < callbackSequence[e]
    \/ delivered[e][i].sequence = callbackSequence[e] /\ cause[e] = "cancel"
    \/ pc[e] = "done"

MayPrecede(a, b, why) ==
  /\ a.type \notin {"execution_completed", "execution_failed"}
  /\ \/ a.sequence < b.sequence
     \/ a.sequence = b.sequence /\ b.type = "execution_failed" /\ why = "cancel"

OrderedAt(e) ==
  \A j \in DOMAIN delivered[e] : \A i \in 1..(j - 1) :
    MayPrecede(delivered[e][i], delivered[e][j], cause[e])

OrderInvAt(e) == CountInvAt(e) /\ SentInvAt(e) /\ OrderedAt(e)

OrderInv == \A e \in Executions : OrderInvAt(e)

SameClient(x) ==
  /\ Same(x) /\ delivered'[x] = delivered[x]
  /\ callbackSequence'[x] = callbackSequence[x] /\ listening'[x] = listening[x]

\* The client of one execution hears nothing of another's steps.
LEMMA OtherClientsHearNothing ==
  ASSUME TypeOK, NEW e \in Executions, NEW x \in Executions \ {e},
         Start(e) \/ Advance(e) \/ Cancel(e)
  PROVE  SameClient(x)
<1>1. Same(x)
  BY OthersAreLeftAlone
<1> USE DEF TypeOK, request, locals
<1>2. delivered'[x] = delivered[x]
  BY DEF Start, Advance, Land, Proceed, Cancel, WriteFails, CreateDocument, RecordStarted,
         RecordResult, ReplaceCompleted, RecordFailed, ReplaceFailed, Reply, EmitStarted,
         EmitRouting, EmitAgentStarted, EmitResult, TailRouting, TailResult, Emit,
         EmitCompleted, EmitFailed, Supervise, Specialize, Synthesize, NodeEnds,
         NodeRaises, RejectResult, AcceptResult, Deliver
<1>3. callbackSequence'[x] = callbackSequence[x]
  BY DEF Start, Advance, Land, Proceed, Cancel, WriteFails, CreateDocument, RecordStarted,
         RecordResult, ReplaceCompleted, RecordFailed, ReplaceFailed, Reply, EmitStarted,
         EmitRouting, EmitAgentStarted, EmitResult, TailRouting, TailResult, Emit,
         EmitCompleted, EmitFailed, Supervise, Specialize, Synthesize, NodeEnds,
         NodeRaises, RejectResult, AcceptResult
<1>4. listening'[x] = listening[x]
  BY DEF Start, Advance, Land, Proceed, Cancel, WriteFails, CreateDocument, RecordStarted,
         RecordResult, ReplaceCompleted, RecordFailed, ReplaceFailed, Reply, EmitStarted,
         EmitRouting, EmitAgentStarted, EmitResult, TailRouting, TailResult, Emit,
         EmitCompleted, EmitFailed, Supervise, Specialize, Synthesize, NodeEnds,
         NodeRaises, RejectResult, AcceptResult
<1> QED
  BY <1>1, <1>2, <1>3, <1>4 DEF SameClient

\* Executions with the same task and client state have the same invariant.
LEMMA ClientFrame ==
  ASSUME NEW x, SameClient(x), OrderInvAt(x)
  PROVE  OrderInvAt(x)'
BY DEF SameClient, Same, OrderInvAt, CountInvAt, SentInvAt, OrderedAt, MayPrecede, Live

\* A failure that has a cause keeps it, and an ended task does nothing more.
LEMMA CauseStays ==
  ASSUME IInv, NEW e \in Executions, Start(e) \/ Advance(e) \/ Cancel(e)
  PROVE  /\ cause'[e] = cause[e] \/ cause[e] = "none"
         /\ pc[e] # "done"
<1>1. ControlInvAt(e) /\ StoreInvAt(e) /\ TypeOK
  BY DEF IInv, ControlInv, StoreInv
<1> USE <1>1 DEF locals
<1>2. pc[e] # "done"
  BY DEF Start, Advance, Land, LandEvent, LandStatus, Proceed, Cancel, Suspended, WriteFails,
         CreateDocument, RecordStarted, RecordResult, ReplaceCompleted, RecordFailed,
         ReplaceFailed, Reply, EmitStarted, EmitRouting, EmitAgentStarted, EmitResult,
         TailRouting, TailResult, Emit, EmitCompleted, EmitFailed, Supervise, Specialize,
         Synthesize, NodeEnds, NodeRaises, RejectResult, AcceptResult, WritePoints,
         InsertPoints, StatusPoints, GraphPoints, EmitPoints
<1>3. ASSUME pc[e] \in GraphPoints \cup {"check"} PROVE cause[e] = "none"
  BY <1>3 DEF ControlInvAt, GraphPoints, TypeOK
<1>4. ASSUME pc[e] \notin GraphPoints \cup {"check"} PROVE cause'[e] = cause[e]
  BY <1>4 DEF Start, Advance, Land, Proceed, Cancel, WriteFails, CreateDocument,
         RecordStarted, RecordResult, ReplaceCompleted, RecordFailed, ReplaceFailed, Reply,
         EmitStarted, EmitRouting, EmitAgentStarted, EmitResult, TailRouting, TailResult,
         Emit, EmitCompleted, EmitFailed, Supervise, Specialize, Synthesize, NodeEnds,
         NodeRaises, RejectResult, AcceptResult, GraphPoints
<1> QED
  BY <1>2, <1>3, <1>4

\* The numbering of the live events follows the task.
LEMMA CountStep ==
  ASSUME IInv, NEW e \in Executions, CountInvAt(e), Start(e) \/ Advance(e) \/ Cancel(e)
  PROVE  CountInvAt(e)'
<1>1. StoreInvAt(e) /\ TypeOK
  BY DEF IInv, StoreInv
<1>2. pc[e] \in GraphPoints \cup {"check"} => nextSequence[e] = 1
  BY <1>1 DEF StoreInvAt
<1>3. /\ pc \in [Executions -> Points] /\ callbackSequence \in [Executions -> Nat]
      /\ listening \in [Executions -> {"no", "live", "after"}]
  BY <1>1 DEF TypeOK
<1> USE <1>3 DEF CountInvAt, Live, Goto, Finish, request, locals, GraphPoints
<1>4. CASE Start(e)
  BY <1>4 DEF Start
<1>5. CASE Cancel(e)
  BY <1>5 DEF Cancel, BeginFailure
<1>6. CASE Land(e)
  BY <1>6 DEF Land
<1>7. CASE WriteFails(e)
  BY <1>7 DEF WriteFails
<1>8. CASE CreateDocument(e) \/ RecordStarted(e) \/ RecordFailed(e) \/ ReplaceFailed(e)
  BY <1>8 DEF CreateDocument, RecordStarted, RecordFailed, ReplaceFailed, Reply
<1>9. CASE RecordResult(e) \/ ReplaceCompleted(e) \/ AcceptResult(e)
  BY <1>9 DEF RecordResult, ReplaceCompleted, AcceptResult, Reply, AfterPersistence
<1>10. CASE EmitStarted(e)
  BY <1>10 DEF EmitStarted, Emit
<1>11. CASE EmitRouting(e) \/ EmitAgentStarted(e) \/ EmitResult(e)
  BY <1>11 DEF EmitRouting, EmitAgentStarted, EmitResult, Emit
<1>12. CASE TailRouting(e) \/ TailResult(e)
  BY <1>12 DEF TailRouting, TailResult, Emit
<1>13. CASE EmitCompleted(e) \/ EmitFailed(e)
  BY <1>13 DEF EmitCompleted, EmitFailed
<1>14. CASE Supervise(e) \/ Specialize(e) \/ Synthesize(e)
  BY <1>14 DEF Supervise, Specialize, Synthesize, NodeEnds
<1>15. CASE NodeRaises(e) \/ RejectResult(e)
  BY <1>2, <1>15 DEF NodeRaises, RejectResult, BeginFailure
<1> QED
  BY <1>4, <1>5, <1>6, <1>7, <1>8, <1>9, <1>10, <1>11, <1>12, <1>13, <1>14, <1>15
     DEF Advance, Proceed

\* What a step of a task does to the numbers: it delivers nothing and the next number
\* does not fall, or it delivers one event under the next number and then counts on, ends,
\* or turns to the failure of a cancelled run.
LEMMA DeliveryStep ==
  ASSUME IInv, NEW e \in Executions, CountInvAt(e), Start(e) \/ Advance(e) \/ Cancel(e)
  PROVE  \/ /\ delivered' = delivered
            /\ callbackSequence'[e] >= callbackSequence[e]
         \/ /\ Deliver(e) /\ pc[e] \in EmitPoints
            /\ \/ callbackSequence'[e] = callbackSequence[e] + 1
               \/ callbackSequence'[e] = callbackSequence[e] /\ pc'[e] = "done"
               \/ callbackSequence'[e] = callbackSequence[e] /\ cause'[e] = "cancel"
<1>1. StoreInvAt(e) /\ TypeOK
  BY DEF IInv, StoreInv
<1>2. pc[e] = "check" => nextSequence[e] = 1
  BY <1>1 DEF StoreInvAt
<1>3. /\ pc \in [Executions -> Points] /\ callbackSequence \in [Executions -> Nat]
      /\ cause \in [Executions -> {"none", "error", "cancel"}]
  BY <1>1 DEF TypeOK
<1> USE <1>3 DEF locals
<1>4. CASE Start(e)
  BY <1>4 DEF Start
<1>5. CASE Cancel(e)
  BY <1>5 DEF Cancel, BeginFailure, Finish, Goto
<1>6. CASE Land(e) \/ WriteFails(e)
  BY <1>6 DEF Land, WriteFails
<1>7. CASE \/ CreateDocument(e) \/ RecordStarted(e) \/ RecordFailed(e) \/ ReplaceFailed(e)
           \/ RecordResult(e) \/ ReplaceCompleted(e) \/ AcceptResult(e)
  BY <1>7 DEF CreateDocument, RecordStarted, RecordFailed, ReplaceFailed, RecordResult,
              ReplaceCompleted, AcceptResult, Reply
<1>8. CASE \/ EmitStarted(e) \/ EmitRouting(e) \/ EmitAgentStarted(e) \/ EmitResult(e)
           \/ TailRouting(e) \/ TailResult(e)
  BY <1>8 DEF EmitStarted, EmitRouting, EmitAgentStarted, EmitResult, TailRouting,
              TailResult, Emit, EmitPoints
<1>9. CASE EmitCompleted(e) \/ EmitFailed(e)
  BY <1>9 DEF EmitCompleted, EmitFailed, Finish, Goto, EmitPoints
<1>10. CASE Supervise(e) \/ Specialize(e) \/ Synthesize(e) \/ NodeRaises(e)
  BY <1>10 DEF Supervise, Specialize, Synthesize, NodeEnds, NodeRaises
<1>11. CASE RejectResult(e)
  BY <1>2, <1>11 DEF RejectResult, CountInvAt
<1> QED
  BY <1>4, <1>5, <1>6, <1>7, <1>8, <1>9, <1>10, <1>11 DEF Advance, Proceed

\* OrderInv is preserved: the number of the next event only grows, and what is sent out of
\* turn is the failure of a cancelled run.
LEMMA OrderStep == IInv /\ AnnounceInv /\ OrderInv /\ [Next]_vars => OrderInv'
<1> SUFFICES ASSUME IInv, AnnounceInv, OrderInv, [Next]_vars, NEW x \in Executions
             PROVE  OrderInvAt(x)'
  BY DEF OrderInv
<1>1. TypeOK /\ AnnounceInvAt(x) /\ OrderInvAt(x) /\ ControlInvAt(x)
  BY DEF IInv, ControlInv, AnnounceInv, OrderInv
<1>2. ASSUME NEW e \in Executions, Start(e) \/ Advance(e) \/ Cancel(e) PROVE OrderInvAt(x)'
  <2>1. CASE x # e
    BY <1>1, <1>2, <2>1, OtherClientsHearNothing, ClientFrame
  <2>2. CASE x = e
    <3>1. /\ cause'[e] = cause[e] \/ cause[e] = "none"
          /\ pc[e] # "done"
      BY <1>2, CauseStays
    <3>2. CountInvAt(e)'
      BY <1>1, <1>2, <2>2, CountStep DEF OrderInvAt
    <3>3. /\ callbackSequence[e] \in Nat /\ callbackSequence'[e] \in Nat
          /\ delivered[e] \in Seq(Event)
          /\ \A i \in DOMAIN delivered[e] : delivered[e][i].sequence \in Nat
      <4>1. delivered[e] \in Seq(Event) /\ callbackSequence[e] \in Nat
        BY <1>1 DEF TypeOK, Event
      <4>2. TypeOK'
        BY TypeStep
      <4>3. callbackSequence'[e] \in Nat
        BY <4>2 DEF TypeOK
      <4>4. ASSUME NEW i \in DOMAIN delivered[e] PROVE delivered[e][i].sequence \in Nat
        <5>1. delivered[e][i] \in Event
          BY <4>1
        <5> QED
          BY <5>1 DEF Event
      <4> QED
        BY <4>1, <4>3, <4>4
    <3>4. /\ \A i \in DOMAIN delivered[e] :
               /\ \/ delivered[e][i].sequence < callbackSequence[e]
                  \/ delivered[e][i].sequence = callbackSequence[e] /\ cause[e] = "cancel"
               /\ delivered[e][i].type \notin {"execution_completed", "execution_failed"}
          /\ OrderedAt(e)
      BY <1>1, <2>2, <3>1 DEF OrderInvAt, SentInvAt, AnnounceInvAt, HasDelivered
    <3>5. CASE delivered' = delivered /\ callbackSequence'[e] >= callbackSequence[e]
      <4>1. SentInvAt(e)'
        BY <3>1, <3>3, <3>4, <3>5 DEF SentInvAt
      <4>2. OrderedAt(e)'
        BY <3>1, <3>4, <3>5 DEF OrderedAt, MayPrecede
      <4> QED
        BY <2>2, <3>2, <4>1, <4>2 DEF OrderInvAt
    <3>6. CASE /\ Deliver(e) /\ pc[e] \in EmitPoints
               /\ \/ callbackSequence'[e] = callbackSequence[e] + 1
                  \/ callbackSequence'[e] = callbackSequence[e] /\ pc'[e] = "done"
                  \/ callbackSequence'[e] = callbackSequence[e] /\ cause'[e] = "cancel"
      <4> DEFINE ev == [sequence |-> callbackSequence[e], type |-> EmittedType(e)]
      <4>1. delivered'[e] = Append(delivered[e], ev)
        BY <1>1, <3>6 DEF Deliver, TypeOK
      <4>2. /\ ev.sequence = callbackSequence[e]
            /\ cause[e] = "cancel" => ev.type = "execution_failed"
        BY <1>1, <2>2, <3>6 DEF ControlInvAt, EmittedType, EmitPoints
      <4> HIDE DEF ev
      <4>3. /\ DOMAIN delivered'[e] = 1..(Len(delivered[e]) + 1)
            /\ DOMAIN delivered[e] = 1..Len(delivered[e])
            /\ Len(delivered[e]) \in Nat
            /\ \A i \in 1..Len(delivered[e]) : delivered'[e][i] = delivered[e][i]
            /\ delivered'[e][Len(delivered[e]) + 1] = ev
        BY <3>3, <4>1
      <4>4. SentInvAt(e)'
        <5> SUFFICES ASSUME NEW i \in DOMAIN delivered'[e]
                     PROVE  \/ delivered'[e][i].sequence < callbackSequence'[e]
                            \/ /\ delivered'[e][i].sequence = callbackSequence'[e]
                               /\ cause'[e] = "cancel"
                            \/ pc'[e] = "done"
          BY DEF SentInvAt
        <5>1. CASE i = Len(delivered[e]) + 1
          BY <3>3, <3>6, <4>2, <4>3, <5>1
        <5>2. CASE i \in DOMAIN delivered[e]
          <6>1. delivered'[e][i] = delivered[e][i]
            BY <4>3, <5>2
          <6>2. CASE callbackSequence'[e] = callbackSequence[e] + 1
            BY <3>3, <3>4, <5>2, <6>1, <6>2
          <6>3. CASE callbackSequence'[e] = callbackSequence[e]
            BY <3>1, <3>3, <3>4, <3>6, <5>2, <6>1, <6>3
          <6> QED
            BY <3>6, <6>2, <6>3
        <5> QED
          BY <4>3, <5>1, <5>2
      <4>5. OrderedAt(e)'
        <5> SUFFICES ASSUME NEW j \in DOMAIN delivered'[e], NEW i \in 1..(j - 1)
                     PROVE  MayPrecede(delivered'[e][i], delivered'[e][j], cause'[e])
          BY DEF OrderedAt
        <5>1. CASE j \in DOMAIN delivered[e]
          <6>1. i \in DOMAIN delivered[e]
            BY <4>3, <5>1
          <6>2. MayPrecede(delivered[e][i], delivered[e][j], cause[e])
            BY <3>4, <5>1 DEF OrderedAt
          <6> QED
            BY <3>1, <4>3, <5>1, <6>1, <6>2 DEF MayPrecede
        <5>2. CASE j = Len(delivered[e]) + 1
          <6>1. i \in DOMAIN delivered[e]
            BY <4>3, <5>2
          <6>2. /\ delivered'[e][i] = delivered[e][i]
                /\ delivered'[e][j] = ev
            BY <4>3, <5>2, <6>1
          <6> QED
            BY <3>1, <3>4, <4>2, <6>1, <6>2 DEF MayPrecede
        <5> QED
          BY <4>3, <5>1, <5>2
      <4> QED
        BY <2>2, <3>2, <4>4, <4>5 DEF OrderInvAt
    <3> QED
      BY <1>1, <1>2, <2>2, <3>5, <3>6, DeliveryStep DEF OrderInvAt
  <2> QED
    BY <2>1, <2>2
<1>3. CASE UNCHANGED vars
  BY <1>1, <1>3, ClientFrame DEF vars, request, locals, faults, store, Same, SameClient
<1>4. CASE Crash
  <2>1. /\ delivered' = delivered /\ callbackSequence' = callbackSequence
        /\ listening' = listening /\ cause' = cause
        /\ pc'[x] = IF InFlight(x) THEN "lost" ELSE pc[x]
    BY <1>4 DEF Crash, request, locals
  <2>2. CountInvAt(x)'
    BY <1>1, <2>1 DEF OrderInvAt, CountInvAt, Live, InFlight, GraphPoints
  <2>3. SentInvAt(x)' /\ OrderedAt(x)'
    BY <1>1, <2>1 DEF OrderInvAt, SentInvAt, OrderedAt, MayPrecede, InFlight
  <2> QED
    BY <2>2, <2>3 DEF OrderInvAt
<1> QED
  BY <1>2, <1>3, <1>4 DEF Next, Quiescent

\* The client of a run sees its events in order, each number once and nothing after a
\* closing event, but for the failure of a cancelled run (LiveEventsOrdered).
THEOREM ClientsSeeTheOrder == Spec => []LiveEventsOrdered
<1>1. Init => AnnounceInv /\ OrderInv
  BY DEF Init, AnnounceInv, AnnounceInvAt, HasDelivered, OrderInv, OrderInvAt, CountInvAt,
         SentInvAt, OrderedAt, GraphPoints
<1>2. IInv /\ AnnounceInv /\ OrderInv /\ [Next]_vars => AnnounceInv' /\ OrderInv'
  BY AnnounceStep, OrderStep
<1>3. OrderInv => LiveEventsOrdered
  BY DEF OrderInv, OrderInvAt, OrderedAt, MayPrecede, LiveEventsOrdered
<1> QED
  BY <1>1, <1>2, <1>3, InductiveInvariant, PTL DEF Spec

-----------------------------------------------------------------------------
(* The reader of GET /executions/{id} *)

\* A history has no gaps: it is the beginning of a run that went well, or a failure.
LEMMA HistoryHasNoGaps ==
  ASSUME IInv, NEW e \in Executions, NEW s \in Positions, NEW p \in 0..s,
         history[e][s] # NoEvent
  PROVE  history[e][p] # NoEvent
<1>1. Backed(e) /\ document[e] \in {"none", "running", "completed", "failed"}
  BY DEF IInv, StoreInv, StoreInvAt, TypeOK
<1>2. HasFailed(e) \/ \E n \in 0..(ResultCount + 3) : HasPrefix(e, n)
  BY <1>1 DEF Backed, ResultCount
<1>3. s \in 0..4 /\ p \in 0..4 /\ p <= s /\ p \in Positions
  BY DEF Positions, ResultCount
<1>4. CASE HasFailed(e)
  BY <1>3, <1>4 DEF HasFailed, NoEvent, Positions, ResultCount
<1>5. ASSUME NEW n \in 0..(ResultCount + 3), HasPrefix(e, n)
      PROVE  history[e][p] # NoEvent
  <2>1. s < n
    BY <1>5 DEF HasPrefix
  <2>2. p < n
    BY <1>3, <2>1, n \in Int DEF ResultCount
  <2> QED
    BY <1>3, <1>5, <2>2 DEF HasPrefix, PlannedEvent, NoEvent, ResultCount
<1> QED
  BY <1>2, <1>4, <1>5

\* The page limit of the route is above the number of events a run can have.
LEMMA LimitIsNotReached ==
  ASSUME NEW e \in Executions, NEW s \in Positions
  PROVE  Cardinality({p \in StoredPositions(e) : p < s}) < MaxEvents
<1> DEFINE before == {p \in StoredPositions(e) : p < s}
<1>1. before \in SUBSET (0..3)
  BY DEF StoredPositions, Positions, ResultCount
<1>2. IsFiniteSet(0..3) /\ Cardinality(0..3) = 4
  <2>1. 0 \in Int /\ 3 \in Int /\ ~(0 > 3) /\ 3 - 0 + 1 = 4
    OBVIOUS
  <2> QED
    BY <2>1, FS_Interval, Zenon
<1> HIDE DEF before
<1>3. Cardinality(before) <= 4 /\ IsFiniteSet(before)
  BY <1>1, <1>2, FS_Subset
<1>4. Cardinality(before) \in Nat
  BY <1>3, FS_CardinalityType
<1>5. Cardinality(before) < MaxEvents
  BY <1>3, <1>4, MaxEventsOK DEF ResultCount
<1> QED
  BY <1>5 DEF before

ReaderTypeOK ==
  /\ step \in [Requests -> {"ready", "events", "404", "200", "503"}]
  /\ asked \in [Requests -> Executions]
  /\ seenStatus \in [Requests -> {"none", "running", "completed", "failed"}]
  /\ seenEvents \in [Requests -> [Positions -> EventTypes \cup {NoEvent}]]

\* Between the two reads, a status that was final when it was read is still the status.
FinalStatusLasts ==
  \A r \in Requests :
    step[r] = "events" /\ seenStatus[r] \in Terminal => document[asked[r]] = seenStatus[r]

InspectionInv == IInv /\ ReaderTypeOK /\ FinalStatusLasts /\ ResponsesTellTheStory

\* The executions go on while a response is being put together.
LEMMA RunsGoOn ==
  ASSUME InspectionInv, [Next]_vars, UNCHANGED readers
  PROVE  InspectionInv'
<1> USE DEF readers
<1>1. IInv'
  BY StepInv DEF InspectionInv
<1>2. ReaderTypeOK'
  BY DEF InspectionInv, ReaderTypeOK
<1>3. FinalStatusLasts'
  <2> SUFFICES ASSUME NEW r \in Requests, step[r] = "events", seenStatus[r] \in Terminal
               PROVE  document'[asked[r]] = seenStatus[r]
    BY DEF FinalStatusLasts
  <2>1. asked[r] \in Executions /\ document[asked[r]] = seenStatus[r]
    BY DEF InspectionInv, ReaderTypeOK, FinalStatusLasts
  <2> QED
    BY <2>1, FinalStep DEF InspectionInv
<1>4. ResponsesTellTheStory'
  BY DEF InspectionInv, ResponsesTellTheStory
<1> QED
  BY <1>1, <1>2, <1>3, <1>4 DEF InspectionInv

\* A read changes only what its own request has seen.
LEMMA ReadsTellTheStory ==
  ASSUME InspectionInv, NEW r \in Requests, ReadDocument(r) \/ ReadEvents(r) \/ ReadFails(r)
  PROVE  InspectionInv'
<1>0. IInv /\ ReaderTypeOK /\ FinalStatusLasts /\ ResponsesTellTheStory
  BY DEF InspectionInv
<1>1. IInv'
  <2>1. UNCHANGED vars
    BY DEF ReadDocument, ReadEvents, ReadFails
  <2> QED
    BY <1>0, <2>1, StepInv
<1>2. UNCHANGED <<vars, asked>> /\ document' = document
  BY DEF ReadDocument, ReadEvents, ReadFails, vars, store
<1>3. asked[r] \in Executions
  BY <1>0 DEF ReaderTypeOK
<1> DEFINE x == asked[r]
<1>4. /\ document[x] \in {"none", "running", "completed", "failed"}
      /\ history[x] \in [Positions -> EventTypes \cup {NoEvent}]
      /\ Backed(x)
  BY <1>0, <1>3 DEF IInv, StoreInv, StoreInvAt, TypeOK
<1>5. CASE ReadDocument(r)
  <2>1. ReaderTypeOK'
    BY <1>0, <1>2, <1>4, <1>5 DEF ReadDocument, ReaderTypeOK
  <2>2. FinalStatusLasts'
    BY <1>0, <1>2, <1>5 DEF ReadDocument, FinalStatusLasts, ReaderTypeOK
  <2>3. ResponsesTellTheStory'
    BY <1>0, <1>5 DEF ReadDocument, ResponsesTellTheStory, ReaderTypeOK
  <2> QED
    BY <1>1, <2>1, <2>2, <2>3 DEF InspectionInv
<1>6. CASE ReadEvents(r)
  <2>1. [s \in Positions |->
           IF Cardinality({p \in StoredPositions(x) : p < s}) < MaxEvents
           THEN history[x][s] ELSE NoEvent] = history[x]
    BY <1>3, <1>4, LimitIsNotReached
  <2>2. /\ seenEvents' = [seenEvents EXCEPT ![r] = history[x]]
        /\ step' = [step EXCEPT ![r] = "200"] /\ step[r] = "events"
        /\ seenStatus' = seenStatus
    BY <1>6, <2>1 DEF ReadEvents
  <2>3. ReaderTypeOK'
    BY <1>0, <1>2, <1>4, <2>2 DEF ReaderTypeOK
  <2>4. FinalStatusLasts'
    BY <1>0, <1>2, <2>2 DEF FinalStatusLasts, ReaderTypeOK
  <2>5. /\ seenStatus[r] = "completed" => HasPrefix(x, ResultCount + 3)
        /\ seenStatus[r] = "failed" => HasFailed(x)
    BY <1>0, <1>4, <2>2 DEF FinalStatusLasts, Backed, Terminal
  <2>6. /\ seenStatus[r] = "completed" => \A s \in Positions : history[x][s] = PlannedEvent(s)
        /\ seenStatus[r] = "failed" => history[x][1] = "execution_failed"
        /\ \A s \in Positions : \A p \in 0..s : history[x][s] # NoEvent => history[x][p] # NoEvent
    BY <1>0, <1>3, <2>5, HistoryHasNoGaps
       DEF HasPrefix, HasFailed, Positions, ResultCount
  <2>7. ResponsesTellTheStory'
    <3> SUFFICES ASSUME NEW q \in Requests
                 PROVE  /\ step'[q] = "200" /\ seenStatus'[q] = "completed" =>
                             \A s \in Positions : seenEvents'[q][s] = PlannedEvent(s)
                        /\ step'[q] = "200" /\ seenStatus'[q] = "failed" =>
                             seenEvents'[q][1] = "execution_failed"
                        /\ \A s \in Positions : \A p \in 0..s :
                             seenEvents'[q][s] # NoEvent => seenEvents'[q][p] # NoEvent
      BY DEF ResponsesTellTheStory
    <3>1. CASE q = r
      <4>1. seenEvents'[q] = history[x] /\ seenStatus'[q] = seenStatus[r]
        BY <1>0, <2>2, <3>1 DEF ReaderTypeOK
      <4> QED
        BY <2>6, <4>1
    <3>2. CASE q # r
      <4>1. /\ seenEvents'[q] = seenEvents[q] /\ seenStatus'[q] = seenStatus[q]
            /\ step'[q] = step[q]
        BY <1>0, <2>2, <3>2 DEF ReaderTypeOK
      <4> QED
        BY <1>0, <4>1 DEF ResponsesTellTheStory
    <3> QED
      BY <3>1, <3>2
  <2> QED
    BY <1>1, <2>3, <2>4, <2>7 DEF InspectionInv
<1>7. CASE ReadFails(r)
  <2>1. ReaderTypeOK'
    BY <1>0, <1>2, <1>7 DEF ReadFails, ReaderTypeOK
  <2>2. FinalStatusLasts'
    BY <1>0, <1>2, <1>7 DEF ReadFails, FinalStatusLasts, ReaderTypeOK
  <2>3. ResponsesTellTheStory'
    BY <1>0, <1>7 DEF ReadFails, ResponsesTellTheStory, ReaderTypeOK
  <2> QED
    BY <1>1, <2>1, <2>2, <2>3 DEF InspectionInv
<1> QED
  BY <1>5, <1>6, <1>7

\* Whatever the run does between the two reads, a response is a history that was possible,
\* and a closed run is shown whole (ResponsesTellTheStory).
THEOREM ResponsesAreTrue == InspectionSpec => []ResponsesTellTheStory
<1>1. InspectionInit => InspectionInv
  BY InitInv DEF InspectionInit, InspectionInv, ReaderTypeOK, FinalStatusLasts,
                 ResponsesTellTheStory, NoEvent, Positions, ResultCount
<1>2. InspectionInv /\ [InspectionNext]_<<vars, readers>> => InspectionInv'
  BY RunsGoOn, ReadsTellTheStory DEF InspectionNext
<1>3. InspectionInv => ResponsesTellTheStory
  BY DEF InspectionInv
<1> QED
  BY <1>1, <1>2, <1>3, PTL DEF InspectionSpec

-----------------------------------------------------------------------------
(* What MongoDB holds is a RunHistory *)

\* The log that a run's part of the event collection stands for.
LogIn(h) == [i \in 1..Cardinality({s \in Positions : h[s] # NoEvent}) |-> h[i - 1]]

\* What the refinement mapping makes of a history is LogIn of it, before a step and after.
LEMMA StoredLogIsLogIn ==
  ASSUME NEW e \in Executions
  PROVE  StoredLog[e] = LogIn(history[e]) /\ StoredLog'[e] = LogIn(history'[e])
BY DEF StoredLog, StoredPositions, LogIn

\* The log of a run that went well so far: the planned events in their order.
LEMMA LogOfPrefix ==
  ASSUME NEW h, NEW n \in 0..5,
         \A s \in Positions : h[s] = IF s < n THEN PlannedEvent(s) ELSE NoEvent
  PROVE  LogIn(h) = [i \in 1..n |-> PlannedEvent(i - 1)]
<1>1. {s \in Positions : h[s] # NoEvent} = 0..(n - 1)
  BY DEF PlannedEvent, NoEvent, Positions, ResultCount
<1>2. Cardinality(0..(n - 1)) = n
  <2>1. 0 \in Int /\ n - 1 \in Int /\ n = (IF 0 > n - 1 THEN 0 ELSE (n - 1) - 0 + 1)
    OBVIOUS
  <2> QED
    BY <2>1, FS_Interval, Zenon
<1>3. LogIn(h) = [i \in 1..n |-> h[i - 1]]
  BY <1>1, <1>2 DEF LogIn
<1>4. ASSUME NEW i \in 1..n PROVE h[i - 1] = PlannedEvent(i - 1)
  BY DEF Positions, ResultCount
<1> QED
  BY <1>3, <1>4

\* The log of a failed run: its start and its failure.
LEMMA LogOfFailure ==
  ASSUME NEW h, h[0] = "execution_started", h[1] = "execution_failed",
         \A s \in Positions \ {0, 1} : h[s] = NoEvent
  PROVE  LogIn(h) = <<"execution_started", "execution_failed">>
<1>1. {s \in Positions : h[s] # NoEvent} = 0..1
  BY DEF NoEvent, Positions, ResultCount
<1>2. Cardinality(0..1) = 2
  <2>1. 0 \in Int /\ 1 \in Int /\ ~(0 > 1) /\ 1 - 0 + 1 = 2
    OBVIOUS
  <2> QED
    BY <2>1, FS_Interval, Zenon
<1>3. LogIn(h) = [i \in 1..2 |-> h[i - 1]]
  BY <1>1, <1>2 DEF LogIn
<1> QED
  BY <1>3

\* An insert appends to the log of its run, and only what may follow there.
LEMMA InsertAppends ==
  ASSUME IInv, NEW e \in Executions, LandEvent(e), ~landed[e]
  PROVE  Abstract!AppendEvent(e)
<1>1. TypeOK /\ StoreInvAt(e)
  BY DEF IInv, StoreInv
<1>2. StoreAtPoint(e) /\ pc[e] \in InsertPoints /\ landed[e] = FALSE
  BY <1>1 DEF LandEvent, StoreInvAt, WritePoints, TypeOK
<1> DEFINE k == nextSequence[e]
<1>3. k \in Positions
  BY <1>1 DEF TypeOK
<1>4. /\ history'[e][k] = InsertedEvent(e)
      /\ \A s \in Positions \ {k} : history'[e][s] = history[e][s]
      /\ \A x \in Executions \ {e} : history'[x] = history[x]
  BY <1>1 DEF LandEvent, TypeOK
<1>5. \A x \in Executions \ {e} : StoredLog'[x] = StoredLog[x]
  BY <1>4, StoredLogIsLogIn
<1>6. DOMAIN StoredLog = Executions /\ DOMAIN StoredLog' = Executions
  BY DEF StoredLog
<1>7. \E t \in Abstract!MayFollow(StoredLog[e]) :
        StoredLog'[e] = Append(StoredLog[e], t)
  <2>1. ASSUME k \in 0..4, HasPrefix(e, k), InsertedEvent(e) = PlannedEvent(k)
        PROVE  /\ StoredLog[e] = [i \in 1..k |-> PlannedEvent(i - 1)]
               /\ StoredLog'[e] = Append(StoredLog[e], PlannedEvent(k))
    <3>1. \A s \in Positions : history'[e][s] = IF s < k + 1 THEN PlannedEvent(s) ELSE NoEvent
      BY <1>4, <2>1 DEF HasPrefix, Positions, ResultCount
    <3>2. k \in 0..5 /\ k + 1 \in 0..5
      BY <2>1
    <3>3. StoredLog[e] = [i \in 1..k |-> PlannedEvent(i - 1)]
      BY <2>1, <3>2, LogOfPrefix, StoredLogIsLogIn DEF HasPrefix
    <3>4. StoredLog'[e] = [i \in 1..(k + 1) |-> PlannedEvent(i - 1)]
      BY <3>1, <3>2, LogOfPrefix, StoredLogIsLogIn
    <3> QED
      BY <3>2, <3>3, <3>4
  <2>2. CASE pc[e] = "record_started"
    <3>1. k = 0 /\ HasPrefix(e, 0) /\ InsertedEvent(e) = PlannedEvent(0)
      BY <1>2, <2>2 DEF StoreAtPoint, Stored, InsertedEvent, PlannedEvent, ResultCount
    <3>2. /\ Len(StoredLog[e]) = 0
          /\ StoredLog'[e] = Append(StoredLog[e], "execution_started")
      BY <2>1, <3>1 DEF PlannedEvent, ResultCount
    <3> QED
      BY <3>2 DEF Abstract!MayFollow
  <2>3. CASE pc[e] = "record_result"
    <3>1. HasPrefix(e, k) /\ k \in 1..4 /\ InsertedEvent(e) = PlannedEvent(k)
      <4>1. HasPrefix(e, k + 0) /\ k >= 1
        BY <1>2, <2>3 DEF StoreAtPoint, Stored
      <4> QED
        BY <1>3, <2>3, <4>1 DEF InsertedEvent, Positions, ResultCount
    <3>2. /\ StoredLog[e] = [i \in 1..k |-> PlannedEvent(i - 1)]
          /\ StoredLog'[e] = Append(StoredLog[e], PlannedEvent(k))
      BY <2>1, <3>1
    <3>4. /\ Len(StoredLog[e]) = k
          /\ k >= 2 => StoredLog[e][2] = "routing_completed"
      <4>1. PlannedEvent(2 - 1) = "routing_completed"
        BY DEF PlannedEvent, ResultCount
      <4>2. k \in Nat /\ (k >= 2 => 2 \in 1..k)
        BY <3>1
      <4> HIDE DEF k
      <4> QED
        BY <3>2, <4>1, <4>2
    <3>3. PlannedEvent(k) \in Abstract!MayFollow(StoredLog[e])
      BY <3>1, <3>4 DEF Abstract!MayFollow, PlannedEvent, ResultCount
    <3> QED
      BY <3>2, <3>3
  <2>4. CASE pc[e] = "record_failed"
    <3>1. k = 1 /\ HasPrefix(e, 1) /\ InsertedEvent(e) = "execution_failed"
      BY <1>2, <2>4 DEF StoreAtPoint, InsertedEvent
    <3>2. /\ history'[e][0] = "execution_started" /\ history'[e][1] = "execution_failed"
          /\ \A s \in Positions \ {0, 1} : history'[e][s] = NoEvent
      BY <1>4, <3>1 DEF HasPrefix, PlannedEvent, Positions, ResultCount
    <3>3. StoredLog[e] = [i \in 1..1 |-> PlannedEvent(i - 1)]
      BY <3>1, LogOfPrefix, StoredLogIsLogIn DEF HasPrefix
    <3>4. StoredLog'[e] = <<"execution_started", "execution_failed">>
      BY <3>2, LogOfFailure, StoredLogIsLogIn
    <3>5. StoredLog[e] = <<"execution_started">>
      <4>1. PlannedEvent(1 - 1) = "execution_started"
        BY DEF PlannedEvent, ResultCount
      <4> QED
        BY <3>3, <4>1
    <3>6. StoredLog'[e] = Append(StoredLog[e], "execution_failed")
      BY <3>4, <3>5
    <3>7. "execution_failed" \in Abstract!MayFollow(StoredLog[e])
      BY <3>5 DEF Abstract!MayFollow
    <3> QED
      BY <3>6, <3>7
  <2> QED
    BY <1>2, <2>2, <2>3, <2>4 DEF InsertPoints
<1>8. PICK t \in Abstract!MayFollow(StoredLog[e]) : StoredLog'[e] = Append(StoredLog[e], t)
  BY <1>7
<1>9. StoredLog' = [StoredLog EXCEPT ![e] = Append(@, t)]
  <2>1. StoredLog = [x \in Executions |-> StoredLog[x]]
        /\ StoredLog' = [x \in Executions |-> StoredLog'[x]]
    BY DEF StoredLog
  <2> QED
    BY <1>5, <1>8, <2>1
<1>10. document[e] = "running" /\ document' = document
  BY <1>2 DEF LandEvent, StoreAtPoint, Stored, InsertPoints
<1> QED
  BY <1>8, <1>9, <1>10 DEF Abstract!AppendEvent

\* A status is written when the event it reports is the last one stored.
LEMMA StatusFollowsLog ==
  ASSUME IInv, NEW e \in Executions, LandStatus(e), ~landed[e]
  PROVE  Abstract!Open(e) \/ Abstract!Close(e)
<1>1. TypeOK /\ StoreInvAt(e)
  BY DEF IInv, StoreInv
<1>2. StoreAtPoint(e) /\ pc[e] \in StatusPoints /\ landed[e] = FALSE
  BY <1>1 DEF LandStatus, StoreInvAt, WritePoints, TypeOK
<1>3. /\ document' = [document EXCEPT ![e] = WrittenStatus(e)]
      /\ StoredLog' = StoredLog
  BY DEF LandStatus, StoredLog, StoredPositions
<1>4. CASE pc[e] = "create_document"
  BY <1>2, <1>3, <1>4 DEF StoreAtPoint, Stored, WrittenStatus, Abstract!Open
<1>5. CASE pc[e] = "replace_completed"
  <2>1. document[e] = "running" /\ HasPrefix(e, ResultCount + 3)
    BY <1>2, <1>5 DEF StoreAtPoint, Stored
  <2>2. StoredLog[e] = [i \in 1..5 |-> PlannedEvent(i - 1)]
    <3>1. ResultCount + 3 = 5
      BY DEF ResultCount
    <3> QED
      BY <2>1, <3>1, LogOfPrefix, StoredLogIsLogIn DEF HasPrefix
  <2>3. Len(StoredLog[e]) = 5 /\ StoredLog[e][5] = "execution_completed" /\ StoredLog[e] # <<>>
    BY <2>2 DEF PlannedEvent, ResultCount
  <2> QED
    BY <1>3, <1>5, <2>1, <2>3 DEF WrittenStatus, Abstract!Close
<1>6. CASE pc[e] = "replace_failed"
  <2>1. document[e] = "running" /\ HasFailed(e)
    BY <1>2, <1>6 DEF StoreAtPoint
  <2>2. StoredLog[e] = <<"execution_started", "execution_failed">>
    BY <2>1, LogOfFailure, StoredLogIsLogIn DEF HasFailed
  <2>3. Len(StoredLog[e]) = 2 /\ StoredLog[e][2] = "execution_failed" /\ StoredLog[e] # <<>>
    BY <2>2
  <2> QED
    BY <1>3, <1>6, <2>1, <2>3 DEF WrittenStatus, Abstract!Close
<1> QED
  BY <1>2, <1>4, <1>5, <1>6 DEF StatusPoints

\* Every step of the executions is a step of RunHistory or leaves the store alone.
LEMMA StoreStep == IInv /\ [Next]_vars => [Abstract!Next]_(Abstract!vars)
<1> SUFFICES ASSUME IInv, [Next]_vars PROVE [Abstract!Next]_(Abstract!vars)
  OBVIOUS
<1>1. ASSUME UNCHANGED store PROVE UNCHANGED Abstract!vars
  BY <1>1 DEF store, Abstract!vars, StoredLog, StoredPositions
<1>2. ASSUME NEW e \in Executions, Land(e) PROVE Abstract!Next
  BY <1>2, InsertAppends, StatusFollowsLog DEF Land, Abstract!Next
<1>3. ASSUME NEW e \in Executions, Start(e) \/ Proceed(e) \/ Cancel(e)
      PROVE  UNCHANGED Abstract!vars
  BY <1>1, <1>3, TasksDoNotTouchTheStore
<1>4. CASE Crash \/ UNCHANGED vars
  BY <1>1, <1>4 DEF Crash, vars
<1> QED
  BY <1>2, <1>3, <1>4 DEF Next, Advance, Quiescent

\* The status documents and the event collection behave as RunHistory says
\* (ImplementsRunHistory).
THEOREM ExecutionRefinesHistory == Spec => ImplementsRunHistory
<1>1. Init => Abstract!Init
  <2> SUFFICES ASSUME Init PROVE Abstract!Init
    OBVIOUS
  <2>1. ASSUME NEW e \in Executions PROVE StoredLog[e] = <<>>
    <3>1. \A s \in Positions : history[e][s] = IF s < 0 THEN PlannedEvent(s) ELSE NoEvent
      BY DEF Init, Positions, ResultCount
    <3>2. StoredLog[e] = [i \in 1..0 |-> PlannedEvent(i - 1)]
      BY <3>1, LogOfPrefix, StoredLogIsLogIn
    <3> QED
      BY <3>2
  <2>2. StoredLog = [e \in Executions |-> StoredLog[e]]
    BY DEF StoredLog
  <2> QED
    BY <2>1, <2>2 DEF Init, Abstract!Init
<1> QED
  BY <1>1, StoreStep, InductiveInvariant, PTL DEF Spec, ImplementsRunHistory, Abstract!Spec
=============================================================================

---------------------- MODULE RequestObservationProofs ----------------------
(***************************************************************************)
(* What holds of RequestObservation for any number of requests, sockets,   *)
(* executions and messages, finite or not: what is in progress or has been *)
(* counted is finite because it comes about one step at a time.  IInv      *)
(* gives every counter the people it counts, and says of each request what *)
(* its layers have written at the point it stands at.                      *)
(***************************************************************************)
EXTENDS RequestObservation, FiniteSetTheorems, TLAPS

InProgress == {r \in Requests : at[r] \in {"app", "started"} /\ IsMeasured(r)}
Open       == {w \in Sockets : at[w] = "open"}
Running    == {c \in Callers : run[c] \in Active}
Counted(s) == {r \in Requests : IsMeasured(r) /\ log[r] = s}
At(p)      == {c \in Callers : run[c] = p}
In(p)      == Cardinality(At(p))

\* The executions that have started and whose ending is neither counted nor announced.
UndecidedStates == InGraph \cup {"storing", "broken", "stopped"}
Undecided == {c \in Callers : run[c] \in UndecidedStates}
Pending   == Cardinality(Undecided)

\* The gauges and the request counter count what they say.
GaugeInv ==
    /\ IsFiniteSet(InProgress) /\ httpGauge = Cardinality(InProgress)
    /\ IsFiniteSet(Open) /\ socketGauge = Cardinality(Open)
    /\ IsFiniteSet(Running) /\ runGauge = Cardinality(Running)
    /\ \A s \in Statuses : IsFiniteSet(Counted(s)) /\ httpTotal[s] = Cardinality(Counted(s))

\* What has been written of a request that is not through, ...
UnderWay(r) ==
    /\ at[r] \in {"new", "app"} => client[r] = None /\ ~hasIds[r]
    /\ at[r] = "started" => client[r] \in Statuses /\ hasIds[r]
    /\ at[r] # "done" => log[r] = None

\* ... and of one that is.
Accounted(r) ==
    at[r] = "done" =>
        /\ log[r] \in Statuses
        /\ span[r] = IF log[r] >= 500 THEN "error" ELSE "ok"
        /\ client[r] = log[r] \/ (route[r] = "stream" /\ log[r] = 500)
        /\ ~hasIds[r] => client[r] = 500 /\ log[r] = 500

\* Only a request for agents runs them, and what it is answered is how they ended.
AnsweredAsRun(r) ==
    /\ route[r] # "agents" => run[r] = "none"
    /\ at[r] \in {"started", "done"} =>
         /\ run[r] \notin Active
         /\ route[r] = "agents" => (client[r] = 200 <=> run[r] = "success")

RequestInv ==
    \A r \in Requests :
        /\ at[r] \in {"new", "app", "started", "done"}
        /\ UnderWay(r) /\ Accounted(r) /\ AnsweredAsRun(r)

\* An ending that is counted was announced by an execution that has ended or is about to,
\* and every start is still undecided or ends at most once.
EndingsInv ==
    /\ runTotal["success"] + In("completed") <= steps["execution_completed"]
    /\ steps["execution_completed"] <= runTotal["success"] + runTotal["cancelled"] + In("completed")
    /\ steps["execution_failed"] <= runTotal["error"] + runTotal["cancelled"]
                                        + In("failing") + In("cancelling")
    /\ steps["execution_failed"] + steps["execution_completed"] + Pending
             <= steps["execution_started"]
    /\ errors["execution_failed"] = steps["execution_failed"]

\* What is still to come of the two results of an execution, and what it has brought.
ResultsInv ==
    /\ steps["routing_completed"] + In("started") <= steps["execution_started"]
    /\ steps["unknown"] + In("routed") <= steps["routing_completed"]
    /\ steps["agent_result"] + 2 * In("assigned") + In("solved") + In("unsolved")
             <= 2 * steps["unknown"]
    /\ 2 * steps["execution_completed"] + In("solved") + In("unsolved")
         + 2 * In("answered") + 2 * In("storing") <= steps["agent_result"]
    /\ results["success"] + results["failed"] = steps["agent_result"]
    /\ errors["agent_result"] = results["failed"]

StepsInv ==
    /\ (\A p \in Active : IsFiniteSet(At(p))) /\ IsFiniteSet(Undecided)
    /\ EndingsInv /\ ResultsInv

IInv == TypeOK /\ GaugeInv /\ RequestInv /\ StepsInv

-----------------------------------------------------------------------------
(* Counting *)

\* One more is counted.
LEMMA Joining ==
  ASSUME NEW S, IsFiniteSet(S), NEW c, c \notin S
  PROVE  IsFiniteSet(S \cup {c}) /\ Cardinality(S \cup {c}) = Cardinality(S) + 1
BY FS_AddElement

\* One less is counted.
LEMMA Leaving ==
  ASSUME NEW S, IsFiniteSet(S), NEW c, c \in S
  PROVE  /\ IsFiniteSet(S \ {c}) /\ Cardinality(S \ {c}) = Cardinality(S) - 1
         /\ Cardinality(S) \in Nat /\ Cardinality(S) - 1 \in Nat
<1>1. IsFiniteSet(S \ {c}) /\ Cardinality(S \ {c}) = Cardinality(S) - 1
  BY FS_RemoveElement
<1>2. Cardinality(S) \in Nat /\ Cardinality(S \ {c}) \in Nat
  BY <1>1, FS_CardinalityType
<1> QED
  BY <1>1, <1>2

-----------------------------------------------------------------------------
(* Executions *)

\* An execution that moves on is counted where it goes and no longer where it was.
LEMMA InMoves ==
  ASSUME TypeOK, StepsInv, NEW c \in Callers, NEW to, run[c] # to,
         run' = [run EXCEPT ![c] = to], NEW p \in Active
  PROVE  /\ IsFiniteSet(At(p)') /\ In(p) \in Nat /\ In(p)' \in Nat
         /\ In(p)' = IF p = to THEN In(p) + 1 ELSE IF p = run[c] THEN In(p) - 1 ELSE In(p)
<1>1. IsFiniteSet(At(p)) /\ In(p) \in Nat
  BY FS_CardinalityType DEF StepsInv, In
<1>2. \A d \in Callers : run'[d] = IF d = c THEN to ELSE run[d]
  BY DEF TypeOK
<1>3. CASE p = to
  <2>1. c \notin At(p) /\ At(p)' = At(p) \cup {c}
    BY <1>2, <1>3 DEF At
  <2>2. IsFiniteSet(At(p)') /\ In(p)' = In(p) + 1
    BY <1>1, <2>1, Joining DEF In
  <2> QED
    BY <1>1, <1>3, <2>2
<1>4. CASE p # to /\ p = run[c]
  <2>1. c \in At(p) /\ At(p)' = At(p) \ {c}
    BY <1>2, <1>4 DEF At
  <2>2. IsFiniteSet(At(p)') /\ In(p)' = In(p) - 1 /\ In(p)' \in Nat
    BY <1>1, <2>1, Leaving DEF In
  <2> QED
    BY <1>1, <1>4, <2>2
<1>5. CASE p # to /\ p # run[c]
  <2>1. At(p)' = At(p)
    BY <1>2, <1>5 DEF At
  <2> QED
    BY <1>1, <1>5, <2>1 DEF In
<1> QED
  BY <1>3, <1>4, <1>5

\* The executions in progress are one more, one less or the same.
LEMMA RunningMoves ==
  ASSUME TypeOK, GaugeInv, NEW c \in Callers, NEW to, run' = [run EXCEPT ![c] = to]
  PROVE  /\ run[c] \notin Active /\ to \in Active =>
              IsFiniteSet(Running') /\ Cardinality(Running') = runGauge + 1
         /\ run[c] \in Active /\ to \notin Active =>
              IsFiniteSet(Running') /\ Cardinality(Running') = runGauge - 1 /\ runGauge - 1 \in Nat
         /\ run[c] \in Active /\ to \in Active =>
              IsFiniteSet(Running') /\ Cardinality(Running') = runGauge
<1>1. IsFiniteSet(Running) /\ runGauge = Cardinality(Running)
  BY DEF GaugeInv
<1>2. \A d \in Callers : run'[d] = IF d = c THEN to ELSE run[d]
  BY DEF TypeOK
<1>3. CASE run[c] \notin Active /\ to \in Active
  <2>1. c \notin Running /\ Running' = Running \cup {c}
    BY <1>2, <1>3 DEF Running
  <2>2. IsFiniteSet(Running') /\ Cardinality(Running') = runGauge + 1
    BY <1>1, <2>1, Joining
  <2> QED
    BY <1>3, <2>2
<1>4. CASE run[c] \in Active /\ to \notin Active
  <2>1. c \in Running /\ Running' = Running \ {c}
    BY <1>2, <1>4 DEF Running
  <2>2. IsFiniteSet(Running') /\ Cardinality(Running') = runGauge - 1 /\ runGauge - 1 \in Nat
    BY <1>1, <2>1, Leaving
  <2> QED
    BY <1>4, <2>2
<1>5. CASE run[c] \in Active /\ to \in Active
  <2>1. Running' = Running
    BY <1>2, <1>5 DEF Running
  <2> QED
    BY <1>1, <1>5, <2>1
<1> QED
  BY <1>3, <1>4, <1>5

\* What an execution does concerns no gauge but its own.
LEMMA OthersGauges ==
  ASSUME GaugeInv, UNCHANGED <<request, http, socket>>,
         IsFiniteSet(Running') /\ runGauge' = Cardinality(Running')
  PROVE  GaugeInv'
<1>1. /\ UNCHANGED <<route, at, client, hasIds, log, span, httpGauge, httpTotal>>
      /\ UNCHANGED <<socketGauge, socketTotal, messages>>
  BY DEF request, http, socket
<1>2. /\ InProgress' = InProgress /\ Open' = Open
      /\ \A s \in Statuses : Counted(s)' = Counted(s)
  BY <1>1 DEF InProgress, Open, Counted, IsMeasured
<1> QED
  BY <1>1, <1>2 DEF GaugeInv

\* An execution moves only while its request has no answer.
LEMMA OthersRequests ==
  ASSUME TypeOK, RequestInv, UNCHANGED <<request, http, socket>>, NEW c \in Callers, NEW to,
         run' = [run EXCEPT ![c] = to],
         c \in Requests => \/ run[c] \in Active
                           \/ at[c] = "app" /\ route[c] = "agents"
  PROVE  RequestInv'
<1>1. UNCHANGED <<route, at, client, hasIds, log, span>>
  BY DEF request
<1>2. \A d \in Callers : run'[d] = IF d = c THEN to ELSE run[d]
  BY DEF TypeOK
<1> SUFFICES ASSUME NEW r \in Requests
             PROVE  /\ at'[r] \in {"new", "app", "started", "done"}
                    /\ UnderWay(r)' /\ Accounted(r)' /\ AnsweredAsRun(r)'
  BY DEF RequestInv
<1>3. /\ at[r] \in {"new", "app", "started", "done"}
      /\ UnderWay(r) /\ Accounted(r) /\ AnsweredAsRun(r) /\ r \in Callers
  BY DEF RequestInv, Callers
<1>4. UnderWay(r)' /\ Accounted(r)'
  BY <1>1, <1>3 DEF UnderWay, Accounted
<1>5. CASE r # c
  <2>1. run'[r] = run[r]
    BY <1>2, <1>3, <1>5
  <2>2. AnsweredAsRun(r)'
    BY <1>1, <1>3, <2>1 DEF AnsweredAsRun
  <2> QED
    BY <1>1, <1>3, <1>4, <2>2
<1>6. CASE r = c
  <2>1. at[r] \notin {"started", "done"} /\ route[r] = "agents"
    BY <1>3, <1>6 DEF AnsweredAsRun, Active
  <2>2. AnsweredAsRun(r)'
    BY <1>1, <2>1 DEF AnsweredAsRun
  <2> QED
    BY <1>1, <1>3, <1>4, <2>2
<1> QED
  BY <1>5, <1>6

\* Counters are numbers.
LEMMA Numbers ==
  ASSUME TypeOK
  PROVE  /\ runTotal["success"] \in Nat /\ runTotal["error"] \in Nat
         /\ runTotal["cancelled"] \in Nat
         /\ \A t \in EventTypes : steps[t] \in Nat
         /\ results["success"] \in Nat /\ results["failed"] \in Nat
         /\ errors["agent_result"] \in Nat /\ errors["execution_failed"] \in Nat
BY DEF TypeOK, Outcomes

\* How a move changes the tallies.
LEMMA TallyMoves ==
  ASSUME TypeOK, StepsInv, NEW c \in Callers, NEW to, run[c] # to,
         run' = [run EXCEPT ![c] = to]
  PROVE  \A p \in Active :
           /\ IsFiniteSet(At(p)') /\ In(p) \in Nat /\ In(p)' \in Nat
           /\ In(p)' = IF p = to THEN In(p) + 1 ELSE IF p = run[c] THEN In(p) - 1 ELSE In(p)
BY InMoves

\* The undecided executions are one more, one less or the same.
LEMMA UndecidedMoves ==
  ASSUME TypeOK, StepsInv, NEW c \in Callers, NEW to, run' = [run EXCEPT ![c] = to]
  PROVE  /\ IsFiniteSet(Undecided') /\ Pending \in Nat /\ Pending' \in Nat
         /\ run[c] \notin UndecidedStates /\ to \in UndecidedStates => Pending' = Pending + 1
         /\ run[c] \in UndecidedStates /\ to \notin UndecidedStates => Pending' = Pending - 1
         /\ (run[c] \in UndecidedStates <=> to \in UndecidedStates) => Pending' = Pending
<1>1. IsFiniteSet(Undecided) /\ Pending \in Nat
  BY FS_CardinalityType DEF StepsInv, Pending
<1>2. \A d \in Callers : run'[d] = IF d = c THEN to ELSE run[d]
  BY DEF TypeOK
<1>3. CASE run[c] \notin UndecidedStates /\ to \in UndecidedStates
  <2>1. c \notin Undecided /\ Undecided' = Undecided \cup {c}
    BY <1>2, <1>3 DEF Undecided
  <2>2. IsFiniteSet(Undecided') /\ Pending' = Pending + 1
    BY <1>1, <2>1, Joining DEF Pending
  <2> QED
    BY <1>1, <1>3, <2>2
<1>4. CASE run[c] \in UndecidedStates /\ to \notin UndecidedStates
  <2>1. c \in Undecided /\ Undecided' = Undecided \ {c}
    BY <1>2, <1>4 DEF Undecided
  <2>2. IsFiniteSet(Undecided') /\ Pending' = Pending - 1 /\ Pending' \in Nat
    BY <1>1, <2>1, Leaving DEF Pending
  <2> QED
    BY <1>1, <1>4, <2>2
<1>5. CASE run[c] \in UndecidedStates <=> to \in UndecidedStates
  <2>1. Undecided' = Undecided
    BY <1>2, <1>5 DEF Undecided
  <2> QED
    BY <1>1, <1>5, <2>1 DEF Pending
<1> QED
  BY <1>3, <1>4, <1>5

\* The end of an execution is counted, and no step.
LEMMA EndKeepsSteps ==
  ASSUME TypeOK, StepsInv, NEW c \in Callers, NEW from, NEW outcome \in Outcomes,
         End(c, from, outcome),
         outcome = "success" => run[c] = "completed",
         outcome = "error" => run[c] \in {"starting", "storing", "failing"},
         run[c] \in Active
  PROVE  StepsInv'
<1>1. /\ run' = [run EXCEPT ![c] = outcome] /\ runTotal' = Plus(runTotal, outcome)
      /\ steps' = steps /\ results' = results /\ errors' = errors
  BY DEF End, RunMoves
<1>2. outcome \notin Active /\ run[c] # outcome
  BY DEF Outcomes, Active
<1>3. PICK q \in Active : q = run[c]
  OBVIOUS
<1>4. \A p \in Active : /\ IsFiniteSet(At(p)') /\ In(p) \in Nat /\ In(p)' \in Nat
                        /\ In(p)' = IF p = q THEN In(p) - 1 ELSE In(p)
  BY <1>1, <1>2, <1>3, TallyMoves
<1>5. /\ runTotal'[outcome] = runTotal[outcome] + 1
      /\ \A o \in Outcomes \ {outcome} : runTotal'[o] = runTotal[o]
  BY <1>1 DEF Plus, TypeOK
<1>6. /\ IsFiniteSet(Undecided') /\ Pending \in Nat /\ Pending' \in Nat /\ Pending' <= Pending
  <2>1. outcome \notin UndecidedStates
    BY DEF Outcomes, UndecidedStates, InGraph
  <2>2. IsFiniteSet(Undecided') /\ Pending \in Nat /\ Pending' \in Nat
    BY <1>1, UndecidedMoves
  <2>3. Pending' = Pending - 1 \/ Pending' = Pending
    BY <1>1, <2>1, UndecidedMoves
  <2> QED
    BY <2>2, <2>3
<1>7. EndingsInv'
  <2>1. EndingsInv
    BY DEF StepsInv
  <2>2. CASE outcome = "success"
    BY <1>1, <1>3, <1>4, <1>5, <1>6, <2>1, <2>2, Numbers
    DEF EndingsInv, Outcomes, Active, EventTypes
  <2>3. CASE outcome = "error"
    BY <1>1, <1>3, <1>4, <1>5, <1>6, <2>1, <2>3, Numbers
    DEF EndingsInv, Outcomes, Active, EventTypes
  <2>4. CASE outcome = "cancelled"
    BY <1>1, <1>3, <1>4, <1>5, <1>6, <2>1, <2>4, Numbers
    DEF EndingsInv, Outcomes, Active, EventTypes
  <2> QED
    BY <2>2, <2>3, <2>4 DEF Outcomes
<1>8. ResultsInv'
  <2>1. ResultsInv
    BY DEF StepsInv
  <2> QED
    BY <1>1, <1>4, <2>1, Numbers DEF ResultsInv, Active, EventTypes
<1> QED
  BY <1>4, <1>6, <1>7, <1>8 DEF StepsInv

\* A step that no event tells of leads on in the graph, to the store, or to a failure.
LEMMA ProceedKeepsSteps ==
  ASSUME TypeOK, StepsInv, NEW c \in Callers, NEW q, NEW to, run[c] = q,
         run' = [run EXCEPT ![c] = to], UNCHANGED <<runTotal, steps, results, errors>>,
         \/ q = "answered" /\ to = "storing"
         \/ q \in InGraph /\ to \in {"broken", "stopped"}
         \/ q \in {"none"} \cup Outcomes /\ to = "starting"
  PROVE  StepsInv'
<1>0. StepsInv /\ q # to
  BY DEF InGraph, Outcomes
<1>1. \A p \in Active :
        /\ IsFiniteSet(At(p)') /\ In(p) \in Nat /\ In(p)' \in Nat
        /\ In(p)' = IF p = to THEN In(p) + 1 ELSE IF p = q THEN In(p) - 1 ELSE In(p)
  BY <1>0, TallyMoves
<1>2. IsFiniteSet(Undecided') /\ Pending' = Pending
  <2>1. q \in UndecidedStates <=> to \in UndecidedStates
    BY DEF UndecidedStates, InGraph, Outcomes
  <2> QED
    BY <2>1, UndecidedMoves
<1>3. EndingsInv'
  <2>1. EndingsInv
    BY DEF StepsInv
  <2>2. /\ q \notin {"completed", "failing", "cancelling"}
        /\ to \notin {"completed", "failing", "cancelling"}
    BY DEF InGraph, Outcomes
  <2>3. \A p \in {"completed", "failing", "cancelling"} : In(p)' = In(p)
    BY <1>1, <2>2 DEF Active
  <2> QED
    BY <1>2, <2>1, <2>3 DEF EndingsInv
<1>4. ResultsInv'
  <2>1. ResultsInv
    BY DEF StepsInv
  <2> QED
    BY <1>1, <2>1, Numbers DEF ResultsInv, Active, InGraph, Outcomes, EventTypes
<1> QED
  BY <1>1, <1>2, <1>3, <1>4 DEF StepsInv

\* Where an event that is no result takes an execution.
EventStep(q, to, type) ==
    \/ q = "starting" /\ to = "started" /\ type = "execution_started"
    \/ q = "started" /\ to = "routed" /\ type = "routing_completed"
    \/ q = "routed" /\ to = "assigned" /\ type = "unknown"
    \/ q = "storing" /\ to = "completed" /\ type = "execution_completed"

\* Such an event is counted where the execution then stands.
LEMMA EventKeepsSteps ==
  ASSUME TypeOK, StepsInv, NEW c \in Callers, NEW q, NEW to, NEW type, EventStep(q, to, type),
         Record(c, {q}, to, type), UNCHANGED <<results, errors>>
  PROVE  StepsInv'
<1>1. /\ run[c] = q /\ run' = [run EXCEPT ![c] = to] /\ q # to /\ type \in EventTypes
      /\ steps' = Plus(steps, type) /\ UNCHANGED <<runTotal, results, errors>>
  BY DEF Record, RunMoves, EventStep, EventTypes
<1>2. \A p \in Active :
        /\ IsFiniteSet(At(p)') /\ In(p) \in Nat /\ In(p)' \in Nat
        /\ In(p)' = IF p = to THEN In(p) + 1 ELSE IF p = q THEN In(p) - 1 ELSE In(p)
  BY <1>1, TallyMoves
<1>3. /\ steps'[type] = steps[type] + 1
      /\ \A t \in EventTypes \ {type} : steps'[t] = steps[t]
  BY <1>1 DEF Plus, TypeOK
<1>4. /\ IsFiniteSet(Undecided') /\ Pending \in Nat /\ Pending' \in Nat
      /\ q = "starting" => Pending' = Pending + 1
      /\ q = "storing" => Pending' = Pending - 1
      /\ q \in {"started", "routed"} => Pending' = Pending
  <2>1. /\ q = "starting" => q \notin UndecidedStates /\ to \in UndecidedStates
        /\ q = "storing" => q \in UndecidedStates /\ to \notin UndecidedStates
        /\ q \in {"started", "routed"} => q \in UndecidedStates /\ to \in UndecidedStates
    BY DEF EventStep, UndecidedStates, InGraph
  <2> QED
    BY <1>1, <2>1, UndecidedMoves
<1>5. EndingsInv'
  <2>1. EndingsInv
    BY DEF StepsInv
  <2>2. CASE q = "starting"
    BY <1>1, <1>2, <1>3, <1>4, <2>1, <2>2, Numbers DEF EndingsInv, EventStep, Active, EventTypes
  <2>3. CASE q \in {"started", "routed"}
    BY <1>1, <1>2, <1>3, <1>4, <2>1, <2>3, Numbers DEF EndingsInv, EventStep, Active, EventTypes
  <2>4. CASE q = "storing"
    BY <1>1, <1>2, <1>3, <1>4, <2>1, <2>4, Numbers DEF EndingsInv, EventStep, Active, EventTypes
  <2> QED
    BY <2>2, <2>3, <2>4 DEF EventStep
<1>6. ResultsInv'
  <2>1. ResultsInv
    BY DEF StepsInv
  <2> QED
    BY <1>1, <1>2, <1>3, <2>1, Numbers DEF ResultsInv, EventStep, Active, EventTypes
<1> QED
  BY <1>2, <1>4, <1>5, <1>6 DEF StepsInv

\* A failure is counted with the execution that is about to end by it.
LEMMA FailureKeepsSteps ==
  ASSUME TypeOK, StepsInv, NEW c \in Callers, AnnounceFailure(c)
  PROVE  StepsInv'
<1>1. PICK q \in {"broken", "stopped"}, to \in {"failing", "cancelling"} :
        /\ run[c] = q /\ run' = [run EXCEPT ![c] = to]
        /\ steps' = Plus(steps, "execution_failed") /\ errors' = Plus(errors, "execution_failed")
        /\ UNCHANGED <<runTotal, results>>
  BY DEF AnnounceFailure, Record, RunMoves
<1>2. \A p \in Active :
        /\ IsFiniteSet(At(p)') /\ In(p) \in Nat /\ In(p)' \in Nat
        /\ In(p)' = IF p = to THEN In(p) + 1 ELSE IF p = q THEN In(p) - 1 ELSE In(p)
  BY <1>1, TallyMoves
<1>3. /\ steps'["execution_failed"] = steps["execution_failed"] + 1
      /\ \A t \in EventTypes \ {"execution_failed"} : steps'[t] = steps[t]
      /\ errors'["execution_failed"] = errors["execution_failed"] + 1
      /\ errors'["agent_result"] = errors["agent_result"]
  BY <1>1 DEF Plus, TypeOK, EventTypes
<1>4. IsFiniteSet(Undecided') /\ Pending \in Nat /\ Pending' = Pending - 1
  <2>1. q \in UndecidedStates /\ to \notin UndecidedStates
    BY DEF UndecidedStates, InGraph
  <2> QED
    BY <1>1, <2>1, UndecidedMoves
<1>5. EndingsInv'
  <2>1. EndingsInv
    BY DEF StepsInv
  <2>2. In("failing")' + In("cancelling")' = In("failing") + In("cancelling") + 1
    BY <1>1, <1>2 DEF Active
  <2>3. In("completed")' = In("completed")
    BY <1>1, <1>2 DEF Active
  <2>4. /\ In("failing") \in Nat /\ In("cancelling") \in Nat /\ In("completed") \in Nat
        /\ In("failing")' \in Nat /\ In("cancelling")' \in Nat
    BY <1>2 DEF Active
  <2> QED
    BY <1>1, <1>3, <1>4, <2>1, <2>2, <2>3, <2>4, Numbers DEF EndingsInv, EventTypes
<1>6. ResultsInv'
  <2>1. ResultsInv
    BY DEF StepsInv
  <2> QED
    BY <1>1, <1>2, <1>3, <2>1, Numbers DEF ResultsInv, Active, EventTypes
<1> QED
  BY <1>2, <1>4, <1>5, <1>6 DEF StepsInv

\* Where a result takes an execution.
ResultStep(q, to) ==
    \/ q = "assigned" /\ to \in {"solved", "unsolved"}
    \/ q \in {"solved", "unsolved"} /\ to = "answered"

\* Each of the two results is counted, by its status too, and as an error if it failed.
LEMMA ResultKeepsSteps ==
  ASSUME TypeOK, StepsInv, NEW c \in Callers, NEW q, NEW to, ResultStep(q, to),
         NEW s \in {"success", "failed"}, RecordResult(c, {q}, to, s)
  PROVE  StepsInv'
<1>1. /\ run[c] = q /\ run' = [run EXCEPT ![c] = to] /\ q # to
      /\ steps' = Plus(steps, "agent_result") /\ results' = Plus(results, s)
      /\ runTotal' = runTotal
      /\ errors' = IF s = "failed" THEN Plus(errors, "agent_result") ELSE errors
  BY DEF RecordResult, Record, RunMoves, ResultStep
<1>2. \A p \in Active :
        /\ IsFiniteSet(At(p)') /\ In(p) \in Nat /\ In(p)' \in Nat
        /\ In(p)' = IF p = to THEN In(p) + 1 ELSE IF p = q THEN In(p) - 1 ELSE In(p)
  BY <1>1, TallyMoves
<1>3. /\ steps'["agent_result"] = steps["agent_result"] + 1
      /\ \A t \in EventTypes \ {"agent_result"} : steps'[t] = steps[t]
  BY <1>1 DEF Plus, TypeOK, EventTypes
<1>4. /\ results'["success"] + results'["failed"] = results["success"] + results["failed"] + 1
      /\ errors["agent_result"] = results["failed"] => errors'["agent_result"] = results'["failed"]
      /\ errors'["execution_failed"] = errors["execution_failed"]
  BY <1>1, Numbers DEF Plus, TypeOK
<1>5. IsFiniteSet(Undecided') /\ Pending' = Pending
  <2>1. q \in UndecidedStates /\ to \in UndecidedStates
    BY DEF ResultStep, UndecidedStates, InGraph
  <2> QED
    BY <1>1, <2>1, UndecidedMoves
<1>6. EndingsInv'
  <2>1. EndingsInv
    BY DEF StepsInv
  <2>2. \A p \in {"completed", "failing", "cancelling"} : In(p)' = In(p)
    BY <1>1, <1>2 DEF ResultStep, Active
  <2>3. \A type \in {"execution_started", "execution_completed", "execution_failed"} :
           steps'[type] = steps[type]
    BY <1>3 DEF EventTypes
  <2> QED
    BY <1>1, <1>4, <1>5, <2>1, <2>2, <2>3 DEF EndingsInv
<1>7. ResultsInv'
  <2>1. ResultsInv
    BY DEF StepsInv
  <2> QED
    BY <1>1, <1>2, <1>3, <1>4, <2>1, Numbers DEF ResultsInv, ResultStep, Active, EventTypes
<1> QED
  BY <1>2, <1>5, <1>6, <1>7 DEF StepsInv

\* An execution that has ended is no longer in progress, and its request may be answered.
LEMMA EndKeeps ==
  ASSUME IInv, NEW c \in Callers, NEW from, NEW outcome \in Outcomes, End(c, from, outcome),
         outcome = "success" => run[c] = "completed",
         outcome = "error" => run[c] \in {"starting", "storing", "failing"},
         run[c] \in Active
  PROVE  IInv'
<1>1. TypeOK /\ GaugeInv /\ RequestInv /\ StepsInv
  BY DEF IInv
<1>2. /\ run' = [run EXCEPT ![c] = outcome] /\ runGauge' = runGauge - 1
      /\ runTotal' = Plus(runTotal, outcome) /\ UNCHANGED <<request, http, socket>>
      /\ steps' = steps /\ results' = results /\ errors' = errors
  BY DEF End, RunMoves
<1>3. outcome \notin Active
  BY DEF Outcomes, Active
<1>4. IsFiniteSet(Running') /\ runGauge' = Cardinality(Running') /\ runGauge' \in Nat
  BY <1>1, <1>2, <1>3, RunningMoves
<1>5. GaugeInv' /\ RequestInv'
  BY <1>1, <1>2, <1>4, OthersGauges, OthersRequests
<1>6. runTotal' \in [Outcomes -> Nat]
  BY <1>1, <1>2 DEF TypeOK, Plus, EventTypes
<1>7. TypeOK'
  BY <1>1, <1>2, <1>4, <1>6 DEF TypeOK, request, http, socket
<1>8. StepsInv'
  BY <1>1, EndKeepsSteps
<1> QED
  BY <1>5, <1>7, <1>8 DEF IInv

\* An execution that goes on is still in progress.
LEMMA WorkKeeps ==
  ASSUME TypeOK, GaugeInv, RequestInv, NEW c \in Callers, NEW from \in SUBSET Active,
         NEW to \in Active, RunMoves(c, from, to), UNCHANGED <<runGauge, runTotal>>,
         steps' \in [EventTypes -> Nat], results' \in [{"success", "failed"} -> Nat],
         errors' \in [{"agent_result", "execution_failed"} -> Nat]
  PROVE  TypeOK' /\ GaugeInv' /\ RequestInv'
<1>1. /\ run[c] \in Active /\ run' = [run EXCEPT ![c] = to]
      /\ runGauge' = runGauge /\ runTotal' = runTotal /\ UNCHANGED <<request, http, socket>>
  BY DEF RunMoves
<1>2. IsFiniteSet(Running') /\ runGauge' = Cardinality(Running')
  BY <1>1, RunningMoves
<1>3. GaugeInv' /\ RequestInv'
  BY <1>1, <1>2, OthersGauges, OthersRequests
<1>4. TypeOK'
  BY <1>1 DEF TypeOK, request, http, socket
<1> QED
  BY <1>3, <1>4

\* So it is with a step that no event tells of, ...
LEMMA ProceedKeeps ==
  ASSUME IInv, NEW c \in Callers, NEW from, NEW to, Proceed(c, from, to),
         \/ from = {"answered"} /\ to = "storing"
         \/ from \in SUBSET InGraph /\ to \in {"broken", "stopped"}
  PROVE  IInv'
<1>0. TypeOK /\ GaugeInv /\ RequestInv /\ StepsInv
  BY DEF IInv
<1>1. /\ RunMoves(c, from, to) /\ run[c] \in from /\ run' = [run EXCEPT ![c] = to]
      /\ UNCHANGED <<runGauge, runTotal>> /\ UNCHANGED <<runTotal, steps, results, errors>>
  BY DEF Proceed, RunMoves
<1>2. from \in SUBSET Active /\ to \in Active
  BY DEF InGraph, Active
<1>3. TypeOK' /\ GaugeInv' /\ RequestInv'
  BY <1>0, <1>1, <1>2, WorkKeeps DEF TypeOK
<1>4. StepsInv'
  BY <1>0, <1>1, ProceedKeepsSteps
<1> QED
  BY <1>3, <1>4 DEF IInv

\* ... with an event that is no result, ...
LEMMA EventKeeps ==
  ASSUME IInv, NEW c \in Callers, NEW q, NEW to, NEW type, EventStep(q, to, type),
         Record(c, {q}, to, type), UNCHANGED <<results, errors>>
  PROVE  IInv'
<1>0. TypeOK /\ GaugeInv /\ RequestInv /\ StepsInv
  BY DEF IInv
<1>1. /\ RunMoves(c, {q}, to) /\ steps' = Plus(steps, type)
      /\ UNCHANGED <<runGauge, runTotal>> /\ results' = results /\ errors' = errors
  BY DEF Record
<1>2. {q} \in SUBSET Active /\ to \in Active /\ type \in EventTypes
  BY DEF EventStep, Active, EventTypes
<1>3. /\ steps' \in [EventTypes -> Nat] /\ results' \in [{"success", "failed"} -> Nat]
      /\ errors' \in [{"agent_result", "execution_failed"} -> Nat]
  BY <1>0, <1>1, <1>2 DEF TypeOK, Plus
<1>4. TypeOK' /\ GaugeInv' /\ RequestInv'
  BY <1>0, <1>1, <1>2, <1>3, WorkKeeps
<1>5. StepsInv'
  BY <1>0, EventKeepsSteps
<1> QED
  BY <1>4, <1>5 DEF IInv

\* ... with a result, ...
LEMMA ResultKeeps ==
  ASSUME IInv, NEW c \in Callers, NEW q, NEW to, ResultStep(q, to),
         NEW s \in {"success", "failed"}, RecordResult(c, {q}, to, s)
  PROVE  IInv'
<1>0. TypeOK /\ GaugeInv /\ RequestInv /\ StepsInv
  BY DEF IInv
<1>1. /\ RunMoves(c, {q}, to) /\ steps' = Plus(steps, "agent_result")
      /\ UNCHANGED <<runGauge, runTotal>> /\ results' = Plus(results, s)
      /\ errors' = IF s = "failed" THEN Plus(errors, "agent_result") ELSE errors
  BY DEF RecordResult, Record
<1>2. {q} \in SUBSET Active /\ to \in Active
  BY DEF ResultStep, Active
<1>3. /\ steps' \in [EventTypes -> Nat] /\ results' \in [{"success", "failed"} -> Nat]
      /\ errors' \in [{"agent_result", "execution_failed"} -> Nat]
  BY <1>0, <1>1 DEF TypeOK, Plus, EventTypes
<1>4. TypeOK' /\ GaugeInv' /\ RequestInv'
  BY <1>0, <1>1, <1>2, <1>3, WorkKeeps
<1>5. StepsInv'
  BY <1>0, ResultKeepsSteps
<1> QED
  BY <1>4, <1>5 DEF IInv

\* ... and with a failure.
LEMMA FailureKeeps ==
  ASSUME IInv, NEW c \in Callers, AnnounceFailure(c)
  PROVE  IInv'
<1>0. TypeOK /\ GaugeInv /\ RequestInv /\ StepsInv
  BY DEF IInv
<1>1. PICK q \in {"broken", "stopped"}, to \in {"failing", "cancelling"} :
        /\ RunMoves(c, {q}, to) /\ steps' = Plus(steps, "execution_failed")
        /\ UNCHANGED <<runGauge, runTotal>> /\ results' = results
        /\ errors' = Plus(errors, "execution_failed")
  BY DEF AnnounceFailure, Record
<1>2. {q} \in SUBSET Active /\ to \in Active
  BY DEF Active
<1>3. /\ steps' \in [EventTypes -> Nat] /\ results' \in [{"success", "failed"} -> Nat]
      /\ errors' \in [{"agent_result", "execution_failed"} -> Nat]
  BY <1>0, <1>1 DEF TypeOK, Plus, EventTypes
<1>4. TypeOK' /\ GaugeInv' /\ RequestInv'
  BY <1>0, <1>1, <1>2, <1>3, WorkKeeps
<1>5. StepsInv'
  BY <1>0, FailureKeepsSteps
<1> QED
  BY <1>4, <1>5 DEF IInv

RunStep(c) ==
    \/ BeginRun(c) \/ FailSilently(c) \/ AnnounceStart(c) \/ AnnounceRoute(c)
    \/ AnnounceAgent(c) \/ AnnounceResult(c) \/ AnnounceAnswer(c)
    \/ AnswerIsReady(c) \/ AnnounceCompletion(c) \/ Succeed(c)
    \/ GraphRaises(c) \/ CancelGraph(c) \/ AnnounceFailure(c) \/ Fail(c) \/ Cancel(c)

\* No step of an execution leaves the invariant.
LEMMA RunSteps ==
  ASSUME IInv, NEW c \in Callers, RunStep(c)
  PROVE  IInv'
<1>0. TypeOK /\ GaugeInv /\ RequestInv /\ StepsInv
  BY DEF IInv
<1>1. CASE BeginRun(c)
  <2>1. /\ run[c] \in {"none"} \cup Outcomes /\ run' = [run EXCEPT ![c] = "starting"]
        /\ runGauge' = runGauge + 1 /\ UNCHANGED <<request, http, socket>>
        /\ UNCHANGED <<runTotal, steps, results, errors>>
        /\ at[c] \in {"app", "open"} /\ (c \in Requests => route[c] = "agents")
    BY <1>1 DEF BeginRun, RunMoves
  <2>2. run[c] \notin Active /\ "starting" \in Active
    BY <2>1 DEF Outcomes, Active
  <2>3. IsFiniteSet(Running') /\ runGauge' = Cardinality(Running')
    BY <1>0, <2>1, <2>2, RunningMoves
  <2>4. GaugeInv'
    BY <1>0, <2>1, <2>3, OthersGauges
  <2>5. c \in Requests => at[c] = "app"
    BY <1>0, <2>1 DEF RequestInv
  <2>6. RequestInv'
    BY <1>0, <2>1, <2>5, OthersRequests
  <2>7. TypeOK'
    BY <1>0, <2>1, <2>2 DEF TypeOK, request, http, socket
  <2>8. StepsInv'
    BY <1>0, <2>1, ProceedKeepsSteps
  <2> QED
    BY <2>4, <2>6, <2>7, <2>8 DEF IInv
<1>2. ASSUME NEW from \in SUBSET Active, NEW outcome \in Outcomes, End(c, from, outcome),
             outcome = "success" => from = {"completed"},
             outcome = "error" => from \subseteq {"starting", "storing", "failing"}
      PROVE  IInv'
  <2>1. run[c] \in from
    BY <1>2 DEF End, RunMoves
  <2> QED
    BY <1>2, <2>1, EndKeeps
<1>3. CASE FailSilently(c) \/ Succeed(c) \/ Fail(c) \/ Cancel(c)
  <2>1. /\ {"starting", "storing"} \in SUBSET Active /\ {"completed"} \in SUBSET Active
        /\ {"failing"} \in SUBSET Active /\ OutsideGraph \in SUBSET Active
        /\ "success" \in Outcomes /\ "error" \in Outcomes /\ "cancelled" \in Outcomes
    BY DEF OutsideGraph, Active, Outcomes
  <2>2. CASE FailSilently(c)
    BY <1>2, <2>1, <2>2 DEF FailSilently
  <2>3. CASE Succeed(c)
    BY <1>2, <2>1, <2>3 DEF Succeed
  <2>4. CASE Fail(c)
    BY <1>2, <2>1, <2>4 DEF Fail
  <2>5. CASE Cancel(c)
    BY <1>2, <2>1, <2>5 DEF Cancel
  <2> QED
    BY <1>3, <2>2, <2>3, <2>4, <2>5
<1>4. CASE AnnounceStart(c)
  BY <1>4, EventKeeps DEF AnnounceStart, EventStep
<1>5. CASE AnnounceRoute(c)
  BY <1>5, EventKeeps DEF AnnounceRoute, EventStep
<1>6. CASE AnnounceAgent(c)
  BY <1>6, EventKeeps DEF AnnounceAgent, EventStep
<1>7. CASE AnnounceCompletion(c)
  BY <1>7, EventKeeps DEF AnnounceCompletion, EventStep
<1>8. CASE AnnounceResult(c)
  BY <1>8, ResultKeeps DEF AnnounceResult, ResultStep
<1>9. CASE AnnounceAnswer(c)
  BY <1>9, ResultKeeps DEF AnnounceAnswer, ResultStep
<1>10. CASE AnswerIsReady(c)
  BY <1>10, ProceedKeeps DEF AnswerIsReady
<1>11. CASE GraphRaises(c)
  <2>1. {"started", "assigned"} \in SUBSET InGraph
    BY DEF InGraph
  <2> QED
    BY <1>11, <2>1, ProceedKeeps DEF GraphRaises
<1>12. CASE CancelGraph(c)
  <2>1. InGraph \in SUBSET InGraph /\ Proceed(c, InGraph, "stopped")
    BY <1>12 DEF CancelGraph
  <2> QED
    BY <2>1, ProceedKeeps
<1>13. CASE AnnounceFailure(c)
  BY <1>13, FailureKeeps
<1> QED
  BY <1>1, <1>3, <1>4, <1>5, <1>6, <1>7, <1>8, <1>9, <1>10, <1>11, <1>12, <1>13 DEF RunStep

-----------------------------------------------------------------------------
(* HTTP requests *)

\* What a step of one request may touch: that request, and no execution or socket.
Only(r) ==
    /\ UNCHANGED <<route, socket, agents>>
    /\ \A q \in Requests \ {r} :
         /\ client'[q] = client[q] /\ hasIds'[q] = hasIds[q]
         /\ log'[q] = log[q] /\ span'[q] = span[q]

\* Sockets and executions stand where they stood.
LEMMA OthersStand ==
  ASSUME IInv, NEW r \in Requests, NEW from, NEW to, Moves(r, from, to), Only(r)
  PROVE  /\ StepsInv'
         /\ IsFiniteSet(Open') /\ socketGauge' = Cardinality(Open')
         /\ IsFiniteSet(Running') /\ runGauge' = Cardinality(Running')
<1>1. /\ socketGauge' = socketGauge /\ run' = run /\ runGauge' = runGauge
      /\ runTotal' = runTotal /\ steps' = steps /\ results' = results /\ errors' = errors
  BY DEF Only, socket, agents
<1>2. \A w \in Sockets : at'[w] = at[w]
  BY ObservationAssumption DEF Moves, IInv, TypeOK, Callers
<1>3. /\ Open' = Open /\ Running' = Running
      /\ (\A p \in Active : At(p)' = At(p) /\ In(p)' = In(p))
      /\ Undecided' = Undecided /\ Pending' = Pending
  BY <1>1, <1>2 DEF Open, Running, At, In, Undecided, Pending
<1>4. StepsInv'
  BY <1>1, <1>3 DEF IInv, StepsInv, EndingsInv, ResultsInv, Active
<1> QED
  BY <1>1, <1>3, <1>4 DEF IInv, GaugeInv

\* Only the request that moves has to be looked at.
LEMMA OtherRequestsStand ==
  ASSUME IInv, NEW r \in Requests, NEW from, NEW to \in {"app", "started", "done"},
         Moves(r, from, to), Only(r),
         UnderWay(r)', Accounted(r)', AnsweredAsRun(r)'
  PROVE  RequestInv'
<1>1. route' = route /\ run' = run
  BY DEF Only, agents
<1>2. at'[r] = to /\ \A q \in Requests \ {r} : at'[q] = at[q]
  BY DEF Moves, IInv, TypeOK, Callers
<1>3. ASSUME NEW q \in Requests \ {r}
      PROVE  /\ at'[q] \in {"new", "app", "started", "done"}
             /\ UnderWay(q)' /\ Accounted(q)' /\ AnsweredAsRun(q)'
  <2>1. /\ at[q] \in {"new", "app", "started", "done"}
        /\ UnderWay(q) /\ Accounted(q) /\ AnsweredAsRun(q)
    BY DEF IInv, RequestInv
  <2>2. /\ client'[q] = client[q] /\ hasIds'[q] = hasIds[q]
        /\ log'[q] = log[q] /\ span'[q] = span[q]
    BY DEF Only
  <2> QED
    BY <1>1, <1>2, <2>1, <2>2 DEF UnderWay, Accounted, AnsweredAsRun
<1> QED
  BY <1>2, <1>3 DEF RequestInv

\* A request enters the application: it is in progress and has no answer.
LEMMA EnterKeeps ==
  ASSUME IInv, NEW r \in Requests, Enter(r)
  PROVE  IInv'
<1>1. /\ Moves(r, "new", "app") /\ Only(r) /\ at[r] = "new"
      /\ UNCHANGED <<route, client, hasIds, log, span, httpTotal, run>>
      /\ httpGauge' = IF IsMeasured(r) THEN httpGauge + 1 ELSE httpGauge
  BY DEF Enter, Only, Moves, agents
<1>2. at'[r] = "app" /\ \A q \in Requests \ {r} : at'[q] = at[q]
  BY <1>1 DEF Moves, IInv, TypeOK, Callers
<1>3. UnderWay(r) /\ Accounted(r) /\ AnsweredAsRun(r)
  BY DEF IInv, RequestInv
<1>4. RequestInv'
  <2>1. UnderWay(r)' /\ Accounted(r)' /\ AnsweredAsRun(r)'
    BY <1>1, <1>2, <1>3 DEF UnderWay, Accounted, AnsweredAsRun
  <2> QED
    BY <1>1, <2>1, OtherRequestsStand
<1>5. /\ IsFiniteSet(InProgress) /\ httpGauge = Cardinality(InProgress)
      /\ \A s \in Statuses : IsFiniteSet(Counted(s)) /\ httpTotal[s] = Cardinality(Counted(s))
  BY DEF IInv, GaugeInv
<1>6. IsFiniteSet(InProgress') /\ httpGauge' = Cardinality(InProgress')
  <2>1. CASE IsMeasured(r)
    <3>1. r \notin InProgress /\ InProgress' = InProgress \cup {r}
      BY <1>1, <1>2, <2>1 DEF InProgress, IsMeasured
    <3> QED
      BY <1>1, <1>5, <2>1, <3>1, Joining
  <2>2. CASE ~IsMeasured(r)
    <3>1. InProgress' = InProgress
      BY <1>1, <1>2, <2>2 DEF InProgress, IsMeasured
    <3> QED
      BY <1>1, <1>5, <2>2, <3>1
  <2> QED
    BY <2>1, <2>2
<1>7. \A s \in Statuses : Counted(s)' = Counted(s)
  BY <1>1 DEF Counted, IsMeasured
<1>8. GaugeInv' /\ StepsInv'
  BY <1>1, <1>5, <1>6, <1>7, OthersStand DEF GaugeInv
<1>9. TypeOK'
  BY <1>1 DEF IInv, TypeOK, Enter, Moves, Callers, socket, agents
<1> QED
  BY <1>4, <1>8, <1>9 DEF IInv

\* A response is started with a status and both ids.
LEMMA StartKeeps ==
  ASSUME IInv, NEW r \in Requests, NEW status \in Statuses, StartResponse(r, status),
         run[r] \notin Active,
         route[r] = "agents" => (status = 200 <=> run[r] = "success")
  PROVE  IInv'
<1>1. /\ Moves(r, "app", "started") /\ at[r] = "app"
      /\ UNCHANGED <<route, log, span, httpGauge, httpTotal, run>>
      /\ client' = [client EXCEPT ![r] = status] /\ hasIds' = [hasIds EXCEPT ![r] = TRUE]
  BY DEF StartResponse, Moves, http, agents
<1>2. at'[r] = "started" /\ \A q \in Requests \ {r} : at'[q] = at[q]
  BY <1>1 DEF Moves, IInv, TypeOK, Callers
<1>3. /\ client'[r] = status /\ hasIds'[r]
      /\ \A q \in Requests \ {r} : client'[q] = client[q] /\ hasIds'[q] = hasIds[q]
  BY <1>1 DEF IInv, TypeOK
<1>4. Only(r)
  BY <1>1, <1>3 DEF Only, StartResponse
<1>5. UnderWay(r) /\ AnsweredAsRun(r)
  BY DEF IInv, RequestInv
<1>6. RequestInv'
  <2>1. UnderWay(r)'
    BY <1>1, <1>2, <1>3, <1>5 DEF UnderWay
  <2>2. Accounted(r)'
    BY <1>2 DEF Accounted
  <2>3. AnsweredAsRun(r)'
    BY <1>1, <1>2, <1>3, <1>5 DEF AnsweredAsRun
  <2> QED
    BY <1>1, <1>4, <2>1, <2>2, <2>3, OtherRequestsStand
<1>7. InProgress' = InProgress /\ \A s \in Statuses : Counted(s)' = Counted(s)
  BY <1>1, <1>2 DEF InProgress, Counted, IsMeasured
<1>8. GaugeInv' /\ StepsInv'
  BY <1>1, <1>4, <1>7, OthersStand DEF IInv, GaugeInv
<1>9. TypeOK'
  BY <1>1 DEF IInv, TypeOK, StartResponse, Moves, Callers, http, socket, agents
<1> QED
  BY <1>6, <1>8, <1>9 DEF IInv

\* A request is through: it is no longer in progress, and counted under its status.
LEMMA AccountKeeps ==
  ASSUME IInv, NEW r \in Requests, NEW from \in {"app", "started"}, NEW status \in Statuses,
         Moves(r, from, "done"), Account(r, status),
         client' \in [Requests -> Statuses \cup {None}],
         \A q \in Requests \ {r} : client'[q] = client[q], hasIds' = hasIds,
         client'[r] = status \/ (route[r] = "stream" /\ status = 500),
         ~hasIds[r] => client'[r] = 500 /\ status = 500,
         run[r] \notin Active,
         route[r] = "agents" => (client'[r] = 200 <=> run[r] = "success")
  PROVE  IInv'
<1>1. /\ log' = [log EXCEPT ![r] = status]
      /\ span' = [span EXCEPT ![r] = IF status >= 500 THEN "error" ELSE "ok"]
      /\ IF IsMeasured(r)
         THEN httpTotal' = Plus(httpTotal, status) /\ httpGauge' = httpGauge - 1
         ELSE httpTotal' = httpTotal /\ httpGauge' = httpGauge
      /\ route' = route /\ run' = run /\ UNCHANGED <<socket, agents>>
  BY DEF Account, http, agents
<1>2. /\ at[r] = from /\ at'[r] = "done" /\ \A q \in Requests \ {r} : at'[q] = at[q]
      /\ at' \in [Callers -> {"new", "connecting", "app", "open", "started", "closed", "done"}]
  BY DEF Moves, IInv, TypeOK, Callers
<1>3. /\ log'[r] = status /\ span'[r] = IF status >= 500 THEN "error" ELSE "ok"
      /\ \A q \in Requests \ {r} : log'[q] = log[q] /\ span'[q] = span[q]
      /\ log' \in [Requests -> Statuses \cup {None}]
      /\ span' \in [Requests -> {"none", "ok", "error"}]
  BY <1>1 DEF IInv, TypeOK
<1>4. Only(r)
  BY <1>1, <1>3 DEF Only
<1>5. UnderWay(r) /\ AnsweredAsRun(r)
  BY DEF IInv, RequestInv
<1>6. RequestInv'
  <2>1. UnderWay(r)'
    BY <1>2 DEF UnderWay
  <2>2. Accounted(r)'
    BY <1>1, <1>3 DEF Accounted
  <2>3. AnsweredAsRun(r)'
    BY <1>1, <1>5 DEF AnsweredAsRun
  <2> QED
    BY <1>4, <2>1, <2>2, <2>3, OtherRequestsStand
<1>7. /\ IsFiniteSet(InProgress) /\ httpGauge = Cardinality(InProgress)
      /\ \A s \in Statuses : IsFiniteSet(Counted(s)) /\ httpTotal[s] = Cardinality(Counted(s))
  BY DEF IInv, GaugeInv
<1>8. log[r] = None /\ None \notin Statuses
  BY <1>2, <1>5 DEF UnderWay, None, Statuses
<1>9. CASE IsMeasured(r)
  <2>1. r \in InProgress /\ InProgress' = InProgress \ {r}
    BY <1>1, <1>2, <1>9 DEF InProgress, IsMeasured
  <2>2. /\ IsFiniteSet(InProgress') /\ httpGauge' = Cardinality(InProgress')
        /\ httpGauge' \in Nat
    BY <1>1, <1>7, <1>9, <2>1, Leaving
  <2>3. /\ httpTotal'[status] = httpTotal[status] + 1
        /\ \A s \in Statuses \ {status} : httpTotal'[s] = httpTotal[s]
        /\ httpTotal' \in [Statuses -> Nat]
    BY <1>1, <1>9 DEF IInv, TypeOK, Plus
  <2>4. ASSUME NEW s \in Statuses
        PROVE  IsFiniteSet(Counted(s)') /\ httpTotal'[s] = Cardinality(Counted(s)')
    <3>1. CASE s = status
      <4>1. r \notin Counted(s) /\ Counted(s)' = Counted(s) \cup {r}
        BY <1>1, <1>3, <1>8, <1>9, <3>1 DEF Counted, IsMeasured
      <4> QED
        BY <1>7, <2>3, <3>1, <4>1, Joining
    <3>2. CASE s # status
      <4>1. Counted(s)' = Counted(s)
        BY <1>1, <1>3, <1>8, <3>2 DEF Counted, IsMeasured
      <4> QED
        BY <1>7, <2>3, <3>2, <4>1
    <3> QED
      BY <3>1, <3>2
  <2>5. GaugeInv' /\ StepsInv'
    BY <1>4, <2>2, <2>4, OthersStand DEF GaugeInv
  <2>6. TypeOK'
    BY <1>1, <1>2, <1>3, <2>2, <2>3 DEF IInv, TypeOK, socket, agents
  <2> QED
    BY <1>6, <2>5, <2>6 DEF IInv
<1>10. CASE ~IsMeasured(r)
  <2>1. InProgress' = InProgress /\ \A s \in Statuses : Counted(s)' = Counted(s)
    BY <1>1, <1>2, <1>3, <1>10 DEF InProgress, Counted, IsMeasured
  <2>2. GaugeInv' /\ StepsInv'
    BY <1>1, <1>4, <1>7, <1>10, <2>1, OthersStand DEF GaugeInv
  <2>3. TypeOK'
    BY <1>1, <1>2, <1>3, <1>10 DEF IInv, TypeOK, socket, agents
  <2> QED
    BY <1>6, <2>2, <2>3 DEF IInv
<1> QED
  BY <1>9, <1>10

RequestStep(r) ==
    \/ Enter(r) \/ Return(r) \/ Finish(r) \/ Raise(r) \/ BreakOff(r)
    \/ \E e \in DOMAIN HandlerStatus : RaiseHandled(r, e)

\* An exception that has a handler is answered with an error of the server's.
LEMMA HandlersAnswer ==
  ASSUME NEW e \in DOMAIN HandlerStatus
  PROVE  HandlerStatus[e] \in Statuses \ {200}
BY DEF HandlerStatus, Statuses

\* No step of a request leaves the invariant.
LEMMA RequestSteps ==
  ASSUME IInv, NEW r \in Requests, RequestStep(r)
  PROVE  IInv'
<1>0. /\ TypeOK /\ UnderWay(r) /\ AnsweredAsRun(r) /\ 200 \in Statuses /\ 500 \in Statuses
      /\ 200 # 500 /\ "error" # "success" /\ "none" # "success"
      /\ {"none"} \cup Outcomes \subseteq {"none", "success", "error", "cancelled"}
      /\ \A p \in {"none", "success", "error"} : p \notin Active
  BY DEF IInv, RequestInv, Statuses, Outcomes, Active
<1>1. CASE Enter(r)
  BY <1>1, EnterKeeps
<1>2. CASE Return(r)
  <2>1. /\ StartResponse(r, 200) /\ (route[r] = "agents" => run[r] = "success")
        /\ (route[r] # "agents" => run[r] = "none")
    BY <1>0, <1>2 DEF Return, AnsweredAsRun
  <2>2. run[r] \notin Active
    BY <1>0, <2>1
  <2> QED
    BY <1>0, <2>1, <2>2, StartKeeps
<1>3. ASSUME NEW e \in DOMAIN HandlerStatus, RaiseHandled(r, e)
      PROVE  IInv'
  <2>1. HandlerStatus[e] \in Statuses /\ HandlerStatus[e] # 200
    BY HandlersAnswer
  <2>2. StartResponse(r, HandlerStatus[e])
    BY <1>3 DEF RaiseHandled
  <2>3. run[r] \in {"none", "error"}
    <3>1. CASE e = "MultiAgentUnavailableError"
      BY <1>3, <3>1 DEF RaiseHandled
    <3>2. CASE e = "MultiAgentExecutionError"
      BY <1>3, <3>2 DEF RaiseHandled
    <3>3. CASE e \notin {"MultiAgentUnavailableError", "MultiAgentExecutionError"}
      <4>1. route[r] = "api"
        BY <1>3, <3>3 DEF RaiseHandled
      <4> QED
        BY <1>0, <4>1 DEF AnsweredAsRun
    <3> QED
      BY <3>1, <3>2, <3>3
  <2> QED
    BY <1>0, <2>1, <2>2, <2>3, StartKeeps
<1>4. CASE Finish(r)
  <2>1. /\ Moves(r, "started", "done") /\ at[r] = "started" /\ Account(r, client[r])
        /\ client' = client /\ hasIds' = hasIds
    BY <1>4 DEF Finish, Moves
  <2>2. /\ client[r] \in Statuses /\ hasIds[r] /\ run[r] \notin Active
        /\ (route[r] = "agents" => (client[r] = 200 <=> run[r] = "success"))
    BY <1>0, <2>1 DEF UnderWay, AnsweredAsRun
  <2>3. client' \in [Requests -> Statuses \cup {None}]
    BY <1>0, <2>1 DEF TypeOK
  <2> QED
    BY <2>1, <2>2, <2>3, AccountKeeps
<1>5. CASE Raise(r)
  <2>1. /\ Moves(r, "app", "done") /\ at[r] = "app" /\ Account(r, 500)
        /\ client' = [client EXCEPT ![r] = 500] /\ hasIds' = hasIds
        /\ run[r] \in {"none", "error"}
    BY <1>0, <1>5 DEF Raise, Moves, AnsweredAsRun
  <2>2. /\ client' \in [Requests -> Statuses \cup {None}] /\ client'[r] = 500
        /\ \A q \in Requests \ {r} : client'[q] = client[q]
    BY <1>0, <2>1 DEF TypeOK
  <2> QED
    BY <1>0, <2>1, <2>2, AccountKeeps
<1>6. CASE BreakOff(r)
  <2>1. /\ Moves(r, "started", "done") /\ at[r] = "started" /\ Account(r, 500)
        /\ client' = client /\ hasIds' = hasIds /\ route[r] = "stream"
    BY <1>6 DEF BreakOff, Moves
  <2>2. /\ client' \in [Requests -> Statuses \cup {None}] /\ hasIds[r]
        /\ run[r] \notin Active
    BY <1>0, <2>1 DEF TypeOK, UnderWay, AnsweredAsRun
  <2> QED
    BY <1>0, <2>1, <2>2, AccountKeeps
<1> QED
  BY <1>1, <1>2, <1>3, <1>4, <1>5, <1>6 DEF RequestStep

-----------------------------------------------------------------------------
(* WebSocket connections *)

SocketStep(w) ==
    \/ Connect(w) \/ Accept(w) \/ Deny(w) \/ CloseSocket(w) \/ LeaveSocket(w)
    \/ \E d \in {"received", "sent"} : CountMessage(w, d)

\* What a connection does concerns its own gauge and nothing else.
LEMMA OnlySocketsMove ==
  ASSUME IInv, NEW w \in Sockets, UNCHANGED <<route, client, hasIds, log, span, http, agents>>,
         \A r \in Requests : at'[r] = at[r],
         IsFiniteSet(Open') /\ socketGauge' = Cardinality(Open')
  PROVE  GaugeInv' /\ RequestInv' /\ StepsInv'
<1>1. /\ UNCHANGED <<route, client, hasIds, log, span, httpGauge, httpTotal>>
      /\ UNCHANGED <<run, runGauge, runTotal, steps, results, errors>>
  BY DEF http, agents
<1>2. /\ InProgress' = InProgress /\ Running' = Running
      /\ \A s \in Statuses : Counted(s)' = Counted(s)
  BY <1>1 DEF InProgress, Running, Counted, IsMeasured
<1>3. GaugeInv'
  BY <1>1, <1>2 DEF IInv, GaugeInv
<1>4. RequestInv'
  BY <1>1 DEF IInv, RequestInv, UnderWay, Accounted, AnsweredAsRun
<1>5. /\ Undecided' = Undecided /\ Pending' = Pending
      /\ \A p \in Active : At(p)' = At(p) /\ In(p)' = In(p)
  BY <1>1 DEF At, In, Undecided, Pending
<1>6. StepsInv'
  BY <1>1, <1>5 DEF IInv, StepsInv, EndingsInv, ResultsInv, Active
<1> QED
  BY <1>3, <1>4, <1>6

\* No step of a connection leaves the invariant.
LEMMA SocketSteps ==
  ASSUME IInv, NEW w \in Sockets, SocketStep(w)
  PROVE  IInv'
<1>0. /\ TypeOK /\ IsFiniteSet(Open) /\ socketGauge = Cardinality(Open)
      /\ w \notin Requests /\ w \in Callers /\ Requests \subseteq Callers
  BY ObservationAssumption DEF IInv, GaugeInv, Callers
<1>1. ASSUME NEW from, NEW to, Moves(w, from, to)
      PROVE  /\ at[w] = from /\ at'[w] = to
             /\ \A c \in Callers \ {w} : at'[c] = at[c]
             /\ \A r \in Requests : at'[r] = at[r]
  BY <1>0, <1>1 DEF Moves, TypeOK
<1>2. CASE Connect(w) \/ Deny(w) \/ (LeaveSocket(w) /\ at[w] # "open")
  <2>1. \E from, to \in {"new", "connecting", "closed", "done"} : Moves(w, from, to)
    BY <1>2 DEF Connect, Deny, LeaveSocket, Moves
  <2>2. /\ socketGauge' = socketGauge /\ UNCHANGED <<socketTotal, messages>>
        /\ UNCHANGED <<route, client, hasIds, log, span, http, agents>>
    BY <1>2 DEF Connect, Deny, LeaveSocket, socket
  <2>3. \A r \in Requests : at'[r] = at[r]
    BY <1>1, <2>1
  <2>4. Open' = Open
    BY <1>1, <2>1 DEF Open, Callers
  <2>5. GaugeInv' /\ RequestInv' /\ StepsInv'
    BY <1>0, <2>2, <2>3, <2>4, OnlySocketsMove
  <2>6. TypeOK'
    BY <1>0, <2>1, <2>2 DEF TypeOK, Moves, http, agents
  <2> QED
    BY <2>5, <2>6 DEF IInv
<1>3. CASE Accept(w)
  <2>1. /\ Moves(w, "connecting", "open") /\ socketGauge' = socketGauge + 1
        /\ socketTotal' = socketTotal + 1 /\ messages' = messages
        /\ UNCHANGED <<route, client, hasIds, log, span, http, agents>>
    BY <1>3 DEF Accept
  <2>2. w \notin Open /\ Open' = Open \cup {w}
    BY <1>1, <2>1 DEF Open, Callers
  <2>3. IsFiniteSet(Open') /\ socketGauge' = Cardinality(Open')
    BY <1>0, <2>1, <2>2, Joining
  <2>4. GaugeInv' /\ RequestInv' /\ StepsInv'
    BY <1>1, <2>1, <2>3, OnlySocketsMove
  <2>5. TypeOK'
    BY <1>0, <2>1 DEF TypeOK, Moves, http, agents
  <2> QED
    BY <2>4, <2>5 DEF IInv
<1>4. CASE CloseSocket(w) \/ (LeaveSocket(w) /\ at[w] = "open")
  <2>1. PICK to \in {"closed", "done"} : Moves(w, "open", to)
    BY <1>4 DEF CloseSocket, LeaveSocket, Moves
  <2>2. /\ socketGauge' = socketGauge - 1 /\ UNCHANGED <<socketTotal, messages>>
        /\ UNCHANGED <<route, client, hasIds, log, span, http, agents>>
    BY <1>4 DEF CloseSocket, LeaveSocket
  <2>3. w \in Open /\ Open' = Open \ {w}
    BY <1>1, <2>1 DEF Open, Callers
  <2>4. IsFiniteSet(Open') /\ socketGauge' = Cardinality(Open') /\ socketGauge' \in Nat
    BY <1>0, <2>2, <2>3, Leaving
  <2>5. GaugeInv' /\ RequestInv' /\ StepsInv'
    BY <1>1, <2>1, <2>2, <2>4, OnlySocketsMove
  <2>6. TypeOK'
    BY <1>0, <2>1, <2>2, <2>4 DEF TypeOK, Moves, http, agents
  <2> QED
    BY <2>5, <2>6 DEF IInv
<1>5. ASSUME NEW d \in {"received", "sent"}, CountMessage(w, d)
      PROVE  IInv'
  <2>1. /\ messages' = Plus(messages, d) /\ at' = at
        /\ UNCHANGED <<socketGauge, socketTotal>>
        /\ UNCHANGED <<route, client, hasIds, log, span, http, agents>>
    BY <1>5 DEF CountMessage, request
  <2>2. Open' = Open
    BY <2>1 DEF Open
  <2>3. GaugeInv' /\ RequestInv' /\ StepsInv'
    BY <1>0, <2>1, <2>2, OnlySocketsMove
  <2>4. TypeOK'
    BY <1>0, <2>1 DEF TypeOK, Plus, http, agents
  <2> QED
    BY <2>3, <2>4 DEF IInv
<1> QED
  BY <1>2, <1>3, <1>4, <1>5 DEF SocketStep

-----------------------------------------------------------------------------
(* The invariant and the properties *)

\* Nobody has asked for anything, and nothing is counted.
LEMMA InvInit == Init => IInv
<1> SUFFICES ASSUME Init PROVE IInv
  OBVIOUS
<1>1. TypeOK
  BY DEF Init, TypeOK, Statuses, Outcomes, EventTypes, None
<1>2. /\ InProgress = {} /\ Open = {} /\ Running = {}
      /\ \A s \in Statuses : Counted(s) = {}
      /\ Undecided = {} /\ \A p \in Active : At(p) = {}
  BY ObservationAssumption
  DEF Init, InProgress, Open, Running, Counted, At, Active, Statuses, None, Callers,
      Undecided, UndecidedStates, InGraph
<1>3. IsFiniteSet({}) /\ Cardinality({}) = 0
  BY FS_EmptySet
<1>4. GaugeInv
  BY <1>2, <1>3 DEF Init, GaugeInv
<1>5. RequestInv
  BY DEF Init, RequestInv, UnderWay, Accounted, AnsweredAsRun, Callers
<1>6. Pending = 0 /\ \A p \in Active : In(p) = 0
  BY <1>2, <1>3 DEF In, Pending
<1>7. StepsInv
  <2>1. /\ \A o \in Outcomes : runTotal[o] = 0
        /\ \A t \in EventTypes : steps[t] = 0
        /\ results["success"] = 0 /\ results["failed"] = 0
        /\ errors["execution_failed"] = 0 /\ errors["agent_result"] = 0
    BY DEF Init
  <2>2. IsFiniteSet(Undecided) /\ \A p \in Active : IsFiniteSet(At(p))
    BY <1>2, <1>3
  <2> QED
    BY <1>6, <2>1, <2>2 DEF StepsInv, EndingsInv, ResultsInv, Active, Outcomes, EventTypes
<1> QED
  BY <1>1, <1>4, <1>5, <1>7 DEF IInv

\* No step of a request, a connection or an execution leaves the invariant.
LEMMA InvStep == IInv /\ [Next]_vars => IInv'
<1> SUFFICES ASSUME IInv, [Next]_vars PROVE IInv'
  OBVIOUS
<1>1. ASSUME NEW r \in Requests, RequestStep(r) PROVE IInv'
  BY <1>1, RequestSteps
<1>2. ASSUME NEW w \in Sockets, SocketStep(w) PROVE IInv'
  BY <1>2, SocketSteps
<1>3. ASSUME NEW c \in Callers, RunStep(c) PROVE IInv'
  BY <1>3, RunSteps
<1>4. CASE UNCHANGED vars
  <2>1. /\ UNCHANGED <<route, at, client, hasIds, log, span, httpGauge, httpTotal>>
        /\ UNCHANGED <<socketGauge, socketTotal, messages>>
        /\ UNCHANGED <<run, runGauge, runTotal, steps, results, errors>>
    BY <1>4 DEF vars, request, http, socket, agents
  <2>2. TypeOK'
    BY <2>1 DEF IInv, TypeOK
  <2>3. /\ InProgress' = InProgress /\ Open' = Open /\ Running' = Running
        /\ \A s \in Statuses : Counted(s)' = Counted(s)
        /\ \A p \in Active : At(p)' = At(p) /\ In(p)' = In(p)
        /\ Undecided' = Undecided /\ Pending' = Pending
    BY <2>1 DEF InProgress, Open, Running, Counted, At, In, Undecided, Pending, IsMeasured
  <2>4. GaugeInv'
    BY <2>1, <2>3 DEF IInv, GaugeInv
  <2>5. RequestInv'
    BY <2>1 DEF IInv, RequestInv, UnderWay, Accounted, AnsweredAsRun
  <2>6. StepsInv'
    BY <2>1, <2>3 DEF IInv, StepsInv, EndingsInv, ResultsInv, Active
  <2> QED
    BY <2>2, <2>4, <2>5, <2>6 DEF IInv
<1> QED
  BY <1>1, <1>2, <1>3, <1>4 DEF Next, RequestStep, SocketStep, RunStep

\* The inductive invariant, for any number of requests, connections and executions.
THEOREM ObservationInvariant == Spec => []IInv
BY InvInit, InvStep, PTL DEF Spec

\* Every gauge shows how many requests, connections or executions are in progress, however
\* they end (observability/middleware.py:118-178, 238-248, agent_metrics.py:283-305).
THEOREM ObservationGaugesReturn == Spec => []GaugesAreExact
<1>1. IInv => GaugesAreExact
  BY DEF IInv, GaugeInv, GaugesAreExact, InProgress, Open, Running
<1> QED
  BY <1>1, ObservationInvariant, PTL

\* Log, counter, span and client agree on every request that is over
\* (observability/middleware.py:140-178, request_logging.py:40-77).
THEOREM ObservationAccountsAgree == Spec => []AccountsAgree
<1>1. IInv => AccountsAgree
  <2> SUFFICES ASSUME IInv PROVE AccountsAgree
    OBVIOUS
  <2>1. \A s \in Statuses :
          httpTotal[s] = Cardinality({r \in Requests : IsMeasured(r) /\ log[r] = s})
    BY DEF IInv, GaugeInv, Counted
  <2>2. ASSUME NEW r \in Requests, at[r] = "done"
        PROVE  /\ span[r] = "error" <=> log[r] >= 500
               /\ client[r] = log[r] \/ (route[r] = "stream" /\ log[r] = 500)
               /\ ~hasIds[r] => client[r] = 500 /\ log[r] = 500
               /\ route[r] = "agents" => (client[r] = 200 <=> run[r] = "success")
    <3>1. Accounted(r) /\ AnsweredAsRun(r)
      BY DEF IInv, RequestInv
    <3> QED
      BY <2>2, <3>1 DEF Accounted, AnsweredAsRun
  <2> QED
    BY <2>1, <2>2 DEF AccountsAgree
<1> QED
  BY <1>1, ObservationInvariant, PTL

\* What is counted of the executions adds up (agent_metrics.py:128-305,
\* multi_agent_service.py:238-663): endings never outnumber starts, results never outnumber
\* what the specialists started so far may bring, and a completion has brought both results.
THEOREM ObservationRunsAddUp == Spec => []RunAccountsAgree
<1>1. IInv => RunAccountsAgree
  <2> SUFFICES ASSUME IInv PROVE RunAccountsAgree
    OBVIOUS
  <2>1. EndingsInv /\ ResultsInv /\ TypeOK
    BY DEF IInv, StepsInv
  <2>2. \A p \in Active : In(p) \in Nat
    <3>1. \A p \in Active : IsFiniteSet(At(p))
      BY DEF IInv, StepsInv
    <3> QED
      BY <3>1, FS_CardinalityType DEF In
  <2>3. \A p : Cardinality({c \in Callers : run[c] = p}) = In(p)
    BY DEF In, At
  <2>4. steps["execution_failed"] + steps["execution_completed"] <= steps["execution_started"]
    <3>1. Pending \in Nat
      BY FS_CardinalityType DEF IInv, StepsInv, Pending
    <3>2. /\ steps["execution_failed"] \in Nat /\ steps["execution_completed"] \in Nat
          /\ steps["execution_started"] \in Nat
      BY <2>1, Numbers DEF EventTypes
    <3>3. steps["execution_failed"] + steps["execution_completed"] + Pending
            <= steps["execution_started"]
      BY <2>1 DEF EndingsInv
    <3> QED
      BY <3>1, <3>2, <3>3
  <2>5. /\ steps["unknown"] <= steps["routing_completed"]
        /\ steps["routing_completed"] <= steps["execution_started"]
        /\ steps["agent_result"] <= ResultCount * steps["unknown"]
        /\ ResultCount * steps["execution_completed"] <= steps["agent_result"]
    BY <2>1, <2>2, Numbers DEF ResultsInv, Active, EventTypes, ResultCount
  <2> QED
    BY <2>1, <2>3, <2>4, <2>5 DEF EndingsInv, ResultsInv, RunAccountsAgree
<1> QED
  BY <1>1, ObservationInvariant, PTL

=============================================================================

------------------------------ MODULE GraphRun ------------------------------
(***************************************************************************)
(* What the multi-agent service relies on about one run of the compiled    *)
(* graph: one supervisor, one specialist, one synthesizer, in this order;  *)
(* each specialist adds one result, whether it failed or not, and so does  *)
(* the synthesizer; an exception comes from the first two only; and a run  *)
(* that ends has a route and an answer.                                    *)
(***************************************************************************)
EXTENDS Naturals

VARIABLES
    step,       \* who is at work, or how the run ended
    count,      \* agent results so far
    answered    \* there is a final response

vars == <<step, count, answered>>

Init == step = "supervisor" /\ count = 0 /\ answered = FALSE

Route ==
    /\ step = "supervisor" /\ step' = "specialist"
    /\ UNCHANGED <<count, answered>>

Specialize ==
    /\ step = "specialist" /\ step' = "synthesizer"
    /\ count' = count + 1
    /\ UNCHANGED answered

Synthesize ==
    /\ step = "synthesizer" /\ step' = "end"
    /\ count' = count + 1
    /\ answered' = TRUE

Raise ==
    /\ step \in {"supervisor", "specialist"} /\ step' = "raised"
    /\ UNCHANGED <<count, answered>>

Next == Route \/ Specialize \/ Synthesize \/ Raise

Spec == Init /\ [][Next]_vars

=============================================================================

----------------------- MODULE MCMultiAgentExecution -----------------------
(* Model checking of MultiAgentExecution.  Executions differ only in their *)
(* identifier and in the request they are started with, so they may be     *)
(* permuted in the runs that check safety only.                            *)
EXTENDS MultiAgentExecution, TLC

Symmetry == Permutations(Executions)

=============================================================================

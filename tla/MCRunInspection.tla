-------------------------- MODULE MCRunInspection --------------------------
(* Model checking of RunInspection: a reader beside concurrent executions.*)
EXTENDS RunInspection, TLC

Symmetry == Permutations(Executions)

=============================================================================

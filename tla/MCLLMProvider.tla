---------------------------- MODULE MCLLMProvider ----------------------------
(* Model checking of LLMProvider.  Calls are interchangeable in the run that    *)
(* checks safety only.                                                          *)
EXTENDS LLMProvider, TLC

Symmetry == Permutations(Calls)

=============================================================================

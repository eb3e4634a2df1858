------------------------ MODULE MCRequestObservation ------------------------
(* Model checking of RequestObservation: requests are interchangeable until they *)
(* are routed.                                                                   *)
EXTENDS RequestObservation, TLC

Symmetry == Permutations(Requests) \cup Permutations(Sockets)

=============================================================================

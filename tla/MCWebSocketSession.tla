-------------------------- MODULE MCWebSocketSession --------------------------
(* Model checking of WebSocketSession.  Request identifiers are opaque to the    *)
(* route, so they may be permuted in the runs that check safety only.            *)
EXTENDS WebSocketSession, TLC

Symmetry == Permutations(RequestIds)

=============================================================================

--------------------------- MODULE MCCircuitBreaker ---------------------------
(* Three callers: a probe, a slow call admitted before the opening, and one  *)
(* that is rejected or becomes the second probe.                             *)
EXTENDS CircuitBreaker
=============================================================================

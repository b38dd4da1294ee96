-------------------------- MODULE MCCircuitBreaker --------------------------
(* TLC instances of CircuitBreaker: with one caller and with two.          *)
EXTENDS CircuitBreaker
=============================================================================

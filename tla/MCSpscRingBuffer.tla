-------------------------- MODULE MCSpscRingBuffer --------------------------
(* TLC instance of SpscRingBuffer.                                         *)
EXTENDS SpscRingBuffer
=============================================================================

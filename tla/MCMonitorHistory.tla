-------------------------- MODULE MCMonitorHistory --------------------------
(* TLC instances of MonitorHistory.                                        *)
EXTENDS MonitorHistory

TwoEvents ==
  {[size |-> 5, latency |-> 3, dropped |-> FALSE],
   [size |-> 1, latency |-> 7, dropped |-> TRUE]}
=============================================================================

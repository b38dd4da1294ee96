------------------------ MODULE MCTelemetryPipeline -------------------------
(* TLC instances of TelemetryPipeline.                                     *)
EXTENDS TelemetryPipeline
=============================================================================

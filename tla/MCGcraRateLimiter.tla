------------------------- MODULE MCGcraRateLimiter -------------------------
(* TLC instance of GcraRateLimiter.                                        *)
EXTENDS GcraRateLimiter
=============================================================================

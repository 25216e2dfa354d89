---------------------------- MODULE MCRateLimit ----------------------------
(* A small instance of RateLimit for TLC. *)
EXTENDS RateLimit

CONSTANTS r1, r2, r3
=============================================================================

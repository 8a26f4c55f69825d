---------------------------- MODULE MCRateLimit ----------------------------
(* A small instance of RateLimit.  Keys share nothing: one is enough.      *)
EXTENDS RateLimit

CONSTANT k1
=============================================================================

------------------------ MODULE MCConcurrencyLimiter ------------------------
(* An instance of ConcurrencyLimiter for TLC: twice as many callers as slots. *)
EXTENDS ConcurrencyLimiter

CONSTANTS a, b, c, d, e
=============================================================================

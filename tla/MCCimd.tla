------------------------------- MODULE MCCimd -------------------------------
(* Instances of Cimd for TLC. *)
EXTENDS Cimd

CONSTANTS q1, q2, q3, url1, d1, d2, null
=============================================================================

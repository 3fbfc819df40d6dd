------------------------------ MODULE MCRouter ------------------------------
(* Instances of Router for TLC. *)
EXTENDS Router

CONSTANTS q1, q2, p1, p2, ann

OneEach == [q \in Reqs |-> IF q = q1 THEN p1 ELSE p2]
Asked == [q \in Reqs |-> IF q = q1 THEN {"/register", "/shopify-callback", "/mcp", "/late"}
                                 ELSE {"/revoke"}]
=============================================================================

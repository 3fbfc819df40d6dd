-------------------------- MODULE MCResourceServer --------------------------
(* Instances of ResourceServer for TLC. *)
EXTENDS ResourceServer, TLC

CONSTANTS c1, c2, r1, r2, q1, p1, k1, alice, uri, v, shopA, shopA2, dom, null

OneProcess == [q \in Reqs |-> p1]
OneDomain == [id \in ShopIds |-> dom]
\* What `guesses` and `brokenOff` hold decides no step and no property of this run.
NoHistory == <<now, cache, tokens, req, held, auth, acked, server>>
RowsAndIds == Permutations({r1, r2}) \cup Permutations({shopA, shopA2})
=============================================================================

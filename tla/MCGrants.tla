------------------------------ MODULE MCGrants ------------------------------
(* Instances of Grants for TLC. *)
EXTENDS Grants, TLC

CONSTANTS c1, r1, r2, r3, q1, q2, p1, p2, alice, bob, shop1, uri1, v1, v2, null

\* The process that serves requests; a code may have been issued by another.
OneProcess == [q \in Reqs |-> p1]
Symmetry == Permutations(Rows) \cup Permutations(Clients) \cup Permutations(Verifiers)
=============================================================================

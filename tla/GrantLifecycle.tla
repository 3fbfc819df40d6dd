--------------------------- MODULE GrantLifecycle ---------------------------
(***************************************************************************)
(* What services/codes.ts and services/tokens.ts promise together, with no *)
(* cache, table or clock: an authorization is issued once, from then on it *)
(* is in at most one place, it moves from place to place, and once it is   *)
(* in no place it is gone for good.                                        *)
(***************************************************************************)
CONSTANTS Grants, Reqs, Rows

VARIABLES
    issued,     \* authorizations granted so far
    holders,    \* where each one is: {} or a singleton
    used        \* row ids in use

vars == <<issued, holders, used>>

CodeOf(g) == <<"code", g>>
Request(q) == <<"req", q>>
Row(r) == <<"row", r>>

Init ==
    /\ issued = {}
    /\ holders = [g \in Grants |-> {}]
    /\ used = {}

\* A shop owner authorized a client: the code holds the grant.
Issue(g) ==
    /\ g \notin issued
    /\ issued' = issued \cup {g}
    /\ holders' = [holders EXCEPT ![g] = {CodeOf(g)}]
    /\ UNCHANGED used

\* A grant passes from `here` to `there`; nobody else moves.
Move(g, here, there) ==
    /\ g \in issued
    /\ holders[g] = {here}
    /\ holders' = [holders EXCEPT ![g] = {there}]
    /\ UNCHANGED issued

\* A request redeems the code, or rotates the row out of use.
Redeem(g, q) == Move(g, CodeOf(g), Request(q)) /\ UNCHANGED used
Rotate(g, r, q) == r \in used /\ Move(g, Row(r), Request(q)) /\ UNCHANGED used

\* The request stores the grant in a row nobody used before.
Mint(g, q, r) ==
    /\ r \notin used
    /\ Move(g, Request(q), Row(r))
    /\ used' = used \cup {r}

\* Revocation, a refused code, a failed call, or a crash: grants are gone.
Lose(G) ==
    /\ holders' = [g \in Grants |-> IF g \in G THEN {} ELSE holders[g]]
    /\ UNCHANGED <<issued, used>>

Next ==
    \/ \E g \in Grants : Issue(g)
    \/ \E g \in Grants, q \in Reqs : Redeem(g, q)
    \/ \E g \in Grants, q \in Reqs, r \in Rows : Mint(g, q, r) \/ Rotate(g, r, q)
    \/ \E G \in SUBSET Grants : Lose(G)

Spec == Init /\ [][Next]_vars
=============================================================================

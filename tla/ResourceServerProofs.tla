------------------------ MODULE ResourceServerProofs ------------------------
(***************************************************************************)
(* Theorems about ResourceServer: its behaviours are behaviours of Grants, *)
(* and a call that comes in late is never accepted.                        *)
(***************************************************************************)
EXTENDS ResourceServer, GrantsProofs

\* Shops and calls are added to Grants without disturbing it: the theorems of
\* GrantsProofs hold of the whole server.
THEOREM ServerRefinesGrants == ServerSpec => ImplementsGrants
<1>1. ServerInit => Init
  BY DEF ServerInit
<1>2. ASSUME [ServerNext]_serverVars PROVE [Next]_vars
  <2>1. ASSUME NEW k \in Calls, CheckShop(k) PROVE UNCHANGED vars
    BY <2>1 DEF CheckShop
  <2>2. ASSUME NEW k \in Calls, NEW r \in Rows, Present(k, r) PROVE UNCHANGED vars
    BY <2>2 DEF Present
  <2>3. ASSUME NEW d \in Domains, Uninstall(d) PROVE UNCHANGED vars
    BY <2>3 DEF Uninstall
  <2>4. ASSUME NEW d \in Domains, NEW id \in ShopIds, Install(d, id) PROVE UNCHANGED vars
    BY <2>4 DEF Install
  <2>5. CASE GrantStep
    BY <2>5 DEF GrantStep, Next
  <2>6. CASE UNCHANGED serverVars
    BY <2>6 DEF serverVars
  <2> QED
    BY <1>2, <2>1, <2>2, <2>3, <2>4, <2>5, <2>6 DEF ServerNext
<1> QED
  BY <1>1, <1>2, PTL DEF ServerSpec, ImplementsGrants, Spec

-----------------------------------------------------------------------------
(* Late calls.                                                             *)

\* A row that exists keeps what it was made with.
LEMMA RowsKept ==
    ASSUME TypeOK, [Next]_vars
    PROVE  \A r \in DOMAIN tokens : r \in DOMAIN tokens' /\ tokens'[r].new = tokens[r].new
<1> DEFINE Goal == \A r \in DOMAIN tokens :
                      r \in DOMAIN tokens' /\ tokens'[r].new = tokens[r].new
<1>0. IsMap(tokens, Rows, TokenRow) /\ req \in [Reqs -> Job]
  BY DEF TypeOK
<1>1. ASSUME NEW p \in Procs, NEW c \in Codes, NEW b \in Binding, IssueCode(p, c, b) PROVE Goal
  BY <1>1 DEF IssueCode
<1>2. ASSUME NEW q \in Reqs, NEW c \in Codes, NEW g \in CodeRequest, RedeemCode(q, c, g)
      PROVE  Goal
  BY <1>2 DEF RedeemCode
<1>3. ASSUME NEW q \in Reqs, WinRotation(q) PROVE Goal
  BY <1>0, <1>3, RevokeTokenMap DEF WinRotation
<1>4. ASSUME NEW q \in Reqs, NEW r \in Rows, CreateToken(q, r) PROVE Goal
  <2>1. /\ DOMAIN tokens' = DOMAIN tokens \cup {r}
        /\ \A x \in DOMAIN tokens : tokens'[x] = tokens[x]
    BY <1>4 DEF CreateToken, Put
  <2> QED
    BY <2>1
<1>5. CASE OtherStep
  BY <1>5, OtherStepKeeps
<1> QED
  BY <1>1, <1>2, <1>3, <1>4, <1>5, NextSteps

\* With fresh ids, an id that is on record was never retired, and no other shop
\* has it.
ShopsSound ==
    \A d \in Domains : shops[d] # None =>
       /\ DomainOf[shops[d]] = d
       /\ FreshIds => shops[d] \notin retired

\* A call between its lookups has a row that was not acked when it was found,
\* and whose installation, if that had ended, is still on record as ended.
CallsSound ==
    \A k \in Calls : calls[k].pc = "findingShop" =>
       /\ calls[k].row \in DOMAIN tokens
       /\ "revoked" \notin calls[k].seen
       /\ "retired" \in calls[k].seen => ShopOf(calls[k].row) \in retired

LateInv == ServerTypeOK /\ ShopsSound /\ CallsSound /\ LateCallsShutOut

LEMMA InitLateInv == ServerInit => LateInv
BY DEF ServerInit, LateInv, ServerTypeOK, ShopsSound, CallsSound, LateCallsShutOut, Call

\* A row that was found usable has not been acked.
LEMMA UsableNotAcked ==
    ASSUME TypeOK, BoundToGrant, AckedRevocationHolds, NEW r \in Rows, AccessUsable(r)
    PROVE  "revoked" \notin SeenAt(r)
<1>1. r \in DOMAIN tokens /\ tokens[r].new.born \in Nat /\ now \in Nat
  BY DEF AccessUsable, Unrevoked, TypeOK, IsMap, TokenRow, NewRow
<1>2. [kind |-> "access", row |-> r] \notin acked
  BY DEF AckedRevocationHolds, AccessUsable, Usable
<1>3. AccessTtl <= RefreshTtl => RefreshFresh(r)
  BY <1>1, TtlAssumption, AccessTtlAssumption DEF AccessUsable, AccessFresh, RefreshFresh
<1>4. AccessTtl <= RefreshTtl => [kind |-> "refresh", row |-> r] \notin acked
  BY <1>3 DEF AckedRevocationHolds, AccessUsable, Usable
<1> QED
  BY <1>2, <1>4 DEF SeenAt, Acked

LEMMA NextLateInv ==
    TypeOK /\ BoundToGrant /\ AckedRevocationHolds /\ LateInv
      /\ [ServerNext]_serverVars /\ [Next]_vars
        => LateInv'
<1> SUFFICES ASSUME TypeOK, BoundToGrant, AckedRevocationHolds, LateInv,
                    [ServerNext]_serverVars, [Next]_vars
             PROVE  LateInv'
  OBVIOUS
<1> USE DEF LateInv, ServerTypeOK, ShopsSound, CallsSound, LateCallsShutOut
<1>0. \A r \in DOMAIN tokens : r \in DOMAIN tokens' /\ tokens'[r].new = tokens[r].new
  BY RowsKept
<1>1. ASSUME NEW k \in Calls, NEW r \in Rows, Present(k, r) PROVE LateInv'
  <2>1. r \in DOMAIN tokens
    BY <1>1 DEF Present, Presentable, BoundToGrant
  <2>2. SeenAt(r) \in SUBSET (Seen \ {"hidden"})
    BY DEF SeenAt, Seen
  <2>3. "retired" \in SeenAt(r) => ShopOf(r) \in retired
    BY DEF SeenAt
  <2>4. UNCHANGED <<tokens, shops, retired>>
    BY <1>1 DEF Present, vars
  <2>5. CASE /\ AccessUsable(r)
             /\ calls' = [calls EXCEPT ![k] = [pc |-> "findingShop", row |-> r,
                                               seen |-> SeenAt(r)]]
    BY <2>1, <2>2, <2>3, <2>4, <2>5, UsableNotAcked DEF Call, ShopOf
  <2>6. CASE RefuseAtOnce(k, r)
    BY <2>2, <2>4, <2>6 DEF Call, ShopOf, RefuseAtOnce
  <2>7. CASE Reject(k)
    BY <2>4, <2>7 DEF Call, ShopOf, Reject
  <2> QED
    BY <1>1, <2>5, <2>6, <2>7 DEF Present
<1>2. ASSUME NEW k \in Calls, CheckShop(k) PROVE LateInv'
  <2> DEFINE id == ShopOf(calls[k].row)
  <2>1. UNCHANGED <<tokens, shops, retired>>
    BY <1>2 DEF CheckShop, vars
  <2>2. /\ calls[k].pc = "findingShop" /\ calls[k] \in Call
        /\ calls[k].row \in Rows /\ calls[k].seen \in SUBSET (Seen \ {"hidden"})
    BY <1>2 DEF CheckShop, Call
  <2>3. id \in ShopIds /\ DomainOf[id] \in Domains /\ id # None
    BY <2>2, DomainAssumption DEF TypeOK, IsMap, TokenRow, NewRow, ShopOf
  <2>4. CASE shops[DomainOf[id]] = id /\ Answer(k, "accepted", {})
    <3>1. FreshIds => "retired" \notin calls[k].seen
      BY <2>2, <2>3, <2>4
    <3> QED
      BY <2>1, <2>2, <2>4, <3>1 DEF Call, ShopOf, Answer
  <2>5. ASSUME NEW S \in SUBSET {"hidden"}, Answer(k, "refused", S) PROVE LateInv'
    <3>1. calls[k].seen \cup S \in SUBSET Seen
      BY <2>2 DEF Seen
    <3> QED
      BY <2>1, <2>2, <2>5, <3>1 DEF Call, ShopOf, Answer
  <2>6. CASE Reject(k)
    BY <2>1, <2>6 DEF Call, ShopOf, Reject
  <2>7. {} \in SUBSET {"hidden"} /\ {"hidden"} \in SUBSET {"hidden"}
    OBVIOUS
  <2> QED
    BY <1>2, <2>4, <2>5, <2>6, <2>7 DEF CheckShop
<1>3. ASSUME NEW d \in Domains, NEW id \in ShopIds, Install(d, id) PROVE LateInv'
  BY <1>3 DEF Install, ShopOf, vars
<1>4. ASSUME NEW d \in Domains, Uninstall(d) PROVE LateInv'
  <2>1. /\ UNCHANGED <<tokens, calls>>
        /\ retired' = retired \cup {shops[d]} /\ shops[d] # None
        /\ shops' = [shops EXCEPT ![d] = None]
    BY <1>4 DEF Uninstall, vars
  <2>2. ServerTypeOK' /\ ShopsSound'
    BY <2>1
  <2> QED
    BY <2>1, <2>2 DEF ShopOf
<1>5. ASSUME UNCHANGED server PROVE LateInv'
  BY <1>0, <1>5 DEF server, ShopOf
<1> QED
  BY <1>1, <1>2, <1>3, <1>4, <1>5 DEF ServerNext, serverVars, GrantStep

\* No call that comes in after its token was revoked, or its installation ended,
\* is accepted.
THEOREM LateCallsShutOutHolds == ServerSpec => []LateCallsShutOut
<1>1. ServerSpec => [](TypeOK /\ BoundToGrant /\ AckedRevocationHolds)
  BY ServerRefinesGrants, TypeCorrect, BoundToGrantHolds, AckedRevocationHoldsAlways, PTL
     DEF ImplementsGrants
<1>2. ServerSpec => [][Next]_vars
  BY ServerRefinesGrants, PTL DEF ImplementsGrants, Spec
<1>3. LateInv => LateCallsShutOut
  BY DEF LateInv
<1> QED
  BY <1>1, <1>2, <1>3, InitLateInv, NextLateInv, PTL DEF ServerSpec

-----------------------------------------------------------------------------
(* Refused calls.                                                          *)

LEMMA ClockForward == [Next]_vars => now' = now \/ now' = now + 1
BY DEF Next, IssueCode, Receive, RedeemCode, RefuseCode, FindRefresh, BeginRevoke, Proceed,
       WinRotation, LoseRotation, CreateToken, Respond, RevokeByAccess,
       FindRefreshToRevoke, RevokeByRefresh, AckRevoke, Fail, Crash, Tick, vars

\* `revoked` is never reset.
LEMMA RevokedKept ==
    ASSUME TypeOK, [Next]_vars
    PROVE  \A r \in DOMAIN tokens : tokens[r].revoked => tokens'[r].revoked
<1> DEFINE Goal == \A r \in DOMAIN tokens : tokens[r].revoked => tokens'[r].revoked
<1>0. IsMap(tokens, Rows, TokenRow)
  BY DEF TypeOK
<1>1. ASSUME NEW p \in Procs, NEW c \in Codes, NEW b \in Binding, IssueCode(p, c, b) PROVE Goal
  BY <1>1 DEF IssueCode
<1>2. ASSUME NEW q \in Reqs, NEW c \in Codes, NEW g \in CodeRequest, RedeemCode(q, c, g)
      PROVE  Goal
  BY <1>2 DEF RedeemCode
<1>3. ASSUME NEW q \in Reqs, WinRotation(q) PROVE Goal
  BY <1>0, <1>3, RevokeTokenMap DEF WinRotation
<1>4. ASSUME NEW q \in Reqs, NEW r \in Rows, CreateToken(q, r) PROVE Goal
  <2>1. \A x \in DOMAIN tokens : tokens'[x] = tokens[x]
    BY <1>4 DEF CreateToken, Put
  <2> QED
    BY <2>1
<1>5. CASE OtherStep
  BY <1>5, OtherStepKeeps
<1> QED
  BY <1>1, <1>2, <1>3, <1>4, <1>5, NextSteps

\* A row that is no good for a call never becomes good again.
LEMMA StaysUnusable ==
    ASSUME TypeOK, [Next]_vars, NEW r \in DOMAIN tokens, AccessUsable(r)'
    PROVE  AccessUsable(r)
<1>1. /\ r \in Rows /\ tokens[r].new.born \in Nat /\ now \in Nat
      /\ tokens'[r].new = tokens[r].new
  BY RowsKept DEF TypeOK, IsMap, TokenRow, NewRow
<1>2. tokens[r].revoked => tokens'[r].revoked
  BY RevokedKept
<1>3. ~tokens'[r].revoked /\ tokens'[r].new.born + AccessTtl > now'
  BY DEF AccessUsable, Unrevoked, AccessFresh
<1> QED
  BY <1>1, <1>2, <1>3, ClockForward, AccessTtlAssumption
     DEF AccessUsable, Unrevoked, AccessFresh

\* Ids that ever were an installation's.
Known == Installed \cup retired

\* Every call is about a row of the table, and an installation that was on record
\* when it came in is, or has ended.
CallsKnown ==
    \A k \in Calls : calls[k].pc \in {"findingShop", "answered"} =>
       /\ calls[k].row \in DOMAIN tokens
       /\ "recorded" \in calls[k].seen => ShopOf(calls[k].row) \in Known

RefusalInv == ServerTypeOK /\ ShopsSound /\ CallsKnown /\ RefusalsAreEarned

LEMMA InitRefusalInv == ServerInit => RefusalInv
BY DEF ServerInit, Init, RefusalInv, ServerTypeOK, ShopsSound, CallsKnown, RefusalsAreEarned,
       RefusedGood, Call

LEMMA KnownGrows == ServerTypeOK /\ [ServerNext]_serverVars => Known \subseteq Known'
<1> SUFFICES ASSUME ServerTypeOK, [ServerNext]_serverVars PROVE Known \subseteq Known'
  OBVIOUS
<1> USE DEF Known, Installed
<1>1. ASSUME NEW k \in Calls, CheckShop(k) PROVE Known \subseteq Known'
  BY <1>1 DEF CheckShop
<1>2. ASSUME NEW k \in Calls, NEW r \in Rows, Present(k, r) PROVE Known \subseteq Known'
  BY <1>2 DEF Present
<1>3. ASSUME NEW d \in Domains, NEW id \in ShopIds, Install(d, id) PROVE Known \subseteq Known'
  BY <1>3 DEF Install, ServerTypeOK
<1>4. ASSUME NEW d \in Domains, Uninstall(d) PROVE Known \subseteq Known'
  BY <1>4 DEF Uninstall, ServerTypeOK
<1>5. ASSUME UNCHANGED server PROVE Known \subseteq Known'
  BY <1>5 DEF server
<1> QED
  BY <1>1, <1>2, <1>3, <1>4, <1>5 DEF ServerNext, serverVars, GrantStep

LEMMA NextCallsKnown ==
    TypeOK /\ BoundToGrant /\ ServerTypeOK /\ CallsKnown
      /\ [ServerNext]_serverVars /\ [Next]_vars
        => CallsKnown'
<1> SUFFICES ASSUME TypeOK, BoundToGrant, ServerTypeOK, CallsKnown,
                    [ServerNext]_serverVars, [Next]_vars
             PROVE  CallsKnown'
  OBVIOUS
<1>1. \A r \in DOMAIN tokens : r \in DOMAIN tokens' /\ ShopOf(r)' = ShopOf(r)
  BY RowsKept DEF ShopOf
<1>2. Known \subseteq Known'
  BY KnownGrows
<1>3. ASSUME NEW k \in Calls, NEW r \in Rows, Present(k, r) PROVE CallsKnown'
  <2>1. r \in DOMAIN tokens
    BY <1>3 DEF Present, Presentable, BoundToGrant
  <2>2. "recorded" \in SeenAt(r) => ShopOf(r) \in Known
    BY DEF SeenAt, Known
  <2>3. \/ /\ calls'[k].pc \in {"findingShop", "answered"}
           /\ calls'[k].row = r /\ calls'[k].seen = SeenAt(r)
        \/ calls'[k].pc = "failed"
    BY <1>3 DEF Present, RefuseAtOnce, Reject, ServerTypeOK
  <2>4. \A x \in Calls : x # k => calls'[x] = calls[x]
    BY <1>3 DEF Present, RefuseAtOnce, Reject, ServerTypeOK
  <2> QED
    BY <1>1, <1>2, <2>1, <2>2, <2>3, <2>4, Zenon DEF CallsKnown, ShopOf
<1>4. ASSUME NEW k \in Calls, CheckShop(k) PROVE CallsKnown'
  <2>1. calls[k].pc = "findingShop"
    BY <1>4 DEF CheckShop
  <2>2. \/ /\ calls'[k].pc = "answered" /\ calls'[k].row = calls[k].row
           /\ calls'[k].seen \subseteq calls[k].seen \cup {"hidden"}
        \/ calls'[k].pc = "failed"
    BY <1>4 DEF CheckShop, Answer, Reject, ServerTypeOK
  <2>3. \A x \in Calls : x # k => calls'[x] = calls[x]
    BY <1>4 DEF CheckShop, Answer, Reject, ServerTypeOK
  <2> QED
    BY <1>1, <1>2, <2>1, <2>2, <2>3 DEF CallsKnown, ShopOf
<1>5. CASE UNCHANGED calls
  BY <1>1, <1>2, <1>5 DEF CallsKnown, ShopOf
<1> QED
  BY <1>3, <1>4, <1>5
     DEF ServerNext, serverVars, server, Uninstall, Install, GrantStep

LEMMA NextRefusalInv ==
    TypeOK /\ BoundToGrant /\ RefusalInv /\ [ServerNext]_serverVars /\ [Next]_vars
       /\ LateInv /\ LateInv'
        => RefusalInv'
<1> SUFFICES ASSUME TypeOK, BoundToGrant, RefusalInv, LateInv, LateInv',
                    [ServerNext]_serverVars, [Next]_vars
             PROVE  RefusalInv'
  OBVIOUS
<1>0. ServerTypeOK' /\ ShopsSound' /\ CallsKnown'
  BY NextCallsKnown DEF RefusalInv, LateInv
<1>1. RefusalsAreEarned /\ ServerTypeOK /\ ShopsSound /\ CallsKnown
  BY DEF RefusalInv
<1> SUFFICES ASSUME NEW k \in Calls, NEW r, r = calls'[k].row, calls'[k].pc = "answered",
                    calls'[k].verdict = "refused", AccessUsable(r)', ForUs(r)',
                    "recorded" \in calls'[k].seen, "hidden" \notin calls'[k].seen
             PROVE  ShopOf(r)' \in retired'
  BY <1>0 DEF RefusalInv, RefusalsAreEarned, RefusedGood
<1>2. retired \subseteq retired'
  BY DEF ServerNext, serverVars, server, CheckShop, Present, Uninstall, Install,
         GrantStep
\* An answer given before stays earned: what it rests on lasts.
<1>3. CASE calls'[k] = calls[k]
  <2>1. r \in DOMAIN tokens /\ AccessUsable(r)
    BY <1>1, <1>3, StaysUnusable DEF CallsKnown
  <2>2. tokens'[r].new = tokens[r].new
    BY <2>1, RowsKept
  <2>3. ForUs(r) /\ ShopOf(r)' = ShopOf(r)
    BY <2>2 DEF ForUs, ShopOf
  <2>4. ShopOf(r) \in retired
    BY <1>1, <1>3, <2>1, <2>3 DEF RefusalsAreEarned, RefusedGood
  <2> QED
    BY <1>2, <2>3, <2>4
\* Refused at the first lookup: the row was no good, or another server's.
<1>4. ASSUME NEW x \in Rows, Present(k, x), calls'[k] # calls[k] PROVE FALSE
  <2>1. r = x /\ ~(AccessUsable(x) /\ ForUs(x))
    BY <1>1, <1>4 DEF Present, RefuseAtOnce, Reject, ServerTypeOK
  <2>2. (AccessUsable(x)' <=> AccessUsable(x)) /\ (ForUs(x)' <=> ForUs(x))
    BY <1>4 DEF Present, vars, AccessUsable, Unrevoked, AccessFresh, ForUs
  <2> QED
    BY <2>1, <2>2
\* Refused at the second: the id the row names was recorded, and is no more.
<1>5. CASE CheckShop(k) /\ calls'[k] # calls[k]
  <2> DEFINE id == ShopOf(r)
  <2>1. /\ r = calls[k].row /\ shops[DomainOf[id]] # id /\ r \in DOMAIN tokens
        /\ calls[k].pc = "findingShop" /\ calls'[k].seen = calls[k].seen
    BY <1>1, <1>5 DEF CheckShop, Answer, Reject, ServerTypeOK, CallsKnown
  <2>2. id \in Known
    BY <1>1, <2>1 DEF CallsKnown
  <2>3. id \notin Installed
    BY <1>1, <2>1 DEF Installed, ShopsSound
  <2>4. id \in retired /\ ShopOf(r)' = ShopOf(r)
    BY <1>5, <2>2, <2>3 DEF Known, CheckShop, vars, ShopOf
  <2> QED
    BY <1>2, <2>4
<1> QED
  BY <1>1, <1>3, <1>4, <1>5
     DEF ServerNext, serverVars, server, Present, CheckShop, RefuseAtOnce, Reject, Answer,
         Uninstall, Install, GrantStep, ServerTypeOK

\* A call whose token is good, and names an installation that was on record when the
\* call came in, is refused only if that installation has ended or an adapter's shop
\* lookup answered an outage with null (authenticate.ts).
THEOREM RefusalsAreEarnedHolds == ServerSpec => []RefusalsAreEarned
<1>1. ServerSpec => [](TypeOK /\ BoundToGrant /\ AckedRevocationHolds)
  BY ServerRefinesGrants, TypeCorrect, BoundToGrantHolds, AckedRevocationHoldsAlways, PTL
     DEF ImplementsGrants
<1>2. ServerSpec => [][Next]_vars
  BY ServerRefinesGrants, PTL DEF ImplementsGrants, Spec
<1>3. RefusalInv => RefusalsAreEarned
  BY DEF RefusalInv
<1> QED
  BY <1>1, <1>2, <1>3, InitLateInv, NextLateInv, InitRefusalInv, NextRefusalInv, PTL
     DEF ServerSpec
=============================================================================

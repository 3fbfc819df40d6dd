--------------------------- MODULE ResourceServer ---------------------------
(***************************************************************************)
(* authenticate.ts composed with Grants: an MCP call presents an access    *)
(* token, whose row is looked up and whose shop is then looked up again,   *)
(* while grants are issued, rotated and revoked and shops uninstall and    *)
(* reinstall between the two lookups.                                      *)
(*                                                                         *)
(* A shop id names one installation of one domain (DomainOf); a row's      *)
(* denormalized shopDomain is that domain.  A storage may be shared with   *)
(* the authorization server of another resource, whose codes are those     *)
(* outside OurCodes.                                                       *)
(***************************************************************************)
EXTENDS Grants

CONSTANTS
    Calls,              \* MCP requests
    Domains,            \* myshopify.com domains
    DomainOf,           \* the domain of a shop id
    AccessTtl,          \* tokenTtl.access
    OurCodes,           \* codes bound to config.resource
    FreshIds,           \* TRUE: a reinstall gets a new row id; FALSE: an adapter that reuses ids
    Outages             \* how outages show: a call rejects; the shop lookup answers null

ASSUME DomainAssumption == DomainOf \in [ShopIds -> Domains] /\ None \notin ShopIds
ASSUME AccessTtlAssumption == AccessTtl \in Nat
ASSUME AdapterAssumption == FreshIds \in BOOLEAN /\ Outages \subseteq {"rejection", "null"}
ASSUME AudienceAssumption == OurCodes \subseteq Codes

VARIABLES
    shops,      \* the shop record of each domain: an id, or None
    retired,    \* history: ids whose installation ended at least once
    calls       \* what each call is doing

server == <<shops, retired, calls>>
serverVars == <<vars, server>>

\* `seen` is history: what had already happened when the row was looked up -- a
\* /revoke answered for the token, the id it names was recorded as an installation,
\* that installation ended -- and whether an outage hid the shop.
Seen == {"revoked", "recorded", "retired", "hidden"}

Call ==    {[pc |-> "idle"]}
      \cup [pc : {"findingShop"}, row : Rows, seen : SUBSET (Seen \ {"hidden"})]
      \cup [pc : {"answered"}, row : Rows, seen : SUBSET Seen,
            verdict : {"accepted", "refused"}]
      \cup {[pc |-> "failed"]}

Installed == {shops[d] : d \in Domains} \ {None}

ShopOf(r) == tokens[r].new.shopId

AccessFresh(r) == tokens[r].new.born + AccessTtl > now

\* findTokenByAccessHash.
AccessUsable(r) == Unrevoked(r) /\ AccessFresh(r)

Acked(r) ==
    \/ [kind |-> "access", row |-> r] \in acked
    \/ [kind |-> "refresh", row |-> r] \in acked /\ AccessTtl <= RefreshTtl

ForUs(r) == tokens[r].new.grant \in OurCodes

SeenAt(r) ==
         {x \in {"revoked"} : Acked(r)}
    \cup {x \in {"recorded"} : ShopOf(r) \in Installed \cup retired}
    \cup {x \in {"retired"} : ShopOf(r) \in retired}

Answer(k, verdict, more) ==
    calls' = [calls EXCEPT ![k] = [pc |-> "answered", row |-> @.row, seen |-> @.seen \cup more,
                                   verdict |-> verdict]]

RefuseAtOnce(k, r) ==
    calls' = [calls EXCEPT ![k] = [pc |-> "answered", row |-> r, seen |-> SeenAt(r),
                                   verdict |-> "refused"]]

\* authenticate rejects: a 500, which says nothing of the token.
Reject(k) == calls' = [calls EXCEPT ![k] = [pc |-> "failed"]]

-----------------------------------------------------------------------------
ServerInit ==
    /\ Init
    /\ shops = [d \in Domains |-> None]
    /\ retired = {}
    /\ calls = [k \in Calls |-> [pc |-> "idle"]]

\* A call comes in with the access token of row r; findTokenByAccessHash finds
\* its row or not, or rejects; a row for another resource is refused.
Present(k, r) ==
    /\ calls[k].pc # "findingShop"
    /\ Presentable(r)
    /\ \/ /\ AccessUsable(r) /\ ForUs(r)
          /\ calls' = [calls EXCEPT ![k] = [pc |-> "findingShop", row |-> r, seen |-> SeenAt(r)]]
       \/ ~(AccessUsable(r) /\ ForUs(r)) /\ RefuseAtOnce(k, r)
       \/ "rejection" \in Outages /\ Reject(k)
    /\ UNCHANGED <<vars, shops, retired>>

\* Fault: the shop is known, and that is all that is checked.
CheckShop_DomainOnly(k) ==
    /\ calls[k].pc = "findingShop"
    /\ Answer(k, IF shops[DomainOf[ShopOf(calls[k].row)]] # None THEN "accepted" ELSE "refused",
              {})
    /\ UNCHANGED <<vars, shops, retired>>

\* Fault: authenticate itself catches the lookup's rejection and answers "unknown shop".
CheckShop_CatchesOutage(k) ==
    /\ calls[k].pc = "findingShop"
    /\ LET id == ShopOf(calls[k].row) IN
       \/ shops[DomainOf[id]] = id /\ Answer(k, "accepted", {})
       \/ shops[DomainOf[id]] # id /\ Answer(k, "refused", {})
       \/ "rejection" \in Outages /\ Answer(k, "refused", {})
    /\ UNCHANGED <<vars, shops, retired>>

\* Fault: a token whose shop is gone is revoked on the spot.
CheckShop_Revokes(k) ==
    /\ calls[k].pc = "findingShop"
    /\ LET id == ShopOf(calls[k].row) IN
       \/ shops[DomainOf[id]] = id /\ Answer(k, "accepted", {}) /\ UNCHANGED tokens
       \/ /\ shops[DomainOf[id]] # id
          /\ Answer(k, "refused", {})
          /\ tokens' = RevokeToken(calls[k].row)
    /\ UNCHANGED <<now, cache, req, held, auth, acked, guesses, brokenOff, shops, retired>>

\* findShopByDomain settles: the shop is known, under the id the token names, or
\* the call is refused.  An outage of the lookup is a rejection, hence a 500, unless
\* the adapter catches it: shopifySessionStorage then answers null, and the call is
\* refused.  touchToken is not awaited.
CheckShop(k) ==
    /\ calls[k].pc = "findingShop"
    /\ LET id == ShopOf(calls[k].row) IN
       \/ shops[DomainOf[id]] = id /\ Answer(k, "accepted", {})
       \/ shops[DomainOf[id]] # id /\ Answer(k, "refused", {})
       \/ "rejection" \in Outages /\ Reject(k)
       \/ "null" \in Outages /\ Answer(k, "refused", {"hidden"})
    /\ UNCHANGED <<vars, shops, retired>>

\* The host records an installation of domain d.
Install(d, id) ==
    /\ shops[d] = None
    /\ DomainOf[id] = d
    /\ FreshIds => id \notin retired
    /\ shops' = [shops EXCEPT ![d] = id]
    /\ UNCHANGED <<vars, retired, calls>>

\* The merchant uninstalls the app and the host drops its record.
Uninstall(d) ==
    /\ shops[d] # None
    /\ retired' = retired \cup {shops[d]}
    /\ shops' = [shops EXCEPT ![d] = None]
    /\ UNCHANGED <<vars, calls>>

\* The steps of Grants.  The shop id a code is bound to may be any: the callback's
\* lookup found it some time ago, or onShopNotFound made it up.
GrantStep ==
    /\ \/ \E p \in Procs, c \in Codes, b \in Binding : IssueCode(p, c, b)
       \/ \E q \in Reqs : Receive(q) \/ Proceed(q) \/ Fail(q)
       \/ \E p \in Procs : Crash(p)
       \/ Tick
    /\ UNCHANGED server

ServerNext ==
    \/ \E k \in Calls : CheckShop(k) \/ \E r \in Rows : Present(k, r)
    \/ \E d \in Domains : Uninstall(d) \/ \E id \in ShopIds : Install(d, id)
    \/ GrantStep

ServerSpec == ServerInit /\ [][ServerNext]_serverVars

-----------------------------------------------------------------------------
\* Type invariant of the part this module adds.
ServerTypeOK ==
    /\ shops \in [Domains -> ShopIds \cup {None}]
    /\ retired \subseteq ShopIds
    /\ calls \in [Calls -> Call]

\* A call that comes in after /revoke answered 200 for its token, or for the
\* refresh token beside it, or after the installation the token names ended, is
\* never accepted: whatever rotated, reinstalled, crashed or failed in between
\* (authenticate.ts: "a token outlives an uninstall", and the reinstall that
\* gets "a fresh row id under the same domain").
LateCallsShutOut ==
    \A k \in Calls :
       (calls[k].pc = "answered" /\ calls[k].verdict = "accepted")
          => /\ "revoked" \notin calls[k].seen
             /\ FreshIds => "retired" \notin calls[k].seen

\* The call k was refused although its token is good, for this server, and names an
\* installation that was on record when the call came in.
RefusedGood(k) ==
    /\ calls[k].pc = "answered" /\ calls[k].verdict = "refused"
    /\ AccessUsable(calls[k].row) /\ ForUs(calls[k].row)
    /\ "recorded" \in calls[k].seen

\* Whatever runs between the two lookups, authenticate invents no refusal: a good
\* token is told "invalid_token" only if the installation it names has ended, or if
\* the lookup itself hid an outage as "no such shop"; a lookup that rejects is a 500.
\* (A token whose id the lookup never had, from a hook that made it up, is not good:
\* types.ts says what that does.)
RefusalsAreEarned ==
    \A k \in Calls :
       (RefusedGood(k) /\ "hidden" \notin calls[k].seen) => ShopOf(calls[k].row) \in retired

\* What authenticate.ts says of outages: "A storage failure rejects rather than
\* resolving { ok: false } -- an outage is a 500, not an invitation to log in again".
\* False with shopifySessionStorage, which answers null when its store fails.
OutagesAreNoRefusals ==
    \A k \in Calls : RefusedGood(k) => ShopOf(calls[k].row) \in retired

\* What the resource server adds disturbs no grant: every behaviour is one of
\* Grants, whose theorems therefore hold here.
ImplementsGrants == Spec
=============================================================================

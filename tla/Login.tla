------------------------------- MODULE Login -------------------------------
(***************************************************************************)
(* The way to an authorization code: a client registers, /authorize checks *)
(* its request and signs it into a state token, a merchant approves it at  *)
(* Shopify, and Shopify's signed callback exchanges Shopify's code, looks  *)
(* the shop up, lets the host record it (onShopNotFound), and issues the   *)
(* code.  The server keeps nothing between /authorize and the callback:    *)
(* whatever binds them is in the state token.  Callbacks interleave at     *)
(* every `await`.                                                          *)
(***************************************************************************)
EXTENDS Integers, FiniteSets, RedirectUri

CONSTANTS
    Slots,          \* callbacks being served
    Clients, Uris, Challenges,
    UriSets,        \* what clients ask to register
    Domains, ShopIds,
    DomainOf,       \* the domain of a shop id
    StateTtl,       \* STATE_TTL_SECONDS
    MaxTime,        \* bound: the clock stops here
    MaxConsents,    \* bound: /authorize requests that are accepted
    MaxApprovals,   \* bound: approvals at Shopify
    HostErrs,       \* TRUE: a lookup or the hook may answer another domain's shop
    Failures,       \* TRUE: calls to storage, the cache and the hook may reject
    None

ASSUME UriAssumption ==
    /\ UriSets \subseteq SUBSET Uris
    /\ \A u \in Uris : DOMAIN u = {"scheme", "host", "port", "rest", "userinfo", "fragment"}
ASSUME DomainAssumption == DomainOf \in [ShopIds -> Domains] /\ None \notin ShopIds
ASSUME BoundAssumption ==
    {StateTtl, MaxTime, MaxConsents, MaxApprovals} \subseteq Nat
ASSUME FlagAssumption == {HostErrs, Failures} \subseteq BOOLEAN

VARIABLES
    now,        \* Date.now()
    clients,    \* registered redirect URIs of each client; {} if it is unknown
    states,     \* state tokens signed by signOuterState
    approvals,  \* callbacks Shopify signed: merchant of `shop` approved `state`
    spent,      \* approvals whose Shopify code was exchanged
    shops,      \* the host's shop records: domain -> id, or None
    callback,   \* what each callback is doing
    codes       \* codes issued: approval, shop id, and the binding

vars == <<now, clients, states, approvals, spent, shops, callback, codes>>

-----------------------------------------------------------------------------
(* Data.                                                                   *)

\* OuterStatePayload; `nonce` tells two tokens for the same request apart.
State == [client : Clients, redirectUri : Uris, challenge : Challenges,
          expires : Nat, nonce : Nat]

\* A state parameter that signOuterState did not make.
Foreign == [foreign |-> TRUE]

\* `nonce` tells two approvals apart: each carries a Shopify code of its own.
Approval == [shop : Domains, state : State \cup {Foreign}, nonce : Nat]

\* A code: what CodeRecord binds it to, and where the redirect carries it.
Code == [approval : Approval, nonce : Nat, shopId : ShopIds, client : Clients,
         redirectUri : Uris, challenge : Challenges, sentTo : Uris]

Idle == [pc |-> "idle"]

Job ==    {Idle}
     \cup [pc : {"exchanging", "finding", "hooking"}, approval : Approval]
     \cup [pc : {"issuing"}, approval : Approval, shopId : ShopIds]

Become(k, job) == callback' = [callback EXCEPT ![k] = job]

Live(state) == now < state.expires

-----------------------------------------------------------------------------
Init ==
    /\ now = 0
    /\ clients = [c \in Clients |-> {}]
    /\ states = {}
    /\ approvals = {}
    /\ spent = {}
    /\ shops \in [Domains -> {None}]
    /\ callback = [k \in Slots |-> Idle]
    /\ codes = {}

\* /register: a client's redirect URIs are acceptable, every one of them, and
\* written once.  (Clients that are named by a URL are module Cimd's.)
Register(c, uris) ==
    /\ clients[c] = {}
    /\ uris # {} /\ \A u \in uris : Acceptable(u)
    /\ clients' = [clients EXCEPT ![c] = uris]
    /\ UNCHANGED <<now, states, approvals, spent, shops, callback, codes>>

\* authorizeController: the client is known and registered a matching redirect
\* URI.  Anything else is a 400 that changes nothing.
Authorize(c, u, ch) ==
    /\ Cardinality(states) < MaxConsents
    /\ \E registered \in clients[c] : Matches(registered, u)
    /\ states' = states \cup {[client |-> c, redirectUri |-> u, challenge |-> ch,
                               expires |-> now + StateTtl, nonce |-> Cardinality(states)]}
    /\ UNCHANGED <<now, clients, approvals, spent, shops, callback, codes>>

\* The merchant of shop d picks it at Shopify, for a state of ours or not, and
\* Shopify signs the callback it redirects the browser to.
Approve(d, state) ==
    /\ Cardinality(approvals) < MaxApprovals
    /\ approvals' = approvals \cup {[shop |-> d, state |-> state,
                                     nonce |-> Cardinality(approvals)]}
    /\ UNCHANGED <<now, clients, states, spent, shops, callback, codes>>

\* Fault: the state is decoded, and its expiry is not looked at.
ReceiveCallback_NoExpiry(k, a) ==
    /\ callback[k] = Idle
    /\ a.state \in states
    /\ Become(k, [pc |-> "exchanging", approval |-> a])
    /\ UNCHANGED <<now, clients, states, approvals, spent, shops, codes>>

\* The callback of approval a arrives, perhaps again: requireShopifyHmac passes
\* what Shopify signed and nothing else, and verifyOuterState passes a state of
\* ours that has not expired.  Anything else is a 400 that changes nothing.
ReceiveCallback(k, a) ==
    /\ callback[k] = Idle
    /\ a.state \in states
    /\ Live(a.state)
    /\ Become(k, [pc |-> "exchanging", approval |-> a])
    /\ UNCHANGED <<now, clients, states, approvals, spent, shops, codes>>

\* Fault: the status of Shopify's answer is not looked at.
Exchange_AnyStatus(k) ==
    /\ callback[k].pc = "exchanging"
    /\ Become(k, [pc |-> "finding", approval |-> callback[k].approval])
    /\ spent' = spent \cup {callback[k].approval}
    /\ UNCHANGED <<now, clients, states, approvals, shops, codes>>

\* Shopify's token endpoint answers: an access token for a code it has not
\* exchanged before; or no token, or no answer, perhaps after it exchanged the
\* code, which end as 400.
Exchange(k) ==
    /\ callback[k].pc = "exchanging"
    /\ \/ /\ callback[k].approval \notin spent
          /\ Become(k, [pc |-> "finding", approval |-> callback[k].approval])
          /\ spent' = spent \cup {callback[k].approval}
       \/ Become(k, Idle) /\ spent' \in {spent, spent \cup {callback[k].approval}}
    /\ UNCHANGED <<now, clients, states, approvals, shops, codes>>

\* Fault: the shop that comes back is not compared with the shop that approved.
Found_Unchecked(k, id) ==
    Become(k, [pc |-> "issuing", approval |-> callback[k].approval, shopId |-> id])

\* A ShopRef came back: one of another domain is a 500, "login refused".
Found(k, id) ==
    IF DomainOf[id] = callback[k].approval.shop
    THEN Become(k, [pc |-> "issuing", approval |-> callback[k].approval, shopId |-> id])
    ELSE Become(k, Idle)

\* Fault: a lookup that found nothing is not noticed.
FindShop_NoNullCheck(k) ==
    /\ callback[k].pc = "finding"
    /\ Become(k, [pc |-> "issuing", approval |-> callback[k].approval,
                  shopId |-> shops[callback[k].approval.shop]])
    /\ UNCHANGED <<now, clients, states, approvals, spent, shops, codes>>

\* findShopByDomain: the shop's record, which an erring adapter confuses with
\* another's, or none: then the hook is asked.
FindShop(k) ==
    /\ callback[k].pc = "finding"
    /\ LET id == shops[callback[k].approval.shop] IN
       \/ id # None /\ Found(k, id)
       \/ HostErrs /\ \E other \in ShopIds :
             DomainOf[other] # callback[k].approval.shop /\ Found(k, other)
       \/ id = None /\ Become(k, [pc |-> "hooking", approval |-> callback[k].approval])
    /\ UNCHANGED <<now, clients, states, approvals, spent, shops, codes>>

\* onShopNotFound: the host records the shop, unless it did so meanwhile, and
\* answers with the record, or, erring, with another shop; null, or no hook at
\* all, is a 403.
RunHook(k) ==
    /\ callback[k].pc = "hooking"
    /\ LET d == callback[k].approval.shop IN
       \/ /\ shops[d] = None
          /\ \E id \in ShopIds :
                DomainOf[id] = d /\ shops' = [shops EXCEPT ![d] = id] /\ Found(k, id)
       \/ shops[d] # None /\ Found(k, shops[d]) /\ UNCHANGED shops
       \/ HostErrs /\ UNCHANGED shops /\ \E other \in ShopIds :
             DomainOf[other] # d /\ Found(k, other)
       \/ Become(k, Idle) /\ UNCHANGED shops
    /\ UNCHANGED <<now, clients, states, approvals, spent, codes>>

\* issueCode, and the redirect that carries the code to the client.
Issue(k) ==
    /\ callback[k].pc = "issuing"
    /\ LET a == callback[k].approval IN
       codes' = codes \cup {[approval |-> a, nonce |-> Cardinality(codes),
                             shopId |-> callback[k].shopId,
                             client |-> a.state.client,
                             redirectUri |-> a.state.redirectUri,
                             challenge |-> a.state.challenge,
                             sentTo |-> a.state.redirectUri]}
    /\ Become(k, Idle)
    /\ UNCHANGED <<now, clients, states, approvals, spent, shops>>

\* An awaited call of a callback rejects: 500.
Fail(k) ==
    /\ Failures
    /\ callback[k] # Idle
    /\ Become(k, Idle)
    /\ UNCHANGED <<now, clients, states, approvals, spent, shops, codes>>

\* The host records or forgets a shop by itself.
Install(d, id) ==
    /\ shops[d] = None
    /\ DomainOf[id] = d
    /\ shops' = [shops EXCEPT ![d] = id]
    /\ UNCHANGED <<now, clients, states, approvals, spent, callback, codes>>

Tick ==
    /\ now < MaxTime
    /\ now' = now + 1
    /\ UNCHANGED <<clients, states, approvals, spent, shops, callback, codes>>

Proceed(k) == Exchange(k) \/ FindShop(k) \/ RunHook(k) \/ Issue(k)

Next ==
    \/ \E c \in Clients, uris \in UriSets : Register(c, uris)
    \/ \E c \in Clients, u \in Uris, ch \in Challenges : Authorize(c, u, ch)
    \/ \E d \in Domains, state \in states \cup {Foreign} : Approve(d, state)
    \/ \E k \in Slots : Proceed(k) \/ Fail(k) \/ \E a \in approvals : ReceiveCallback(k, a)
    \/ \E d \in Domains, id \in ShopIds : Install(d, id)
    \/ Tick

Spec == Init /\ [][Next]_vars

-----------------------------------------------------------------------------
\* Type invariant.
TypeOK ==
    /\ now \in Nat
    /\ clients \in [Clients -> SUBSET Uris]
    /\ states \subseteq State
    /\ approvals \subseteq Approval
    /\ spent \subseteq approvals
    /\ shops \in [Domains -> ShopIds \cup {None}]
    /\ callback \in [Slots -> Job]
    /\ codes \subseteq Code

\* Every code stands at the end of one chain of consent: /authorize signed the
\* redirect URI that it is sent to with this client and this challenge, a
\* merchant approved that very state, and the shop the code names is the shop
\* that approved: whatever other logins were under way, and whatever the host's
\* lookup or hook answered.
CodesFollowConsent ==
    \A code \in codes :
       /\ code.approval \in approvals
       /\ DomainOf[code.shopId] = code.approval.shop
       /\ \E state \in states :
             /\ code.approval.state = state
             /\ code.client = state.client
             /\ code.challenge = state.challenge
             /\ code.redirectUri = state.redirectUri /\ code.sentTo = state.redirectUri

\* A code is only sent where its client said at registration that it listens,
\* but for the port of a loopback address, and never in cleartext over the
\* network or to a scheme that a browser would act on.
CodesTravelSafely ==
    \A code \in codes : LET to == code.sentTo IN
       /\ to.scheme \notin DangerousSchemes
       /\ to.scheme = "http" => to.host \in LoopbackHosts
       /\ \E u \in clients[code.client] :
             \A part \in DOMAIN to \ {"fragment"} :
                u[part] = to[part] \/ (part = "port" /\ to.host \in LoopbackHosts)

\* A merchant who approved once granted one code: a callback that is reloaded,
\* or raced by its own copy, issues none (the exchange is the only proof of the
\* approval, and Shopify exchanges a code once).
OneCodePerApproval ==
    \A x, y \in codes : x.approval = y.approval => x = y

InFlight(state) == \E k \in Slots : callback[k] # Idle /\ callback[k].approval.state = state
CodesOf(state) == {code \in codes : code.approval.state = state}

\* Once a state has expired and the callbacks it was in have ended, no code is
\* ever issued for it again, though merchants may go on approving it.
ExpiredStatesAreDead ==
    [][\A state \in states :
          (~Live(state) /\ ~InFlight(state))
             => ~InFlight(state)' /\ CodesOf(state)' = CodesOf(state)]_vars
=============================================================================

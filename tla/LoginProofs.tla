---------------------------- MODULE LoginProofs ----------------------------
(***************************************************************************)
(* Theorems about Login, for any clients, redirect URIs, shops, callbacks  *)
(* and lifetimes of state tokens, with hosts that err and calls that fail. *)
(***************************************************************************)
EXTENDS Login, FiniteSetTheorems, TLAPS

(* Types, and where a callback came from.                                  *)

\* `nonce` counts, so what is counted is finite.
Finite == IsFiniteSet(states) /\ IsFiniteSet(approvals) /\ IsFiniteSet(codes)

\* A callback that is being served was signed by Shopify, for a state of ours.
Traced ==
    \A k \in Slots : callback[k] # Idle =>
       callback[k].approval \in approvals /\ callback[k].approval.state \in states

TypeInv == TypeOK /\ Finite /\ Traced

LEMMA InitTypeInv == Init => TypeInv
BY FS_EmptySet DEF Init, TypeInv, TypeOK, Finite, Traced, Job, Idle

\* What happens outside of callbacks.
World ==
    \/ \E c \in Clients, uris \in UriSets : Register(c, uris)
    \/ \E c \in Clients, u \in Uris, ch \in Challenges : Authorize(c, u, ch)
    \/ \E d \in Domains, state \in states \cup {Foreign} : Approve(d, state)
    \/ \E d \in Domains, id \in ShopIds : Install(d, id)
    \/ Tick
    \/ UNCHANGED vars

\* It leaves callbacks and codes alone, and takes no consent back.
LEMMA WorldKeeps ==
    ASSUME TypeOK, World
    PROVE  /\ UNCHANGED <<callback, codes, spent>>
           /\ states \subseteq states' /\ approvals \subseteq approvals'
           /\ \A c \in Clients : clients[c] \subseteq clients'[c]
<1> USE DEF TypeOK
<1>1. ASSUME NEW c \in Clients, NEW uris \in UriSets, Register(c, uris)
      PROVE  \A x \in Clients : clients[x] \subseteq clients'[x]
  BY <1>1 DEF Register
<1> QED
  BY <1>1 DEF World, Register, Authorize, Approve, Install, Tick, vars

LEMMA WorldTypeInv ==
    ASSUME TypeInv, World
    PROVE  TypeInv'
<1> USE DEF TypeInv, TypeOK, Finite, Traced
<1>1. ASSUME NEW c \in Clients, NEW uris \in UriSets, Register(c, uris) PROVE TypeInv'
  BY <1>1, UriAssumption DEF Register
<1>2. ASSUME NEW c \in Clients, NEW u \in Uris, NEW ch \in Challenges, Authorize(c, u, ch)
      PROVE  TypeInv'
  <2> DEFINE s == [client |-> c, redirectUri |-> u, challenge |-> ch,
                   expires |-> now + StateTtl, nonce |-> Cardinality(states)]
  <2>1. s \in State
    BY FS_CardinalityType, BoundAssumption DEF State
  <2>2. states' = states \cup {s} /\ IsFiniteSet(states')
    BY <1>2, FS_AddElement DEF Authorize
  <2> HIDE DEF s
  <2> QED
    BY <1>2, <2>1, <2>2 DEF Authorize
<1>3. ASSUME NEW d \in Domains, NEW state \in states \cup {Foreign}, Approve(d, state)
      PROVE  TypeInv'
  <2> DEFINE a == [shop |-> d, state |-> state, nonce |-> Cardinality(approvals)]
  <2>1. a \in Approval
    BY FS_CardinalityType DEF Approval
  <2>2. approvals' = approvals \cup {a} /\ IsFiniteSet(approvals')
    BY <1>3, FS_AddElement DEF Approve
  <2> HIDE DEF a
  <2> QED
    BY <1>3, <2>1, <2>2 DEF Approve
<1>4. ASSUME NEW d \in Domains, NEW id \in ShopIds, Install(d, id) PROVE TypeInv'
  BY <1>4 DEF Install
<1>5. CASE Tick
  BY <1>5 DEF Tick
<1>6. CASE UNCHANGED vars
  BY <1>6 DEF vars
<1> QED
  BY <1>1, <1>2, <1>3, <1>4, <1>5, <1>6 DEF World

-----------------------------------------------------------------------------
(* The ways a callback can go.                                             *)

ShopsTyped == shops' \in [Domains -> ShopIds \cup {None}]

\* It ends without a code, whatever became of Shopify's code meanwhile.
Ends(k) ==
    /\ callback[k] # Idle
    /\ Become(k, Idle)
    /\ spent \subseteq spent' /\ spent' \subseteq spent \cup {callback[k].approval}
    /\ ShopsTyped
    /\ UNCHANGED <<now, clients, states, approvals, codes>>

\* It exchanged Shopify's code.
Wins(k) ==
    /\ callback[k].pc = "exchanging"
    /\ callback[k].approval \notin spent
    /\ Become(k, [pc |-> "finding", approval |-> callback[k].approval])
    /\ spent' = spent \cup {callback[k].approval}
    /\ UNCHANGED <<now, clients, states, approvals, shops, codes>>

\* It asks the host, or has found the shop that approved.
Advances(k) ==
    /\ callback[k].pc \in {"finding", "hooking"}
    /\ \/ Become(k, [pc |-> "hooking", approval |-> callback[k].approval])
       \/ \E id \in ShopIds :
             /\ DomainOf[id] = callback[k].approval.shop
             /\ Become(k, [pc |-> "issuing", approval |-> callback[k].approval, shopId |-> id])
    /\ ShopsTyped
    /\ UNCHANGED <<now, clients, states, approvals, spent, codes>>

CallbackStep(k) ==
    \/ \E a \in approvals : ReceiveCallback(k, a)
    \/ Wins(k) \/ Advances(k) \/ Issue(k) \/ Ends(k)

\* A shop that comes back lets the callback go on, or ends it.
LEMMA FoundStep ==
    ASSUME TypeInv, NEW k \in Slots, callback[k].pc \in {"finding", "hooking"},
           NEW id \in ShopIds, Found(k, id), ShopsTyped,
           UNCHANGED <<now, clients, states, approvals, spent, codes>>
    PROVE  Advances(k) \/ Ends(k)
BY DEF Found, Advances, Ends, Idle

LEMMA FindShopStep ==
    ASSUME TypeInv, NEW k \in Slots, FindShop(k)
    PROVE  Advances(k) \/ Ends(k)
<1> DEFINE id == shops[callback[k].approval.shop]
<1>1. /\ callback[k].pc = "finding" /\ ShopsTyped
      /\ UNCHANGED <<now, clients, states, approvals, spent, codes>>
  BY DEF FindShop, TypeInv, TypeOK, ShopsTyped
<1>2. callback[k].approval.shop \in Domains
  BY <1>1 DEF TypeInv, TypeOK, Job, Idle, Approval
<1>3. id \in ShopIds \cup {None}
  BY <1>2 DEF TypeInv, TypeOK
<1>4. CASE id # None /\ Found(k, id)
  BY <1>1, <1>3, <1>4, FoundStep
<1>5. ASSUME NEW other \in ShopIds, Found(k, other) PROVE Advances(k) \/ Ends(k)
  BY <1>1, <1>5, FoundStep
<1>6. CASE Become(k, [pc |-> "hooking", approval |-> callback[k].approval])
  BY <1>1, <1>6 DEF Advances
<1> QED
  BY <1>4, <1>5, <1>6 DEF FindShop

LEMMA RunHookStep ==
    ASSUME TypeInv, NEW k \in Slots, RunHook(k)
    PROVE  Advances(k) \/ Ends(k)
<1> DEFINE d == callback[k].approval.shop
<1>1. /\ callback[k].pc = "hooking"
      /\ UNCHANGED <<now, clients, states, approvals, spent, codes>>
  BY DEF RunHook
<1>2. d \in Domains
  BY <1>1 DEF TypeInv, TypeOK, Job, Idle, Approval
<1>3. UNCHANGED shops => ShopsTyped
  BY DEF TypeInv, TypeOK, ShopsTyped
<1>4. ASSUME NEW id \in ShopIds, shops' = [shops EXCEPT ![d] = id], Found(k, id)
      PROVE  Advances(k) \/ Ends(k)
  <2>1. ShopsTyped
    BY <1>2, <1>4 DEF TypeInv, TypeOK, ShopsTyped
  <2> QED
    BY <1>1, <1>4, <2>1, FoundStep
<1>5. CASE shops[d] # None /\ Found(k, shops[d]) /\ UNCHANGED shops
  <2>1. shops[d] \in ShopIds
    BY <1>2, <1>5 DEF TypeInv, TypeOK
  <2> QED
    BY <1>1, <1>3, <1>5, <2>1, FoundStep
<1>6. ASSUME NEW other \in ShopIds, Found(k, other), UNCHANGED shops
      PROVE  Advances(k) \/ Ends(k)
  BY <1>1, <1>3, <1>6, FoundStep
<1>7. CASE Become(k, Idle) /\ UNCHANGED shops
  BY <1>1, <1>3, <1>7 DEF Ends, Idle
<1> QED
  BY <1>4, <1>5, <1>6, <1>7 DEF RunHook

LEMMA NextKinds ==
    ASSUME TypeInv, [Next]_vars
    PROVE  World \/ \E k \in Slots : CallbackStep(k)
<1> USE DEF CallbackStep
<1>1. ASSUME NEW k \in Slots, Exchange(k) PROVE CallbackStep(k)
  BY <1>1 DEF Exchange, Wins, Ends, ShopsTyped, Idle, TypeInv, TypeOK
<1>2. ASSUME NEW k \in Slots, FindShop(k) \/ RunHook(k) PROVE CallbackStep(k)
  BY <1>2, FindShopStep, RunHookStep
<1>3. ASSUME NEW k \in Slots, Fail(k) PROVE CallbackStep(k)
  BY <1>3 DEF Fail, Ends, ShopsTyped, TypeInv, TypeOK
<1> QED
  BY <1>1, <1>2, <1>3 DEF Next, Proceed, World

-----------------------------------------------------------------------------
(* Types.                                                                  *)

\* A callback that goes on with its approval, or ends, stays traced.
LEMMA GoesOn ==
    ASSUME TypeInv, NEW k \in Slots, NEW job \in Job, Become(k, job),
           job # Idle => job.approval \in approvals /\ job.approval.state \in states,
           UNCHANGED <<now, clients, states, approvals, codes>>,
           spent' \subseteq approvals, ShopsTyped
    PROVE  TypeInv'
BY DEF TypeInv, TypeOK, Finite, Traced, Become, ShopsTyped

LEMMA CallbackTypeInv ==
    ASSUME TypeInv, NEW k \in Slots, CallbackStep(k)
    PROVE  TypeInv'
<1> DEFINE a == callback[k].approval
<1>0. UNCHANGED shops => ShopsTyped
  BY DEF TypeInv, TypeOK, ShopsTyped
<1>1. ASSUME callback[k].pc # "idle" PROVE a \in approvals /\ a \in Approval /\ a.state \in states
  BY <1>1 DEF TypeInv, TypeOK, Traced, Idle
<1>2. ASSUME NEW b \in approvals, ReceiveCallback(k, b) PROVE TypeInv'
  <2> DEFINE job == [pc |-> "exchanging", approval |-> b]
  <2>1. job \in Job /\ job.approval = b /\ b.state \in states
    BY <1>2 DEF ReceiveCallback, TypeInv, TypeOK, Job
  <2>2. Become(k, job) /\ UNCHANGED <<now, clients, states, approvals, spent, shops, codes>>
    BY <1>2 DEF ReceiveCallback
  <2> HIDE DEF job
  <2> QED
    BY <1>0, <2>1, <2>2, GoesOn DEF TypeInv, TypeOK
<1>3. CASE Wins(k)
  <2> DEFINE job == [pc |-> "finding", approval |-> a]
  <2>1. a \in approvals /\ a \in Approval /\ a.state \in states
    BY <1>1, <1>3 DEF Wins
  <2>2. job \in Job /\ job.approval = a
    BY <2>1 DEF Job
  <2>3. Become(k, job) /\ UNCHANGED <<now, clients, states, approvals, shops, codes>>
        /\ spent' \subseteq approvals
    BY <1>3, <2>1 DEF Wins, TypeInv, TypeOK
  <2> HIDE DEF job
  <2> QED
    BY <1>0, <2>1, <2>2, <2>3, GoesOn
<1>4. CASE Advances(k)
  <2>1. a \in approvals /\ a \in Approval /\ a.state \in states
    BY <1>1, <1>4 DEF Advances
  <2>2. [pc |-> "hooking", approval |-> a] \in Job
    BY <2>1 DEF Job
  <2>3. ASSUME NEW id \in ShopIds
        PROVE  [pc |-> "issuing", approval |-> a, shopId |-> id] \in Job
    BY <2>1 DEF Job
  <2>4. ASSUME NEW job \in Job, job.approval = a, Become(k, job) PROVE TypeInv'
    BY <1>4, <2>1, <2>4, GoesOn DEF Advances, TypeInv, TypeOK
  <2> QED
    BY <1>4, <2>2, <2>3, <2>4 DEF Advances
<1>5. CASE Issue(k)
  <2> DEFINE code == [approval |-> a, nonce |-> Cardinality(codes),
                      shopId |-> callback[k].shopId, client |-> a.state.client,
                      redirectUri |-> a.state.redirectUri, challenge |-> a.state.challenge,
                      sentTo |-> a.state.redirectUri]
  <2>1. a \in approvals /\ a \in Approval /\ a.state \in states /\ callback[k].shopId \in ShopIds
    BY <1>1, <1>5 DEF Issue, TypeInv, TypeOK, Job, Idle
  <2>2. a.state \in State
    BY <2>1 DEF TypeInv, TypeOK
  <2>3. code \in Code
    BY <2>1, <2>2, FS_CardinalityType DEF Code, State, TypeInv, Finite
  <2>4. codes' = codes \cup {code}
    BY <1>5 DEF Issue
  <2> HIDE DEF code
  <2>5. IsFiniteSet(codes') /\ codes' \subseteq Code
    BY <2>3, <2>4, FS_AddElement DEF TypeInv, TypeOK, Finite
  <2> QED
    BY <1>5, <2>5 DEF Issue, Become, Job, Idle, TypeInv, TypeOK, Finite, Traced
<1>6. CASE Ends(k)
  <2>1. spent' \subseteq approvals
    BY <1>1, <1>6 DEF Ends, Idle, TypeInv, TypeOK, Traced
  <2>2. Idle \in Job
    BY DEF Job
  <2> QED
    BY <1>6, <2>1, <2>2, GoesOn DEF Ends
<1> QED
  BY <1>2, <1>3, <1>4, <1>5, <1>6 DEF CallbackStep

LEMMA NextTypeInv == TypeInv /\ [Next]_vars => TypeInv'
BY NextKinds, WorldTypeInv, CallbackTypeInv

LEMMA TypeInvAlways == Spec => []TypeInv
BY InitTypeInv, NextTypeInv, PTL DEF Spec

\* Whatever merchants, hosts and failures do, every stored value keeps its shape.
THEOREM TypeCorrect == Spec => []TypeOK
<1>1. TypeInv => TypeOK
  BY DEF TypeInv
<1> QED
  BY <1>1, TypeInvAlways, PTL

-----------------------------------------------------------------------------
(* Where codes travel.                                                     *)

\* Every redirect URI a client registered is acceptable, and every state was
\* signed for one that its client registered, which no registration replaces.
StatesRegistered ==
    /\ \A c \in Clients : \A u \in clients[c] : Acceptable(u)
    /\ \A s \in states : \E u \in clients[s.client] : Matches(u, s.redirectUri)

\* A code carries what its state says.
CodesFromStates ==
    \A code \in codes :
       /\ code.approval \in approvals /\ code.approval.state \in states
       /\ code.client = code.approval.state.client
       /\ code.challenge = code.approval.state.challenge
       /\ code.redirectUri = code.approval.state.redirectUri
       /\ code.sentTo = code.approval.state.redirectUri

TravelInv == StatesRegistered /\ CodesFromStates

LEMMA InitTravelInv == Init => TravelInv
BY DEF Init, TravelInv, StatesRegistered, CodesFromStates

\* A registered URI that matches stands for the requested one but for the port
\* of a loopback host, and the rules that were applied to it apply to both.
LEMMA MatchesSame ==
    ASSUME NEW u \in Uris, NEW to \in Uris, Acceptable(u), Matches(u, to)
    PROVE  /\ to.scheme \notin DangerousSchemes
           /\ to.scheme = "http" => to.host \in LoopbackHosts
           /\ \A part \in DOMAIN to \ {"fragment"} :
                 u[part] = to[part] \/ (part = "port" /\ to.host \in LoopbackHosts)
<1>1. DOMAIN to = {"scheme", "host", "port", "rest", "userinfo", "fragment"}
  BY UriAssumption
<1> QED
  BY <1>1 DEF Acceptable, Matches, IsLoopback

LEMMA NextTravelInv == TypeInv /\ TypeInv' /\ TravelInv /\ [Next]_vars => TravelInv'
<1> SUFFICES ASSUME TypeInv, TypeInv', TravelInv, [Next]_vars PROVE TravelInv'
  OBVIOUS
<1> USE DEF TravelInv
<1>1. CASE World
  <2>1. /\ UNCHANGED codes
        /\ states \subseteq states' /\ approvals \subseteq approvals'
        /\ \A c \in Clients : clients[c] \subseteq clients'[c]
    BY <1>1, WorldKeeps DEF TypeInv
  <2>2. CodesFromStates'
    BY <2>1 DEF CodesFromStates
  <2>3. \A s \in states : \E u \in clients'[s.client] : Matches(u, s.redirectUri)
    <3>1. \A s \in states : s.client \in Clients
      BY DEF TypeInv, TypeOK, State
    <3> QED
      BY <2>1, <3>1 DEF StatesRegistered
  <2>4. ASSUME NEW c \in Clients, NEW uris \in UriSets, Register(c, uris)
        PROVE  StatesRegistered'
    BY <2>3, <2>4 DEF Register, StatesRegistered, TypeInv, TypeOK
  <2>5. ASSUME NEW c \in Clients, NEW u \in Uris, NEW ch \in Challenges, Authorize(c, u, ch)
        PROVE  StatesRegistered'
    BY <2>3, <2>5 DEF Authorize, StatesRegistered
  <2>6. ASSUME UNCHANGED <<clients, states>> PROVE StatesRegistered'
    BY <2>6 DEF StatesRegistered
  <2> QED
    BY <1>1, <2>2, <2>4, <2>5, <2>6 DEF World, Approve, Install, Tick, vars
<1>2. ASSUME NEW k \in Slots, CallbackStep(k) PROVE TravelInv'
  <2>1. UNCHANGED <<clients, states, approvals>>
    BY <1>2 DEF CallbackStep, ReceiveCallback, Wins, Advances, Issue, Ends
  <2>2. StatesRegistered'
    BY <2>1 DEF StatesRegistered
  <2>3. CASE Issue(k)
    <3>1. callback[k].approval \in approvals /\ callback[k].approval.state \in states
      BY <2>3 DEF Issue, Idle, TypeInv, Traced
    <3> QED
      BY <2>1, <2>2, <2>3, <3>1 DEF Issue, CodesFromStates
  <2>4. CASE UNCHANGED codes
    BY <2>1, <2>2, <2>4 DEF CodesFromStates
  <2> QED
    BY <1>2, <2>3, <2>4 DEF CallbackStep, ReceiveCallback, Wins, Advances, Ends
<1> QED
  BY <1>1, <1>2, NextKinds

LEMMA TravelInvAlways == Spec => [](TypeInv /\ TravelInv)
<1>1. TypeInv /\ TravelInv /\ [Next]_vars => TypeInv' /\ TravelInv'
  BY NextTypeInv, NextTravelInv
<1> QED
  BY <1>1, InitTypeInv, InitTravelInv, PTL DEF Spec

\* A code is only ever sent where its client registered, and never in cleartext
\* over the network or to a dangerous scheme.
THEOREM CodesTravelSafelyHolds == Spec => []CodesTravelSafely
<1>1. ASSUME TypeInv, TravelInv PROVE CodesTravelSafely
  <2>1. ASSUME NEW code \in codes
        PROVE  \E u \in clients[code.client] :
                  u \in Uris /\ code.sentTo \in Uris /\ Acceptable(u) /\ Matches(u, code.sentTo)
    <3>1. /\ code.client \in Clients /\ code.sentTo \in Uris
          /\ clients[code.client] \subseteq Uris
      BY <1>1 DEF TypeInv, TypeOK, Code
    <3> QED
      BY <1>1, <3>1 DEF TravelInv, CodesFromStates, StatesRegistered
  <2>2. ASSUME NEW code \in codes
        PROVE  LET to == code.sentTo IN
               /\ to.scheme \notin DangerousSchemes
               /\ to.scheme = "http" => to.host \in LoopbackHosts
               /\ \E u \in clients[code.client] :
                     \A part \in DOMAIN to \ {"fragment"} :
                        u[part] = to[part] \/ (part = "port" /\ to.host \in LoopbackHosts)
    <3>1. PICK u \in clients[code.client] :
             u \in Uris /\ code.sentTo \in Uris /\ Acceptable(u) /\ Matches(u, code.sentTo)
      BY <2>1
    <3> QED
      BY <3>1, MatchesSame
  <2> QED
    BY <2>2 DEF CodesTravelSafely
<1> QED
  BY <1>1, TravelInvAlways, PTL

-----------------------------------------------------------------------------
(* What codes stand for.                                                   *)

Exchanged(k) == callback[k].pc \in {"finding", "hooking", "issuing"}

\* A callback past the exchange is the only one with its approval, which is spent
\* and has no code yet; one that is about to issue found the approval's shop.
\* A code's approval is spent.
ConsentInv ==
    /\ \A k \in Slots : Exchanged(k) =>
          /\ callback[k].approval \in spent
          /\ \A code \in codes : code.approval # callback[k].approval
          /\ \A j \in Slots : Exchanged(j) /\ callback[j].approval = callback[k].approval
                                 => j = k
    /\ \A k \in Slots : callback[k].pc = "issuing" =>
          DomainOf[callback[k].shopId] = callback[k].approval.shop
    /\ \A code \in codes : code.approval \in spent
                            /\ DomainOf[code.shopId] = code.approval.shop
    /\ OneCodePerApproval

LEMMA InitConsentInv == Init => ConsentInv
BY DEF Init, ConsentInv, OneCodePerApproval, Exchanged, Idle

LEMMA NextConsentInv == TypeInv /\ ConsentInv /\ [Next]_vars => ConsentInv'
<1> SUFFICES ASSUME TypeInv, ConsentInv, [Next]_vars PROVE ConsentInv'
  OBVIOUS
<1> USE DEF ConsentInv, OneCodePerApproval, Exchanged
<1>0. callback \in [Slots -> Job]
  BY DEF TypeInv, TypeOK
<1>1. CASE World
  BY <1>1, WorldKeeps DEF TypeInv
<1>2. ASSUME NEW k \in Slots, NEW a \in approvals, ReceiveCallback(k, a) PROVE ConsentInv'
  BY <1>0, <1>2 DEF ReceiveCallback, Become
<1>3. ASSUME NEW k \in Slots, Wins(k) PROVE ConsentInv'
  BY <1>0, <1>3 DEF Wins, Become
<1>4. ASSUME NEW k \in Slots, Advances(k) PROVE ConsentInv'
  BY <1>0, <1>4 DEF Advances, Become
<1>5. ASSUME NEW k \in Slots, Issue(k) PROVE ConsentInv'
  BY <1>0, <1>5 DEF Issue, Become, Idle
<1>6. ASSUME NEW k \in Slots, Ends(k) PROVE ConsentInv'
  BY <1>0, <1>6 DEF Ends, Become, Idle
<1> QED
  BY <1>1, <1>2, <1>3, <1>4, <1>5, <1>6, NextKinds DEF CallbackStep

LEMMA ConsentInvAlways == Spec => []ConsentInv
<1>1. TypeInv /\ ConsentInv /\ [Next]_vars => TypeInv' /\ ConsentInv'
  BY NextTypeInv, NextConsentInv
<1> QED
  BY <1>1, InitTypeInv, InitConsentInv, PTL DEF Spec

\* However often a callback is reloaded or raced by its own copy, an approval
\* grants one code.
THEOREM OneCodePerApprovalHolds == Spec => []OneCodePerApproval
<1>1. ConsentInv => OneCodePerApproval
  BY DEF ConsentInv
<1> QED
  BY <1>1, ConsentInvAlways, PTL

\* Every code stands for what /authorize signed and the shop it names approved,
\* whatever a host's lookup or hook answers.
THEOREM CodesFollowConsentHolds == Spec => []CodesFollowConsent
<1>1. TypeInv /\ TravelInv /\ ConsentInv => CodesFollowConsent
  BY DEF TravelInv, CodesFromStates, ConsentInv, CodesFollowConsent
<1> QED
  BY <1>1, TravelInvAlways, ConsentInvAlways, PTL

-----------------------------------------------------------------------------
(* Expiry.                                                                 *)

\* Once a state expired and its callbacks ended, no code is issued for it again.
THEOREM ExpiredStatesAreDeadHolds == Spec => ExpiredStatesAreDead
<1> DEFINE Dead(state) == (~Live(state) /\ ~InFlight(state))
                             => ~InFlight(state)' /\ CodesOf(state)' = CodesOf(state)
<1>1. ASSUME TypeInv, [Next]_vars, NEW state \in states PROVE Dead(state)
  <2>0. callback \in [Slots -> Job]
    BY <1>1 DEF TypeInv, TypeOK
  <2>1. CASE World
    BY <1>1, <2>1, WorldKeeps DEF InFlight, CodesOf, TypeInv
  <2>2. ASSUME NEW k \in Slots, NEW a \in approvals, ReceiveCallback(k, a) PROVE Dead(state)
    BY <2>0, <2>2 DEF ReceiveCallback, Become, InFlight, CodesOf
  <2>3. ASSUME NEW k \in Slots, Wins(k) \/ Advances(k) \/ Ends(k) PROVE Dead(state)
    BY <2>0, <2>3 DEF Wins, Advances, Ends, Become, Idle, InFlight, CodesOf
  <2>4. ASSUME NEW k \in Slots, Issue(k) PROVE Dead(state)
    BY <2>0, <2>4 DEF Issue, Become, Idle, InFlight, CodesOf
  <2> QED
    BY <1>1, <2>1, <2>2, <2>3, <2>4, NextKinds DEF CallbackStep
<1>2. ASSUME TypeInv, [Next]_vars
      PROVE  [\A state \in states :
                (~Live(state) /\ ~InFlight(state))
                   => ~InFlight(state)' /\ CodesOf(state)' = CodesOf(state)]_vars
  BY <1>1, <1>2
<1> QED
  BY <1>2, TypeInvAlways, PTL DEF Spec, ExpiredStatesAreDead
=============================================================================

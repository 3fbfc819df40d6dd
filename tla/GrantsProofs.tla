---------------------------- MODULE GrantsProofs ----------------------------
(***************************************************************************)
(* Theorems about Grants, for every number of codes, rows, requests,       *)
(* processes and clients, with or without failures.                        *)
(***************************************************************************)
EXTENDS Grants, TLAPS

-----------------------------------------------------------------------------
(* Finite maps.                                                            *)

\* Put extends a map by one key, or overwrites it.
LEMMA PutMap ==
    ASSUME NEW D, NEW R, NEW f, IsMap(f, D, R), NEW k \in D, NEW v \in R
    PROVE  /\ IsMap(Put(f, k, v), D, R)
           /\ DOMAIN Put(f, k, v) = DOMAIN f \cup {k}
           /\ Put(f, k, v)[k] = v
           /\ \A x \in DOMAIN f : x # k => Put(f, k, v)[x] = f[x]
BY DEF IsMap, Put

\* Drop forgets keys and changes nothing else.
LEMMA DropMap ==
    ASSUME NEW D, NEW R, NEW f, IsMap(f, D, R), NEW S
    PROVE  /\ IsMap(Drop(f, S), D, R)
           /\ DOMAIN Drop(f, S) = DOMAIN f \ S
           /\ \A x \in DOMAIN f \ S : Drop(f, S)[x] = f[x]
BY DEF IsMap, Drop

\* revokeToken sets one flag of one row, or nothing.
LEMMA RevokeTokenMap ==
    ASSUME IsMap(tokens, Rows, TokenRow), NEW r
    PROVE  /\ IsMap(RevokeToken(r), Rows, TokenRow)
           /\ DOMAIN RevokeToken(r) = DOMAIN tokens
           /\ \A x \in DOMAIN tokens :
                 /\ RevokeToken(r)[x].new = tokens[x].new
                 /\ RevokeToken(r)[x].revoked <=> (tokens[x].revoked \/ x = r)
<1>1. CASE Unrevoked(r)
  <2>1. RevokeToken(r) = [tokens EXCEPT ![r].revoked = TRUE]
    BY <1>1 DEF RevokeToken
  <2> QED
    BY <1>1, <2>1 DEF IsMap, TokenRow, Unrevoked
<1>2. CASE ~Unrevoked(r)
  <2>1. RevokeToken(r) = tokens
    BY <1>2 DEF RevokeToken
  <2> QED
    BY <1>2, <2>1 DEF IsMap, TokenRow, Unrevoked
<1> QED
  BY <1>1, <1>2

\* getdel removes at most the entry it was asked for.
LEMMA AfterGetdelMap ==
    ASSUME IsMap(cache, Codes, CacheEntry), NEW p, NEW c
    PROVE  /\ IsMap(AfterGetdel(p, c), Codes, CacheEntry)
           /\ DOMAIN AfterGetdel(p, c) \subseteq DOMAIN cache
           /\ Visible(p, c) => c \notin DOMAIN AfterGetdel(p, c)
           /\ \A x \in DOMAIN AfterGetdel(p, c) : AfterGetdel(p, c)[x] = cache[x]
<1>1. CASE InStore(p, c)
  <2>1. AfterGetdel(p, c) = Drop(cache, {c})
    BY <1>1 DEF AfterGetdel
  <2>2. /\ IsMap(Drop(cache, {c}), Codes, CacheEntry)
        /\ DOMAIN Drop(cache, {c}) = DOMAIN cache \ {c}
        /\ \A x \in DOMAIN cache \ {c} : Drop(cache, {c})[x] = cache[x]
    BY DEF Drop, IsMap
  <2> QED
    BY <2>1, <2>2
<1>2. CASE ~InStore(p, c)
  BY <1>2 DEF AfterGetdel, Visible
<1> QED
  BY <1>1, <1>2

-----------------------------------------------------------------------------
(* Types.                                                                  *)

LEMMA InitTypeOK == Init => TypeOK
BY DEF Init, TypeOK, IsMap, Job, Idle

LEMMA NextTypeOK == TypeOK /\ [Next]_vars => TypeOK'
<1> SUFFICES ASSUME TypeOK, [Next]_vars PROVE TypeOK'
  OBVIOUS
<1> USE DEF TypeOK
<1>1. ASSUME NEW p \in Procs, NEW c \in Codes, NEW b \in Binding, IssueCode(p, c, b)
      PROVE  TypeOK'
  <2>1. [record |-> b, expires |-> now + CodeTtl, home |-> p] \in CacheEntry
    BY TtlAssumption DEF CacheEntry
  <2>2. IsMap(cache', Codes, CacheEntry)
    BY <1>1, <2>1, PutMap DEF IssueCode
  <2>3. IsMap(auth', Codes, Binding)
    BY <1>1, PutMap DEF IssueCode
  <2> QED
    BY <1>1, <2>2, <2>3 DEF IssueCode
<1>2. ASSUME NEW q \in Reqs, NEW c \in Codes, NEW g \in CodeRequest, RedeemCode(q, c, g)
      PROVE  TypeOK'
  <2>1. c \in DOMAIN cache /\ cache[c] \in CacheEntry
    BY <1>2 DEF RedeemCode, Visible, InStore, IsMap
  <2>2. [pc |-> "minting", asker |-> g.client,
         new |-> [client |-> cache[c].record.client,
                  shopId |-> cache[c].record.shopId,
                  from |-> None, born |-> now, grant |-> c]] \in Job
    BY <2>1 DEF Job, NewRow, CacheEntry, Binding, CodeRequest
  <2>3. req' \in [Reqs -> Job]
    BY <1>2, <2>2 DEF RedeemCode, Become
  <2>4. IsMap(cache', Codes, CacheEntry)
    BY <1>2, AfterGetdelMap DEF RedeemCode
  <2> QED
    BY <1>2, <2>3, <2>4 DEF RedeemCode
<1>3. ASSUME NEW q \in Reqs, NEW c \in Codes, NEW g \in CodeRequest, RefuseCode(q, c, g)
      PROVE  TypeOK'
  <2>1. IsMap(cache', Codes, CacheEntry)
    BY <1>3, AfterGetdelMap DEF RefuseCode
  <2> QED
    BY <1>3, <2>1 DEF RefuseCode
<1>4. ASSUME NEW q \in Reqs, NEW r \in Rows, NEW client \in Clients,
             FindRefresh(q, r, client)
      PROVE  TypeOK'
  BY <1>4 DEF FindRefresh, Become, Job
<1>5. ASSUME NEW q \in Reqs, WinRotation(q) PROVE TypeOK'
  <2> DEFINE r == req[q].row
  <2>1. r \in Rows /\ req[q].asker \in Clients /\ r \in DOMAIN tokens
        /\ tokens[r] \in TokenRow
    BY <1>5 DEF WinRotation, Job, Idle, Unrevoked, IsMap
  <2>2. [tokens[r].new EXCEPT !.from = r, !.born = now] \in NewRow
    BY <2>1 DEF TokenRow, NewRow
  <2>3. req' \in [Reqs -> Job]
    BY <1>5, <2>1, <2>2 DEF WinRotation, Become, Job
  <2>4. IsMap(tokens', Rows, TokenRow)
    BY <1>5, RevokeTokenMap DEF WinRotation
  <2> QED
    BY <1>5, <2>3, <2>4 DEF WinRotation
<1>6. ASSUME NEW q \in Reqs, LoseRotation(q) PROVE TypeOK'
  BY <1>6 DEF LoseRotation, Become, Job
<1>7. ASSUME NEW q \in Reqs, NEW r \in Rows, CreateToken(q, r) PROVE TypeOK'
  <2>1. req[q].new \in NewRow /\ req[q].asker \in Clients
    BY <1>7 DEF CreateToken, Job, Idle
  <2>2. [new |-> req[q].new, revoked |-> FALSE] \in TokenRow
    BY <2>1 DEF TokenRow
  <2>3. IsMap(tokens', Rows, TokenRow)
    BY <1>7, <2>2, PutMap DEF CreateToken
  <2>4. req' \in [Reqs -> Job]
    BY <1>7, <2>1 DEF CreateToken, Become, Job
  <2> QED
    BY <1>7, <2>3, <2>4 DEF CreateToken
<1>8. ASSUME NEW q \in Reqs, Respond(q) PROVE TypeOK'
  <2>1. [row |-> req[q].row, asker |-> req[q].asker] \in Delivery
    BY <1>8 DEF Respond, Job, Idle, Delivery
  <2> QED
    BY <1>8, <2>1 DEF Respond, Become, Job
<1>9. ASSUME NEW q \in Reqs, NEW t \in Token, BeginRevoke(q, t) PROVE TypeOK'
  BY <1>9 DEF BeginRevoke, Become, Job
<1>10. ASSUME NEW q \in Reqs, RevokeByAccess(q) PROVE TypeOK'
  <2>1. IsMap(tokens', Rows, TokenRow)
    BY <1>10, RevokeTokenMap DEF RevokeByAccess
  <2>2. req' \in [Reqs -> Job]
    BY <1>10 DEF RevokeByAccess, Become, Job, Idle
  <2> QED
    BY <1>10, <2>1, <2>2 DEF RevokeByAccess
<1>11. ASSUME NEW q \in Reqs, FindRefreshToRevoke(q) PROVE TypeOK'
  BY <1>11 DEF FindRefreshToRevoke, Become, Job, Idle
<1>12. ASSUME NEW q \in Reqs, RevokeByRefresh(q) PROVE TypeOK'
  <2>1. IsMap(tokens', Rows, TokenRow)
    BY <1>12, RevokeTokenMap DEF RevokeByRefresh
  <2>2. req' \in [Reqs -> Job]
    BY <1>12 DEF RevokeByRefresh, Become, Job, Idle
  <2> QED
    BY <1>12, <2>1, <2>2 DEF RevokeByRefresh
<1>13. ASSUME NEW q \in Reqs, AckRevoke(q) PROVE TypeOK'
  BY <1>13 DEF AckRevoke, Become, Job, Idle
<1>14. ASSUME NEW q \in Reqs, Fail(q) PROVE TypeOK'
  <2>1. req' \in [Reqs -> Job]
    BY <1>14 DEF Fail, Become, Job
  <2> QED
    BY <1>14, <2>1 DEF Fail, Unfinished
<1>15. ASSUME NEW p \in Procs, Crash(p) PROVE TypeOK'
  <2>1. IsMap(cache', Codes, CacheEntry)
    BY <1>15, DropMap DEF Crash
  <2>2. req' \in [Reqs -> Job]
    BY <1>15 DEF Crash, Job
  <2>3. UNION {Unfinished(q) : q \in {x \in Reqs : Host[x] = p}}
           \subseteq {<<"code", c>> : c \in Codes} \cup {<<"row", r>> : r \in Rows}
    BY DEF Unfinished
  <2> QED
    BY <1>15, <2>1, <2>2, <2>3 DEF Crash
<1>16. ASSUME Tick PROVE TypeOK'
  BY <1>16 DEF Tick
<1>17. ASSUME UNCHANGED vars PROVE TypeOK'
  BY <1>17 DEF vars
<1> QED
  BY <1>1, <1>2, <1>3, <1>4, <1>5, <1>6, <1>7, <1>8, <1>9, <1>10, <1>11, <1>12,
     <1>13, <1>14, <1>15, <1>16, <1>17 DEF Next, Receive, Proceed

\* The state keeps its shape, whatever happens.
THEOREM TypeCorrect == Spec => []TypeOK
BY InitTypeOK, NextTypeOK, PTL DEF Spec

-----------------------------------------------------------------------------
(* Where every value came from.                                            *)

\* A cached record is the one its code was issued with and was never retrieved;
\* every row a request holds exists and is the asking client's.
Traced ==
    /\ \A c \in DOMAIN cache : c \in DOMAIN auth /\ cache[c].record = auth[c] /\ guesses[c] = 0
    /\ \A c \in Codes : c \notin DOMAIN auth => guesses[c] = 0
    /\ \A q \in Reqs : req[q].pc = "minting" =>
          Bound(req[q].new) /\ req[q].asker = req[q].new.client
    /\ \A q \in Reqs : req[q].pc \in {"rotating", "replying"} =>
          req[q].row \in DOMAIN tokens /\ req[q].asker = tokens[req[q].row].new.client

Provenance == BoundToGrant /\ OneGuessPerCode /\ Traced

LEMMA InitProvenance == Init => Provenance
BY DEF Init, Provenance, BoundToGrant, OneGuessPerCode, Traced, Idle

LEMMA NextProvenance == TypeOK /\ TypeOK' /\ Provenance /\ [Next]_vars => Provenance'
<1> SUFFICES ASSUME TypeOK, TypeOK', Provenance, [Next]_vars PROVE Provenance'
  OBVIOUS
<1> USE DEF TypeOK
<1> USE DEF Provenance, BoundToGrant, OneGuessPerCode, Traced, Bound
<1>1. ASSUME NEW p \in Procs, NEW c \in Codes, NEW b \in Binding, IssueCode(p, c, b)
      PROVE  Provenance'
  <2>1. /\ DOMAIN cache' = DOMAIN cache \cup {c}
        /\ cache'[c].record = b
        /\ \A x \in DOMAIN cache : x # c => cache'[x] = cache[x]
    BY <1>1 DEF IssueCode, Put
  <2>2. /\ DOMAIN auth' = DOMAIN auth \cup {c}
        /\ auth'[c] = b
        /\ \A x \in DOMAIN auth : auth'[x] = auth[x]
    BY <1>1 DEF IssueCode, Put
  <2>3. BoundToGrant' /\ OneGuessPerCode'
    BY <1>1, <2>2 DEF IssueCode
  <2>4. Traced'
    BY <1>1, <2>1, <2>2 DEF IssueCode, IsMap
  <2> QED
    BY <2>3, <2>4
<1>2. ASSUME NEW q \in Reqs, NEW c \in Codes, NEW g \in CodeRequest, RedeemCode(q, c, g)
      PROVE  Provenance'
  <2>1. /\ DOMAIN cache' \subseteq DOMAIN cache
        /\ c \notin DOMAIN cache'
        /\ \A x \in DOMAIN cache' : cache'[x] = cache[x]
    BY <1>2, AfterGetdelMap DEF RedeemCode
  <2>2. c \in DOMAIN cache /\ cache[c].record.client = g.client
    BY <1>2 DEF RedeemCode, Accepts, Visible, InStore
  <2>3. req'[q] = [pc |-> "minting", asker |-> g.client,
                   new |-> [client |-> cache[c].record.client,
                            shopId |-> cache[c].record.shopId,
                            from |-> None, born |-> now, grant |-> c]]
        /\ \A x \in Reqs : x # q => req'[x] = req[x]
    BY <1>2 DEF RedeemCode, Become
  <2>4. guesses' = [guesses EXCEPT ![c] = 1]
    <3>1. guesses[c] = 0
      BY <2>2
    <3> QED
      BY <1>2, <3>1 DEF RedeemCode
  <2>5. BoundToGrant' /\ OneGuessPerCode'
    BY <1>2, <2>4 DEF RedeemCode
  <2>6. Traced'
    BY <1>2, <2>1, <2>2, <2>3, <2>4 DEF RedeemCode, IsMap
  <2> QED
    BY <2>5, <2>6
<1>3. ASSUME NEW q \in Reqs, NEW c \in Codes, NEW g \in CodeRequest, RefuseCode(q, c, g)
      PROVE  Provenance'
  <2>1. /\ DOMAIN cache' \subseteq DOMAIN cache
        /\ Visible(Host[q], c) => c \in DOMAIN cache /\ c \notin DOMAIN cache'
        /\ \A x \in DOMAIN cache' : cache'[x] = cache[x]
    BY <1>3, AfterGetdelMap DEF RefuseCode, Visible, InStore
  <2>2. guesses' = IF Visible(Host[q], c) THEN [guesses EXCEPT ![c] = 1] ELSE guesses
    <3>1. CASE Visible(Host[q], c)
      <4>1. guesses[c] = 0
        BY <2>1, <3>1
      <4> QED
        BY <1>3, <3>1, <4>1 DEF RefuseCode
    <3>2. CASE ~Visible(Host[q], c)
      BY <1>3, <3>2 DEF RefuseCode
    <3> QED
      BY <3>1, <3>2
  <2>3. BoundToGrant' /\ OneGuessPerCode'
    BY <1>3, <2>2 DEF RefuseCode
  <2>4. Traced'
    BY <1>3, <2>1, <2>2 DEF RefuseCode, IsMap
  <2> QED
    BY <2>3, <2>4
<1>4. ASSUME NEW q \in Reqs, NEW r \in Rows, NEW client \in Clients,
             FindRefresh(q, r, client)
      PROVE  Provenance'
  BY <1>4 DEF FindRefresh, FoundByRefresh, Unrevoked, Become
<1>5. ASSUME NEW q \in Reqs, WinRotation(q) PROVE Provenance'
  <2> DEFINE r == req[q].row
  <2>1. r \in DOMAIN tokens /\ tokens[r].new \in NewRow
    BY <1>5 DEF WinRotation, Unrevoked, IsMap, TokenRow
  <2>2. DOMAIN tokens' = DOMAIN tokens /\ \A x \in DOMAIN tokens : tokens'[x].new = tokens[x].new
    BY <1>5, RevokeTokenMap DEF WinRotation
  <2>3. /\ req'[q].pc = "minting" /\ req'[q].asker = req[q].asker
        /\ req'[q].new.grant = tokens[r].new.grant
        /\ req'[q].new.client = tokens[r].new.client
        /\ req'[q].new.shopId = tokens[r].new.shopId
        /\ \A x \in Reqs : x # q => req'[x] = req[x]
    BY <1>5, <2>1 DEF WinRotation, Become, NewRow
  <2>4. BoundToGrant' /\ OneGuessPerCode'
    BY <1>5, <2>2 DEF WinRotation
  <2>5. Traced'
    BY <1>5, <2>1, <2>2, <2>3 DEF WinRotation
  <2> QED
    BY <2>4, <2>5
<1>6. ASSUME NEW q \in Reqs, LoseRotation(q) PROVE Provenance'
  BY <1>6 DEF LoseRotation, Become, Idle
<1>7. ASSUME NEW q \in Reqs, NEW r \in Rows, CreateToken(q, r) PROVE Provenance'
  <2>1. /\ DOMAIN tokens' = DOMAIN tokens \cup {r}
        /\ tokens'[r].new = req[q].new
        /\ \A x \in DOMAIN tokens : tokens'[x] = tokens[x]
    BY <1>7 DEF CreateToken, Put
  <2>2. /\ req'[q] = [pc |-> "replying", row |-> r, asker |-> req[q].asker]
        /\ \A x \in Reqs : x # q => req'[x] = req[x]
    BY <1>7 DEF CreateToken, Become
  <2>3. Bound(req[q].new) /\ req[q].asker = req[q].new.client
    BY <1>7 DEF CreateToken
  <2>4. OneGuessPerCode' /\ UNCHANGED <<held, auth, cache, guesses>>
    BY <1>7 DEF CreateToken
  <2>5. BoundToGrant'
    BY <2>1, <2>3, <2>4
  <2>6. Traced'
    BY <2>1, <2>2, <2>3, <2>4
  <2> QED
    BY <2>4, <2>5, <2>6
<1>8. ASSUME NEW q \in Reqs, Respond(q) PROVE Provenance'
  BY <1>8 DEF Respond, Become, Idle
<1>9. ASSUME NEW q \in Reqs, NEW t \in Token, BeginRevoke(q, t) PROVE Provenance'
  BY <1>9 DEF BeginRevoke, Become
<1>10. ASSUME NEW q \in Reqs, RevokeByAccess(q) PROVE Provenance'
  <2>1. DOMAIN tokens' = DOMAIN tokens /\ \A x \in DOMAIN tokens : tokens'[x].new = tokens[x].new
    BY <1>10, RevokeTokenMap DEF RevokeByAccess
  <2> QED
    BY <1>10, <2>1 DEF RevokeByAccess, Become
<1>11. ASSUME NEW q \in Reqs, FindRefreshToRevoke(q) PROVE Provenance'
  BY <1>11 DEF FindRefreshToRevoke, Become
<1>12. ASSUME NEW q \in Reqs, RevokeByRefresh(q) PROVE Provenance'
  <2>1. DOMAIN tokens' = DOMAIN tokens /\ \A x \in DOMAIN tokens : tokens'[x].new = tokens[x].new
    BY <1>12, RevokeTokenMap DEF RevokeByRefresh
  <2> QED
    BY <1>12, <2>1 DEF RevokeByRefresh, Become
<1>13. ASSUME NEW q \in Reqs, AckRevoke(q) PROVE Provenance'
  BY <1>13 DEF AckRevoke, Become, Idle
<1>14. ASSUME NEW q \in Reqs, Fail(q) PROVE Provenance'
  BY <1>14 DEF Fail, Become, Idle
<1>15. ASSUME NEW p \in Procs, Crash(p) PROVE Provenance'
  <2>1. DOMAIN cache' \subseteq DOMAIN cache /\ \A x \in DOMAIN cache' : cache'[x] = cache[x]
    <3>1. DOMAIN Drop(cache, {c \in DOMAIN cache : cache[c].home = p}) \subseteq DOMAIN cache
          /\ \A x \in DOMAIN Drop(cache, {c \in DOMAIN cache : cache[c].home = p}) :
                Drop(cache, {c \in DOMAIN cache : cache[c].home = p})[x] = cache[x]
      BY DEF Drop
    <3> QED
      BY <1>15, <3>1 DEF Crash
  <2>2. \A x \in Reqs : req'[x] = Idle \/ req'[x] = req[x]
    BY <1>15 DEF Crash
  <2>3. BoundToGrant' /\ OneGuessPerCode'
    BY <1>15 DEF Crash
  <2>4. Traced'
    BY <1>15, <2>1, <2>2 DEF Crash, Idle
  <2> QED
    BY <2>3, <2>4
<1>16. ASSUME Tick PROVE Provenance'
  BY <1>16 DEF Tick
<1>17. ASSUME UNCHANGED vars PROVE Provenance'
  BY <1>17 DEF vars
<1> QED
  BY <1>1, <1>2, <1>3, <1>4, <1>5, <1>6, <1>7, <1>8, <1>9, <1>10, <1>11, <1>12,
     <1>13, <1>14, <1>15, <1>16, <1>17 DEF Next, Receive, Proceed

\* Rows and deliveries never change hands, through any number of rotations.
THEOREM BoundToGrantHolds == Spec => []BoundToGrant
<1>1. TypeOK /\ Provenance /\ [Next]_vars => TypeOK' /\ Provenance'
  BY NextTypeOK, NextProvenance
<1>2. Provenance => BoundToGrant
  BY DEF Provenance
<1> QED
  BY <1>1, <1>2, InitTypeOK, InitProvenance, PTL DEF Spec

\* A code's record is retrieved at most once, by whichever request comes first.
THEOREM OneGuessPerCodeHolds == Spec => []OneGuessPerCode
<1>1. TypeOK /\ Provenance /\ [Next]_vars => TypeOK' /\ Provenance'
  BY NextTypeOK, NextProvenance
<1>2. Provenance => OneGuessPerCode
  BY DEF Provenance
<1> QED
  BY <1>1, <1>2, InitTypeOK, InitProvenance, PTL DEF Spec

-----------------------------------------------------------------------------
(* Steps that make nothing.                                                *)

\* The steps that make no holder: they end or continue a request, revoke, or
\* let time pass.
OtherStep ==
    \/ \E q \in Reqs :
          \/ \E c \in Codes, g \in CodeRequest : RefuseCode(q, c, g)
          \/ \E r \in Rows, client \in Clients : FindRefresh(q, r, client)
          \/ \E t \in Token : BeginRevoke(q, t)
          \/ LoseRotation(q) \/ Respond(q) \/ FindRefreshToRevoke(q) \/ AckRevoke(q) \/ Fail(q)
          \/ RevokeByAccess(q) \/ RevokeByRefresh(q)
    \/ \E p \in Procs : Crash(p)
    \/ Tick
    \/ UNCHANGED vars

LEMMA NextSteps ==
    [Next]_vars =>
       \/ \E p \in Procs, c \in Codes, b \in Binding : IssueCode(p, c, b)
       \/ \E q \in Reqs, c \in Codes, g \in CodeRequest : RedeemCode(q, c, g)
       \/ \E q \in Reqs : WinRotation(q)
       \/ \E q \in Reqs, r \in Rows : CreateToken(q, r)
       \/ OtherStep
BY DEF Next, Receive, Proceed, OtherStep

\* None of them adds to the cache, starts minting, or adds, rewrites or revives
\* a row.
LEMMA OtherStepKeeps ==
    ASSUME TypeOK, OtherStep
    PROVE  /\ DOMAIN cache' \subseteq DOMAIN cache
           /\ DOMAIN auth' = DOMAIN auth
           /\ \A x \in Reqs : req'[x].pc = "minting" => req'[x] = req[x]
           /\ DOMAIN tokens' = DOMAIN tokens
           /\ \A x \in DOMAIN tokens : tokens'[x].new = tokens[x].new
           /\ \A x \in DOMAIN tokens : tokens[x].revoked => tokens'[x].revoked
<1> DEFINE Goal == /\ DOMAIN cache' \subseteq DOMAIN cache
                   /\ DOMAIN auth' = DOMAIN auth
                   /\ \A x \in Reqs : req'[x].pc = "minting" => req'[x] = req[x]
                   /\ DOMAIN tokens' = DOMAIN tokens
                   /\ \A x \in DOMAIN tokens : tokens'[x].new = tokens[x].new
                   /\ \A x \in DOMAIN tokens : tokens[x].revoked => tokens'[x].revoked
<1>0. IsMap(cache, Codes, CacheEntry) /\ IsMap(tokens, Rows, TokenRow) /\ req \in [Reqs -> Job]
  BY DEF TypeOK
<1>1. ASSUME NEW q \in Reqs, NEW c \in Codes, NEW g \in CodeRequest, RefuseCode(q, c, g)
      PROVE  Goal
  <2>1. DOMAIN cache' \subseteq DOMAIN cache
    BY <1>1, <1>0, AfterGetdelMap DEF RefuseCode
  <2> QED
    BY <1>1, <2>1 DEF RefuseCode
<1>2. ASSUME NEW q \in Reqs, NEW r \in Rows, NEW client \in Clients,
             FindRefresh(q, r, client)
      PROVE  Goal
  BY <1>0, <1>2 DEF FindRefresh, Become
<1>3. ASSUME NEW q \in Reqs, NEW t \in Token, BeginRevoke(q, t) PROVE Goal
  BY <1>0, <1>3 DEF BeginRevoke, Become
<1>4. ASSUME NEW q \in Reqs, LoseRotation(q) \/ Respond(q) \/ AckRevoke(q) \/ Fail(q)
      PROVE  Goal
  BY <1>0, <1>4 DEF LoseRotation, Respond, AckRevoke, Fail, Become, Idle
<1>5. ASSUME NEW q \in Reqs, FindRefreshToRevoke(q) PROVE Goal
  BY <1>0, <1>5 DEF FindRefreshToRevoke, Become
<1>6. ASSUME NEW q \in Reqs, RevokeByAccess(q) \/ RevokeByRefresh(q) PROVE Goal
  <2>1. tokens' = RevokeToken(req[q].token.row) /\ cache' = cache /\ auth' = auth
    BY <1>6 DEF RevokeByAccess, RevokeByRefresh
  <2>2. /\ DOMAIN tokens' = DOMAIN tokens
        /\ \A x \in DOMAIN tokens : tokens'[x].new = tokens[x].new
        /\ \A x \in DOMAIN tokens : tokens[x].revoked => tokens'[x].revoked
    BY <1>0, <2>1, RevokeTokenMap
  <2>3. \A x \in Reqs : req'[x].pc = "minting" => req'[x] = req[x]
    BY <1>6, <1>0 DEF RevokeByAccess, RevokeByRefresh, Become
  <2> QED
    BY <2>1, <2>2, <2>3
<1>7. ASSUME NEW p \in Procs, Crash(p) PROVE Goal
  <2>1. DOMAIN cache' \subseteq DOMAIN cache
    BY <1>7 DEF Crash, Drop
  <2>2. \A x \in Reqs : req'[x].pc = "minting" => req'[x] = req[x]
    BY <1>7 DEF Crash, Idle
  <2> QED
    BY <1>7, <2>1, <2>2 DEF Crash
<1>8. CASE Tick \/ UNCHANGED vars
  BY <1>8 DEF Tick, vars
<1> QED
  BY <1>1, <1>2, <1>3, <1>4, <1>5, <1>6, <1>7, <1>8 DEF OtherStep

-----------------------------------------------------------------------------
(* One holder at a time, and the lifecycle.                                *)

\* With at most one holder, a holder of any kind excludes the other kinds.
LEMMA HolderAlone ==
    ASSUME NEW c, AtMostOne(Holders(c))
    PROVE  /\ c \in DOMAIN cache =>
                 Holders(c) = {<<"code", c>>} /\ Minting(c) = {} /\ LiveRows(c) = {}
           /\ \A q \in Minting(c) : /\ Holders(c) = {<<"req", q>>}
                                    /\ c \notin DOMAIN cache
                                    /\ Minting(c) = {q} /\ LiveRows(c) = {}
           /\ \A r \in LiveRows(c) : /\ Holders(c) = {<<"row", r>>}
                                     /\ c \notin DOMAIN cache
                                     /\ Minting(c) = {} /\ LiveRows(c) = {r}
<1>1. c \in DOMAIN cache => <<"code", c>> \in Holders(c)
  BY DEF Holders
<1>2. \A q \in Minting(c) : <<"req", q>> \in Holders(c)
  BY DEF Holders
<1>3. \A r \in LiveRows(c) : <<"row", r>> \in Holders(c)
  BY DEF Holders
<1>4. \A x, y \in Holders(c) : x = y
  BY DEF AtMostOne
<1> QED
  BY <1>1, <1>2, <1>3, <1>4

LEMMA InitSingleHolder == Init => SingleHolder
BY DEF Init, SingleHolder, AtMostOne, Holders, Minting, LiveRows, Idle

\* A step that adds no holder takes away whole grants: it is a Lose.
LEMMA ShrinkLoses ==
    ASSUME SingleHolder,
           DOMAIN cache' \subseteq DOMAIN cache,
           \A c \in Codes : Minting(c)' \subseteq Minting(c) /\ LiveRows(c)' \subseteq LiveRows(c),
           DOMAIN auth' = DOMAIN auth, DOMAIN tokens' = DOMAIN tokens
    PROVE  SingleHolder' /\ Lifecycle!Next
<1>1. \A c \in Codes : Holders(c)' \subseteq Holders(c)
  BY DEF Holders
<1>2. \A c \in Codes : Holders(c)' = {} \/ Holders(c)' = Holders(c)
  BY <1>1 DEF SingleHolder, AtMostOne
<1>3. SingleHolder'
  BY <1>1 DEF SingleHolder, AtMostOne
<1> DEFINE G == {c \in Codes : Holders(c)' = {}}
<1>4. [c \in Codes |-> Holders(c)'] = [g \in Codes |-> IF g \in G THEN {}
                                                     ELSE [c \in Codes |-> Holders(c)][g]]
  BY <1>2
<1>5. G \in SUBSET Codes /\ Lifecycle!Lose(G)
  BY <1>4 DEF Lifecycle!Lose
<1> QED
  BY <1>3, <1>5 DEF Lifecycle!Next

\* What Holders is after a step, from its three parts.
LEMMA HoldersAfter ==
    ASSUME NEW x
    PROVE  /\ (/\ x \in DOMAIN cache' <=> x \in DOMAIN cache
               /\ Minting(x)' = Minting(x) /\ LiveRows(x)' = LiveRows(x))
                 => Holders(x)' = Holders(x)
           /\ (x \in DOMAIN cache' /\ Minting(x)' = {} /\ LiveRows(x)' = {})
                 => Holders(x)' = {<<"code", x>>}
           /\ \A q : (x \notin DOMAIN cache' /\ Minting(x)' = {q} /\ LiveRows(x)' = {})
                 => Holders(x)' = {<<"req", q>>}
           /\ \A r : (x \notin DOMAIN cache' /\ Minting(x)' = {} /\ LiveRows(x)' = {r})
                 => Holders(x)' = {<<"row", r>>}
<1>1. (/\ x \in DOMAIN cache' <=> x \in DOMAIN cache
       /\ Minting(x)' = Minting(x) /\ LiveRows(x)' = LiveRows(x))
         => Holders(x)' = Holders(x)
  <2>1. (x \in DOMAIN cache' <=> x \in DOMAIN cache)
           => DOMAIN cache' \cap {x} = DOMAIN cache \cap {x}
    OBVIOUS
  <2> QED
    BY <2>1 DEF Holders
<1>2. (x \in DOMAIN cache' /\ Minting(x)' = {} /\ LiveRows(x)' = {})
         => Holders(x)' = {<<"code", x>>}
  BY DEF Holders
<1>3. \A q : (x \notin DOMAIN cache' /\ Minting(x)' = {q} /\ LiveRows(x)' = {})
         => Holders(x)' = {<<"req", q>>}
  BY DEF Holders
<1>4. \A r : (x \notin DOMAIN cache' /\ Minting(x)' = {} /\ LiveRows(x)' = {r})
         => Holders(x)' = {<<"row", r>>}
  BY DEF Holders
<1> QED
  BY <1>1, <1>2, <1>3, <1>4

\* Every step of the implementation keeps grants in one place and is a step of
\* the lifecycle or stutters.
LEMMA NextLifecycle ==
    TypeOK /\ Provenance /\ SingleHolder /\ [Next]_vars
        => SingleHolder' /\ [Lifecycle!Next]_(Lifecycle!vars)
<1> SUFFICES ASSUME TypeOK, Provenance, SingleHolder, [Next]_vars
             PROVE  SingleHolder' /\ [Lifecycle!Next]_(Lifecycle!vars)
  OBVIOUS
<1> DEFINE Goal == SingleHolder' /\ [Lifecycle!Next]_(Lifecycle!vars)
<1>0. IsMap(cache, Codes, CacheEntry) /\ IsMap(tokens, Rows, TokenRow) /\ req \in [Reqs -> Job]
  BY DEF TypeOK
<1> HIDE DEF Goal
<1>1. ASSUME NEW p \in Procs, NEW c \in Codes, NEW b \in Binding, IssueCode(p, c, b)
      PROVE  Goal
  <2>1. DOMAIN cache' = DOMAIN cache \cup {c} /\ DOMAIN auth' = DOMAIN auth \cup {c}
    BY <1>1 DEF IssueCode, Put
  <2>2. c \notin DOMAIN cache /\ Minting(c) = {} /\ LiveRows(c) = {}
    BY <1>1 DEF IssueCode, Provenance, Traced, BoundToGrant, Bound, Minting, LiveRows
  <2>3. \A x \in Codes : Minting(x)' = Minting(x) /\ LiveRows(x)' = LiveRows(x)
    BY <1>1 DEF IssueCode, Minting, LiveRows
  <2>4. \A x \in Codes : Holders(x)' = IF x = c THEN {<<"code", c>>} ELSE Holders(x)
    BY <2>1, <2>2, <2>3 DEF Holders
  <2>5. SingleHolder'
    BY <2>4 DEF SingleHolder, AtMostOne
  <2>6. Lifecycle!Issue(c)
    BY <1>1, <2>1, <2>4 DEF IssueCode, Lifecycle!Issue, Lifecycle!CodeOf
  <2> QED
    BY <2>5, <2>6 DEF Goal, Lifecycle!Next
<1>2. ASSUME NEW q \in Reqs, NEW c \in Codes, NEW g \in CodeRequest, RedeemCode(q, c, g)
      PROVE  Goal
  <2>1. /\ DOMAIN cache' \subseteq DOMAIN cache
        /\ c \in DOMAIN cache /\ c \notin DOMAIN cache'
        /\ \A x \in DOMAIN cache : x # c => x \in DOMAIN cache'
    BY <1>2, <1>0 DEF RedeemCode, AfterGetdel, Visible, InStore, Drop
  <2>2. /\ req[q].pc # "minting"
        /\ req'[q].pc = "minting" /\ req'[q].new.grant = c
        /\ \A x \in Reqs : x # q => req'[x] = req[x]
    BY <1>2, <1>0 DEF RedeemCode, Become, Idle
  <2>3. Holders(c) = {<<"code", c>>} /\ Minting(c) = {} /\ LiveRows(c) = {}
    BY <2>1, HolderAlone DEF SingleHolder
  <2>4. \A x \in Codes : Holders(x)' = IF x = c THEN {<<"req", q>>} ELSE Holders(x)
    <3>1. \A x \in Codes : LiveRows(x)' = LiveRows(x)
      BY <1>2 DEF RedeemCode, LiveRows
    <3>2. Minting(c)' = {q}
      BY <2>2, <2>3 DEF Minting
    <3>3. \A x \in Codes : x # c => Minting(x)' = Minting(x)
      BY <2>2 DEF Minting
    <3> QED
      BY <2>1, <2>3, <3>1, <3>2, <3>3, HoldersAfter
  <2>5. SingleHolder'
    BY <2>4 DEF SingleHolder, AtMostOne
  <2>6. c \in DOMAIN auth
    BY <2>1 DEF Provenance, Traced
  <2>7. Lifecycle!Redeem(c, q)
    BY <1>2, <2>3, <2>4, <2>6
    DEF RedeemCode, Lifecycle!Redeem, Lifecycle!Move, Lifecycle!CodeOf, Lifecycle!Request
  <2> QED
    BY <2>5, <2>7 DEF Goal, Lifecycle!Next
<1>3. ASSUME NEW q \in Reqs, WinRotation(q) PROVE Goal
  <2>1. PICK r : r = req[q].row
    OBVIOUS
  <2>2. r \in DOMAIN tokens /\ tokens[r] \in TokenRow /\ ~tokens[r].revoked /\ r \in Rows
    BY <1>3, <1>0, <2>1 DEF WinRotation, Unrevoked, IsMap
  <2>3. PICK c : c = tokens[r].new.grant
    OBVIOUS
  <2>4. c \in Codes /\ r \in LiveRows(c) /\ c \in DOMAIN auth
    BY <2>2, <2>3 DEF TokenRow, NewRow, LiveRows, Provenance, BoundToGrant, Bound
  <2>5. /\ DOMAIN tokens' = DOMAIN tokens
        /\ \A x \in DOMAIN tokens : tokens'[x].new = tokens[x].new
        /\ \A x \in DOMAIN tokens : tokens'[x].revoked <=> (tokens[x].revoked \/ x = r)
    BY <1>3, <1>0, <2>1, RevokeTokenMap DEF WinRotation
  <2>6. /\ req'[q].pc = "minting" /\ req'[q].new.grant = c
        /\ \A x \in Reqs : x # q => req'[x] = req[x]
    BY <1>3, <1>0, <2>1, <2>2, <2>3 DEF WinRotation, Become, TokenRow, NewRow
  <2>7. /\ Holders(c) = {<<"row", r>>} /\ c \notin DOMAIN cache
        /\ Minting(c) = {} /\ LiveRows(c) = {r}
    BY <2>4, HolderAlone DEF SingleHolder
  <2>8. \A x \in Codes : Minting(x)' = IF x = c THEN {q} ELSE Minting(x)
    <3>1. Minting(c)' = {q}
      BY <2>6, <2>7 DEF Minting
    <3>2. \A x \in Codes : x # c => Minting(x)' = Minting(x)
      BY <1>3, <2>6 DEF Minting, WinRotation
    <3> QED
      BY <3>1, <3>2
  <2>9. \A x \in Codes : LiveRows(x)' = IF x = c THEN {} ELSE LiveRows(x)
    <3>1. LiveRows(c)' = {}
      BY <2>5, <2>7 DEF LiveRows
    <3>2. ASSUME NEW x \in Codes, x # c PROVE LiveRows(x)' = LiveRows(x)
      BY <1>0, <2>3, <2>5, <3>2 DEF LiveRows, IsMap, TokenRow
    <3> QED
      BY <3>1, <3>2
  <2>10. \A x \in Codes : Holders(x)' = IF x = c THEN {<<"req", q>>} ELSE Holders(x)
    <3>1. cache' = cache
      BY <1>3 DEF WinRotation
    <3> QED
      BY <3>1, <2>7, <2>8, <2>9, HoldersAfter
  <2>11. SingleHolder'
    BY <2>10 DEF SingleHolder, AtMostOne
  <2>12. Lifecycle!Rotate(c, r, q)
    BY <1>3, <2>2, <2>4, <2>5, <2>7, <2>10
    DEF WinRotation, Lifecycle!Rotate, Lifecycle!Move, Lifecycle!Row, Lifecycle!Request
  <2> QED
    BY <2>2, <2>4, <2>11, <2>12 DEF Goal, Lifecycle!Next
<1>4. ASSUME NEW q \in Reqs, NEW r \in Rows, CreateToken(q, r) PROVE Goal
  <2>1. PICK c : c = req[q].new.grant
    OBVIOUS
  <2>2. c \in Codes /\ q \in Minting(c) /\ c \in DOMAIN auth
    BY <1>4, <1>0, <2>1
    DEF CreateToken, Job, Idle, NewRow, Minting, Provenance, Traced, Bound
  <2>3. /\ DOMAIN tokens' = DOMAIN tokens \cup {r} /\ r \notin DOMAIN tokens
        /\ tokens'[r] = [new |-> req[q].new, revoked |-> FALSE]
        /\ \A x \in DOMAIN tokens : tokens'[x] = tokens[x]
    BY <1>4 DEF CreateToken, Put
  <2>4. req'[q].pc = "replying" /\ \A x \in Reqs : x # q => req'[x] = req[x]
    BY <1>4, <1>0 DEF CreateToken, Become
  <2>5. /\ Holders(c) = {<<"req", q>>} /\ c \notin DOMAIN cache
        /\ Minting(c) = {q} /\ LiveRows(c) = {}
    BY <2>2, HolderAlone DEF SingleHolder
  <2>6. \A x \in Codes : Minting(x)' = IF x = c THEN {} ELSE Minting(x)
    <3>1. Minting(c)' = {}
      BY <2>4, <2>5 DEF Minting
    <3>2. \A x \in Codes : x # c => Minting(x)' = Minting(x)
      BY <2>1, <2>4 DEF Minting
    <3> QED
      BY <3>1, <3>2
  <2>7. \A x \in Codes : LiveRows(x)' = IF x = c THEN {r} ELSE LiveRows(x)
    <3>1. LiveRows(c)' = {r}
      BY <2>1, <2>3, <2>5 DEF LiveRows
    <3>2. \A x \in Codes : x # c => LiveRows(x)' = LiveRows(x)
      BY <2>1, <2>3 DEF LiveRows
    <3> QED
      BY <3>1, <3>2
  <2>8. \A x \in Codes : Holders(x)' = IF x = c THEN {<<"row", r>>} ELSE Holders(x)
    <3>1. cache' = cache
      BY <1>4 DEF CreateToken
    <3> QED
      BY <3>1, <2>5, <2>6, <2>7, HoldersAfter
  <2>9. SingleHolder'
    BY <2>8 DEF SingleHolder, AtMostOne
  <2>10. Lifecycle!Mint(c, q, r)
    BY <1>4, <2>2, <2>3, <2>5, <2>8
    DEF CreateToken, Lifecycle!Mint, Lifecycle!Move, Lifecycle!Row, Lifecycle!Request
  <2> QED
    BY <2>2, <2>9, <2>10 DEF Goal, Lifecycle!Next
<1>5. ASSUME DOMAIN cache' \subseteq DOMAIN cache, DOMAIN auth' = DOMAIN auth,
             \A x \in Reqs : req'[x].pc = "minting" => req'[x] = req[x],
             DOMAIN tokens' = DOMAIN tokens,
             \A x \in DOMAIN tokens : tokens'[x].new = tokens[x].new,
             \A x \in DOMAIN tokens : tokens[x].revoked => tokens'[x].revoked
      PROVE  Goal
  <2>1. \A c \in Codes : Minting(c)' \subseteq Minting(c) /\ LiveRows(c)' \subseteq LiveRows(c)
    BY <1>5 DEF Minting, LiveRows
  <2> QED
    BY <1>5, <2>1, ShrinkLoses DEF Goal
<1>6. ASSUME OtherStep PROVE Goal
  BY <1>5, <1>6, OtherStepKeeps
<1> QED
  BY <1>1, <1>2, <1>3, <1>4, <1>6, NextSteps DEF Goal

\* An authorization never turns into two, however requests interleave, fail or
\* are cut off by crashes.
THEOREM SingleHolderHolds == Spec => []SingleHolder
<1>1. TypeOK /\ Provenance /\ SingleHolder /\ [Next]_vars
         => TypeOK' /\ Provenance' /\ SingleHolder'
  BY NextTypeOK, NextProvenance, NextLifecycle
<1> QED
  BY <1>1, InitTypeOK, InitProvenance, InitSingleHolder, PTL DEF Spec

\* /token and /revoke over cache, table and concurrent requests implement the
\* abstract lifecycle.
THEOREM Refinement == Spec => ImplementsLifecycle
<1>1. Init => Lifecycle!Init
  BY DEF Init, Lifecycle!Init, Holders, Minting, LiveRows, Idle
<1>2. TypeOK /\ Provenance /\ SingleHolder /\ [Next]_vars
         => /\ TypeOK' /\ Provenance' /\ SingleHolder'
            /\ [Lifecycle!Next]_(Lifecycle!vars)
  BY NextTypeOK, NextProvenance, NextLifecycle
<1> QED
  BY <1>1, <1>2, InitTypeOK, InitProvenance, InitSingleHolder, PTL
  DEF Spec, ImplementsLifecycle, Lifecycle!Spec

-----------------------------------------------------------------------------
(* Chains, not trees.                                                      *)

Origins == {<<"code", c>> : c \in Codes} \cup {<<"row", r>> : r \in Rows}

LEMMA InitNoFork == Init => NoFork
BY DEF Init, NoFork, AtMostOne, Offspring, MadeRows, MadeReqs, Idle

\* A step that makes nothing and unspends nothing keeps the chains.
LEMMA QuietNoFork ==
    ASSUME NoFork, Spent \subseteq Spent',
           \A o \in Origins : MadeRows(o)' \subseteq MadeRows(o) /\ MadeReqs(o)' \subseteq MadeReqs(o)
    PROVE  NoFork'
<1>1. \A o \in Origins : Offspring(o)' \subseteq Offspring(o)
  BY DEF Offspring
<1> QED
  BY <1>1 DEF NoFork, AtMostOne, Origins

\* What a step leaves alone of the rows, the requests and what is spent.
LEMMA KeepsRows ==
    ASSUME DOMAIN tokens' = DOMAIN tokens,
           \A x \in DOMAIN tokens : tokens'[x].new = tokens[x].new
    PROVE  \A o : MadeRows(o)' = MadeRows(o)
BY DEF MadeRows, Origin

LEMMA KeepsReqs ==
    ASSUME \A x \in Reqs : req'[x].pc = "minting" => req'[x] = req[x]
    PROVE  \A o : MadeReqs(o)' \subseteq MadeReqs(o)
BY DEF MadeReqs, Origin

LEMMA KeepsSpent ==
    ASSUME DOMAIN auth' = DOMAIN auth, DOMAIN cache' \subseteq DOMAIN cache,
           DOMAIN tokens \subseteq DOMAIN tokens',
           \A x \in DOMAIN tokens : tokens[x].revoked => tokens'[x].revoked
    PROVE  Spent \subseteq Spent'
BY DEF Spent

\* A step that makes one thing, from an origin nothing was made from and that
\* it spends, keeps the chains.
LEMMA MakesOne ==
    ASSUME NoFork, Spent \subseteq Spent', NEW o \in Origins, NEW x,
           o \notin Spent, o \in Spent',
           Offspring(o)' \subseteq Offspring(o) \cup {x},
           \A p \in Origins : p # o => Offspring(p)' \subseteq Offspring(p)
    PROVE  NoFork'
<1>1. Offspring(o) = {}
  BY DEF NoFork, Origins
<1> QED
  BY <1>1 DEF NoFork, AtMostOne, Origins

LEMMA NextNoFork == TypeOK /\ Provenance /\ NoFork /\ [Next]_vars => NoFork'
<1> SUFFICES ASSUME TypeOK, Provenance, NoFork, [Next]_vars PROVE NoFork'
  OBVIOUS
<1>0. /\ IsMap(cache, Codes, CacheEntry) /\ IsMap(tokens, Rows, TokenRow)
      /\ req \in [Reqs -> Job]
  BY DEF TypeOK
<1>1. ASSUME NEW p \in Procs, NEW c \in Codes, NEW b \in Binding, IssueCode(p, c, b)
      PROVE  NoFork'
  <2>1. /\ DOMAIN cache' = DOMAIN cache \cup {c} /\ DOMAIN auth' = DOMAIN auth \cup {c}
        /\ c \notin DOMAIN auth
        /\ tokens' = tokens /\ req' = req
    BY <1>1 DEF IssueCode, Put
  <2>2. Spent \subseteq Spent'
    BY <2>1 DEF Spent
  <2>3. \A o : MadeRows(o)' = MadeRows(o) /\ MadeReqs(o)' = MadeReqs(o)
    BY <2>1 DEF MadeRows, MadeReqs
  <2> QED
    BY <2>2, <2>3, QuietNoFork
<1>2. ASSUME NEW q \in Reqs, NEW c \in Codes, NEW g \in CodeRequest, RedeemCode(q, c, g)
      PROVE  NoFork'
  <2>1. /\ DOMAIN cache' \subseteq DOMAIN cache
        /\ c \in DOMAIN cache /\ c \notin DOMAIN cache' /\ c \in DOMAIN auth
        /\ tokens' = tokens /\ auth' = auth
    BY <1>2, <1>0 DEF RedeemCode, AfterGetdel, Visible, InStore, Drop, Provenance, Traced
  <2>2. /\ Origin(req'[q].new) = <<"code", c>>
        /\ \A x \in Reqs : x # q => req'[x] = req[x]
    BY <1>2, <1>0 DEF RedeemCode, Become, Origin
  <2>3. Spent \subseteq Spent' /\ <<"code", c>> \notin Spent /\ <<"code", c>> \in Spent'
    BY <2>1 DEF Spent
  <2>4. \A o : MadeRows(o)' = MadeRows(o)
    BY <2>1 DEF MadeRows
  <2>5. \A o : MadeReqs(o)' \subseteq IF o = <<"code", c>> THEN MadeReqs(o) \cup {q} ELSE MadeReqs(o)
    BY <2>2 DEF MadeReqs, Origin
  <2>6. /\ Offspring(<<"code", c>>)' \subseteq Offspring(<<"code", c>>) \cup {<<"req", q>>}
        /\ \A o \in Origins : o # <<"code", c>> => Offspring(o)' \subseteq Offspring(o)
    BY <2>4, <2>5 DEF Offspring
  <2> QED
    BY <2>3, <2>6, MakesOne DEF Origins
<1>3. ASSUME NEW q \in Reqs, WinRotation(q) PROVE NoFork'
  <2>1. PICK r : r = req[q].row
    OBVIOUS
  <2>2. r \in DOMAIN tokens /\ tokens[r] \in TokenRow /\ ~tokens[r].revoked /\ r \in Rows
    BY <1>3, <1>0, <2>1 DEF WinRotation, Unrevoked, IsMap
  <2>3. /\ DOMAIN tokens' = DOMAIN tokens
        /\ \A x \in DOMAIN tokens : tokens'[x].new = tokens[x].new
        /\ \A x \in DOMAIN tokens : tokens'[x].revoked <=> (tokens[x].revoked \/ x = r)
    BY <1>3, <1>0, <2>1, RevokeTokenMap DEF WinRotation
  <2>4. /\ Origin(req'[q].new) = <<"row", r>>
        /\ \A x \in Reqs : x # q => req'[x] = req[x]
    BY <1>3, <1>0, <2>1, <2>2, NoneAssumption
    DEF WinRotation, Become, TokenRow, NewRow, Origin
  <2>5. cache' = cache /\ auth' = auth
    BY <1>3 DEF WinRotation
  <2>6. Spent \subseteq Spent' /\ <<"row", r>> \notin Spent /\ <<"row", r>> \in Spent'
    BY <2>2, <2>3, <2>5 DEF Spent
  <2>7. \A o : MadeRows(o)' = MadeRows(o)
    BY <2>3, KeepsRows
  <2>8. \A o : MadeReqs(o)' \subseteq IF o = <<"row", r>> THEN MadeReqs(o) \cup {q} ELSE MadeReqs(o)
    BY <2>4 DEF MadeReqs, Origin
  <2>9. /\ Offspring(<<"row", r>>)' \subseteq Offspring(<<"row", r>>) \cup {<<"req", q>>}
        /\ \A o \in Origins : o # <<"row", r>> => Offspring(o)' \subseteq Offspring(o)
    BY <2>7, <2>8 DEF Offspring
  <2> QED
    BY <2>2, <2>6, <2>9, MakesOne DEF Origins
<1>4. ASSUME NEW q \in Reqs, NEW r \in Rows, CreateToken(q, r) PROVE NoFork'
  <2>1. PICK o : o = Origin(req[q].new)
    OBVIOUS
  <2>2. /\ o \in Origins /\ q \in MadeReqs(o)
        /\ \A p : p # o => q \notin MadeReqs(p)
    BY <1>4, <1>0, <2>1 DEF CreateToken, Job, Idle, NewRow, MadeReqs, Origin, Origins
  <2>3. /\ DOMAIN tokens' = DOMAIN tokens \cup {r} /\ r \notin DOMAIN tokens
        /\ tokens'[r] = [new |-> req[q].new, revoked |-> FALSE]
        /\ \A x \in DOMAIN tokens : tokens'[x] = tokens[x]
    BY <1>4 DEF CreateToken, Put
  <2>4. req'[q].pc = "replying" /\ \A x \in Reqs : x # q => req'[x] = req[x]
    BY <1>4, <1>0 DEF CreateToken, Become
  <2>5. cache' = cache /\ auth' = auth
    BY <1>4 DEF CreateToken
  <2>6. Spent \subseteq Spent'
    BY <2>3, <2>5, KeepsSpent
  <2>7. MadeReqs(o) = {q} /\ MadeRows(o) = {}
    <3>1. <<"req", q>> \in Offspring(o)
      BY <2>2 DEF Offspring
    <3>2. \A x \in Offspring(o) : x = <<"req", q>>
      BY <2>2, <3>1 DEF NoFork, AtMostOne, Origins
    <3> QED
      BY <2>2, <3>2 DEF Offspring
  <2>8. \A p : MadeReqs(p)' \subseteq MadeReqs(p) \ {q}
    BY <2>4 DEF MadeReqs, Origin
  <2>9. \A p : MadeRows(p)' \subseteq IF p = o THEN MadeRows(p) \cup {r} ELSE MadeRows(p)
    BY <2>1, <2>3 DEF MadeRows, Origin
  <2>10. Offspring(o)' \subseteq {<<"row", r>>}
    BY <2>7, <2>8, <2>9 DEF Offspring
  <2>11. \A p \in Origins : p # o => Offspring(p)' \subseteq Offspring(p)
    BY <2>8, <2>9 DEF Offspring
  <2>12. o \in Spent
    <3>1. <<"req", q>> \in Offspring(o)
      BY <2>2 DEF Offspring
    <3> QED
      BY <2>2, <3>1 DEF NoFork, Origins
  <2> QED
    BY <2>2, <2>6, <2>10, <2>11, <2>12 DEF NoFork, AtMostOne, Origins
<1>5. ASSUME DOMAIN cache' \subseteq DOMAIN cache, DOMAIN auth' = DOMAIN auth,
             \A x \in Reqs : req'[x].pc = "minting" => req'[x] = req[x],
             DOMAIN tokens' = DOMAIN tokens,
             \A x \in DOMAIN tokens : tokens'[x].new = tokens[x].new,
             \A x \in DOMAIN tokens : tokens[x].revoked => tokens'[x].revoked
      PROVE  NoFork'
  <2>1. Spent \subseteq Spent'
    BY <1>5, KeepsSpent
  <2>2. \A o : MadeRows(o)' = MadeRows(o) /\ MadeReqs(o)' \subseteq MadeReqs(o)
    BY <1>5, KeepsRows, KeepsReqs
  <2> QED
    BY <2>1, <2>2, QuietNoFork
<1>6. CASE OtherStep
  BY <1>5, <1>6, OtherStepKeeps
<1> QED
  BY <1>1, <1>2, <1>3, <1>4, <1>6, NextSteps

\* In the whole history, no code and no refresh token is exchanged twice.
THEOREM NoForkHolds == Spec => []NoFork
<1>1. TypeOK /\ Provenance /\ NoFork /\ [Next]_vars => TypeOK' /\ Provenance' /\ NoFork'
  BY NextTypeOK, NextProvenance, NextNoFork
<1> QED
  BY <1>1, InitTypeOK, InitProvenance, InitNoFork, PTL DEF Spec

-----------------------------------------------------------------------------
(* The end of a grant.                                                     *)

\* A request that mints from a row mints for that row's grant.
Lineage ==
    \A q \in Reqs : (req[q].pc = "minting" /\ req[q].new.from # None) =>
       /\ req[q].new.from \in DOMAIN tokens
       /\ tokens[req[q].new.from].new.grant = req[q].new.grant

LEMMA InitEnds == Init => Lineage /\ RevocationEndsGrant
BY DEF Init, Lineage, RevocationEndsGrant, Idle

LEMMA NextLineage == TypeOK /\ Lineage /\ [Next]_vars => Lineage'
<1> SUFFICES ASSUME TypeOK, Lineage, [Next]_vars PROVE Lineage'
  OBVIOUS
<1> USE DEF Lineage
<1>0. /\ IsMap(cache, Codes, CacheEntry) /\ IsMap(tokens, Rows, TokenRow)
      /\ req \in [Reqs -> Job]
  BY DEF TypeOK
<1>1. ASSUME NEW p \in Procs, NEW c \in Codes, NEW b \in Binding, IssueCode(p, c, b)
      PROVE  Lineage'
  BY <1>1 DEF IssueCode
<1>2. ASSUME NEW q \in Reqs, NEW c \in Codes, NEW g \in CodeRequest, RedeemCode(q, c, g)
      PROVE  Lineage'
  BY <1>0, <1>2 DEF RedeemCode, Become
<1>3. ASSUME NEW q \in Reqs, WinRotation(q) PROVE Lineage'
  <2>1. PICK r : r = req[q].row
    OBVIOUS
  <2>2. r \in DOMAIN tokens /\ tokens[r] \in TokenRow
    BY <1>3, <1>0, <2>1 DEF WinRotation, Unrevoked, IsMap
  <2>3. /\ DOMAIN tokens' = DOMAIN tokens
        /\ \A x \in DOMAIN tokens : tokens'[x].new = tokens[x].new
    BY <1>3, <1>0, <2>1, RevokeTokenMap DEF WinRotation
  <2>4. /\ req'[q].new.from = r /\ req'[q].new.grant = tokens[r].new.grant
        /\ \A x \in Reqs : x # q => req'[x] = req[x]
    BY <1>3, <1>0, <2>1, <2>2 DEF WinRotation, Become, TokenRow, NewRow
  <2> QED
    BY <2>2, <2>3, <2>4
<1>4. ASSUME NEW q \in Reqs, NEW r \in Rows, CreateToken(q, r) PROVE Lineage'
  <2>1. /\ DOMAIN tokens' = DOMAIN tokens \cup {r}
        /\ \A x \in DOMAIN tokens : tokens'[x] = tokens[x]
    BY <1>4 DEF CreateToken, Put
  <2>2. req'[q].pc = "replying" /\ \A x \in Reqs : x # q => req'[x] = req[x]
    BY <1>4, <1>0 DEF CreateToken, Become
  <2> QED
    BY <2>1, <2>2
<1>5. CASE OtherStep
  BY <1>5, OtherStepKeeps
<1> QED
  BY <1>1, <1>2, <1>3, <1>4, <1>5, NextSteps

\* A step that ends or continues requests and revokes rows takes away the holder
\* of a grant whose offspring it takes away.
LEMMA QuietEnds ==
    ASSUME SingleHolder, Provenance, Lineage, RevocationEndsGrant, TypeOK,
           DOMAIN cache' \subseteq DOMAIN cache,
           \A x \in Reqs : req'[x].pc = "minting" => req'[x] = req[x],
           DOMAIN tokens' = DOMAIN tokens,
           \A x \in DOMAIN tokens : tokens'[x].new = tokens[x].new,
           \A x \in DOMAIN tokens : tokens[x].revoked => tokens'[x].revoked
    PROVE  RevocationEndsGrant'
<1> SUFFICES ASSUME NEW r \in DOMAIN tokens', NEW c, c = tokens'[r].new.grant,
                    tokens'[r].revoked, Offspring(<<"row", r>>)' = {}
             PROVE  Holders(c)' = {}
  BY DEF RevocationEndsGrant
<1>0. /\ IsMap(tokens, Rows, TokenRow) /\ r \in DOMAIN tokens /\ r \in Rows
      /\ tokens[r] \in TokenRow
  BY DEF TypeOK, IsMap
<1>1. c = tokens[r].new.grant /\ c \in Codes
  BY <1>0 DEF TokenRow, NewRow
<1>2. Minting(c)' \subseteq Minting(c) /\ LiveRows(c)' \subseteq LiveRows(c)
  BY DEF Minting, LiveRows
<1>3. Holders(c)' \subseteq Holders(c)
  BY <1>2 DEF Holders
<1>4. CASE ~tokens[r].revoked
  <2>1. r \in LiveRows(c) /\ r \notin LiveRows(c)'
    BY <1>0, <1>1, <1>4 DEF LiveRows
  <2>2. Minting(c) = {} /\ LiveRows(c) = {r} /\ c \notin DOMAIN cache
    BY <1>1, <2>1, HolderAlone DEF SingleHolder
  <2> QED
    BY <1>1, <1>2, <2>1, <2>2 DEF Holders
<1>5. CASE tokens[r].revoked /\ Offspring(<<"row", r>>) = {}
  BY <1>0, <1>1, <1>3, <1>5 DEF RevocationEndsGrant
<1>6. CASE Offspring(<<"row", r>>) # {}
  <2>1. MadeRows(<<"row", r>>)' = MadeRows(<<"row", r>>)
    BY KeepsRows
  <2>2. MadeRows(<<"row", r>>) = {}
    BY <2>1 DEF Offspring
  <2>3. PICK q \in Reqs : q \in MadeReqs(<<"row", r>>)
    BY <1>6, <2>2 DEF Offspring, MadeReqs
  <2>4. req[q].pc = "minting" /\ req[q].new.from = r /\ r # None
    BY <2>3, <1>0, NoneAssumption DEF MadeReqs, Origin
  <2>5. q \in Minting(c)
    BY <1>1, <2>4 DEF Lineage, Minting
  <2>6. q \notin Minting(c)'
    <3>1. SUFFICES ASSUME req'[q].pc = "minting" PROVE FALSE
      BY DEF Minting
    <3>2. q \in MadeReqs(<<"row", r>>)'
      BY <2>3, <3>1 DEF MadeReqs, Origin
    <3> QED
      BY <3>2 DEF Offspring
  <2>7. Minting(c) = {q} /\ LiveRows(c) = {} /\ c \notin DOMAIN cache
    BY <1>1, <2>5, HolderAlone DEF SingleHolder
  <2> QED
    BY <1>1, <1>2, <2>6, <2>7 DEF Holders
<1> QED
  BY <1>4, <1>5, <1>6

\* A step that makes something for a grant that is held keeps the ends of all
\* others.
LEMMA MakingEnds ==
    ASSUME RevocationEndsGrant, NEW c, Holders(c) # {},
           DOMAIN tokens \subseteq DOMAIN tokens',
           \A r \in DOMAIN tokens : tokens'[r].new = tokens[r].new,
           \A r \in DOMAIN tokens' :
              (tokens'[r].revoked /\ Offspring(<<"row", r>>)' = {}) =>
                 /\ r \in DOMAIN tokens /\ tokens[r].revoked
                 /\ Offspring(<<"row", r>>) = {},
           \A x : x # c => Holders(x)' \subseteq Holders(x)
    PROVE  RevocationEndsGrant'
<1> SUFFICES ASSUME NEW r \in DOMAIN tokens', NEW g, g = tokens'[r].new.grant,
                    tokens'[r].revoked, Offspring(<<"row", r>>)' = {}
             PROVE  Holders(g)' = {}
  BY DEF RevocationEndsGrant
<1>1. r \in DOMAIN tokens /\ tokens[r].new.grant = g /\ Holders(g) = {}
  BY DEF RevocationEndsGrant
<1> QED
  BY <1>1

LEMMA NextEnds ==
    TypeOK /\ Provenance /\ SingleHolder /\ Lineage /\ RevocationEndsGrant /\ [Next]_vars
       => RevocationEndsGrant'
<1> SUFFICES ASSUME TypeOK, Provenance, SingleHolder, Lineage, RevocationEndsGrant, [Next]_vars
             PROVE  RevocationEndsGrant'
  OBVIOUS
<1>0. /\ IsMap(cache, Codes, CacheEntry) /\ IsMap(tokens, Rows, TokenRow)
      /\ req \in [Reqs -> Job]
  BY DEF TypeOK
<1>1. ASSUME NEW p \in Procs, NEW c \in Codes, NEW b \in Binding, IssueCode(p, c, b)
      PROVE  RevocationEndsGrant'
  <2>1. /\ DOMAIN cache' = DOMAIN cache \cup {c} /\ c \notin DOMAIN auth
        /\ tokens' = tokens /\ req' = req
    BY <1>1 DEF IssueCode, Put
  <2>2. \A o : Offspring(o)' = Offspring(o)
    BY <2>1 DEF Offspring, MadeRows, MadeReqs
  <2>3. \A r \in DOMAIN tokens : tokens[r].new.grant # c
    BY <2>1 DEF Provenance, BoundToGrant, Bound
  <2>4. \A x : x # c => Holders(x)' = Holders(x)
    BY <2>1 DEF Holders, Minting, LiveRows
  <2> QED
    BY <2>1, <2>2, <2>3, <2>4 DEF RevocationEndsGrant
<1>2. ASSUME NEW q \in Reqs, NEW c \in Codes, NEW g \in CodeRequest, RedeemCode(q, c, g)
      PROVE  RevocationEndsGrant'
  <2>1. /\ DOMAIN cache' \subseteq DOMAIN cache /\ c \in DOMAIN cache /\ tokens' = tokens
    BY <1>2, <1>0 DEF RedeemCode, AfterGetdel, Visible, InStore, Drop
  <2>2. /\ req[q].pc # "minting" /\ req'[q].new.grant = c
        /\ \A x \in Reqs : x # q => req'[x] = req[x]
    BY <1>2, <1>0 DEF RedeemCode, Become, Idle
  <2>3. \A o : Offspring(o) \subseteq Offspring(o)'
    <3>1. \A o : MadeRows(o)' = MadeRows(o) /\ MadeReqs(o) \subseteq MadeReqs(o)'
      BY <2>1, <2>2 DEF MadeRows, MadeReqs, Origin
    <3> QED
      BY <3>1 DEF Offspring
  <2>4. Holders(c) # {}
    BY <2>1 DEF Holders
  <2>5. ASSUME NEW x, x # c PROVE Holders(x)' \subseteq Holders(x)
    <3>1. Minting(x)' \subseteq Minting(x) /\ LiveRows(x)' = LiveRows(x)
      BY <2>1, <2>2, <2>5 DEF Minting, LiveRows
    <3> QED
      BY <2>1, <3>1 DEF Holders
  <2> QED
    BY <2>1, <2>3, <2>4, <2>5, MakingEnds
<1>3. ASSUME NEW q \in Reqs, WinRotation(q) PROVE RevocationEndsGrant'
  <2>1. PICK r : r = req[q].row
    OBVIOUS
  <2>2. r \in DOMAIN tokens /\ tokens[r] \in TokenRow /\ ~tokens[r].revoked /\ r \in Rows
    BY <1>3, <1>0, <2>1 DEF WinRotation, Unrevoked, IsMap
  <2>3. PICK c : c = tokens[r].new.grant
    OBVIOUS
  <2>4. /\ DOMAIN tokens' = DOMAIN tokens
        /\ \A x \in DOMAIN tokens : tokens'[x].new = tokens[x].new
        /\ \A x \in DOMAIN tokens : tokens'[x].revoked <=> (tokens[x].revoked \/ x = r)
    BY <1>3, <1>0, <2>1, RevokeTokenMap DEF WinRotation
  <2>5. /\ req[q].pc = "rotating" /\ req'[q].pc = "minting" /\ req'[q].new.grant = c
        /\ Origin(req'[q].new) = <<"row", r>>
        /\ \A x \in Reqs : x # q => req'[x] = req[x]
    BY <1>3, <1>0, <2>1, <2>2, <2>3, NoneAssumption
    DEF WinRotation, Become, TokenRow, NewRow, Origin
  <2>6. Holders(c) # {}
    BY <2>2, <2>3 DEF Holders, LiveRows
  <2>7. \A o : Offspring(o) \subseteq Offspring(o)'
    <3>1. \A o : MadeRows(o)' = MadeRows(o)
      BY <2>4, KeepsRows
    <3>2. \A o : MadeReqs(o) \subseteq MadeReqs(o)'
      BY <2>5 DEF MadeReqs, Origin
    <3> QED
      BY <3>1, <3>2 DEF Offspring
  <2>8. Offspring(<<"row", r>>)' # {}
    <3>1. q \in MadeReqs(<<"row", r>>)'
      BY <2>5 DEF MadeReqs, Origin
    <3> QED
      BY <3>1 DEF Offspring
  <2>9. ASSUME NEW x, x # c PROVE Holders(x)' \subseteq Holders(x)
    <3>1. Minting(x)' \subseteq Minting(x) /\ LiveRows(x)' \subseteq LiveRows(x)
      BY <2>4, <2>5, <2>9 DEF Minting, LiveRows
    <3>2. cache' = cache
      BY <1>3 DEF WinRotation
    <3> QED
      BY <3>1, <3>2 DEF Holders
  <2> QED
    BY <2>4, <2>6, <2>7, <2>8, <2>9, MakingEnds
<1>4. ASSUME NEW q \in Reqs, NEW r \in Rows, CreateToken(q, r) PROVE RevocationEndsGrant'
  <2>1. PICK c : c = req[q].new.grant
    OBVIOUS
  <2>2. /\ DOMAIN tokens' = DOMAIN tokens \cup {r} /\ r \notin DOMAIN tokens
        /\ tokens'[r] = [new |-> req[q].new, revoked |-> FALSE]
        /\ \A x \in DOMAIN tokens : tokens'[x] = tokens[x]
    BY <1>4 DEF CreateToken, Put
  <2>3. /\ req[q].pc = "minting" /\ req'[q].pc = "replying"
        /\ \A x \in Reqs : x # q => req'[x] = req[x]
    BY <1>4, <1>0 DEF CreateToken, Become
  <2>4. Holders(c) # {}
    BY <2>1, <2>3 DEF Holders, Minting
  <2>5. ASSUME NEW o, Offspring(o)' = {} PROVE Offspring(o) = {}
    <3>1. MadeRows(o)' = {} /\ MadeReqs(o)' = {}
      BY <2>5 DEF Offspring
    <3>2. MadeRows(o) = {}
      BY <2>2, <3>1 DEF MadeRows, Origin
    <3>3. Origin(req[q].new) # o
      BY <2>2, <3>1 DEF MadeRows, Origin
    <3>4. MadeReqs(o) = {}
      BY <2>3, <3>1, <3>3 DEF MadeReqs, Origin
    <3> QED
      BY <3>2, <3>4 DEF Offspring
  <2>6. ASSUME NEW x, x # c PROVE Holders(x)' \subseteq Holders(x)
    <3>1. Minting(x)' \subseteq Minting(x) /\ LiveRows(x)' = LiveRows(x)
      BY <2>1, <2>2, <2>3, <2>6 DEF Minting, LiveRows
    <3>2. cache' = cache
      BY <1>4 DEF CreateToken
    <3> QED
      BY <3>1, <3>2 DEF Holders
  <2> QED
    BY <2>2, <2>4, <2>5, <2>6, MakingEnds
<1>5. CASE OtherStep
  BY <1>5, OtherStepKeeps, QuietEnds
<1> QED
  BY <1>1, <1>2, <1>3, <1>4, <1>5, NextSteps

\* A revocation that gets to a row before any rotation ends the authorization, for
\* every request that is in flight and for good.
THEOREM RevocationEndsGrantHolds == Spec => []RevocationEndsGrant
<1>1. TypeOK /\ Provenance /\ SingleHolder /\ Lineage /\ RevocationEndsGrant /\ [Next]_vars
         => TypeOK' /\ Provenance' /\ SingleHolder' /\ Lineage' /\ RevocationEndsGrant'
  BY NextTypeOK, NextProvenance, NextLifecycle, NextLineage, NextEnds
<1> QED
  BY <1>1, InitTypeOK, InitProvenance, InitSingleHolder, InitEnds, PTL DEF Spec

-----------------------------------------------------------------------------
(* Revocation.                                                             *)

\* How far a /revoke has come: the row exists; past the first lookup an access
\* token is dead; past the second so is a refresh token.
Revoking ==
    /\ \A t \in acked : t.row \in DOMAIN tokens /\ ~Usable(t)
    /\ \A q \in Reqs :
          req[q].pc \in {"revokingAccess", "findingRefresh", "revokingRefresh", "acking"} =>
             req[q].token.row \in DOMAIN tokens
    /\ \A q \in Reqs :
          (/\ req[q].pc \in {"findingRefresh", "revokingRefresh", "acking"}
           /\ req[q].token.kind = "access") => tokens[req[q].token.row].revoked
    /\ \A q \in Reqs : req[q].pc = "acking" => ~Usable(req[q].token)

LEMMA InitRevoking == Init => Revoking
BY DEF Init, Revoking, Idle

\* Dead tokens stay dead: rows are not rewritten, `revoked` is not reset, and
\* time does not go back.
LEMMA DeadStaysDead ==
    ASSUME NEW t \in Token, TypeOK, TypeOK', t.row \in DOMAIN tokens, ~Usable(t),
           now' >= now, DOMAIN tokens \subseteq DOMAIN tokens',
           \A x \in DOMAIN tokens : tokens'[x].new = tokens[x].new,
           \A x \in DOMAIN tokens : tokens[x].revoked => tokens'[x].revoked
    PROVE  ~Usable(t)'
<1>1. tokens[t.row].new.born \in Nat /\ now \in Nat /\ now' \in Nat
  BY DEF TypeOK, IsMap, TokenRow, NewRow
<1> QED
  BY <1>1, TtlAssumption DEF Usable, Unrevoked, RefreshFresh

\* Every step but the four of /revoke leaves the tokens being revoked as far as
\* they were.
LEMMA StillRevoking ==
    ASSUME TypeOK, TypeOK', Revoking, UNCHANGED acked,
           now' >= now, DOMAIN tokens \subseteq DOMAIN tokens',
           \A x \in DOMAIN tokens : tokens'[x].new = tokens[x].new,
           \A x \in DOMAIN tokens : tokens[x].revoked => tokens'[x].revoked,
           \A q \in Reqs :
              req'[q].pc \in {"revokingAccess", "findingRefresh", "revokingRefresh", "acking"}
                 => req'[q] = req[q]
    PROVE  Revoking'
<1>1. \A t \in Token : t.row \in DOMAIN tokens /\ ~Usable(t) => ~Usable(t)'
  BY DeadStaysDead
<1>2. acked \subseteq Token
  BY DEF TypeOK
<1>3. \A q \in Reqs : req[q].pc = "acking" => req[q].token \in Token
  BY DEF TypeOK, Job, Idle
<1>4. \A t \in acked : t.row \in DOMAIN tokens' /\ ~Usable(t)'
  BY <1>1, <1>2 DEF Revoking
<1>5. ASSUME NEW q \in Reqs, req'[q].pc = "acking" PROVE ~Usable(req[q].token)'
  <2>1. PICK t : t = req[q].token
    OBVIOUS
  <2>2. req'[q] = req[q] /\ t \in Token /\ t.row \in DOMAIN tokens /\ ~Usable(t)
    BY <1>3, <1>5, <2>1 DEF Revoking
  <2>3. ~Usable(t)' /\ t = req'[q].token
    BY <1>1, <2>1, <2>2
  <2> QED
    BY <2>3 DEF Usable, Unrevoked, RefreshFresh
<1> QED
  BY <1>4, <1>5 DEF Revoking

LEMMA NextRevoking ==
    TypeOK /\ TypeOK' /\ Provenance /\ Revoking /\ [Next]_vars => Revoking'
<1> SUFFICES ASSUME TypeOK, TypeOK', Provenance, Revoking, [Next]_vars PROVE Revoking'
  OBVIOUS
<1>0. /\ IsMap(cache, Codes, CacheEntry) /\ IsMap(tokens, Rows, TokenRow)
      /\ req \in [Reqs -> Job] /\ now \in Nat /\ now' \in Nat
  BY DEF TypeOK
<1> DEFINE RevokePcs == {"revokingAccess", "findingRefresh", "revokingRefresh", "acking"}
           Kept == /\ DOMAIN tokens \subseteq DOMAIN tokens'
                   /\ \A x \in DOMAIN tokens : tokens'[x].new = tokens[x].new
                   /\ \A x \in DOMAIN tokens : tokens[x].revoked => tokens'[x].revoked
<1>1. ASSUME NEW p \in Procs, NEW c \in Codes, NEW b \in Binding, IssueCode(p, c, b)
      PROVE  Revoking'
  BY <1>0, <1>1, StillRevoking DEF IssueCode
<1>2. ASSUME NEW q \in Reqs, NEW c \in Codes, NEW g \in CodeRequest, RedeemCode(q, c, g)
      PROVE  Revoking'
  <2>1. \A x \in Reqs : req'[x].pc \in RevokePcs => req'[x] = req[x]
    BY <1>0, <1>2 DEF RedeemCode, Become
  <2> QED
    BY <1>0, <1>2, <2>1, StillRevoking DEF RedeemCode
<1>3. ASSUME NEW q \in Reqs, NEW c \in Codes, NEW g \in CodeRequest, RefuseCode(q, c, g)
      PROVE  Revoking'
  BY <1>0, <1>3, StillRevoking DEF RefuseCode
<1>4. ASSUME NEW q \in Reqs, NEW r \in Rows, NEW client \in Clients,
             FindRefresh(q, r, client)
      PROVE  Revoking'
  <2>1. \A x \in Reqs : req'[x].pc \in RevokePcs => req'[x] = req[x]
    BY <1>0, <1>4 DEF FindRefresh, Become
  <2> QED
    BY <1>0, <1>4, <2>1, StillRevoking DEF FindRefresh
<1>5. ASSUME NEW q \in Reqs, WinRotation(q) PROVE Revoking'
  <2>1. \A x \in Reqs : req'[x].pc \in RevokePcs => req'[x] = req[x]
    BY <1>0, <1>5 DEF WinRotation, Become
  <2>2. Kept
    BY <1>0, <1>5, RevokeTokenMap DEF WinRotation
  <2>3. acked' = acked /\ now' = now
    BY <1>5 DEF WinRotation
  <2> QED
    BY <1>0, <2>1, <2>2, <2>3, StillRevoking
<1>6. ASSUME NEW q \in Reqs, LoseRotation(q) \/ Respond(q) \/ Fail(q) PROVE Revoking'
  <2>1. \A x \in Reqs : req'[x].pc \in RevokePcs => req'[x] = req[x]
    BY <1>0, <1>6 DEF LoseRotation, Respond, Fail, Become, Idle
  <2>2. acked' = acked /\ now' = now /\ tokens' = tokens
    BY <1>6 DEF LoseRotation, Respond, Fail
  <2> QED
    BY <1>0, <2>1, <2>2, StillRevoking
<1>7. ASSUME NEW q \in Reqs, NEW r \in Rows, CreateToken(q, r) PROVE Revoking'
  <2>1. \A x \in Reqs : req'[x].pc \in RevokePcs => req'[x] = req[x]
    BY <1>0, <1>7 DEF CreateToken, Become
  <2>2. Kept
    BY <1>0, <1>7 DEF CreateToken, Put
  <2>3. acked' = acked /\ now' = now
    BY <1>7 DEF CreateToken
  <2> QED
    BY <1>0, <2>1, <2>2, <2>3, StillRevoking
<1>8. ASSUME NEW q \in Reqs, NEW t \in Token, BeginRevoke(q, t) PROVE Revoking'
  <2>1. t.row \in DOMAIN tokens
    BY <1>8 DEF BeginRevoke, Presentable, Provenance, BoundToGrant
  <2>2. req'[q].token = t /\ req'[q].pc \in {"revokingAccess", "findingRefresh"}
        /\ \A x \in Reqs : x # q => req'[x] = req[x]
    BY <1>0, <1>8 DEF BeginRevoke, Become
  <2>3. (req'[q].pc = "findingRefresh" /\ t.kind = "access") => tokens[t.row].revoked
    BY <1>0, <1>8, <2>1, <2>2 DEF BeginRevoke, Become, FoundByAccess, Unrevoked
  <2>4. acked' = acked /\ now' = now /\ tokens' = tokens
    BY <1>8 DEF BeginRevoke
  <2> QED
    BY <2>1, <2>2, <2>3, <2>4 DEF Revoking, Usable, Unrevoked, RefreshFresh
<1>9. ASSUME NEW q \in Reqs, RevokeByAccess(q) \/ RevokeByRefresh(q) PROVE Revoking'
  <2>1. PICK t : t = req[q].token
    OBVIOUS
  <2>2. t \in Token /\ t.row \in DOMAIN tokens
    BY <1>0, <1>9, <2>1 DEF RevokeByAccess, RevokeByRefresh, Revoking, Job, Idle
  <2>3. /\ DOMAIN tokens' = DOMAIN tokens /\ Kept
        /\ tokens'[t.row].revoked
    BY <1>0, <1>9, <2>1, <2>2, RevokeTokenMap DEF RevokeByAccess, RevokeByRefresh
  <2>4. /\ req'[q].token = t /\ req'[q].pc \in {"findingRefresh", "acking"}
        /\ \A x \in Reqs : x # q => req'[x] = req[x]
    BY <1>0, <1>9, <2>1 DEF RevokeByAccess, RevokeByRefresh, Become
  <2>5. acked' = acked /\ now' = now
    BY <1>9 DEF RevokeByAccess, RevokeByRefresh
  <2> QED
    BY <2>1, <2>2, <2>3, <2>4, <2>5, <1>0 DEF Revoking, Usable, Unrevoked, RefreshFresh
<1>10. ASSUME NEW q \in Reqs, FindRefreshToRevoke(q) PROVE Revoking'
  <2>1. PICK t : t = req[q].token
    OBVIOUS
  <2>2. /\ t \in Token /\ t.row \in DOMAIN tokens
        /\ t.kind = "access" => tokens[t.row].revoked
    BY <1>0, <1>10, <2>1 DEF FindRefreshToRevoke, Revoking, Job, Idle
  <2>3. /\ req'[q].token = t
        /\ req'[q].pc = IF FoundByRefresh(t) THEN "revokingRefresh" ELSE "acking"
        /\ \A x \in Reqs : x # q => req'[x] = req[x]
    BY <1>0, <1>10, <2>1 DEF FindRefreshToRevoke, Become
  <2>4. req'[q].pc = "acking" => ~Usable(t)
    BY <2>2, <2>3 DEF FoundByRefresh, Usable, Unrevoked, Token
  <2>5. acked' = acked /\ now' = now /\ tokens' = tokens
    BY <1>10 DEF FindRefreshToRevoke
  <2> QED
    BY <2>1, <2>2, <2>3, <2>4, <2>5 DEF Revoking, Usable, Unrevoked, RefreshFresh
<1>11. ASSUME NEW q \in Reqs, AckRevoke(q) PROVE Revoking'
  <2>1. /\ req'[q] = Idle
        /\ \A x \in Reqs : x # q => req'[x] = req[x]
    BY <1>0, <1>11 DEF AckRevoke, Become
  <2>2. req[q].token.row \in DOMAIN tokens /\ ~Usable(req[q].token)
    BY <1>11 DEF AckRevoke, Revoking
  <2>3. acked' = acked \cup {req[q].token} /\ now' = now /\ tokens' = tokens
    BY <1>11 DEF AckRevoke
  <2> QED
    BY <2>1, <2>2, <2>3 DEF Revoking, Usable, Unrevoked, RefreshFresh, Idle
<1>12. ASSUME NEW p \in Procs, Crash(p) PROVE Revoking'
  <2>1. \A x \in Reqs : req'[x].pc \in RevokePcs => req'[x] = req[x]
    BY <1>12 DEF Crash, Idle
  <2>2. acked' = acked /\ now' = now /\ tokens' = tokens
    BY <1>12 DEF Crash
  <2> QED
    BY <1>0, <2>1, <2>2, StillRevoking
<1>13. CASE Tick
  BY <1>0, <1>13, StillRevoking DEF Tick
<1>14. CASE UNCHANGED vars
  BY <1>0, <1>14, StillRevoking DEF vars
<1> QED
  BY <1>1, <1>2, <1>3, <1>4, <1>5, <1>6, <1>7, <1>8, <1>9, <1>10, <1>11, <1>12,
     <1>13, <1>14 DEF Next, Receive, Proceed

\* A token for which /revoke answered 200 is dead from then on.
THEOREM AckedRevocationHoldsAlways == Spec => []AckedRevocationHolds
<1>1. TypeOK /\ Provenance /\ Revoking /\ [Next]_vars
         => TypeOK' /\ Provenance' /\ Revoking'
  BY NextTypeOK, NextProvenance, NextRevoking
<1>2. Revoking => AckedRevocationHolds
  BY DEF Revoking, AckedRevocationHolds
<1> QED
  BY <1>1, <1>2, InitTypeOK, InitProvenance, InitRevoking, PTL DEF Spec

-----------------------------------------------------------------------------
(* Why a grant ended.                                                      *)

\* A step that adds no row keeps the reasons if it revokes only what was asked for
\* or is being replaced, and records the rotations and revocations it breaks off.
LEMMA KeepsReason ==
    ASSUME GrantsEndForAReason,
           DOMAIN tokens' = DOMAIN tokens,
           \A r \in DOMAIN tokens : tokens'[r].new = tokens[r].new,
           \A r \in DOMAIN tokens : tokens'[r].revoked =>
              tokens[r].revoked \/ AskedFor(r)' \/ Offspring(<<"row", r>>)' # {},
           brokenOff \subseteq brokenOff', acked \subseteq acked',
           \A x \in Reqs : req[x].pc = "minting" =>
              req'[x] = req[x] \/ Origin(req[x].new) \in brokenOff',
           \A r \in DOMAIN tokens, x \in Reqs :
              (/\ req[x].pc \in {"findingRefresh", "acking"} /\ req[x].token.row = r
               /\ tokens[r].revoked)
                 => AskedFor(r)' \/ <<"row", r>> \in brokenOff'
    PROVE  GrantsEndForAReason'
<1> SUFFICES ASSUME NEW r \in DOMAIN tokens', tokens'[r].revoked,
                    Offspring(<<"row", r>>)' = {}
             PROVE  AskedFor(r)' \/ <<"row", r>> \in brokenOff'
  BY DEF GrantsEndForAReason
<1>1. CASE ~tokens[r].revoked
  BY <1>1
<1>2. CASE tokens[r].revoked /\ Offspring(<<"row", r>>) = {}
  <2>1. AskedFor(r) \/ <<"row", r>> \in brokenOff
    BY <1>2 DEF GrantsEndForAReason
  <2>2. ASSUME NEW t \in acked, t.row = r PROVE AskedFor(r)'
    BY <2>2 DEF AskedFor
  <2>3. ASSUME NEW q \in Reqs, req[q].pc \in {"findingRefresh", "acking"}, req[q].token.row = r
        PROVE  AskedFor(r)' \/ <<"row", r>> \in brokenOff'
    BY <1>2, <2>3
  <2> QED
    BY <2>1, <2>2, <2>3 DEF AskedFor
<1>3. CASE Offspring(<<"row", r>>) # {}
  <2>1. MadeRows(<<"row", r>>)' = MadeRows(<<"row", r>>)
    BY KeepsRows
  <2>2. MadeRows(<<"row", r>>) = {} /\ MadeReqs(<<"row", r>>)' = {}
    BY <2>1 DEF Offspring
  <2>3. PICK q \in Reqs : req[q].pc = "minting" /\ Origin(req[q].new) = <<"row", r>>
    BY <1>3, <2>2 DEF Offspring, MadeReqs
  <2>4. req'[q] # req[q]
    BY <2>2, <2>3 DEF MadeReqs, Origin
  <2> QED
    BY <2>3, <2>4
<1> QED
  BY <1>1, <1>2, <1>3

LEMMA InitReason == Init => GrantsEndForAReason
BY DEF Init, GrantsEndForAReason

LEMMA NextReason == TypeOK /\ GrantsEndForAReason /\ [Next]_vars => GrantsEndForAReason'
<1> SUFFICES ASSUME TypeOK, GrantsEndForAReason, [Next]_vars PROVE GrantsEndForAReason'
  OBVIOUS
<1>0. /\ IsMap(tokens, Rows, TokenRow) /\ req \in [Reqs -> Job]
  BY DEF TypeOK
<1>1. ASSUME NEW p \in Procs, NEW c \in Codes, NEW b \in Binding, IssueCode(p, c, b)
      PROVE  GrantsEndForAReason'
  <2>1. UNCHANGED <<tokens, req, acked, brokenOff>>
    BY <1>1 DEF IssueCode
  <2> QED
    BY <2>1, KeepsReason DEF AskedFor
<1>2. ASSUME NEW q \in Reqs, req[q] = Idle, UNCHANGED <<tokens, acked, brokenOff>>,
             \A x \in Reqs : x # q => req'[x] = req[x]
      PROVE  GrantsEndForAReason'
  <2>1. \A x \in Reqs : req[x].pc \in {"minting", "findingRefresh", "acking"} => req'[x] = req[x]
    BY <1>2 DEF Idle
  <2>2. \A r \in DOMAIN tokens, x \in Reqs :
           (req[x].pc \in {"findingRefresh", "acking"} /\ req[x].token.row = r) => AskedFor(r)'
    BY <2>1 DEF AskedFor
  <2> QED
    BY <1>2, <2>1, <2>2, KeepsReason
<1>3. ASSUME NEW q \in Reqs, NEW c \in Codes, NEW g \in CodeRequest,
             RedeemCode(q, c, g) \/ RefuseCode(q, c, g)
      PROVE  GrantsEndForAReason'
  BY <1>0, <1>2, <1>3 DEF RedeemCode, RefuseCode, Become
<1>4. ASSUME NEW q \in Reqs, NEW r \in Rows, NEW client \in Clients, FindRefresh(q, r, client)
      PROVE  GrantsEndForAReason'
  BY <1>0, <1>2, <1>4 DEF FindRefresh, Become
<1>5. ASSUME NEW q \in Reqs, NEW t \in Token, BeginRevoke(q, t) PROVE GrantsEndForAReason'
  BY <1>0, <1>2, <1>5 DEF BeginRevoke, Become
<1>6. ASSUME NEW q \in Reqs, WinRotation(q) PROVE GrantsEndForAReason'
  <2>1. PICK r : r = req[q].row
    OBVIOUS
  <2>2. r \in DOMAIN tokens /\ tokens[r] \in TokenRow /\ r \in Rows
    BY <1>6, <1>0, <2>1 DEF WinRotation, Unrevoked, IsMap
  <2>3. /\ DOMAIN tokens' = DOMAIN tokens
        /\ \A x \in DOMAIN tokens : tokens'[x].new = tokens[x].new
        /\ \A x \in DOMAIN tokens : tokens'[x].revoked <=> (tokens[x].revoked \/ x = r)
    BY <1>6, <1>0, <2>1, RevokeTokenMap DEF WinRotation
  <2>4. /\ req[q].pc = "rotating" /\ req'[q].pc = "minting"
        /\ Origin(req'[q].new) = <<"row", r>>
        /\ \A x \in Reqs : x # q => req'[x] = req[x]
        /\ acked' = acked /\ brokenOff' = brokenOff
    BY <1>6, <1>0, <2>1, <2>2, NoneAssumption
    DEF WinRotation, Become, TokenRow, NewRow, Origin
  <2>5. Offspring(<<"row", r>>)' # {}
    <3>1. q \in MadeReqs(<<"row", r>>)'
      BY <2>4 DEF MadeReqs, Origin
    <3> QED
      BY <3>1 DEF Offspring
  <2>6. \A x \in Reqs : req[x].pc \in {"minting", "findingRefresh", "acking"} => req'[x] = req[x]
    BY <2>4
  <2>7. \A y \in DOMAIN tokens, x \in Reqs :
           (req[x].pc \in {"findingRefresh", "acking"} /\ req[x].token.row = y) => AskedFor(y)'
    BY <2>6 DEF AskedFor
  <2>8. \A y \in DOMAIN tokens : tokens'[y].revoked =>
           tokens[y].revoked \/ AskedFor(y)' \/ Offspring(<<"row", y>>)' # {}
    BY <2>3, <2>5
  <2> QED
    BY <2>3, <2>4, <2>6, <2>7, <2>8, KeepsReason
<1>7. ASSUME NEW q \in Reqs, LoseRotation(q) \/ Respond(q) PROVE GrantsEndForAReason'
  <2>1. /\ req[q].pc \in {"rotating", "replying"}
        /\ \A x \in Reqs : x # q => req'[x] = req[x]
        /\ UNCHANGED <<tokens, acked, brokenOff>>
    BY <1>0, <1>7 DEF LoseRotation, Respond, Become
  <2>2. \A x \in Reqs : req[x].pc \in {"minting", "findingRefresh", "acking"} => req'[x] = req[x]
    BY <2>1
  <2>3. \A r \in DOMAIN tokens, x \in Reqs :
           (req[x].pc \in {"findingRefresh", "acking"} /\ req[x].token.row = r) => AskedFor(r)'
    BY <2>2 DEF AskedFor
  <2> QED
    BY <2>1, <2>2, <2>3, KeepsReason
<1>8. ASSUME NEW q \in Reqs, NEW r \in Rows, CreateToken(q, r) PROVE GrantsEndForAReason'
  <2>1. /\ DOMAIN tokens' = DOMAIN tokens \cup {r} /\ r \notin DOMAIN tokens
        /\ tokens'[r] = [new |-> req[q].new, revoked |-> FALSE]
        /\ \A x \in DOMAIN tokens : tokens'[x] = tokens[x]
    BY <1>8 DEF CreateToken, Put
  <2>2. /\ req[q].pc = "minting" /\ req'[q].pc = "replying"
        /\ \A x \in Reqs : x # q => req'[x] = req[x]
        /\ acked' = acked /\ brokenOff' = brokenOff
    BY <1>8, <1>0 DEF CreateToken, Become
  <2> SUFFICES ASSUME NEW y \in DOMAIN tokens', tokens'[y].revoked,
                      Offspring(<<"row", y>>)' = {}
               PROVE  AskedFor(y)' \/ <<"row", y>> \in brokenOff'
    BY DEF GrantsEndForAReason
  <2>3. y \in DOMAIN tokens /\ tokens[y].revoked
    BY <2>1
  <2>4. Offspring(<<"row", y>>) = {}
    <3>1. MadeRows(<<"row", y>>)' = {} /\ MadeReqs(<<"row", y>>)' = {}
      BY DEF Offspring
    <3>2. MadeRows(<<"row", y>>) = {} /\ Origin(req[q].new) # <<"row", y>>
      BY <2>1, <3>1 DEF MadeRows, Origin
    <3>3. MadeReqs(<<"row", y>>) = {}
      BY <2>2, <3>1, <3>2 DEF MadeReqs, Origin
    <3> QED
      BY <3>2, <3>3 DEF Offspring
  <2>5. AskedFor(y) \/ <<"row", y>> \in brokenOff
    BY <2>3, <2>4 DEF GrantsEndForAReason
  <2>6. AskedFor(y) => AskedFor(y)'
    BY <2>2 DEF AskedFor
  <2> QED
    BY <2>2, <2>5, <2>6
<1>9. ASSUME NEW q \in Reqs, RevokeByAccess(q) \/ RevokeByRefresh(q)
      PROVE  GrantsEndForAReason'
  <2>1. PICK t : t = req[q].token
    OBVIOUS
  <2>2. /\ DOMAIN tokens' = DOMAIN tokens
        /\ \A x \in DOMAIN tokens : tokens'[x].new = tokens[x].new
        /\ \A x \in DOMAIN tokens : tokens'[x].revoked <=> (tokens[x].revoked \/ x = t.row)
    BY <1>0, <1>9, <2>1, RevokeTokenMap DEF RevokeByAccess, RevokeByRefresh
  <2>3. /\ req[q].pc \in {"revokingAccess", "revokingRefresh"}
        /\ req'[q].token = t /\ req'[q].pc \in {"findingRefresh", "acking"}
        /\ \A x \in Reqs : x # q => req'[x] = req[x]
        /\ acked' = acked /\ brokenOff' = brokenOff
    BY <1>0, <1>9, <2>1 DEF RevokeByAccess, RevokeByRefresh, Become
  <2>4. AskedFor(t.row)'
    <3>1. PICK y : y = t.row
      OBVIOUS
    <3>2. AskedFor(y)'
      BY <2>3, <3>1 DEF AskedFor
    <3> QED
      BY <2>3, <3>1, <3>2 DEF AskedFor
  <2>5. \A y \in DOMAIN tokens : tokens'[y].revoked => tokens[y].revoked \/ AskedFor(y)'
    BY <2>2, <2>3 DEF AskedFor
  <2>6. \A x \in Reqs : req[x].pc \in {"minting", "findingRefresh", "acking"} => req'[x] = req[x]
    BY <2>3
  <2>7. \A y \in DOMAIN tokens, x \in Reqs :
           (req[x].pc \in {"findingRefresh", "acking"} /\ req[x].token.row = y) => AskedFor(y)'
    BY <2>6 DEF AskedFor
  <2> QED
    BY <2>2, <2>3, <2>5, <2>6, <2>7, KeepsReason
<1>10. ASSUME NEW q \in Reqs, FindRefreshToRevoke(q) PROVE GrantsEndForAReason'
  <2>1. /\ req[q].pc = "findingRefresh" /\ req'[q].token = req[q].token
        /\ req'[q].pc = IF FoundByRefresh(req[q].token) THEN "revokingRefresh" ELSE "acking"
        /\ \A x \in Reqs : x # q => req'[x] = req[x]
        /\ UNCHANGED <<tokens, acked, brokenOff>>
    BY <1>0, <1>10 DEF FindRefreshToRevoke, Become
  <2>2. ASSUME NEW r \in DOMAIN tokens, NEW x \in Reqs, tokens[r].revoked,
               req[x].pc \in {"findingRefresh", "acking"}, req[x].token.row = r
        PROVE  AskedFor(r)'
    <3>1. CASE x = q
      <4>1. ~FoundByRefresh(req[q].token)
        BY <2>2, <3>1 DEF FoundByRefresh, Unrevoked
      <4> QED
        BY <2>1, <2>2, <3>1, <4>1 DEF AskedFor
    <3>2. CASE x # q
      BY <2>1, <2>2, <3>2 DEF AskedFor
    <3> QED
      BY <3>1, <3>2
  <2>3. \A x \in Reqs : req[x].pc = "minting" => req'[x] = req[x]
    BY <2>1
  <2> QED
    BY <2>1, <2>2, <2>3, KeepsReason
<1>11. ASSUME NEW q \in Reqs, AckRevoke(q) PROVE GrantsEndForAReason'
  <2>1. /\ req[q].pc = "acking" /\ acked' = acked \cup {req[q].token}
        /\ \A x \in Reqs : x # q => req'[x] = req[x]
        /\ UNCHANGED <<tokens, brokenOff>>
    BY <1>0, <1>11 DEF AckRevoke, Become
  <2>2. ASSUME NEW r \in DOMAIN tokens, NEW x \in Reqs,
               req[x].pc \in {"findingRefresh", "acking"}, req[x].token.row = r
        PROVE  AskedFor(r)'
    <3>1. CASE x = q
      BY <2>1, <2>2, <3>1 DEF AskedFor
    <3>2. CASE x # q
      BY <2>1, <2>2, <3>2 DEF AskedFor
    <3> QED
      BY <3>1, <3>2
  <2>3. \A x \in Reqs : req[x].pc = "minting" => req'[x] = req[x]
    BY <2>1
  <2> QED
    BY <2>1, <2>2, <2>3, KeepsReason
<1>12. ASSUME NEW S \in SUBSET Reqs, \A x \in Reqs \ S : req'[x] = req[x],
              UNCHANGED <<tokens, acked>>, brokenOff \subseteq brokenOff',
              \A x \in S : Unfinished(x) \subseteq brokenOff'
       PROVE  GrantsEndForAReason'
  <2>1. ASSUME NEW x \in Reqs, req[x].pc = "minting"
        PROVE  req'[x] = req[x] \/ Origin(req[x].new) \in brokenOff'
    <3>1. req[x].new \in NewRow
      BY <1>0, <2>1 DEF Job, Idle
    <3>2. Origin(req[x].new) \in Unfinished(x)
      BY <2>1, <3>1 DEF Unfinished, Origin, NewRow
    <3> QED
      BY <1>12, <3>2
  <2>2. ASSUME NEW r \in DOMAIN tokens, NEW x \in Reqs, tokens[r].revoked,
               req[x].pc \in {"findingRefresh", "acking"}, req[x].token.row = r
        PROVE  AskedFor(r)' \/ <<"row", r>> \in brokenOff'
    <3>1. CASE x \in S
      <4>1. r \in Rows /\ ~Unrevoked(r)
        BY <1>0, <2>2 DEF IsMap, Unrevoked
      <4>2. <<"row", r>> \in Unfinished(x)
        BY <2>2, <4>1 DEF Unfinished
      <4> QED
        BY <1>12, <3>1, <4>2
    <3>2. CASE x \notin S
      BY <1>12, <2>2, <3>2 DEF AskedFor
    <3> QED
      BY <3>1, <3>2
  <2> QED
    BY <1>12, <2>1, <2>2, KeepsReason
<1>13. ASSUME NEW q \in Reqs, Fail(q) PROVE GrantsEndForAReason'
  <2>1. /\ \A x \in Reqs \ {q} : req'[x] = req[x]
        /\ brokenOff' = brokenOff \cup Unfinished(q)
        /\ UNCHANGED <<tokens, acked>>
    BY <1>0, <1>13 DEF Fail, Become
  <2>2. {q} \in SUBSET Reqs /\ \A x \in {q} : Unfinished(x) \subseteq brokenOff'
    BY <2>1
  <2>3. brokenOff \subseteq brokenOff'
    BY <2>1
  <2> QED
    BY <1>12, <2>1, <2>2, <2>3
<1>14. ASSUME NEW p \in Procs, Crash(p) PROVE GrantsEndForAReason'
  <2> DEFINE S == {x \in Reqs : Host[x] = p}
  <2>1. /\ \A x \in Reqs \ S : req'[x] = req[x]
        /\ brokenOff' = brokenOff \cup UNION {Unfinished(q) : q \in S}
        /\ UNCHANGED <<tokens, acked>>
    BY <1>14 DEF Crash
  <2>2. \A x \in S : Unfinished(x) \subseteq brokenOff'
    BY <2>1
  <2> QED
    BY <1>12, <2>1, <2>2
<1>15. CASE Tick \/ UNCHANGED vars
  <2>1. UNCHANGED <<tokens, req, acked, brokenOff>>
    BY <1>15 DEF Tick, vars
  <2> QED
    BY <2>1, KeepsReason DEF AskedFor
<1> QED
  BY <1>1, <1>3, <1>4, <1>5, <1>6, <1>7, <1>8, <1>9, <1>10, <1>11, <1>13, <1>14, <1>15
  DEF Next, Receive, Proceed

\* A grant never just disappears: its last row was revoked because somebody asked,
\* or a failure broke off its rotation or revocation.
THEOREM GrantsEndForAReasonHolds == Spec => []GrantsEndForAReason
<1>1. TypeOK /\ GrantsEndForAReason /\ [Next]_vars => TypeOK' /\ GrantsEndForAReason'
  BY NextTypeOK, NextReason
<1> QED
  BY <1>1, InitTypeOK, InitReason, PTL DEF Spec
=============================================================================

------------------------------- MODULE Grants -------------------------------
(***************************************************************************)
(* The life of a grant in packages/shopify-mcp-oauth: an authorization     *)
(* code is issued into the CacheStore, redeemed once at /token for a row   *)
(* of the token table, rotated at /token by refresh, and killed at         *)
(* /revoke.  Several requests run concurrently on one or more Node         *)
(* processes; between two steps of a request, every other request may run, *)
(* because each step below ends at an `await` of the source.               *)
(*                                                                         *)
(* A row of the table stands for the bundle (access token, refresh token)  *)
(* whose two hashes it stores: the token [kind |-> k, row |-> r] is the    *)
(* random string whose SHA-256 is in row r, and a client can present it    *)
(* only after the bundle of r reached somebody (`held`).                   *)
(***************************************************************************)
EXTENDS Integers, FiniteSets

CONSTANTS
    Codes,          \* authorization codes (random, hence never reissued)
    Rows,           \* ids of token rows (random, hence never reissued)
    Reqs,           \* slots for requests being served
    Procs,          \* Node processes of the deployment
    Host,           \* the process that serves a request
    Clients, RedirectUris, Verifiers, ShopIds,
    CodeTtl,        \* CODE_TTL_SECONDS
    RefreshTtl,     \* tokenTtl.refresh
    MaxTime,        \* bound: the clock stops here
    SharedCache,    \* TRUE: redisCache; FALSE: one memoryCache per process
    Unreliable,     \* processes that may crash, and whose calls may reject
    None            \* JavaScript's null

ASSUME HostAssumption == Host \in [Reqs -> Procs]
ASSUME TtlAssumption ==
    CodeTtl \in Nat /\ CodeTtl > 0 /\ RefreshTtl \in Nat /\ MaxTime \in Nat
ASSUME FaultAssumption == SharedCache \in BOOLEAN /\ Unreliable \subseteq Procs
ASSUME NoneAssumption == None \notin Rows

VARIABLES
    now,        \* Date.now()
    cache,      \* live and expired code entries: code -> CacheEntry
    tokens,     \* the token table: row id -> TokenRow
    req,        \* what each request slot is doing
    held,       \* bundles delivered by a 200 of /token, with who asked for them
    auth,       \* history: what each issued code was bound to
    acked,      \* history: tokens for which /revoke answered 200
    guesses,    \* history: how often the record of a code was retrieved
    brokenOff   \* history: what requests that failed were exchanging or revoking

vars == <<now, cache, tokens, req, held, auth, acked, guesses, brokenOff>>

-----------------------------------------------------------------------------
(* Data.                                                                   *)

S256(verifier) == <<"S256", verifier>>
VerifyS256(verifier, challenge) == S256(verifier) = challenge

Binding == [client : Clients, redirectUri : RedirectUris,
            challenge : {S256(v) : v \in Verifiers}, method : {"S256"},
            shopId : ShopIds]

CacheEntry == [record : Binding, expires : Nat, home : Procs]

\* The body of an authorization_code request to /token.
CodeRequest == [client : Clients, redirectUri : RedirectUris, verifier : Verifiers]

\* What issueTokens is given, with the instant it read and the code the row
\* descends from (`grant`, which the code does not store).
NewRow == [client : Clients, shopId : ShopIds, from : Rows \cup {None},
           born : Nat, grant : Codes]

TokenRow == [new : NewRow, revoked : BOOLEAN]

Token == [kind : {"access", "refresh"}, row : Rows]

Delivery == [row : Rows, asker : Clients]

Idle == [pc |-> "idle"]

\* A request is named by the `await` it is suspended at.
Job ==    {Idle}
     \cup [pc : {"rotating"}, row : Rows, asker : Clients]
     \cup [pc : {"minting"}, new : NewRow, asker : Clients]
     \cup [pc : {"replying"}, row : Rows, asker : Clients]
     \cup [pc : {"revokingAccess", "findingRefresh", "revokingRefresh", "acking"},
           token : Token]

-----------------------------------------------------------------------------
(* The CacheStore and the OAuthStorage.                                    *)

Put(f, k, v) == [x \in DOMAIN f \cup {k} |-> IF x = k THEN v ELSE f[x]]
Drop(f, S) == [x \in DOMAIN f \ S |-> f[x]]

\* The store process p talks to has an entry for code c, expired or not.
InStore(p, c) == c \in DOMAIN cache /\ (SharedCache \/ cache[c].home = p)

\* get/getdel answer the value: the entry is there and not expired.
Visible(p, c) == InStore(p, c) /\ cache[c].expires > now

\* Fault: get, and a del that is forgotten.
AfterGetdel_GetOnly(p, c) == cache

\* What the store is left with by getdel.
AfterGetdel(p, c) == IF InStore(p, c) THEN Drop(cache, {c}) ELSE cache

Unrevoked(r) == r \in DOMAIN tokens /\ ~tokens[r].revoked
RefreshFresh(r) == tokens[r].new.born + RefreshTtl > now

\* findTokenByAccessHashIgnoringExpiry and findTokenByRefreshHash.
FoundByAccess(t) == t.kind = "access" /\ Unrevoked(t.row)
FoundByRefresh(t) == t.kind = "refresh" /\ Unrevoked(t.row) /\ RefreshFresh(t.row)

\* revokeToken: a conditional update, so a row is flipped at most once.
RevokeToken(r) == IF Unrevoked(r) THEN [tokens EXCEPT ![r].revoked = TRUE] ELSE tokens

\* What a row is made from: the code, or the row that is rotated.
Origin(new) == IF new.from = None THEN <<"code", new.grant>> ELSE <<"row", new.from>>

\* What a request has spent without having finished what it spent it for.
Unfinished(q) ==
    {o \in {<<"code", c>> : c \in Codes} \cup {<<"row", r>> : r \in Rows} :
        \/ req[q].pc = "minting" /\ o = Origin(req[q].new)
        \/ /\ req[q].pc \in {"findingRefresh", "acking"}
           /\ o = <<"row", req[q].token.row>>
           /\ ~Unrevoked(req[q].token.row)}

Become(q, job) == req' = [req EXCEPT ![q] = job]

\* A token string is known to whoever received a bundle, and to anyone it was
\* passed on to.
Presentable(r) == \E d \in held : d.row = r

\* Bound: requests that may need a row are admitted while ids are left.
Room == Cardinality(DOMAIN tokens)
           + Cardinality({q \in Reqs : req[q].pc \in {"rotating", "minting"}})
        < Cardinality(Rows)

-----------------------------------------------------------------------------
Init ==
    /\ now = 0
    /\ cache = [c \in {} |-> None]
    /\ tokens = [r \in {} |-> None]
    /\ req = [q \in Reqs |-> Idle]
    /\ held = {}
    /\ auth = [c \in {} |-> None]
    /\ acked = {}
    /\ guesses = [c \in Codes |-> 0]
    /\ brokenOff = {}

\* Fault: the ttl is counted backwards.
IssueCode_Expired(p, c, b) ==
    /\ c \notin DOMAIN auth
    /\ cache' = Put(cache, c, [record |-> b, expires |-> now - CodeTtl, home |-> p])
    /\ auth' = Put(auth, c, b)
    /\ UNCHANGED <<now, tokens, req, held, acked, guesses, brokenOff>>

\* issueCode, at the end of a Shopify callback served by process p.
IssueCode(p, c, b) ==
    /\ c \notin DOMAIN auth
    /\ cache' = Put(cache, c, [record |-> b, expires |-> now + CodeTtl, home |-> p])
    /\ auth' = Put(auth, c, b)
    /\ UNCHANGED <<now, tokens, req, held, acked, guesses, brokenOff>>

\* The checks of handleAuthorizationCode, in its order.
Accepts(record, g) ==
    /\ record.client = g.client
    /\ record.redirectUri = g.redirectUri
    /\ record.method = "S256"
    /\ VerifyS256(g.verifier, record.challenge)

\* consumeCode finds the record and the request passes every check: the
\* request goes on to issueTokens.
RedeemCode(q, c, g) ==
    /\ req[q] = Idle
    /\ Room
    /\ Visible(Host[q], c)
    /\ Accepts(cache[c].record, g)
    /\ cache' = AfterGetdel(Host[q], c)
    /\ guesses' = [guesses EXCEPT ![c] = @ + 1]
    /\ Become(q, [pc |-> "minting", asker |-> g.client,
                  new |-> [client |-> cache[c].record.client,
                           shopId |-> cache[c].record.shopId,
                           from |-> None, born |-> now, grant |-> c]])
    /\ UNCHANGED <<now, tokens, held, auth, acked, brokenOff>>

\* Fault: the checks run on the record before it is consumed.
RefuseCode_Keeps(q, c, g) ==
    /\ req[q] = Idle
    /\ Visible(Host[q], c) => ~Accepts(cache[c].record, g)
    /\ guesses' = IF Visible(Host[q], c) THEN [guesses EXCEPT ![c] = @ + 1] ELSE guesses
    /\ UNCHANGED <<now, cache, tokens, req, held, auth, acked, brokenOff>>

\* consumeCode finds no record, or a check fails: 400, and the code is gone.
RefuseCode(q, c, g) ==
    /\ req[q] = Idle
    /\ Visible(Host[q], c) => ~Accepts(cache[c].record, g)
    /\ cache' = AfterGetdel(Host[q], c)
    /\ guesses' = IF Visible(Host[q], c) THEN [guesses EXCEPT ![c] = @ + 1] ELSE guesses
    /\ UNCHANGED <<now, tokens, req, held, auth, acked, brokenOff>>

\* Fault: a refresh token is accepted from any client.
FindRefresh_AnyClient(q, r, client) ==
    /\ req[q] = Idle
    /\ Room
    /\ Presentable(r)
    /\ FoundByRefresh([kind |-> "refresh", row |-> r])
    /\ Become(q, [pc |-> "rotating", row |-> r, asker |-> client])
    /\ UNCHANGED <<now, cache, tokens, held, auth, acked, guesses, brokenOff>>

\* rotateRefresh up to its revokeToken call.  A refresh refused here (unknown,
\* revoked, expired, or another client's) answers 400 and changes nothing.
FindRefresh(q, r, client) ==
    /\ req[q] = Idle
    /\ Room
    /\ Presentable(r)
    /\ FoundByRefresh([kind |-> "refresh", row |-> r])
    /\ tokens[r].new.client = client
    /\ Become(q, [pc |-> "rotating", row |-> r, asker |-> client])
    /\ UNCHANGED <<now, cache, tokens, held, auth, acked, guesses, brokenOff>>

\* Fault: the result of revokeToken is ignored.
WinRotation_Always(q) ==
    /\ req[q].pc = "rotating"
    /\ tokens' = RevokeToken(req[q].row)
    /\ Become(q, [pc |-> "minting", asker |-> req[q].asker,
                  new |-> [tokens[req[q].row].new EXCEPT !.from = req[q].row,
                                                         !.born = now]])
    /\ UNCHANGED <<now, cache, held, auth, acked, guesses, brokenOff>>

\* revokeToken flipped the row: this request mints the successor, from the row
\* it read in FindRefresh (whose fields other than `revoked` never change).
WinRotation(q) ==
    /\ req[q].pc = "rotating"
    /\ Unrevoked(req[q].row)
    /\ tokens' = RevokeToken(req[q].row)
    /\ Become(q, [pc |-> "minting", asker |-> req[q].asker,
                  new |-> [tokens[req[q].row].new EXCEPT !.from = req[q].row,
                                                         !.born = now]])
    /\ UNCHANGED <<now, cache, held, auth, acked, guesses, brokenOff>>

\* Fault: a loser takes its token for stolen and revokes what it was rotated to.
LoseRotation_RevokesSuccessor(q) ==
    /\ req[q].pc = "rotating"
    /\ ~Unrevoked(req[q].row)
    /\ tokens' = [r \in DOMAIN tokens |->
                    [tokens[r] EXCEPT !.revoked = @ \/ tokens[r].new.from = req[q].row]]
    /\ Become(q, Idle)
    /\ UNCHANGED <<now, cache, held, auth, acked, guesses, brokenOff>>

\* Somebody else flipped it first: 400.
LoseRotation(q) ==
    /\ req[q].pc = "rotating"
    /\ ~Unrevoked(req[q].row)
    /\ Become(q, Idle)
    /\ UNCHANGED <<now, cache, tokens, held, auth, acked, guesses, brokenOff>>

\* Fault: rotatedFromId is not passed on.
CreateToken_Unlinked(q, r) ==
    /\ req[q].pc = "minting"
    /\ r \notin DOMAIN tokens
    /\ tokens' = Put(tokens, r, [new |-> [req[q].new EXCEPT !.from = None], revoked |-> FALSE])
    /\ Become(q, [pc |-> "replying", row |-> r, asker |-> req[q].asker])
    /\ UNCHANGED <<now, cache, held, auth, acked, guesses, brokenOff>>

\* createToken.
CreateToken(q, r) ==
    /\ req[q].pc = "minting"
    /\ r \notin DOMAIN tokens
    /\ tokens' = Put(tokens, r, [new |-> req[q].new, revoked |-> FALSE])
    /\ Become(q, [pc |-> "replying", row |-> r, asker |-> req[q].asker])
    /\ UNCHANGED <<now, cache, held, auth, acked, guesses, brokenOff>>

\* res.status(200).json(serializeTokenBundle(tokens)).
Respond(q) ==
    /\ req[q].pc = "replying"
    /\ held' = held \cup {[row |-> req[q].row, asker |-> req[q].asker]}
    /\ Become(q, Idle)
    /\ UNCHANGED <<now, cache, tokens, auth, acked, guesses, brokenOff>>

\* Fault: token_type_hint=refresh_token skips the access lookup.
BeginRevoke_TrustsHint(q, t) ==
    /\ req[q] = Idle
    /\ Presentable(t.row)
    /\ \E pc \in {"revokingAccess", "findingRefresh"} :
          /\ pc = "revokingAccess" => FoundByAccess(t)
          /\ Become(q, [pc |-> pc, token |-> t])
    /\ UNCHANGED <<now, cache, tokens, held, auth, acked, guesses, brokenOff>>

\* revokeController: both lookups always run, whatever token_type_hint says.
BeginRevoke(q, t) ==
    /\ req[q] = Idle
    /\ Presentable(t.row)
    /\ Become(q, [pc |-> IF FoundByAccess(t) THEN "revokingAccess" ELSE "findingRefresh",
                  token |-> t])
    /\ UNCHANGED <<now, cache, tokens, held, auth, acked, guesses, brokenOff>>

RevokeByAccess(q) ==
    /\ req[q].pc = "revokingAccess"
    /\ tokens' = RevokeToken(req[q].token.row)
    /\ Become(q, [pc |-> "findingRefresh", token |-> req[q].token])
    /\ UNCHANGED <<now, cache, held, auth, acked, guesses, brokenOff>>

FindRefreshToRevoke(q) ==
    /\ req[q].pc = "findingRefresh"
    /\ Become(q, [pc |-> IF FoundByRefresh(req[q].token) THEN "revokingRefresh" ELSE "acking",
                  token |-> req[q].token])
    /\ UNCHANGED <<now, cache, tokens, held, auth, acked, guesses, brokenOff>>

RevokeByRefresh(q) ==
    /\ req[q].pc = "revokingRefresh"
    /\ tokens' = RevokeToken(req[q].token.row)
    /\ Become(q, [pc |-> "acking", token |-> req[q].token])
    /\ UNCHANGED <<now, cache, held, auth, acked, guesses, brokenOff>>

AckRevoke(q) ==
    /\ req[q].pc = "acking"
    /\ acked' = acked \cup {req[q].token}
    /\ Become(q, Idle)
    /\ UNCHANGED <<now, cache, tokens, held, auth, guesses, brokenOff>>

\* Fault: a refresh token whose rotation fails is put back.
Fail_RestoresRow(q) ==
    /\ Host[q] \in Unreliable
    /\ req[q] # Idle
    /\ brokenOff' = brokenOff \cup Unfinished(q)
    /\ tokens' = [r \in DOMAIN tokens |->
                    [tokens[r] EXCEPT !.revoked = @ /\ ~(/\ req[q].pc = "replying"
                                                        /\ tokens[req[q].row].new.from = r)]]
    /\ Become(q, Idle)
    /\ UNCHANGED <<now, cache, held, auth, acked, guesses>>

\* An awaited call rejects, whether or not its effect was applied: asyncHandler
\* turns it into the 500 of errorHandler and the request is over.
Fail(q) ==
    /\ Host[q] \in Unreliable
    /\ req[q] # Idle
    /\ brokenOff' = brokenOff \cup Unfinished(q)
    /\ Become(q, Idle)
    /\ UNCHANGED <<now, cache, tokens, held, auth, acked, guesses>>

\* Process p dies and is restarted: its requests get no answer, and a
\* memoryCache starts empty.
Crash(p) ==
    /\ p \in Unreliable
    /\ req' = [q \in Reqs |-> IF Host[q] = p THEN Idle ELSE req[q]]
    /\ cache' = IF SharedCache THEN cache
                ELSE Drop(cache, {c \in DOMAIN cache : cache[c].home = p})
    /\ brokenOff' = brokenOff \cup UNION {Unfinished(q) : q \in {x \in Reqs : Host[x] = p}}
    /\ UNCHANGED <<now, tokens, held, auth, acked, guesses>>

Tick ==
    /\ now < MaxTime
    /\ now' = now + 1
    /\ UNCHANGED <<cache, tokens, req, held, auth, acked, guesses, brokenOff>>

\* A request that comes in.
Receive(q) ==
    \/ \E c \in Codes, g \in CodeRequest : RedeemCode(q, c, g) \/ RefuseCode(q, c, g)
    \/ \E r \in Rows, client \in Clients : FindRefresh(q, r, client)
    \/ \E t \in Token : BeginRevoke(q, t)

\* A request that goes on from the await it is suspended at.
Proceed(q) ==
    \/ WinRotation(q) \/ LoseRotation(q)
    \/ \E r \in Rows : CreateToken(q, r)
    \/ Respond(q)
    \/ RevokeByAccess(q) \/ FindRefreshToRevoke(q) \/ RevokeByRefresh(q) \/ AckRevoke(q)

Next ==
    \/ \E p \in Procs, c \in Codes, b \in Binding : IssueCode(p, c, b)
    \/ \E q \in Reqs : Receive(q) \/ Proceed(q) \/ Fail(q)
    \/ \E p \in Procs : Crash(p)
    \/ Tick

Spec == Init /\ [][Next]_vars

-----------------------------------------------------------------------------
(* Properties.                                                             *)

IsMap(f, D, R) == DOMAIN f \subseteq D /\ f \in [DOMAIN f -> R]

\* Type invariant: the cache, the token table and the requests keep the shapes
\* of CodeRecord, StoredToken and the handlers' locals.
TypeOK ==
    /\ now \in Nat
    /\ IsMap(cache, Codes, CacheEntry)
    /\ IsMap(tokens, Rows, TokenRow)
    /\ req \in [Reqs -> Job]
    /\ held \subseteq Delivery
    /\ IsMap(auth, Codes, Binding)
    /\ acked \subseteq Token
    /\ guesses \in [Codes -> Nat]
    /\ brokenOff \subseteq {<<"code", c>> : c \in Codes} \cup {<<"row", r>> : r \in Rows}

AtMostOne(S) == \A x, y \in S : x = y

Minting(c) == {q \in Reqs : req[q].pc = "minting" /\ req[q].new.grant = c}

LiveRows(c) == {r \in DOMAIN tokens : tokens[r].new.grant = c /\ ~tokens[r].revoked}

\* Whatever can still turn the authorization of code c into access.
Holders(c) ==      {<<"code", x>> : x \in DOMAIN cache \cap {c}}
              \cup {<<"req", q>> : q \in Minting(c)}
              \cup {<<"row", r>> : r \in LiveRows(c)}

\* One authorization never turns into two: at every instant its code, the
\* request that is minting for it, and its unrevoked row are at most one thing.
\* Protects codes.ts (getdel "keeps a code single-use when two /token requests
\* race") together with tokens.ts (revoke before mint) against double redemption.
SingleHolder == \A c \in Codes : AtMostOne(Holders(c))

\* Everything ever made from origin o that is stored or about to be, dead rows
\* included.
MadeRows(o) == {r \in DOMAIN tokens : Origin(tokens[r].new) = o}
MadeReqs(o) == {q \in Reqs : req[q].pc = "minting" /\ Origin(req[q].new) = o}
Offspring(o) == {<<"row", r>> : r \in MadeRows(o)} \cup {<<"req", q>> : q \in MadeReqs(o)}

\* Codes that left the cache and rows that were revoked.
Spent == {<<"code", c>> : c \in DOMAIN auth \ DOMAIN cache}
             \cup {<<"row", r>> : r \in {x \in DOMAIN tokens : tokens[x].revoked}}

\* Rotation builds a chain, never a tree: in the whole history a code or a
\* refresh token is exchanged at most once, and only once it is spent
\* (consumeCode's getdel, rotateRefresh's "only the caller whose revoke actually
\* flipped the row may mint a replacement").
NoFork ==
    \A o \in {<<"code", c>> : c \in Codes} \cup {<<"row", r>> : r \in Rows} :
       AtMostOne(Offspring(o)) /\ (Offspring(o) # {} => o \in Spent)

\* A revoked row that no rotation replaced is the end of its grant: a /revoke that
\* gets to a row before any rotation does ends the whole authorization, both
\* tokens of the row and every request in flight for it; one that loses to a
\* rotation leaves the successor (tokens.ts, revokeBy...: the row, never more).
RevocationEndsGrant ==
    \A r \in DOMAIN tokens :
       (tokens[r].revoked /\ Offspring(<<"row", r>>) = {})
          => Holders(tokens[r].new.grant) = {}

\* Somebody asked /revoke for a token of row r and it answered, or is about to.
AskedFor(r) ==
    \/ \E t \in acked : t.row = r
    \/ \E q \in Reqs : req[q].pc \in {"findingRefresh", "acking"} /\ req[q].token.row = r

\* A grant ends at a row only because somebody asked for that, or because a failure
\* broke off its rotation or revocation: a rotation, a lost race, a refresh by
\* another client or one that comes too late never just destroys it (tokens.ts:
\* nothing that can refuse comes between revokeToken's answer and issueTokens).
GrantsEndForAReason ==
    \A r \in DOMAIN tokens :
       (tokens[r].revoked /\ Offspring(<<"row", r>>) = {})
          => AskedFor(r) \/ <<"row", r>> \in brokenOff

\* A row, stored or about to be, that agrees with what its code was issued for.
Bound(new) ==
    /\ new.grant \in DOMAIN auth
    /\ new.client = auth[new.grant].client
    /\ new.shopId = auth[new.grant].shopId

\* However often it was rotated, a row still belongs to the client and the shop
\* its code was issued for, and no bundle was ever handed to a request that
\* named another client (the clientId checks of handleAuthorizationCode and
\* rotateRefresh).
BoundToGrant ==
    /\ \A r \in DOMAIN tokens : Bound(tokens[r].new)
    /\ \A d \in held : d.row \in DOMAIN tokens /\ d.asker = tokens[d.row].new.client

\* A code's record is retrieved at most once, by a redemption that succeeds or
\* by one that fails: "a failed attempt still burns the code, so a wrong
\* verifier gets no retry" (controllers/token.ts).
OneGuessPerCode == \A c \in Codes : guesses[c] <= 1

Usable(t) == Unrevoked(t.row) /\ (t.kind = "refresh" => RefreshFresh(t.row))

\* Once /revoke answered 200 for a token, that token is dead for good, whichever
\* of the two tokens of the pair it was and whatever ran in between
\* (controllers/revoke.ts: never told "revoked when it isn't").
AckedRevocationHolds == \A t \in acked : ~Usable(t)

\* The grant lifecycle this module promises, and the mapping to it: a code is
\* issued when it has a binding, and it is held by its Holders.
Lifecycle == INSTANCE GrantLifecycle
    WITH Grants <- Codes,
         issued <- DOMAIN auth,
         holders <- [c \in Codes |-> Holders(c)],
         used <- DOMAIN tokens

\* /token, /revoke, crashes and storage failures implement the lifecycle: a
\* grant moves code -> request -> row -> request -> row ..., or is lost, and a
\* grant that was lost never comes back.
ImplementsLifecycle == Lifecycle!Spec
=============================================================================

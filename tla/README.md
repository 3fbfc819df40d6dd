# TLA+ models of shopify-mcp-oauth

This directory specifies the repository's two packages: `shopify-mcp-oauth`, an OAuth 2.1
authorization server and resource server for MCP servers on top of Shopify's own login, and
`create-shopify-mcp`, a scaffolder. The modules are translated from the TypeScript, TLC checks
them on small instances, and TLAPS proves the central theorems for every value of the constants.

Paths below are relative to `packages/shopify-mcp-oauth/src` (P) and
`packages/create-shopify-mcp/src` (C).

    tlc -workers 2 -config MCGrants.cfg MCGrants.tla         # one run
    tlapm GrantsProofs.tla                                   # the proofs of one component

`PROJECT.json` lists every run, the code lines each definition stands for, the hazards that each
property is aimed at, the faults (operators named `X_What`, next to the `X` they replace) that show
that a property can fail, the findings and the theorems.

## 1. Inventory

The server is a Node program: one process runs one callback at a time, and handlers interleave at
their `await`s. A step of a model is therefore the code between two `await`s, *including* the effect
of the call that is awaited. Several processes may share one storage.

| Component | State | Operations | Talks to | Hard parts |
|---|---|---|---|---|
| codes and tokens: P/services/codes, tokens, pkce; P/controllers/token, revoke | code entries in the cache, token rows in storage | issueCode, consumeCode, issueTokens, rotateRefresh, revokeBy… | cache, storage | races for a code and for a row, failures between revoke and mint, expiry, several processes |
| adapters: P/adapters | memory maps, Prisma tables, Redis keys, sessions | get/set/getdel, token and client queries, findShopByDomain | database, Redis, session store | what is atomic, what an outage reads as |
| limiter: P/services/concurrencyLimiter | counter, queue of waiters | acquire, release, run | CIMD | handoff between release and the waiter's continuation |
| CIMD: P/services/cimd | positive and negative cache entries, stored clients | resolveCimdClient, fetchCimd | cache, storage, limiter, DNS, web | four stores looked up in turn with awaits between them, outages, documents that change |
| login: P/controllers/authorize, shopifyCallback, register; P/services/stateJwt | none on the server between two requests; the signed state travels | /register, /authorize, callback | Shopify, storage, host hook, codes | replay, expiry, two logins at once, host code that errs |
| resource server: P/authenticate, middlewares/requireAuth | none of its own | authenticate, challenge | token rows, shop lookup | what changes between the two lookups; reinstall |
| shop lookups: P/adapters/shopifySessionStorage, allowAnyShop | none | findShopByDomain | session store | outages |
| router and rate limiter: P/router, index, middlewares/rateLimit | counters of express-rate-limit | mount, limit | every endpoint, the host's app | budgets shared by endpoints and processes; windows beyond Node's timers; which error handler an error meets |
| HMAC, redirect URIs, addresses: P/middlewares/verifyShopifyHmac, services/redirectUri, services/cimd | none (pure) | verify, validate, match, classify | callback, authorize, register, CIMD | duplicates, sorting, ports, notations |
| response discipline: P/controllers/asyncHandler, middlewares/errorHandler | the response | wrap, answer | every endpoint | rejection after headers were sent |
| configuration, metadata, serializers, schemas | none | parse, print | all | the validation of `rateLimit`; the rest is constant |
| scaffolder: C/run, target, download, copy, retry, git, packageJson | the target directory | run | GitHub, file system, git | retries over partial files, cleanup, two invocations |
| arguments, example targets: C/args, example | none (pure) | parseArgs, parseExampleTarget, resolveRef | scaffolder, GitHub | values that look like flags, branches with slashes, what GitHub's silence means |

What makes each of them correct:

- **codes and tokens**: one authorization is never two (neither now nor in its history); a row
  belongs to the client and the shop its code was issued for; one attempt per code; an acknowledged
  revocation is for good, and one that comes before any rotation ends the grant; nothing but a
  revocation, an expiry or a failure ends one.
- **limiter**: the cap; no slot lost or invented; nobody waits beside a free slot; arrival order.
- **CIMD**: slots are held by fetches only; a client is refused only for its own document's fault; one
  whose document is stored is neither fetched nor refused again; a settled one keeps its document.
- **login**: a code stands for one approval, by the shop it names, of one request that `/authorize`
  accepted, and travels only where its client registered; expired states are dead.
- **router**: one response per request; an error is answered for what it is; the limited endpoints
  share one budget; nothing hangs.
- **pure parts**: a command line, an example, a query, an address is understood as it is meant.
- **resource server**: a token that was dead before a call came does not let it in; a good one is
  refused only if its installation ended or the lookup hid an outage; the grants are not disturbed.
- **scaffolder**: what was there before stays; a failure before "created" leaves nothing; what is
  called created is there; it ends.

## 2. Modules

| Module | Models | Composes |
|---|---|---|
| `Grants` | /token, /revoke, codes, rows, caches, failures, crashes | refines `GrantLifecycle` |
| `GrantLifecycle` | abstract: a grant is held by one thing at a time, or lost | |
| `GrantsProofs` | theorems of `Grants` | |
| `ConcurrencyLimiter` | `createConcurrencyLimiter` | |
| `ConcurrencyLimiterProofs` | its theorem | |
| `Cimd` | `resolveCimdClient`, `fetchCimd` by its outcomes | INSTANCE of `ConcurrencyLimiter`, action by action |
| `CimdProofs` | its theorems | INSTANCE of `ConcurrencyLimiterProofs` |
| `RedirectUri` | `validateRedirectUri`, `redirectUriMatches` | |
| `Login` | registration, state token, approval, callback | EXTENDS `RedirectUri` |
| `ResourceServer` | `authenticate`, installs and uninstalls | EXTENDS `Grants`; refines it |
| `ResourceServerProofs` | its theorems | uses `GrantsProofs` |
| `Scaffold` | `run()` of the scaffolder | |
| `LoginProofs`, `ScaffoldProofs`, `RouterProofs` | their theorems | |
| `Router` | the layers of `buildRouter` and `mountShopifyMcpOAuth`, `asyncHandler`, `errorHandler`, the rate limiter | |
| `CliArgs`, `ExampleTarget` | `parseArgs`; `parseExampleTarget`, `resolveRef` | |
| `CallbackQuery` | `verifyShopifyHmac` | |
| `PrivateAddress` | `isPrivateOrLoopbackIp` and what it calls | |
| `Inputs` | one decision of any of these four | EXTENDS all four |
| `InputsProofs` | theorems about all four | |

`MC*` modules declare model values and constant functions for TLC, and no more.

### Grants

`cache` and `tokens` are the two stores; `req[q]` holds the locals of the handler in slot `q` and its program
counter; `now` is `Date.now()`. `auth`, `acked`, `guesses`, `held` and `brokenOff` (what a failure or a crash
cut short) are history, which no guard of the code's own reads, except that a client can only present a token
that some answer delivered (`Presentable`).

| Action | Code |
|---|---|
| `IssueCode` | `issueCode`, by the callback |
| `RedeemCode`, `RefuseCode` | `handleAuthorizationCode` to the end of `getdel` and the checks after it |
| `FindRefresh`, `WinRotation`, `LoseRotation` | `rotateRefresh` to each of its awaits |
| `CreateToken`, `Respond` | `issueTokens`; the 200 |
| `BeginRevoke` … `AckRevoke` | `revokeController`: both lookups, always in the same order |
| `Fail` | in an `Unreliable` process, an awaited call rejects, before or after its effect; the 500 of `asyncHandler` |
| `Crash` | an `Unreliable` process dies: its requests end and its `memoryCache` is gone |

Deaths of processes and the clock are environment: no code stands behind `Crash` and `Tick`.

`SharedCache` chooses between `redisCache` and one `memoryCache` per process. A random token is
abstracted to `[kind, row]` (hashes do not collide), and a challenge to `S256(verifier)`. A redemption
that would fail behaves the same whichever check fails first, so `Accepts` is one condition.

### Resource server

`ResourceServer` adds `Present` (the token lookup) and `CheckShop` (the shop lookup, the id
comparison, the answer), with `Install` and `Uninstall` of the host in between; `GrantStep` is
everything else of `Grants`. `FreshIds` says whether a reinstall gets a new id, which the comment at
authenticate.ts:85-88 leaves to the adapter. `Outages` names the ways in which an outage shows: a lookup
rejects, which is a 500, or the shop lookup answers null, as `shopifySessionStorage` does, which is a 401.
`OurCodes` are the codes whose tokens are for this server: a storage may be shared with another one, whose
tokens the audience check refuses. A code may name any shop id of its domain, one the lookup never had among
them, which is what types.ts:70-76 warns hosts of. `touchToken` is not awaited and writes only a column that
nothing reads.

`seen` is what had happened when a call's row was looked up, and it decides what an answer may be held to.
`LateCallsShutOut` asks that nobody gets in who was dead by then. `RefusalsAreEarned` asks that a token which is
still good when its refusal goes out named an installation that has ended. It says so of tokens that name an
id which had been on record, and of answers that no lookup falsified by hiding an outage; the run
resource_server_outage shows what happens without the second condition.

### Limiter and CIMD

A caller of the limiter is `outside`, `queued`, `admitted` (it owns a slot, but the continuation of its
promise has not run) or `running`. `Cimd` uses its actions: `CheckFailures` ends in `Acquire`, `BeginFetch`
is `Start`, and the three ways out of `fetchCimd` are `Settle`. Documents are model values; `Publish` lets
the client's owner change or break the URL at any time; `Expire` is a TTL or a loss. `known` is what was stored
when a request came in: `StoredWins` says that such a request is not fetched for and not refused, whatever else is
in flight. That the document it gets is the stored one is more than the code keeps (finding 2) until the
state is `Settled`: nobody fetches, and neither the cache nor a request carries another document.

### Login

The server keeps nothing, so `states` and `approvals` are what the world holds: signed state tokens and
signed callbacks, which anybody may present again at any time. JWT and HMAC are modelled by what they
guarantee (a verified token was signed, and is unchanged), and redirect URIs are parsed ones: `Register` and
`Authorize` apply the rules of `RedirectUri` to them. `HostErrs` lets the lookup and the hook answer with the
wrong shop. Clients named by a URL are left to `Cimd`; Shopify's code is single-use by Shopify's contract.

### Scaffold

The directory is `maker` and, for each name, who wrote it last. Two invocations interleave at their awaits
with each other and a user. Failures are possible at every step, and a failing cleanup removes only some
of the files. A download may also go wrong without failing: tar's `x` is not strict, so that an entry it cannot
write, or not to its end, is a warning, and the extraction goes on (`PassOver`). Nothing in the code notices unless
package.json is missing, so "created" may be said of a template with gaps; `CreatedIsThere` says what may be
relied on all the same. The last read of package.json comes after "created" and outside of the `try`: `Summarize`
may fail, and then nothing is cleaned up ("threwLate"), which is why `FailureLeavesNothing` speaks of failures
before it. Parents that `mkdir` makes are not represented.

### Router

A request's `to` are the layers still ahead of it; each layer answers, passes it on, or raises an error,
and an error skips to the error handlers that Express would find: the app's, and the router's own if it
arose inside the router. `config` ranges over every window the host may write (with the limiter off among
them), a store per process or one for all, and an app that did or did not mount `errorHandler` last. The
limiter counts as express-rate-limit's contract says: a bucket's window begins with its first hit.
`begun` counts responses begun (`res.headersSent`). `passed` is history: for each store and caller, how many
requests the limiter had let in before each instant.

### Pure parts

`CliArgs`, `ExampleTarget`, `CallbackQuery` and `PrivateAddress` each hold the code's algorithm and, below a
line, what its input means, said without the algorithm: by positions in the command line, by what the user
wants and how it is written down, by the values of each key, by octets. `Inputs` runs the one and asks the
other. Texts are split where the code splits them (at `=`, `/`, `&`, `:`) and not into characters. An
algorithm's loop is a recursive function over the positions of its input (`Loop`, `Pushed`). The sort of a
query's parameters is what `Array.prototype.sort` promises of it: the parameters of each key as they came, key
after key.

## 3. Runs, bounds, what they show

| Run | Specification | Bounds | Shows |
|---|---|---|---|
| grants | `Spec`, the process that serves `Unreliable` | 1 code, 3 rows, 2 requests, 2 clients, 2 verifiers, `MaxTime` 1; a memoryCache per process, of which another may have issued the code | races, wrong clients and verifiers, expiry, failures and crashes; the lifecycle |
| limiter | `FairSpec` | 5 callers, cap 2 | cap, count, order, service |
| cimd | `FairSpec`, `Outages` | 3 requests, 1 URL, 2 documents, 2 slots | documents, verdicts and slots under change and outage; answers |
| resource_server | `ServerSpec`, `Unreliable`, `Outages` | 1 call, 1 request, 2 codes (one for this server), 2 rows, 2 ids of one domain, `MaxTime` 1 | calls against rotation, revocation, reinstall, another audience and outages |
| login | `Spec`, `Failures`, `HostErrs` | 2 callbacks, 2 clients, 2 shops, `MaxConsents` 2, `MaxApprovals` 2, `MaxTime` 1; redirect URIs of every kind that the rules tell apart | consent, and where codes go |
| scaffold | `FairSpec`, `UserActs` | 2 runs, 2 parts, 3 attempts | safety of the directory; success; termination |
| router | `Spec` (with fairness) | 2 requests on 2 processes, 6 configurations, `Limit` 2, windows 2 and 9 of at most 3, `MaxTime` 2 | answers, errors, the budget |
| inputs | `Spec` | command lines of up to 4 of 12 arguments; examples with branches and paths of up to 3 parts and every answer of GitHub; queries of up to 4 parts against texts of up to 3; addresses at both sides of every range's edge, in each notation and spelling | the pure parts |
| cimd_shadow, cimd_first, resource_server_outage, scaffold_own | | | findings, below |

Bounds on what the code leaves unbounded: `MaxTime` stops the clock, `Room` (in `Grants`) keeps one row id free
for every request that is minting, `MaxConsents` and `MaxApprovals` count what the world does in `Login`. They
are enough for the cases at hand: two requests on one code or row is the race that matters, a third row lets a
successor be rotated again, URLs meet in the limiter only, so that one with three requests is the contended
case, two ids of one domain are one reinstall, two codes and two rows let the token of one resource be presented
beside that of another, five callers and two slots give a queue in which order shows, two invocations are the
smallest number that can take each other's directory. In `Router` two requests are enough for each to find the
other's hits in its bucket; slots are used again, so a caller exceeds its limit many times over, and windows
end. The second request only asks for `/revoke`, so that the two of them meet on different endpoints of one
limiter. In `Inputs` four arguments let both value flags, each with its value, stand together, and an example's
path may occur twice in a URL. In `MCGrants` the clients, the rows and the verifiers, and in `MCResourceServer`
the rows and the shop ids, are interchangeable (SYMMETRY; their properties are safety properties).
`MCResourceServer` also has a VIEW, which leaves out two histories of `Grants` whose values decide no step and
no property of its runs. `CHECK_DEADLOCK FALSE` is said of `Login`, `Scaffold`, `Router` and `Inputs` only:
there the system may really stop, when its bounds run out, its invocations have ended or its one decision is
made.

Types are checked and proved where a module is rich enough for them to go wrong (`Grants`, `Cimd`,
`Login`); of the other modules they are conjuncts of the inductive invariants.

**Fairness.** `WF_vars(Proceed(r))` in `Cimd`, and its likes elsewhere, say that an awaited call settles and
that Node then runs the continuation. It is what `asyncHandler` relies on to answer at all. Nothing is
assumed of clients, merchants, the clock or failures, and `Grants`, whose handlers are straight lines of awaits,
states safety only. In `Cimd` the package's own timer ends a download
(`PackageFairness`), but not a DNS lookup, which runs before that timer; `FairSpec` adds an operating system
whose resolver answers. The scaffolder assumes that files and network calls settle. In `Router` each layer's
work settles: a body is read or given up, and what a handler awaits answers or rejects.

## 4. Findings

Four statements of the repository that the code does not keep:

1. **cimd_shadow** (P/services/cimd.ts:336). A live failure marker can shadow a document that is already
   stored, because the marker is read an await after storage.
2. **cimd_first** (P/services/cimd.ts:363). Of two concurrent first fetches the loser of the upsert still
   answers with its own document, and caches it.
3. **scaffold_own** (C/run.ts:71). An invocation may remove a directory that another one made after it
   looked.
4. **resource_server_outage** (P/adapters/shopifySessionStorage.ts:28). The adapter answers an outage of the
   session store with "no such shop", on purpose, and `authenticate` then refuses a good token with a 401, although
   authenticate.ts:39-40 promises that "an outage is a 500, not an invitation to log in again".

None of them lets a grant be used twice or by another client. More that is worth knowing:

- The DNS lookup of a fetch holds its slot of the limiter before the package's timer starts
  (P/services/cimd.ts:254), so the queue behind it relies on the operating system's resolver.
- `/revoke` of a refresh token that was rotated leaves the successor alive: `RevocationEndsGrant` is about a
  row that no rotation replaced. A rotation whose `createToken` fails has lost the grant;
  `GrantsEndForAReason` says that nothing less than that, or a request for it, does.
- `create-shopify-mcp` may say "created" of a template in which tar could not write some entries
  (C/download.ts:40), and may still end with an error after it has said so (C/run.ts:95).
- A hook that returns an id which the lookup does not know makes a login whose every call is a 401
  (P/controllers/shopifyCallback.ts:73; types.ts:70-76 says so).
- A fixed window lets a caller pass almost twice its limit around the end of a window: `BudgetHeld` says
  exactly that much.
- A tree URL that ends in a slash, without `--example-path`, keeps the empty last part in its path, and
  `--example-path` is ignored beside the name of an example (C/example.ts:29-34, 61). `Clear` leaves the
  first of these requests out.
- Of the notations of an IPv4 address in IPv6, `::a.b.c.d` and Teredo are left out by the code on purpose
  (P/services/cimd.ts:47-54, 137-141); `Carried` names the three that are not.

## 5. Proofs

| Module | Theorem | Says |
|---|---|---|
| `GrantsProofs` | `TypeCorrect`, `BoundToGrantHolds`, `OneGuessPerCodeHolds`, `SingleHolderHolds`, `NoForkHolds`, `RevocationEndsGrantHolds`, `GrantsEndForAReasonHolds`, `AckedRevocationHoldsAlways` | eight invariants of `Grants`, always |
| | `Refinement` | `Spec => Lifecycle!Spec` |
| `ResourceServerProofs` | `ServerRefinesGrants` | `ServerSpec => Spec` |
| | `LateCallsShutOutHolds`, `RefusalsAreEarnedHolds` | whom it lets in, whom it refuses |
| `LoginProofs` | `TypeCorrect`, `CodesFollowConsentHolds`, `OneCodePerApprovalHolds`, `CodesTravelSafelyHolds` | the invariants of `Login` |
| | `ExpiredStatesAreDeadHolds` | an action property |
| `ConcurrencyLimiterProofs` | `CapHeldHolds`, `NoSlotLeaksHolds`, `NoIdleSlotHolds`, `NoOvertakingHolds` | the invariants of the limiter |
| `CimdProofs` | `LimiterInside` | `Spec =>` the limiter's `Spec` |
| | `TypeCorrect`, `SlotsAreFetchesHolds`, `VerdictsAreEarnedHolds`, `StoredWinsHolds` | the invariants of `Cimd` |
| | `SettledForGoodHolds` | an action property |
| `RouterProofs` | `OneAnswerHolds`, `ErrorsAreNamedHolds`, `BudgetHeldHolds` | the invariants of `Router` |
| `ScaffoldProofs` | `InitialKeptHolds`, `FailureLeavesNothingHolds`, `CreatedIsThereHolds` | the invariants of `Scaffold` |
| `InputsProofs` | `AddressesJudgedHolds`, `ExamplesFoundHolds`, `CommandLinesUnderstoodHolds`, `QueriesGenuineHolds` | the four pure parts |

They hold for every set of requests, processes, callers, clients, codes, rows, shops, URLs, documents, parts
and invocations, for every TTL, limit and window, with either cache, and with failures, crashes and outages
wherever the model allows them, under the ASSUMEs that the modules name: numbers are naturals, and positive
where the code asks for it (`CodeTtl`, `MaxConcurrent`, `Attempts`, `Limit`); `Host` maps requests to
processes; somebody calls (`Callers`); `None` and the scaffolder's user are nobody else's names; the URIs
(`UriAssumption`), addresses (`AddressAssumption`) and examples (`ExampleAssumption`) have the shape that
parsing gives them, and may be all those of that shape, of any length; so may command lines
(`CommandLineAssumption`) and queries (`QueryAssumption`, which also says that what Shopify signs is sorted and
bears no hmac); an unknown flag is no option (`UnknownAssumption`). The community library's and TLAPS's
standard modules are all they rest on.

*Grants.* `SingleHolder` is not inductive alone: that the request which wins `revokeToken` mints for a grant
nobody else holds needs that the row it revoked was the grant's one live row, which is `SingleHolder` before the
step, together with `Traced`, which says what a row found earlier by a request still has in common with the
table (ids and bindings never change, `revoked` is never reset). The proofs go in layers, each using the ones
before it at both ends of a step: `TypeOK`; `Provenance` (`BoundToGrant`, `OneGuessPerCode`, `Traced`);
`SingleHolder`; `NoFork`, which also reads the dead rows; `RevocationEndsGrant`, with `Lineage` (who mints from
a row mints for that row's grant); `GrantsEndForAReason`, which is inductive with the types (`KeepsReason`: a
step that keeps rows, requests and reasons keeps it); and `AckedRevocationHolds` with the state of the revoking
request. Three lemmas keep them short: the steps that touch no holder are one class (`OtherStep`) that keeps
everything at once; a step that only removes holders is a `Lose`; and a step that adds one is described by what
it adds. `Refinement` reuses the same case split: a redemption and a rotation are `Move`s of a grant, a failure
is a `Lose`, and a request that is minting is a holder of its own, so that nothing has to happen atomically.

*Resource server.* Each step is a step of `Grants` or leaves it alone, so its theorems transfer. `LateInv`
adds to each call what was true when its row was looked up: a revoked token was not found, and a retired id
never comes back when ids are fresh. For refusals the argument runs the other way: a row that was unusable stays
so (`StaysUnusable`: the clock and `revoked` only go forward), an audience never changes, and an id that was on
record when its call came in is on record or retired ever after (`CallsKnown`), so that one which a lookup
truly does not find any more has been retired.

*Login.* `TypeInv` adds that the world's tokens are finitely many, so that the nonces count them, and that
a callback carries a signed approval of a signed state. `TravelInv` follows a redirect URI from the registration,
which is never replaced, into the state, the approval and the code. `ConsentInv` says that a callback past
Shopify's exchange is the only one with its approval, which has no code yet; that makes codes unique
however callbacks race.

*Limiter and CIMD.* The limiter's invariant says that the queue lists exactly the waiting callers, without
repetition and in the order of `ahead`, and that a queue is only there when all slots are taken. `release` is
proved for its two branches. Every step of `Cimd` is one of its limiter or leaves it alone (`LimiterInside`), so
the limiter's theorems hold of it; `FetchersHold` then says that who is inside the limiter is exactly who is on
the way through `fetchCimd`, on all ways out. `VerdictInv` adds the await between a failed fetch and its marker.
`StoredWins` is inductive with the types: a row is never replaced, so a request that knew one finds it.
`SettledForGood` needs no invariant: it is about the steps from a state that its own premise describes, and it
would be false of a state in which somebody still fetches.

*Router.* `RequestInv` gives each request its place: it is on the path of its endpoint (`Course`), or its error
has exactly the handlers ahead that Express would find, and no response has begun before the layer that begins one.
For the budget, `Ledger` says of a store and a caller what the bucket's counter knows: how many were let in since
its window began, and that in any shorter time up to that beginning there were at most `Limit - 1`, because an
earlier window would have had to be opened first. `BudgetHeld` alone says nothing of an instant to
come, which is why it is not inductive.

*Scaffold.* `InitialInv`: where something was there, no invocation takes the directory for its own.
`FailureInv`: an invocation that is alone and failed has removed what it made. `WholeInv`: as long as nobody has
failed, what any invocation wrote is there.

*Pure parts.* Ranges and subnets become intervals of an address's groups (`Unit`, `Aligned`), which is
arithmetic; then an address is blocked if it is in one of the intervals, and meant to be if it is in the same
ones. `Expanded` shows that filling in "::" gives the eight groups back wherever it stands, and `JudgedInSix`
follows the three notations that carry an IPv4 address. For examples, `Stripped` takes off exactly the slashes
around a path, and a branch, however many slashes it has, is what is left of a tree's parts when the path at
their end is cut off (`CutOffAtEnd`). For command lines, `Progress` says what the loop knows after i rounds:
that it threw exactly if the first i arguments make no sense (`Sense`), and otherwise each option that they say
(`Heard`). For queries, `Pushed` is followed through a sequence that grows (`PushedOneMore`, `PushedJoined`),
and through what was pushed already (`PushedTwice`); a sequence sorted by key is the concatenation of its keys'
groups, so that two of them are equal exactly if they have the same values for each key. The library's induction
theorems take an operator as a parameter, which the provers cannot instantiate; these inductions go by the least
element of a set instead (`Smallest`, from well-foundedness): the least position, or the least length, at which
the claim would fail.

**Model-checked only.** Liveness, which rests on fairness and ENABLED: `EveryRequestAnswered` of `Router`,
`EveryCallerRuns`, `EveryResolutionAnswered`, `EveryRunEnds`.
The four findings are counterexamples.

## 6. Not modelled

- metadata documents, serializers, schemas as such, and configuration but for `rateLimit`: start-up or
  constant, without state; their routes have no layers in front of them;
- the counting of express-rate-limit, Express's dispatch and `net.BlockList`: external, modelled by contract;
- characters: percent-encoding, `new URL`, the syntax of IPv6 literals and of GitHub's names;
- the first "?" of a callback's URL, at which `requireShopifyHmac` cuts its query;
- `readBodyCapped` and the pinning of a resolved address, inside one outcome of `Download`;
- `touchToken`, scanning in `memoryStorage`, serialization in `redisCache` and `prismaStorage`;
- example server, scripts and workflows, `nextSteps` and the scaffolder's `index`: glue and printing;
- cryptography: random values are fresh, hashes do not collide, signatures are not forged.

## 7. Plan

Order, most important behaviour first. Done: 1-10.

1. `Grants`, `GrantLifecycle`, `GrantsProofs`: the grant, its races, its failures, its abstract lifecycle.
2. `ConcurrencyLimiter` and its proofs.
3. `Cimd` over the limiter.
4. `ResourceServer` over `Grants`, and its proofs.
5. `Login`, with `RedirectUri`.
6. `Scaffold`.
7. `Router`: layers, limiter, error handlers.
8. `CliArgs`, `ExampleTarget`, `CallbackQuery`, `PrivateAddress` with `Inputs`.
9. One run for `Grants`, in which races, expiry, failures and crashes meet.
10. Proofs of the safety of `Login`, `Cimd`, `Scaffold`, `Router` and `Inputs`, and of what was left of `Grants`
    and `ResourceServer`: every invariant and every action property that a run checks is a theorem.
11. Next: shorter proofs where a leaf still cites more than it uses. Liveness stays with TLC.

------------------------------- MODULE Router -------------------------------
(***************************************************************************)
(* The way of an HTTP request through the layers that buildRouter and      *)
(* mountShopifyMcpOAuth put on a host's Express app: the host's body       *)
(* parser, the rate limiter, the package's own parsers, the HMAC guard, a  *)
(* controller inside asyncHandler, and for what goes wrong on the way the  *)
(* router's errorHandler, the app's, and Express's default behind them.    *)
(* Requests interleave at their awaits and share the limiter's counters.   *)
(*                                                                         *)
(* Time is counted in the unit of rateLimit.windowMs.                      *)
(***************************************************************************)
EXTENDS Integers, Sequences, FiniteSets, FiniteSetsExt, Functions

CONSTANTS
    Reqs,           \* slots for requests being served
    Procs, Host,    \* Node processes, and the one that serves a slot
    Routes,         \* the endpoints that the clients of a slot ask for
    Callers,        \* keys of the limiter: an address, or the subnet around it
    Statuses,       \* the `status` of errors that middleware throws
    Limit,          \* rateLimit.limit
    Windows,        \* what the host may write for rateLimit.windowMs
    MaxDelay,       \* MAX_RATE_LIMIT_WINDOW_MS, the longest delay of a Node timer
    MaxTime         \* bound: the clock stops here

Endpoints == {"/register", "/revoke", "/token", "/authorize", "/shopify-callback",
              "/mcp", "/late"}

ASSUME HostAssumption == Host \in [Reqs -> Procs]
ASSUME CallerAssumption == Callers # {}
ASSUME RouteAssumption == Routes \in [Reqs -> SUBSET Endpoints]
ASSUME NumberAssumption == {Limit, MaxDelay, MaxTime} \subseteq Nat \ {0}
ASSUME WindowAssumption == Windows \subseteq Nat
ASSUME StatusAssumption == Statuses \subseteq Nat \ {0}

VARIABLES
    now,        \* Date.now()
    config,     \* how the host configured and mounted the package
    hits,       \* the limiter's counters, of each bucket that was ever hit
    req,        \* the request in each slot
    passed      \* history: requests of a caller that a store had let in by then

vars == <<now, config, hits, req, passed>>

-----------------------------------------------------------------------------
(* The host's configuration.                                               *)

Off == 0        \* rateLimit: false, or left out

\* Fault: only the sign of a window is checked.
ValidWindow_AnyLength(w) == w > 0

\* rateLimitSettingSchema, and assertValidRateLimiterOptions once more.
ValidWindow(w) == w > 0 /\ w <= MaxDelay

\* The windows, whether rateLimit.store is given (one for all processes), and
\* whether the app's last layer is errorHandler, as mountShopifyMcpOAuth sees to.
Configs ==
    {cfg \in [window : {Off} \cup {w \in Windows : ValidWindow(w)},
              shared : BOOLEAN, mounted : BOOLEAN] :
        cfg.shared => cfg.window # Off}

\* Fault: the router relies on the errorHandler that the host mounts.
RouterErrors_NotMounted == <<>>

\* buildRouter mounts an errorHandler of its own.
RouterErrors == <<"routerErrors">>

\* The layers of buildRouter that a request for e meets.
RouterLayers(e) ==
    CASE e \in {"/register", "/revoke"} ->
             (IF config.window = Off THEN <<>> ELSE <<"limiter">>)
               \o <<"parsers", "controller">> \o RouterErrors
      [] e = "/token"            -> <<"parsers", "controller">> \o RouterErrors
      [] e = "/shopify-callback" -> <<"hmac", "controller">> \o RouterErrors
      [] e = "/authorize"        -> <<"controller">> \o RouterErrors
      [] OTHER                   -> <<>>

\* The layers of the app: "/mcp" is a route of registerProtectedRoutes, "/late"
\* one that is added after mountShopifyMcpOAuth returned.
Layers(e) ==
    <<"hostParser">> \o RouterLayers(e)
      \o (IF e = "/mcp" THEN <<"requireAuth", "hostHandler">> ELSE <<>>)
      \o (IF config.mounted THEN <<"appErrors">> ELSE <<>>)
      \o (IF e = "/late" THEN <<"hostHandler">> ELSE <<>>)

-----------------------------------------------------------------------------
(* Requests.  `to` are the layers ahead; `fault` is the status of the error *)
(* that was raised, `inRouter` where; `begun` counts the responses begun.   *)

Answers == {"open", "handled", "limited", "malformed", "error", "html", "cut"}

Fresh(e, c) == [route |-> e, caller |-> c, to |-> Layers(e),
                fault |-> 0, inRouter |-> FALSE, begun |-> 0, answer |-> "open"]

ErrorLayers == {"routerErrors", "appErrors"}
HostLayers == {"hostParser", "requireAuth", "hostHandler"}

Open(q) == req[q].answer = "open"
At(q, layer) == Open(q) /\ req[q].to # <<>> /\ Head(req[q].to) = layer

\* A slot that is free.
Idle == [Fresh("/authorize", CHOOSE c \in Callers : TRUE)
           EXCEPT !.to = <<>>, !.answer = "handled"]

\* A response is begun and ended; of what it was about, only what may be asked
\* of an answer is kept.
Answered(q, answer) ==
    req' = [req EXCEPT ![q].answer = answer, ![q].begun = @ + 1, ![q].to = <<>>,
                       ![q].route = IF answer = "html" THEN @ ELSE "/authorize"]

\* next(): Express passes over an error handler while no error is pending.
Passed(q) ==
    LET rest == Tail(req[q].to) IN
    req' = [req EXCEPT ![q].to = IF Head(rest) \in ErrorLayers THEN Tail(rest) ELSE rest]

\* What next(err) still meets of the layers ahead: the router's error handler, if
\* the error was raised inside it, and then the app's.
Handlers(ahead, inside) ==
    LET meets(l) == IF l \in Range(ahead) THEN <<l>> ELSE <<>> IN
    (IF inside THEN meets("routerErrors") ELSE <<>>) \o meets("appErrors")

\* next(err), from a layer that has begun `begun` responses.
Raised(q, status, begun) ==
    LET inside == Head(req[q].to) \notin HostLayers IN
    req' = [req EXCEPT ![q].fault = status, ![q].inRouter = inside, ![q].begun = begun,
                       ![q].to = Handlers(Tail(@), inside)]

\* Fault: a rejection is left to Express, and Express 4 drops it.
Rejected_Dropped(q, begun) ==
    req' = [req EXCEPT ![q].to = <<>>, ![q].begun = begun]

\* asyncHandler: its handler rejected, with `begun` responses begun.
Rejected(q, begun) ==
    IF begun > 0 THEN Raised(q, 500, begun) ELSE Answered(q, "error")

-----------------------------------------------------------------------------
(* The limiter (express-rate-limit).                                       *)

\* The limiter counts for all processes in rateLimit.store, or in the memory of
\* each.
Store(q) == IF config.shared THEN Procs ELSE {Host[q]}
Stores == {Procs} \cup {{p} : p \in Procs}

\* Fault: every route has a limiter, and its counters, of its own.
Bucket_PerRoute(q) == [store |-> Store(q), key |-> <<req[q].route, req[q].caller>>]

\* There is one limiter for its routes.
Bucket(q) == [store |-> Store(q), key |-> req[q].caller]

\* Node cuts a delay beyond its timers' range down to one millisecond.
Window == IF config.window > MaxDelay THEN 1 ELSE config.window

\* Store.increment: a bucket's window begins with its first hit.
\* (Beyond Limit + 1, the bound of the count here, it decides nothing.)
Increment(b) ==
    IF b \in DOMAIN hits
    THEN [hits[b] EXCEPT !.count = Min({@ + 1, Limit + 1})]
    ELSE [count |-> 1, resets |-> now + Window]

\* The instants up to the end of the last one.
Instants == 0 .. MaxTime + 1

\* The request is one more that its store has let in by any later instant.
LetIn(q) ==
    passed' = [passed EXCEPT ![<<Store(q), req[q].caller>>] =
                  [t \in Instants |-> IF now < t THEN @[t] + 1 ELSE @[t]]]

-----------------------------------------------------------------------------
Init ==
    /\ now = 0
    /\ config \in Configs
    /\ hits = <<>>
    /\ req = [q \in Reqs |-> Idle]
    /\ passed = [c \in Stores \X Callers |-> [t \in Instants |-> 0]]

\* A request comes in, in a slot that is free.
Arrive(q, e, c) ==
    /\ ~Open(q)
    /\ req' = [req EXCEPT ![q] = Fresh(e, c)]
    /\ UNCHANGED <<now, config, hits, passed>>

\* What the host mounted before the package, a body parser above all, lets the
\* request pass, or throws.
HostParser(q) ==
    /\ At(q, "hostParser")
    /\ \/ Passed(q)
       \/ \E status \in Statuses : Raised(q, status, 0)
    /\ UNCHANGED <<now, config, hits, passed>>

\* createRateLimiter: the request is counted, and refused when it is one too
\* many.  A store that rejects is an error like any other.
Limiter(q) ==
    /\ At(q, "limiter")
    /\ \/ LET b == Bucket(q) IN
          /\ hits' = [x \in DOMAIN hits \cup {b} |-> IF x = b THEN Increment(b) ELSE hits[x]]
          /\ IF hits'[b].count > Limit
             THEN Answered(q, "limited") /\ UNCHANGED passed
             ELSE Passed(q) /\ LetIn(q)
       \/ Raised(q, 500, 0) /\ UNCHANGED <<hits, passed>>
    /\ UNCHANGED <<now, config>>

\* parseJsonBody and parseFormBody read the body, if the host's parser has not,
\* or throw.
Parsers(q) ==
    /\ At(q, "parsers")
    /\ \/ Passed(q)
       \/ \E status \in Statuses : Raised(q, status, 0)
    /\ UNCHANGED <<now, config, hits, passed>>

\* requireShopifyHmac: 400 in plain text, or on to the controller.
HmacGuard(q) ==
    /\ At(q, "hmac")
    /\ Passed(q) \/ Answered(q, "handled")
    /\ UNCHANGED <<now, config, hits, passed>>

\* A controller, inside asyncHandler, answers, or rejects before it did.
Controller(q) ==
    /\ At(q, "controller")
    /\ Answered(q, "handled") \/ Rejected(q, 0)
    /\ UNCHANGED <<now, config, hits, passed>>

\* requireAuth, inside asyncHandler: on to the host, or a challenge.  The host
\* may have wrapped authenticate and challenge, which then reject at any point.
RequireAuth(q) ==
    /\ At(q, "requireAuth")
    /\ \/ Passed(q)
       \/ Answered(q, "handled")
       \/ \E begun \in {0, 1} : Rejected(q, begun)
    /\ UNCHANGED <<now, config, hits, passed>>

\* The host's own handler answers, or throws, perhaps in the middle of a stream.
HostHandler(q) ==
    /\ At(q, "hostHandler")
    /\ \/ Answered(q, "handled")
       \/ \E status \in Statuses, begun \in {0, 1} : Raised(q, status, begun)
    /\ UNCHANGED <<now, config, hits, passed>>

\* clientErrorStatus.
ClientError(status) == status \in 400 .. 499

\* Fault: errorHandler does not ask whether the response was begun.
ErrorHandler_AlwaysAnswers(q) ==
    /\ At(q, "routerErrors") \/ At(q, "appErrors")
    /\ Answered(q, IF ClientError(req[q].fault) THEN "malformed" ELSE "error")
    /\ UNCHANGED <<now, config, hits, passed>>

\* errorHandler, where buildRouter and where the host mounts it: a response that
\* was begun is left to Express.
ErrorHandler(q) ==
    /\ At(q, "routerErrors") \/ At(q, "appErrors")
    /\ IF req[q].begun > 0
       THEN req' = [req EXCEPT ![q].to = Tail(@)]
       ELSE Answered(q, IF ClientError(req[q].fault) THEN "malformed" ELSE "error")
    /\ UNCHANGED <<now, config, hits, passed>>

\* Express's default: a page with the stack trace, or, if a response was begun,
\* the end of the connection.
DefaultHandler(q) ==
    /\ Open(q) /\ req[q].to = <<>> /\ req[q].fault # 0
    /\ IF req[q].begun > 0
       THEN req' = [req EXCEPT ![q].answer = "cut"]
       ELSE Answered(q, "html")
    /\ UNCHANGED <<now, config, hits, passed>>

\* Time passes, and the store forgets the buckets whose window ends.
Tick ==
    /\ now < MaxTime
    /\ now' = now + 1
    /\ hits' = Restrict(hits, {b \in DOMAIN hits : now + 1 < hits[b].resets})
    /\ UNCHANGED <<config, req, passed>>

Step(q) ==
    \/ HostParser(q) \/ Limiter(q) \/ Parsers(q) \/ HmacGuard(q) \/ Controller(q)
    \/ RequireAuth(q) \/ HostHandler(q) \/ ErrorHandler(q) \/ DefaultHandler(q)

Next ==
    \/ \E q \in Reqs : Step(q) \/ \E e \in Routes[q], c \in Callers : Arrive(q, e, c)
    \/ Tick

\* Every layer's work settles: a body is read to its end or given up, and what
\* a controller or the host's handler awaits answers or rejects.
Spec == Init /\ [][Next]_vars /\ \A q \in Reqs : WF_vars(Step(q))

-----------------------------------------------------------------------------
\* No response is begun twice, however deep in the layers the error arose and
\* whatever had been sent by then (asyncHandler and errorHandler ask
\* res.headersSent and leave the rest to the next handler).
OneAnswer == \A q \in Reqs : req[q].begun <= 1

\* An error is answered for what it is: never with Express's stack trace if it
\* arose inside the router, however the host mounted the package, or anywhere
\* in front of an errorHandler that is mounted last; and as the client's only
\* if the client's it is, unless a controller answered for it.
ErrorsAreNamed ==
    \A q \in Reqs :
       /\ req[q].answer = "html" =>
             ~req[q].inRouter /\ (config.mounted => req[q].route = "/late")
       /\ req[q].answer \in {"malformed", "error"} /\ req[q].fault # 0 =>
             (req[q].answer = "malformed" <=> req[q].fault \in 400 .. 499)

\* The budget is one for /register and /revoke together: in no interval as long
\* as the window are more requests of a caller let in, by any store that counts,
\* than one window's worth and what a window that ends in the interval has left
\* after its first request.
BudgetHeld ==
    \A c \in Stores \X Callers, t, u \in Instants :
       t <= u /\ u <= t + config.window => passed[c][u] - passed[c][t] <= 2 * Limit - 1

\* Every request gets its answer, or has its connection cut.
EveryRequestAnswered == \A q \in Reqs : Open(q) ~> ~Open(q)
=============================================================================

---------------------------- MODULE RouterProofs ----------------------------
(***************************************************************************)
(* Theorems about Router: one answer to a request, the right one to an     *)
(* error, and a budget that is held, for any number of slots, callers and  *)
(* processes and any limits and windows.                                   *)
(***************************************************************************)
EXTENDS Router, TLAPS

AllLayers == HostLayers \cup ErrorLayers \cup {"limiter", "parsers", "hmac", "controller"}

\* Putting a layer in front of others.
LEMMA InFront ==
    ASSUME NEW S, NEW s \in Seq(S), NEW x \in S
    PROVE  /\ <<x>> \o s \in Seq(S)
           /\ <<x>> \o s # <<>>
           /\ Head(<<x>> \o s) = x
           /\ Tail(<<x>> \o s) = s
           /\ Range(<<x>> \o s) = {x} \cup Range(s)
<1>1. /\ <<x>> \o s \in Seq(S) /\ Len(<<x>> \o s) = Len(s) + 1
      /\ Head(<<x>> \o s) = x /\ Tail(<<x>> \o s) = s
  OBVIOUS
<1>2. (<<x>> \o s)[1] = x /\ \A i \in 1 .. Len(s) : (<<x>> \o s)[i + 1] = s[i]
  OBVIOUS
<1>3. DOMAIN (<<x>> \o s) = 1 .. Len(s) + 1 /\ DOMAIN s = 1 .. Len(s) /\ Len(s) \in Nat
  BY <1>1
<1>4. Range(<<x>> \o s) \subseteq {x} \cup Range(s)
  <2>1. SUFFICES ASSUME NEW i \in 1 .. Len(s) + 1, i # 1
                 PROVE  (<<x>> \o s)[i] \in Range(s)
    BY <1>2, <1>3 DEF Range
  <2>2. i - 1 \in 1 .. Len(s) /\ (<<x>> \o s)[(i - 1) + 1] = s[i - 1]
    BY <1>2, <1>3, <2>1
  <2> QED
    BY <1>3, <2>2 DEF Range
<1>5. Range(s) \subseteq Range(<<x>> \o s)
  <2>1. SUFFICES ASSUME NEW i \in 1 .. Len(s) PROVE s[i] \in Range(<<x>> \o s)
    BY <1>3 DEF Range
  <2>2. i + 1 \in DOMAIN (<<x>> \o s) /\ (<<x>> \o s)[i + 1] = s[i]
    BY <1>2, <1>3
  <2> QED
    BY <2>2 DEF Range
<1>6. x \in Range(<<x>> \o s)
  BY <1>2, <1>3 DEF Range
<1> QED
  BY <1>1, <1>4, <1>5, <1>6

-----------------------------------------------------------------------------
(* What a request may have ahead while no error is pending.                *)

AppErrors == IF config.mounted THEN <<"appErrors">> ELSE <<>>

RouterEnd == <<"routerErrors">> \o AppErrors

AtController == <<"controller">> \o RouterEnd
AtParsers == <<"parsers">> \o AtController
AtLimiter == <<"limiter">> \o AtParsers
AtHmac == <<"hmac">> \o AtController
AtHost == <<"hostHandler">> \o AppErrors
AtAuth == <<"requireAuth">> \o AtHost

InRouter == {AtController, AtParsers, AtLimiter, AtHmac}

LatePath == AppErrors \o <<"hostHandler">>

\* The paths of a request for e.
Course(e) ==
    IF e = "/late" THEN {<<"hostParser">> \o LatePath, <<"hostHandler">>}
    ELSE InRouter \cup {AtAuth, AtHost}
           \cup {<<"hostParser">> \o p : p \in InRouter \cup {AtAuth}}

\* Past these layers is the app's errorHandler, if it is mounted.
ToAppErrors(s) == s \in Seq(AllLayers) /\ ("appErrors" \in Range(s) <=> config.mounted)

LEMMA AppErrorsThere == ToAppErrors(AppErrors)
<1>1. CASE config.mounted
  <2>1. AppErrors = <<"appErrors">> /\ "appErrors" \in AllLayers
    BY <1>1 DEF AppErrors, AllLayers, ErrorLayers
  <2>2. AppErrors \in Seq(AllLayers) /\ AppErrors[1] = "appErrors" /\ 1 \in DOMAIN AppErrors
    BY <2>1
  <2> QED
    BY <1>1, <2>2 DEF Range, ToAppErrors
<1>2. CASE ~config.mounted
  BY <1>2 DEF AppErrors, Range, ToAppErrors
<1> QED
  BY <1>1, <1>2

LEMMA ToAppErrorsInFront ==
    ASSUME NEW s, ToAppErrors(s), NEW l \in AllLayers \ {"appErrors"}
    PROVE  /\ ToAppErrors(<<l>> \o s)
           /\ Head(<<l>> \o s) = l /\ Tail(<<l>> \o s) = s /\ <<l>> \o s # <<>>
           /\ l \in Range(<<l>> \o s) /\ Range(s) \subseteq Range(<<l>> \o s)
BY InFront DEF ToAppErrors

LEMMA Paths ==
    /\ ToAppErrors(RouterEnd) /\ RouterEnd # <<>> /\ "routerErrors" \in Range(RouterEnd)
    /\ ToAppErrors(AtController) /\ "routerErrors" \in Range(AtController)
    /\ ToAppErrors(AtParsers) /\ "routerErrors" \in Range(AtParsers)
    /\ ToAppErrors(AtLimiter) /\ ToAppErrors(AtHmac)
    /\ ToAppErrors(AtHost) /\ ToAppErrors(AtAuth)
<1> USE DEF AllLayers, ErrorLayers, HostLayers
<1>1. ToAppErrors(RouterEnd) /\ RouterEnd # <<>> /\ "routerErrors" \in Range(RouterEnd)
  BY AppErrorsThere, ToAppErrorsInFront DEF RouterEnd
<1>2. ToAppErrors(AtController) /\ "routerErrors" \in Range(AtController)
  BY <1>1, ToAppErrorsInFront DEF AtController
<1>3. ToAppErrors(AtParsers) /\ "routerErrors" \in Range(AtParsers)
  BY <1>2, ToAppErrorsInFront DEF AtParsers
<1>4. ToAppErrors(AtLimiter) /\ ToAppErrors(AtHmac)
  BY <1>2, <1>3, ToAppErrorsInFront DEF AtLimiter, AtHmac
<1>5. ToAppErrors(AtHost)
  BY AppErrorsThere, ToAppErrorsInFront DEF AtHost
<1>6. ToAppErrors(AtAuth)
  BY <1>5, ToAppErrorsInFront DEF AtAuth
<1> QED
  BY <1>1, <1>2, <1>3, <1>4, <1>5, <1>6

LEMMA LatePathThere == LatePath \in Seq(AllLayers)
BY AppErrorsThere DEF LatePath, ToAppErrors, AllLayers, HostLayers

\* What errors still meet.
LEMMA HandlersMet ==
    /\ \A s : ToAppErrors(s) => Handlers(s, FALSE) = AppErrors
    /\ \A s : (ToAppErrors(s) /\ "routerErrors" \in Range(s)) => Handlers(s, TRUE) = RouterEnd
    /\ \A s : Handlers(s, FALSE) \in {<<>>, <<"appErrors">>}
BY DEF Handlers, ToAppErrors, AppErrors, RouterEnd

LEMMA Assoc ==
    ASSUME NEW s \in Seq(AllLayers), NEW t \in Seq(AllLayers), NEW u \in Seq(AllLayers)
    PROVE  (s \o t) \o u = s \o (t \o u) /\ s \o t \in Seq(AllLayers)
OBVIOUS

LEMMA Units == ASSUME NEW s \in Seq(AllLayers) PROVE s \o <<>> = s /\ <<>> \o s = s
OBVIOUS

\* A request that comes in is on a path.
LEMMA LayersCourse == \A e \in Endpoints : Layers(e) \in Course(e)
<1> SUFFICES ASSUME NEW e \in Endpoints PROVE Layers(e) \in Course(e)
  OBVIOUS
<1> DEFINE A == AppErrors
           R == RouterLayers(e)
           M == IF e = "/mcp" THEN <<"requireAuth", "hostHandler">> ELSE <<>>
           T == IF e = "/late" THEN <<"hostHandler">> ELSE <<>>
<1>1. Layers(e) = (((<<"hostParser">> \o R) \o M) \o A) \o T
  BY DEF Layers, AppErrors
<1>2. /\ A \in Seq(AllLayers) /\ <<>> \in Seq(AllLayers)
      /\ <<"hostParser">> \in Seq(AllLayers) /\ <<"requireAuth">> \in Seq(AllLayers)
      /\ <<"hostHandler">> \in Seq(AllLayers) /\ <<"limiter">> \in Seq(AllLayers)
      /\ <<"parsers">> \in Seq(AllLayers) /\ <<"hmac">> \in Seq(AllLayers)
      /\ <<"controller">> \in Seq(AllLayers) /\ RouterErrors \in Seq(AllLayers)
  BY AppErrorsThere DEF ToAppErrors, AllLayers, HostLayers, ErrorLayers, RouterErrors
<1> HIDE DEF A, R, M, T
<1>3. CASE e = "/late"
  <2>1. R = <<>> /\ M = <<>> /\ T = <<"hostHandler">>
    BY <1>3 DEF RouterLayers, R, M, T
  <2>2. (<<"hostParser">> \o R) \o M = <<"hostParser">>
    BY <1>2, <2>1, Units
  <2>3. Layers(e) = (<<"hostParser">> \o A) \o <<"hostHandler">>
    BY <1>1, <2>1, <2>2
  <2>4. Layers(e) = <<"hostParser">> \o LatePath
    BY <1>2, <2>3, Assoc DEF LatePath, A
  <2> QED
    BY <1>3, <2>4 DEF Course
<1>4. CASE e = "/mcp"
  <2>1. R = <<>> /\ M = <<"requireAuth">> \o <<"hostHandler">> /\ T = <<>>
    BY <1>4 DEF RouterLayers, R, M, T
  <2>2. <<"hostParser">> \o R = <<"hostParser">>
    BY <1>2, <2>1, Units
  <2>3. M \in Seq(AllLayers) /\ M \o A = AtAuth
    BY <1>2, <2>1, Assoc DEF AtAuth, AtHost, A
  <2>4. Layers(e) = ((<<"hostParser">> \o M) \o A) \o <<>>
    BY <1>1, <2>1, <2>2
  <2>5. (<<"hostParser">> \o M) \o A = <<"hostParser">> \o AtAuth
    <3>1. <<"hostParser">> \in Seq(AllLayers) /\ M \in Seq(AllLayers) /\ A \in Seq(AllLayers)
      BY <1>2, <2>3
    <3>2. (<<"hostParser">> \o M) \o A = <<"hostParser">> \o (M \o A)
      BY <3>1, Assoc
    <3> QED
      BY <2>3, <3>2
  <2>6. <<"hostParser">> \o AtAuth \in Seq(AllLayers)
    BY <1>2, Assoc, Paths DEF ToAppErrors
  <2> QED
    BY <1>4, <2>4, <2>5, <2>6, Units DEF Course
<1>5. CASE e \notin {"/late", "/mcp"}
  <2>1. M = <<>> /\ T = <<>>
    BY <1>5 DEF M, T
  <2>2. ASSUME NEW s \in Seq(AllLayers), R = s \o RouterErrors
        PROVE  Layers(e) = <<"hostParser">> \o (s \o RouterEnd)
    BY <1>1, <1>2, <2>1, <2>2, Assoc, Units DEF RouterErrors, RouterEnd, A
  <2>3. CASE e = "/authorize"
    <3>1. R = <<"controller">> \o RouterErrors
      BY <2>3 DEF RouterLayers, R
    <3> QED
      BY <1>2, <1>5, <2>2, <3>1 DEF Course, InRouter, AtController
  <2>4. CASE e = "/shopify-callback"
    <3>1. R = (<<"hmac">> \o <<"controller">>) \o RouterErrors
      BY <2>4 DEF RouterLayers, R
    <3>2. Layers(e) = <<"hostParser">> \o ((<<"hmac">> \o <<"controller">>) \o RouterEnd)
      BY <1>2, <2>2, <3>1, Assoc
    <3>3. Layers(e) = <<"hostParser">> \o AtHmac
      BY <1>2, <3>2, Assoc, Paths DEF AtHmac, AtController, ToAppErrors
    <3> QED
      BY <1>5, <3>3 DEF Course, InRouter
  <2>5. (<<"parsers">> \o <<"controller">>) \o RouterEnd = AtParsers
    BY <1>2, Assoc, Paths DEF AtParsers, AtController, ToAppErrors
  <2>6. CASE R = <<"parsers", "controller">> \o RouterErrors
    <3>1. R = (<<"parsers">> \o <<"controller">>) \o RouterErrors
      BY <2>6
    <3>2. Layers(e) = <<"hostParser">> \o AtParsers
      BY <1>2, <2>2, <2>5, <3>1, Assoc
    <3> QED
      BY <1>5, <3>2 DEF Course, InRouter
  <2>7. CASE R = (<<"limiter">> \o <<"parsers", "controller">>) \o RouterErrors
    <3>1. R = (<<"limiter">> \o (<<"parsers">> \o <<"controller">>)) \o RouterErrors
      BY <2>7
    <3>2. (<<"limiter">> \o (<<"parsers">> \o <<"controller">>)) \o RouterEnd = AtLimiter
      <4>1. <<"parsers">> \o <<"controller">> \in Seq(AllLayers) /\ RouterEnd \in Seq(AllLayers)
        BY <1>2, Assoc, Paths DEF ToAppErrors
      <4> QED
        BY <1>2, <2>5, <4>1, Assoc DEF AtLimiter
    <3>3. <<"limiter">> \o (<<"parsers">> \o <<"controller">>) \in Seq(AllLayers)
      BY <1>2, Assoc
    <3>4. Layers(e) = <<"hostParser">> \o AtLimiter
      BY <2>2, <3>1, <3>2, <3>3
    <3> QED
      BY <1>5, <3>4 DEF Course, InRouter
  <2>8. CASE e \in {"/token", "/register", "/revoke"}
    <3>1. \/ R = <<"parsers", "controller">> \o RouterErrors
          \/ R = (<<"limiter">> \o <<"parsers", "controller">>) \o RouterErrors
          \/ R = (<<>> \o <<"parsers", "controller">>) \o RouterErrors
      BY <2>8 DEF RouterLayers, R
    <3>2. <<>> \o <<"parsers", "controller">> = <<"parsers", "controller">>
      BY <1>2, Units
    <3> QED
      BY <2>6, <2>7, <3>1, <3>2
  <2> QED
    BY <1>5, <2>3, <2>4, <2>8 DEF Endpoints
<1> QED
  BY <1>3, <1>4, <1>5

-----------------------------------------------------------------------------
(* Requests.                                                               *)

Request == [route : Endpoints, caller : Callers \cup {CHOOSE c \in Callers : TRUE},
            to : Seq(AllLayers), fault : Nat, inRouter : BOOLEAN, begun : Nat,
            answer : Answers]

\* A request that is on its way has begun no response and is on its path.  One
\* with an error pending has the router's error handler next, if the error arose
\* inside the router; otherwise it has the app's, or none any more.
OnItsWay(r) ==
    /\ r.fault = 0 => r.begun = 0 /\ r.to \in Course(r.route)
    /\ (r.fault # 0 /\ r.inRouter) => r.begun = 0 /\ r.to = RouterEnd
    /\ (r.fault # 0 /\ ~r.inRouter) =>
          /\ r.to \in {<<>>, <<"appErrors">>}
          /\ (r.begun = 0 /\ config.mounted /\ r.route # "/late") => r.to = <<"appErrors">>

Named(r) ==
    /\ r.answer = "html" => ~r.inRouter /\ (config.mounted => r.route = "/late")
    /\ (r.answer \in {"malformed", "error"} /\ r.fault # 0) =>
          (r.answer = "malformed" <=> r.fault \in 400 .. 499)

Sound(r) ==
    /\ r \in Request
    /\ r.begun <= 1
    /\ r.answer = "open" => OnItsWay(r)
    /\ Named(r)

RequestInv == req \in [Reqs -> Request] /\ \A q \in Reqs : Sound(req[q])

LEMMA ConfigFixed == [Next]_vars => config' = config
BY DEF Next, Step, HostParser, Limiter, Parsers, HmacGuard, Controller, RequireAuth,
       HostHandler, ErrorHandler, DefaultHandler, Arrive, Tick, vars

\* A step that turns the request of one slot into a sound one.
LEMMA OneMoves ==
    ASSUME RequestInv, config' = config, NEW q \in Reqs, NEW r, Sound(r),
           req' = [req EXCEPT ![q] = r]
    PROVE  RequestInv'
<1>1. req' \in [Reqs -> Request]
  BY DEF RequestInv, Sound
<1>2. \A x : Sound(x)' <=> Sound(x)
  BY DEF Sound, OnItsWay, Named, Course, InRouter, AtController, AtParsers, AtLimiter, AtHmac,
         AtAuth, AtHost, LatePath, RouterEnd, AppErrors
<1>3. ASSUME NEW x \in Reqs PROVE \E y : y = req'[x] /\ Sound(y)
  BY DEF RequestInv
<1>4. ASSUME NEW x \in Reqs PROVE Sound(req[x])'
  BY <1>2, <1>3
<1> QED
  BY <1>1, <1>4 DEF RequestInv

LEMMA PathHeads ==
    /\ Head(AtController) = "controller" /\ Tail(AtController) = RouterEnd
    /\ Head(AtParsers) = "parsers" /\ Tail(AtParsers) = AtController
    /\ Head(AtLimiter) = "limiter" /\ Tail(AtLimiter) = AtParsers
    /\ Head(AtHmac) = "hmac" /\ Tail(AtHmac) = AtController
    /\ Head(AtHost) = "hostHandler" /\ Tail(AtHost) = AppErrors
    /\ Head(AtAuth) = "requireAuth" /\ Tail(AtAuth) = AtHost
    /\ \A p \in InRouter \cup {AtAuth, LatePath} :
          Head(<<"hostParser">> \o p) = "hostParser" /\ Tail(<<"hostParser">> \o p) = p
    /\ Head(<<"hostHandler">>) = "hostHandler" /\ Tail(<<"hostHandler">>) = <<>>
<1> USE DEF AllLayers, ErrorLayers, HostLayers
<1>1. Head(AtController) = "controller" /\ Tail(AtController) = RouterEnd
  BY Paths, ToAppErrorsInFront DEF AtController
<1>2. Head(AtParsers) = "parsers" /\ Tail(AtParsers) = AtController
  BY Paths, ToAppErrorsInFront DEF AtParsers
<1>3. Head(AtLimiter) = "limiter" /\ Tail(AtLimiter) = AtParsers
  BY Paths, ToAppErrorsInFront DEF AtLimiter
<1>4. Head(AtHmac) = "hmac" /\ Tail(AtHmac) = AtController
  BY Paths, ToAppErrorsInFront DEF AtHmac
<1>5. Head(AtHost) = "hostHandler" /\ Tail(AtHost) = AppErrors
  BY AppErrorsThere, ToAppErrorsInFront DEF AtHost
<1>6. Head(AtAuth) = "requireAuth" /\ Tail(AtAuth) = AtHost
  BY Paths, ToAppErrorsInFront DEF AtAuth
<1>7. ASSUME NEW p \in InRouter \cup {AtAuth, LatePath}
      PROVE  Head(<<"hostParser">> \o p) = "hostParser" /\ Tail(<<"hostParser">> \o p) = p
  <2>1. p \in Seq(AllLayers)
    BY Paths, LatePathThere DEF InRouter, ToAppErrors
  <2> QED
    BY <2>1, InFront
<1> QED
  BY <1>1, <1>2, <1>3, <1>4, <1>5, <1>6, <1>7

LEMMA CourseSeq == \A e : Course(e) \subseteq Seq(AllLayers)
<1>1. \A p \in InRouter \cup {AtAuth, AtHost, LatePath} : p \in Seq(AllLayers)
  BY Paths, LatePathThere DEF InRouter, ToAppErrors
<1>2. \A p \in InRouter \cup {AtAuth, LatePath} : <<"hostParser">> \o p \in Seq(AllLayers)
  BY <1>1, InFront DEF AllLayers, HostLayers
<1>3. <<"hostHandler">> \in Seq(AllLayers)
  BY DEF AllLayers, HostLayers
<1> QED
  BY <1>1, <1>2, <1>3 DEF Course

\* A response that is the request's first, and says what was the matter.
LEMMA AnsweredSound ==
    ASSUME RequestInv, config' = config, NEW q \in Reqs, req[q].begun = 0,
           NEW answer \in Answers \ {"open"}, Answered(q, answer),
           answer = "html" => ~req[q].inRouter /\ (config.mounted => req[q].route = "/late"),
           (answer \in {"malformed", "error"} /\ req[q].fault # 0) =>
              (answer = "malformed" <=> req[q].fault \in 400 .. 499)
    PROVE  RequestInv'
<1> DEFINE r == [req[q] EXCEPT !.answer = answer, !.begun = 1, !.to = <<>>,
                               !.route = IF answer = "html" THEN @ ELSE "/authorize"]
<1>1. req' = [req EXCEPT ![q] = r]
  BY DEF Answered, RequestInv, Request
<1>2. req[q] \in Request /\ <<>> \in Seq(AllLayers) /\ "/authorize" \in Endpoints
  BY DEF RequestInv, Endpoints
<1>3. r \in Request
  BY <1>2 DEF Request
<1>4. Sound(r)
  <2>1. /\ r.answer = answer /\ r.begun = 1 /\ r.fault = req[q].fault
        /\ r.inRouter = req[q].inRouter
        /\ answer = "html" => r.route = req[q].route
    BY <1>2 DEF Request
  <2> HIDE DEF r
  <2> QED
    BY <1>3, <2>1 DEF Sound, Named
<1> QED
  BY <1>1, <1>4, OneMoves

\* An error that arises on the way.
LEMMA RaisedSound ==
    ASSUME RequestInv, config' = config, NEW q \in Reqs, Open(q), req[q].fault = 0,
           NEW status \in Nat \ {0}, NEW begun \in {0, 1}, Raised(q, status, begun),
           Head(req[q].to) \notin HostLayers => begun = 0
    PROVE  RequestInv'
<1> DEFINE inside == Head(req[q].to) \notin HostLayers
           rest == Handlers(Tail(req[q].to), inside)
           r == [req[q] EXCEPT !.fault = status, !.inRouter = inside, !.begun = begun,
                               !.to = rest]
<1>1. req' = [req EXCEPT ![q] = r]
  BY DEF Raised, RequestInv, Request
<1>2. req[q].to \in Course(req[q].route) /\ req[q] \in Request
  BY DEF RequestInv, Sound, OnItsWay, Open
<1> HIDE DEF rest
<1>3. /\ rest \in Seq(AllLayers) => r \in Request
      /\ r.answer = "open" /\ r.begun = begun /\ r.fault = status
      /\ r.inRouter = inside /\ r.to = rest /\ r.route = req[q].route
  <2>1. inside \in BOOLEAN /\ begun \in Nat /\ status \in Nat
    OBVIOUS
  <2> HIDE DEF inside
  <2> QED
    BY <1>2, <2>1 DEF Request, Open
<1>4. CASE inside
  <2>1. req[q].to \in InRouter
    BY <1>2, <1>4, PathHeads DEF Course, HostLayers
  <2>2. ToAppErrors(Tail(req[q].to)) /\ "routerErrors" \in Range(Tail(req[q].to))
    BY <2>1, PathHeads, Paths DEF InRouter
  <2>3. rest = RouterEnd /\ RouterEnd \in Seq(AllLayers)
    BY <1>4, <2>2, HandlersMet, Paths DEF rest, ToAppErrors
  <2>4. /\ r \in Request /\ r.answer = "open" /\ r.begun = 0 /\ r.fault # 0
        /\ r.inRouter /\ r.to = RouterEnd
    BY <1>3, <1>4, <2>3
  <2>5. Sound(r)
    <3> HIDE DEF r
    <3> QED
      BY <2>4 DEF Sound, OnItsWay, Named
  <2> QED
    BY <1>1, <2>5, OneMoves
<1>5. CASE ~inside
  <2>1. rest \in {<<>>, <<"appErrors">>} /\ rest \in Seq(AllLayers)
    <3>1. rest = Handlers(Tail(req[q].to), FALSE)
      BY <1>5 DEF rest
    <3>2. <<>> \in Seq(AllLayers) /\ <<"appErrors">> \in Seq(AllLayers)
      BY DEF AllLayers, ErrorLayers
    <3> QED
      BY <3>1, <3>2, HandlersMet
  <2>2. ASSUME config.mounted, req[q].route # "/late" PROVE rest = <<"appErrors">>
    <3>1. req[q].to \in {AtAuth, AtHost} \cup {<<"hostParser">> \o p : p \in InRouter \cup {AtAuth}}
      BY <1>2, <1>5, <2>2, PathHeads DEF Course, InRouter, HostLayers
    <3>2. ToAppErrors(Tail(req[q].to))
      BY <3>1, PathHeads, Paths, AppErrorsThere DEF InRouter
    <3> QED
      BY <1>5, <2>2, <3>2, HandlersMet DEF rest, AppErrors
  <2>3. /\ r \in Request /\ r.answer = "open" /\ r.begun <= 1 /\ r.fault # 0
        /\ ~r.inRouter /\ r.to \in {<<>>, <<"appErrors">>}
        /\ (config.mounted /\ r.route # "/late") => r.to = <<"appErrors">>
    <3>1. ~r.inRouter
      BY <1>3, <1>5
    <3>2. begun <= 1 /\ status # 0
      OBVIOUS
    <3> HIDE DEF r, inside
    <3> QED
      BY <1>3, <2>1, <2>2, <3>1, <3>2
  <2>4. Sound(r)
    <3> HIDE DEF r
    <3> QED
      BY <2>3 DEF Sound, OnItsWay, Named
  <2> QED
    BY <1>1, <2>4, OneMoves
<1> QED
  BY <1>4, <1>5

\* A layer that lets the request pass.
LEMMA PassedSound ==
    ASSUME RequestInv, config' = config, NEW q \in Reqs, Open(q), req[q].fault = 0,
           Head(req[q].to) \notin {"controller", "hostHandler"}, Passed(q)
    PROVE  RequestInv'
<1> DEFINE rest == Tail(req[q].to)
           ahead == IF Head(rest) \in ErrorLayers THEN Tail(rest) ELSE rest
           r == [req[q] EXCEPT !.to = ahead]
<1>1. req' = [req EXCEPT ![q] = r]
  BY DEF Passed, RequestInv, Request
<1>2. req[q].to \in Course(req[q].route) /\ req[q] \in Request /\ req[q].begun = 0
  BY DEF RequestInv, Sound, OnItsWay, Open
<1>3. ahead \in Course(req[q].route)
  <2>1. CASE req[q].route # "/late"
    <3>1. rest \in InRouter \cup {AtAuth, AtHost}
      <4>1. CASE req[q].to \in InRouter \cup {AtAuth, AtHost}
        BY <4>1, PathHeads DEF InRouter
      <4>2. ASSUME NEW p \in InRouter \cup {AtAuth}, req[q].to = <<"hostParser">> \o p
            PROVE  rest \in InRouter \cup {AtAuth, AtHost}
        BY <4>2, PathHeads
      <4> QED
        BY <1>2, <2>1, <4>1, <4>2 DEF Course
    <3>2. Head(rest) \notin ErrorLayers
      BY <3>1, PathHeads DEF InRouter, ErrorLayers
    <3> QED
      BY <2>1, <3>1, <3>2 DEF Course
  <2>2. CASE req[q].route = "/late"
    <3>1. rest = LatePath
      BY <1>2, <2>2, PathHeads DEF Course
    <3>2. CASE config.mounted
      <4>1. LatePath = <<"appErrors">> \o <<"hostHandler">>
        BY <3>2 DEF LatePath, AppErrors
      <4>2. <<"hostHandler">> \in Seq(AllLayers) /\ "appErrors" \in AllLayers
        BY DEF AllLayers, HostLayers, ErrorLayers
      <4>3. Head(LatePath) = "appErrors" /\ Tail(LatePath) = <<"hostHandler">>
        BY <4>1, <4>2, InFront
      <4> QED
        BY <2>2, <3>1, <4>3 DEF Course, ErrorLayers
    <3>3. CASE ~config.mounted
      <4>1. LatePath = <<"hostHandler">>
        BY <3>3 DEF LatePath, AppErrors
      <4>2. Head(rest) = "hostHandler"
        BY <3>1, <4>1, PathHeads
      <4>3. ahead = <<"hostHandler">>
        BY <3>1, <4>1, <4>2 DEF ErrorLayers
      <4> QED
        BY <2>2, <4>3 DEF Course
    <3> QED
      BY <3>2, <3>3
  <2> QED
    BY <2>1, <2>2
<1> HIDE DEF ahead
<1>4. ahead \in Seq(AllLayers)
  BY <1>3, CourseSeq
<1>5. /\ r \in Request /\ r.to = ahead /\ r.fault = 0 /\ r.begun = 0 /\ r.answer = "open"
      /\ r.route = req[q].route
  BY <1>2, <1>4 DEF Request, Open
<1>6. Sound(r)
  BY <1>3, <1>5 DEF Sound, OnItsWay, Named
<1> QED
  BY <1>1, <1>6, OneMoves DEF ahead

LEMMA InitRequestInv == Init => RequestInv
<1> SUFFICES ASSUME Init PROVE RequestInv
  OBVIOUS
<1>1. Idle \in Request
  <2>1. /\ Layers("/authorize") \in Seq(AllLayers)
        /\ <<>> \in Seq(AllLayers) /\ "/authorize" \in Endpoints
    BY LayersCourse, CourseSeq DEF Endpoints
  <2> QED
    BY <2>1 DEF Idle, Fresh, Request, Answers
<1>2. Idle.begun = 0 /\ Idle.answer = "handled"
  BY DEF Idle, Fresh
<1>3. Sound(Idle)
  BY <1>1, <1>2 DEF Sound, Named
<1> QED
  BY <1>1, <1>3 DEF Init, RequestInv

\* The layer a request is at.
LEMMA AtLayer ==
    ASSUME RequestInv, NEW q \in Reqs, NEW l \in AllLayers \ ErrorLayers, At(q, l)
    PROVE  Open(q) /\ req[q].fault = 0 /\ req[q].begun = 0 /\ Head(req[q].to) = l
<1>1. Open(q) /\ Head(req[q].to) = l /\ req[q].to # <<>> /\ OnItsWay(req[q])
  BY DEF At, Open, RequestInv, Sound
<1>2. Head(RouterEnd) = "routerErrors" /\ Head(<<"appErrors">>) = "appErrors"
  BY AppErrorsThere, ToAppErrorsInFront DEF RouterEnd, AllLayers, ErrorLayers
<1> QED
  BY <1>1, <1>2 DEF OnItsWay, ErrorLayers

LEMMA RejectedSound ==
    ASSUME RequestInv, config' = config, NEW q \in Reqs, Open(q), req[q].fault = 0,
           req[q].begun = 0, NEW begun \in {0, 1}, Rejected(q, begun),
           Head(req[q].to) \notin HostLayers => begun = 0
    PROVE  RequestInv'
<1>1. CASE begun = 1
  BY <1>1, RaisedSound DEF Rejected
<1>2. CASE begun = 0
  BY <1>2, AnsweredSound DEF Rejected, Answers
<1> QED
  BY <1>1, <1>2

LEMMA NextRequestInv == RequestInv /\ [Next]_vars => RequestInv'
<1> SUFFICES ASSUME RequestInv, [Next]_vars PROVE RequestInv'
  OBVIOUS
<1>0. config' = config
  BY ConfigFixed
<1> USE DEF AllLayers, HostLayers, ErrorLayers
<1>1. ASSUME NEW q \in Reqs, HostParser(q) \/ Parsers(q) PROVE RequestInv'
  <2>1. PICK l \in {"hostParser", "parsers"} : At(q, l)
    BY <1>1 DEF HostParser, Parsers
  <2>2. Open(q) /\ req[q].fault = 0 /\ Head(req[q].to) = l
    BY <2>1, AtLayer
  <2>3. CASE Passed(q)
    BY <1>0, <2>2, <2>3, PassedSound
  <2>4. ASSUME NEW status \in Statuses, Raised(q, status, 0) PROVE RequestInv'
    BY <1>0, <2>2, <2>4, RaisedSound, StatusAssumption
  <2> QED
    BY <1>1, <2>3, <2>4 DEF HostParser, Parsers
<1>2. ASSUME NEW q \in Reqs, Limiter(q) PROVE RequestInv'
  <2>1. Open(q) /\ req[q].fault = 0 /\ req[q].begun = 0 /\ Head(req[q].to) = "limiter"
    BY <1>2, AtLayer DEF Limiter
  <2>2. Answered(q, "limited") \/ Passed(q) \/ Raised(q, 500, 0)
    BY <1>2 DEF Limiter
  <2>3. CASE Answered(q, "limited")
    BY <1>0, <2>1, <2>3, AnsweredSound DEF Answers
  <2>4. CASE Passed(q)
    BY <1>0, <2>1, <2>4, PassedSound
  <2>5. CASE Raised(q, 500, 0)
    BY <1>0, <2>1, <2>5, RaisedSound
  <2> QED
    BY <2>2, <2>3, <2>4, <2>5
<1>3. ASSUME NEW q \in Reqs, HmacGuard(q) PROVE RequestInv'
  <2>1. Open(q) /\ req[q].fault = 0 /\ req[q].begun = 0 /\ Head(req[q].to) = "hmac"
    BY <1>3, AtLayer DEF HmacGuard
  <2>2. CASE Passed(q)
    BY <1>0, <2>1, <2>2, PassedSound
  <2>3. CASE Answered(q, "handled")
    BY <1>0, <2>1, <2>3, AnsweredSound DEF Answers
  <2> QED
    BY <1>3, <2>2, <2>3 DEF HmacGuard
<1>4. ASSUME NEW q \in Reqs, Controller(q) PROVE RequestInv'
  <2>1. Open(q) /\ req[q].fault = 0 /\ req[q].begun = 0 /\ Head(req[q].to) = "controller"
    BY <1>4, AtLayer DEF Controller
  <2>2. CASE Answered(q, "handled")
    BY <1>0, <2>1, <2>2, AnsweredSound DEF Answers
  <2>3. CASE Rejected(q, 0)
    BY <1>0, <2>1, <2>3, RejectedSound
  <2> QED
    BY <1>4, <2>2, <2>3 DEF Controller
<1>5. ASSUME NEW q \in Reqs, RequireAuth(q) PROVE RequestInv'
  <2>1. Open(q) /\ req[q].fault = 0 /\ req[q].begun = 0 /\ Head(req[q].to) = "requireAuth"
    BY <1>5, AtLayer DEF RequireAuth
  <2>2. CASE Passed(q)
    BY <1>0, <2>1, <2>2, PassedSound
  <2>3. CASE Answered(q, "handled")
    BY <1>0, <2>1, <2>3, AnsweredSound DEF Answers
  <2>4. ASSUME NEW begun \in {0, 1}, Rejected(q, begun) PROVE RequestInv'
    BY <1>0, <2>1, <2>4, RejectedSound
  <2> QED
    BY <1>5, <2>2, <2>3, <2>4 DEF RequireAuth
<1>6. ASSUME NEW q \in Reqs, HostHandler(q) PROVE RequestInv'
  <2>1. Open(q) /\ req[q].fault = 0 /\ req[q].begun = 0 /\ Head(req[q].to) = "hostHandler"
    BY <1>6, AtLayer DEF HostHandler
  <2>2. CASE Answered(q, "handled")
    BY <1>0, <2>1, <2>2, AnsweredSound DEF Answers
  <2>3. ASSUME NEW status \in Statuses, NEW begun \in {0, 1}, Raised(q, status, begun)
        PROVE  RequestInv'
    BY <1>0, <2>1, <2>3, RaisedSound, StatusAssumption
  <2> QED
    BY <1>6, <2>2, <2>3 DEF HostHandler
<1>7. ASSUME NEW q \in Reqs, ErrorHandler(q) PROVE RequestInv'
  <2>1. /\ Open(q) /\ Head(req[q].to) \in ErrorLayers /\ OnItsWay(req[q])
        /\ req[q] \in Request /\ req[q].begun <= 1
    BY <1>7 DEF ErrorHandler, At, Open, RequestInv, Sound
  <2>2. req[q].fault # 0
    <3>1. \A p \in Course(req[q].route) : Head(p) \notin ErrorLayers
      BY PathHeads DEF Course, InRouter
    <3> QED
      BY <2>1, <3>1 DEF OnItsWay
  <2>3. CASE req[q].begun > 0
    <3> DEFINE r == [req[q] EXCEPT !.to = <<>>]
    <3>1. req[q].to = <<"appErrors">> /\ ~req[q].inRouter
      BY <1>7, <2>1, <2>2, <2>3 DEF OnItsWay, ErrorHandler, At
    <3>2. req' = [req EXCEPT ![q] = r]
      BY <1>7, <2>3, <3>1 DEF ErrorHandler
    <3>3. r \in Request /\ r.to = <<>> /\ r.answer = "open"
      <4>1. <<>> \in Seq(AllLayers) /\ req[q].answer = "open" /\ req[q] \in Request
        BY <2>1 DEF Open
      <4>2. r \in Request
        BY <4>1 DEF Request
      <4> QED
        BY <4>1, <4>2 DEF Request
    <3>4. r.fault = req[q].fault /\ r.begun = req[q].begun /\ r.inRouter = req[q].inRouter
      BY <2>1 DEF Request
    <3>5. ~r.inRouter
      BY <3>1, <3>4
    <3> HIDE DEF r
    <3>6. r.fault # 0 /\ r.begun > 0 /\ r.begun <= 1
      BY <2>1, <2>2, <2>3, <3>4
    <3>7. Sound(r)
      BY <3>3, <3>5, <3>6 DEF Sound, OnItsWay, Named
    <3> QED
      BY <1>0, <3>2, <3>7, OneMoves
  <2>4. CASE req[q].begun = 0
    <3> DEFINE answer == IF ClientError(req[q].fault) THEN "malformed" ELSE "error"
    <3>1. Answered(q, answer)
      BY <1>7, <2>4 DEF ErrorHandler
    <3>2. answer \in Answers \ {"open"} /\ answer # "html"
      BY DEF Answers
    <3>3. answer = "malformed" <=> req[q].fault \in 400 .. 499
      BY DEF ClientError
    <3> HIDE DEF answer
    <3> QED
      BY <1>0, <2>4, <3>1, <3>2, <3>3, AnsweredSound
  <2> QED
    BY <2>1, <2>3, <2>4 DEF Request
<1>8. ASSUME NEW q \in Reqs, DefaultHandler(q) PROVE RequestInv'
  <2>1. /\ req[q].answer = "open" /\ req[q].to = <<>> /\ req[q].fault # 0 /\ OnItsWay(req[q])
        /\ req[q] \in Request /\ req[q].begun <= 1
    BY <1>8 DEF DefaultHandler, Open, RequestInv, Sound
  <2>2. CASE req[q].begun > 0
    <3> DEFINE r == [req[q] EXCEPT !.answer = "cut"]
    <3>1. req' = [req EXCEPT ![q] = r]
      BY <1>8, <2>2 DEF DefaultHandler
    <3>2. r \in Request /\ r.answer = "cut" /\ r.begun <= 1
      BY <2>1 DEF Request, Answers
    <3> HIDE DEF r
    <3>3. Sound(r)
      BY <3>2 DEF Sound, Named
    <3> QED
      BY <1>0, <3>1, <3>3, OneMoves
  <2>3. CASE req[q].begun = 0
    <3>1. Answered(q, "html")
      BY <1>8, <2>3 DEF DefaultHandler
    <3>2. ~req[q].inRouter /\ (config.mounted => req[q].route = "/late")
      BY <2>1, <2>3, Paths DEF OnItsWay
    <3> QED
      BY <1>0, <2>3, <3>1, <3>2, AnsweredSound DEF Answers
  <2> QED
    BY <2>1, <2>2, <2>3 DEF Request
<1>9. ASSUME NEW q \in Reqs, NEW e \in Routes[q], NEW c \in Callers, Arrive(q, e, c)
      PROVE  RequestInv'
  <2> DEFINE r == Fresh(e, c)
  <2>1. e \in Endpoints
    BY RouteAssumption
  <2>2. Layers(e) \in Course(e) /\ Layers(e) \in Seq(AllLayers)
    BY <2>1, LayersCourse, CourseSeq
  <2>3. /\ r \in Request /\ r.answer = "open" /\ r.fault = 0 /\ r.begun = 0
        /\ r.to \in Course(r.route)
    BY <2>1, <2>2 DEF Fresh, Request, Answers
  <2>4. req' = [req EXCEPT ![q] = r]
    BY <1>9 DEF Arrive
  <2> HIDE DEF r
  <2>5. Sound(r)
    BY <2>3 DEF Sound, OnItsWay, Named
  <2> QED
    BY <1>0, <2>4, <2>5, OneMoves
<1>10. CASE UNCHANGED req
  <2>1. \A x : Sound(x)' <=> Sound(x)
    BY <1>0 DEF Sound, OnItsWay, Named, Course, InRouter, AtController, AtParsers, AtLimiter,
                AtHmac, AtAuth, AtHost, LatePath, RouterEnd, AppErrors
  <2> QED
    BY <1>10, <2>1 DEF RequestInv
<1> QED
  BY <1>1, <1>2, <1>3, <1>4, <1>5, <1>6, <1>7, <1>8, <1>9, <1>10
     DEF Next, Step, Tick, vars

\* No response is begun twice (asyncHandler and errorHandler ask res.headersSent).
THEOREM OneAnswerHolds == Spec => []OneAnswer
<1>1. RequestInv => OneAnswer
  BY DEF RequestInv, Sound, OneAnswer
<1> QED
  BY <1>1, InitRequestInv, NextRequestInv, PTL DEF Spec

\* An error is answered for what it is, and never with Express's stack trace where
\* an errorHandler is mounted behind the layer that it arose in (buildRouter and
\* mountShopifyMcpOAuth).
THEOREM ErrorsAreNamedHolds == Spec => []ErrorsAreNamed
<1>1. RequestInv => ErrorsAreNamed
  BY DEF RequestInv, Sound, Named, ErrorsAreNamed
<1> QED
  BY <1>1, InitRequestInv, NextRequestInv, PTL DEF Spec

-----------------------------------------------------------------------------
(* The limiter's budget.                                                   *)

\* What is known of the requests p[t] that a store has let in before t, at the
\* instant n, if its bucket's window has the length w and began at h (and a bucket
\* that is not there would begin one now), and let in at most `spent` since then.
Ledger(p, n, h, spent, w) ==
    /\ p \in [Instants -> Nat] /\ h \in 0 .. n
    /\ \A t, u \in Instants : t <= u => p[t] <= p[u]
    /\ \A t \in Instants : n < t => p[t] = p[n + 1]
    /\ p[n + 1] - p[h] <= spent
    /\ \A t \in Instants : h - w < t /\ t <= h => p[h] - p[t] <= Limit - 1
    /\ \A t, u \in Instants : t <= u /\ u <= t + w => p[u] - p[t] <= 2 * Limit - 1

\* The window's first request was let in.
Opened(p, h) == p[h] < p[h + 1]

Lengths == {w \in Windows : ValidWindow(w)}

LEMMA LengthsPositive == \A w \in Lengths : w \in Nat /\ w > 0 /\ w <= MaxDelay
BY WindowAssumption DEF Lengths, ValidWindow

LEMMA TimeBounds ==
    /\ Limit \in Nat /\ Limit > 0 /\ MaxTime \in Nat /\ MaxTime > 0
    /\ \A n \in 0 .. MaxTime : n \in Instants /\ n + 1 \in Instants
    /\ \A t \in Instants : t \in Nat /\ t <= MaxTime + 1
BY NumberAssumption DEF Instants

\* One more request is let in.
LEMMA LedgerLetsIn ==
    ASSUME NEW p, NEW n \in 0 .. MaxTime, NEW h, NEW spent \in Nat, NEW w \in Lengths,
           Ledger(p, n, h, spent, w), spent < Limit, h = n \/ Opened(p, h),
           NEW q, q = [t \in Instants |-> IF n < t THEN p[t] + 1 ELSE p[t]]
    PROVE  Ledger(q, n, h, spent + 1, w) /\ Opened(q, h)
<1>1. h \in Nat /\ h <= n /\ h \in Instants /\ n \in Nat /\ n + 1 \in Instants /\ h + 1 \in Instants
  BY TimeBounds DEF Ledger, Instants
<1>2. p \in [Instants -> Nat] /\ \A t \in Instants : p[t] \in Nat
  BY DEF Ledger
<1>3. q \in [Instants -> Nat]
  BY <1>2
<1>4. \A t \in Instants : (n < t => q[t] = p[t] + 1) /\ (t <= n => q[t] = p[t])
  BY <1>1, TimeBounds
<1>5. \A t, u \in Instants : t <= u => q[t] <= q[u]
  BY <1>1, <1>2, <1>4, TimeBounds DEF Ledger
<1>6. \A t \in Instants : n < t => q[t] = q[n + 1]
  BY <1>1, <1>4 DEF Ledger
<1>7. q[n + 1] - q[h] <= spent + 1
  BY <1>1, <1>2, <1>4 DEF Ledger
<1>8. \A t \in Instants : h - w < t /\ t <= h => q[h] - q[t] <= Limit - 1
  BY <1>1, <1>4, TimeBounds DEF Ledger
<1>9. ASSUME NEW t \in Instants, NEW u \in Instants, t <= u, u <= t + w
      PROVE  q[u] - q[t] <= 2 * Limit - 1
  <2>1. t \in Nat /\ u \in Nat /\ w \in Nat /\ Limit \in Nat /\ Limit > 0
    BY TimeBounds, LengthsPositive
  <2>2. CASE n < t \/ u <= n
    <3>1. q[u] - q[t] = p[u] - p[t]
      BY <1>1, <1>2, <1>4, <1>9, <2>1, <2>2
    <3> QED
      BY <1>9, <3>1 DEF Ledger
  <2>3. CASE t <= n /\ n < u
    <3>1. q[u] = p[n + 1] + 1 /\ q[t] = p[t] /\ p[n + 1] - p[h] <= spent
      BY <1>4, <2>3 DEF Ledger
    <3>2. CASE h <= t
      <4>1. p[h] <= p[t]
        BY <1>1, <3>2 DEF Ledger
      <4> QED
        BY <1>1, <1>2, <2>1, <3>1, <4>1
    <3>3. CASE t < h
      <4>1. h - w < t
        BY <1>1, <1>9, <2>1, <2>3
      <4>2. p[h] - p[t] <= Limit - 1
        BY <2>1, <1>1, <3>3, <4>1 DEF Ledger
      <4> QED
        BY <1>1, <1>2, <2>1, <3>1, <4>2
    <3> QED
      BY <1>1, <2>1, <3>2, <3>3
  <2> QED
    BY <1>1, <2>1, <2>2, <2>3
<1>10. Opened(q, h)
  <2>1. CASE h = n
    <3>1. p[h] <= p[h + 1] /\ q[h] = p[h] /\ q[h + 1] = p[h + 1] + 1
      BY <1>1, <1>4, <2>1 DEF Ledger
    <3> QED
      BY <1>1, <1>2, <3>1 DEF Opened
  <2>2. CASE h < n
    <3>1. q[h] = p[h] /\ q[h + 1] = p[h + 1] /\ Opened(p, h)
      BY <1>1, <1>4, <2>2
    <3> QED
      BY <3>1 DEF Opened
  <2> QED
    BY <1>1, <2>1, <2>2
<1>11. h \in 0 .. n
  BY DEF Ledger
<1> QED
  BY <1>3, <1>5, <1>6, <1>7, <1>8, <1>9, <1>10, <1>11 DEF Ledger

\* An instant passes, and the window goes on.
LEMMA LedgerGoesOn ==
    ASSUME NEW p, NEW n \in 0 .. MaxTime, n < MaxTime, NEW h, NEW spent \in Nat,
           NEW w \in Lengths, Ledger(p, n, h, spent, w)
    PROVE  Ledger(p, n + 1, h, spent, w)
<1>1. n \in Nat /\ n + 1 \in Instants /\ (n + 1) + 1 \in Instants
  BY TimeBounds DEF Instants
<1>2. p[(n + 1) + 1] = p[n + 1]
  BY <1>1 DEF Ledger
<1>3. \A t \in Instants : n + 1 < t => p[t] = p[(n + 1) + 1]
  BY <1>1, <1>2, TimeBounds DEF Ledger
<1>4. h \in 0 .. n + 1
  BY <1>1 DEF Ledger
<1> QED
  BY <1>2, <1>3, <1>4 DEF Ledger

\* An instant passes, and the next window would begin at it: because the last one
\* ends, or because there is none.
LEMMA LedgerBegins ==
    ASSUME NEW p, NEW n \in 0 .. MaxTime, n < MaxTime, NEW h, NEW spent \in Nat,
           NEW w \in Lengths, Ledger(p, n, h, spent, w), spent <= Limit,
           \/ h + w = n + 1 /\ Opened(p, h)
           \/ h = n /\ spent = 0
    PROVE  Ledger(p, n + 1, n + 1, 0, w)
<1>1. /\ n \in Nat /\ n \in Instants /\ n + 1 \in Instants /\ (n + 1) + 1 \in Instants
      /\ h \in Nat /\ h <= n /\ h \in Instants /\ h + 1 \in Instants
  BY TimeBounds DEF Instants, Ledger
<1>2. p[(n + 1) + 1] = p[n + 1]
  BY <1>1 DEF Ledger
<1>3. \A t \in Instants : n + 1 < t => p[t] = p[(n + 1) + 1]
  BY <1>1, <1>2, TimeBounds DEF Ledger
<1>4. \A t \in Instants : p[t] \in Nat
  BY DEF Ledger
<1>5. p[(n + 1) + 1] - p[n + 1] <= 0
  BY <1>1, <1>2, <1>4
<1>6. ASSUME NEW t \in Instants, (n + 1) - w < t, t <= n + 1
      PROVE  p[n + 1] - p[t] <= Limit - 1
  <2>1. t \in Nat /\ w \in Nat /\ w > 0 /\ Limit \in Nat /\ Limit > 0
    BY TimeBounds, LengthsPositive
  <2>2. p[n + 1] - p[h] <= spent
    BY DEF Ledger
  <2>3. CASE h + w = n + 1 /\ Opened(p, h)
    <3>1. h + 1 <= t
      BY <1>1, <1>6, <2>1, <2>3
    <3>2. p[h + 1] <= p[t] /\ p[h] < p[h + 1]
      BY <1>1, <2>3, <3>1 DEF Ledger, Opened
    <3> QED
      BY <1>1, <1>4, <2>1, <2>2, <3>2
  <2>4. CASE h = n /\ spent = 0
    <3>1. CASE t = n + 1
      BY <1>1, <1>4, <2>1, <3>1
    <3>2. CASE t <= n
      <4>1. h - w < t /\ t <= h
        BY <1>1, <1>6, <2>1, <2>4, <3>2
      <4>2. p[h] - p[t] <= Limit - 1
        BY <4>1 DEF Ledger
      <4> QED
        BY <1>1, <1>4, <2>1, <2>2, <2>4, <4>2
    <3> QED
      BY <1>1, <1>6, <2>1, <3>1, <3>2
  <2> QED
    BY <2>3, <2>4
<1>7. n + 1 \in 0 .. n + 1
  BY <1>1
<1> QED
  BY <1>3, <1>5, <1>6, <1>7 DEF Ledger

-----------------------------------------------------------------------------
(* The limiter's state.  A counter is a store and a caller that it counts.  *)

Counters == Stores \X Callers

BucketOf(c) == [store |-> c[1], key |-> c[2]]

Held(c) == BucketOf(c) \in DOMAIN hits

Began(c) == IF Held(c) THEN hits[BucketOf(c)].resets - config.window ELSE now

\* Of a bucket's hits, those that were let in.
Spent(c) ==
    IF ~Held(c) THEN 0
    ELSE IF hits[BucketOf(c)].count <= Limit THEN hits[BucketOf(c)].count ELSE Limit

CounterInv(c) ==
    /\ Held(c) => /\ hits[BucketOf(c)] \in [count : Nat \ {0}, resets : Nat]
                  /\ now < hits[BucketOf(c)].resets
                  /\ Opened(passed[c], Began(c))
    /\ Ledger(passed[c], now, Began(c), Spent(c), config.window)

BudgetInv ==
    /\ config \in Configs
    /\ now \in 0 .. MaxTime
    /\ passed \in [Counters -> [Instants -> Nat]]
    /\ config.window # Off => \A c \in Counters : CounterInv(c)

LEMMA ConfigTyped ==
    ASSUME config \in Configs, config.window # Off
    PROVE  config.window \in Lengths /\ Window = config.window
<1>1. config.window \in Lengths
  BY DEF Configs, Lengths
<1> QED
  BY <1>1, LengthsPositive, NumberAssumption DEF Window

LEMMA InitBudgetInv == Init => BudgetInv
<1> SUFFICES ASSUME Init PROVE BudgetInv
  OBVIOUS
<1>1. /\ config \in Configs /\ now = 0 /\ hits = <<>>
      /\ passed = [c \in Counters |-> [t \in Instants |-> 0]]
  BY DEF Init, Counters
<1>2. now \in 0 .. MaxTime /\ passed \in [Counters -> [Instants -> Nat]]
  BY <1>1, TimeBounds
<1>3. ASSUME config.window # Off, NEW c \in Counters PROVE CounterInv(c)
  <2>1. ~Held(c) /\ Began(c) = 0 /\ Spent(c) = 0
    BY <1>1 DEF Held, Began, Spent
  <2>2. passed[c] \in [Instants -> Nat] /\ \A t \in Instants : passed[c][t] = 0
    BY <1>1
  <2>3. 0 \in 0 .. 0 /\ 0 \in Instants /\ 0 + 1 \in Instants
    BY TimeBounds
  <2>4. Limit \in Nat /\ Limit > 0
    BY TimeBounds
  <2>5. Ledger(passed[c], 0, 0, 0, config.window)
    BY <2>2, <2>3, <2>4 DEF Ledger
  <2> QED
    BY <1>1, <2>1, <2>5 DEF CounterInv
<1> QED
  BY <1>1, <1>2, <1>3 DEF BudgetInv

\* A counter that a step leaves alone.
LEMMA SameCounter ==
    ASSUME NEW c, CounterInv(c), config' = config, now' = now,
           passed'[c] = passed[c], Held(c)' = Held(c),
           Held(c) => hits'[BucketOf(c)] = hits[BucketOf(c)]
    PROVE  CounterInv(c)'
<1>1. BucketOf(c)' = BucketOf(c)
  BY DEF BucketOf
<1>2. Began(c)' = Began(c) /\ Spent(c)' = Spent(c)
  BY <1>1 DEF Began, Spent
<1> QED
  BY <1>1, <1>2 DEF CounterInv, Ledger, Opened

LEMMA MinIs ==
    ASSUME NEW a \in Nat, NEW b \in Nat
    PROVE  Min({a, b}) = IF a <= b THEN a ELSE b
<1> DEFINE least == IF a <= b THEN a ELSE b
<1>1. least \in {a, b} /\ \A y \in {a, b} : least <= y
  OBVIOUS
<1>2. \A x \in {a, b} : (\A y \in {a, b} : x <= y) => x = least
  OBVIOUS
<1> QED
  BY <1>1, <1>2 DEF Min

\* A hit is counted.
LEMMA LimiterBudgetInv ==
    ASSUME RequestInv, BudgetInv, NEW q \in Reqs, Limiter(q)
    PROVE  BudgetInv'
<1>1. CASE UNCHANGED <<hits, passed>>
  <2>1. UNCHANGED <<now, config, hits, passed>>
    BY <1>1 DEF Limiter
  <2>2. \A c : CounterInv(c) => CounterInv(c)'
    BY <2>1, SameCounter DEF Held, BucketOf
  <2> QED
    BY <2>1, <2>2 DEF BudgetInv
<1>2. ASSUME hits' = [x \in DOMAIN hits \cup {Bucket(q)} |->
                         IF x = Bucket(q) THEN Increment(x) ELSE hits[x]],
             IF hits'[Bucket(q)].count > Limit THEN UNCHANGED passed ELSE LetIn(q)
      PROVE  BudgetInv'
  <2>1. now' = now /\ config' = config
    BY DEF Limiter
  <2>2. PICK k \in Counters : /\ k = <<Store(q), req[q].caller>>
                              /\ BucketOf(k) = Bucket(q)
    <3>1. Store(q) \in Stores
      BY HostAssumption DEF Store, Stores
    <3>2. req[q].caller \in Callers
      BY CallerAssumption DEF RequestInv, Request
    <3>3. BucketOf(<<Store(q), req[q].caller>>) = Bucket(q)
      BY DEF BucketOf, Bucket
    <3>4. <<Store(q), req[q].caller>> \in Counters
      BY <3>1, <3>2 DEF Counters
    <3> QED
      BY <3>3, <3>4
  <2> DEFINE b == BucketOf(k)
  <2>3. /\ DOMAIN hits' = DOMAIN hits \cup {b} /\ hits'[b] = Increment(b)
        /\ \A x \in DOMAIN hits : x # b => hits'[x] = hits[x]
    BY <1>2, <2>2
  <2>4. ASSUME NEW c \in Counters, c # k PROVE BucketOf(c) # b
    <3>1. /\ BucketOf(c).store = c[1] /\ BucketOf(c).key = c[2]
          /\ BucketOf(k).store = k[1] /\ BucketOf(k).key = k[2]
      BY DEF BucketOf
    <3>2. c = <<c[1], c[2]>> /\ k = <<k[1], k[2]>>
      BY DEF Counters
    <3> QED
      BY <2>4, <3>1, <3>2
  <2> DEFINE p == passed[k]
             more == [t \in Instants |-> IF now < t THEN p[t] + 1 ELSE p[t]]
  <2>5. LetIn(q) => passed' = [passed EXCEPT ![k] = more]
    BY <2>2 DEF LetIn
  <2>6. p \in [Instants -> Nat] /\ more \in [Instants -> Nat]
    BY <2>2 DEF BudgetInv
  <2> HIDE DEF more, b
  <2>7. /\ passed' \in [Counters -> [Instants -> Nat]]
        /\ \A c \in Counters : c # k => passed'[c] = passed[c]
        /\ LetIn(q) => passed'[k] = more
    BY <1>2, <2>2, <2>5, <2>6 DEF BudgetInv
  <2>8. ASSUME config.window # Off, NEW c \in Counters, c # k PROVE CounterInv(c)'
    <3>1. Held(c)' = Held(c) /\ (Held(c) => hits'[BucketOf(c)] = hits[BucketOf(c)])
      BY <2>3, <2>4, <2>8 DEF Held, BucketOf, b
    <3> QED
      BY <2>1, <2>7, <2>8, <3>1, SameCounter DEF BudgetInv
  <2>9. ASSUME config.window # Off PROVE CounterInv(k)'
    <3> DEFINE w == config.window
               h == Began(k)
               n == hits'[b].count
    <3>1. w \in Lengths /\ Window = w /\ w \in Nat /\ w > 0
      BY <2>9, ConfigTyped, LengthsPositive DEF BudgetInv
    <3>2. CounterInv(k) /\ now \in 0 .. MaxTime /\ now \in Nat
      BY <2>2, <2>9 DEF BudgetInv
    <3>3. Limit \in Nat /\ Limit > 0
      BY TimeBounds
    <3>4. Held(k)' /\ BucketOf(k)' = b /\ (Held(k) <=> b \in DOMAIN hits)
      BY <2>3 DEF Held, BucketOf, b
    <3>5. /\ h + w = hits'[b].resets /\ now < hits'[b].resets /\ hits'[b].resets \in Nat
          /\ n \in Nat \ {0}
          /\ Spent(k) \in Nat /\ Spent(k) <= Limit
          /\ n <= Limit => Spent(k) + 1 = n
          /\ n > Limit => Spent(k) = Limit /\ Held(k)
      <4>1. CASE Held(k)
        <5> DEFINE old == hits[b].count
        <5>1. /\ hits[b] \in [count : Nat \ {0}, resets : Nat] /\ now < hits[b].resets
              /\ old \in Nat \ {0} /\ hits[b].resets \in Nat
          BY <3>2, <4>1 DEF CounterInv, b
        <5>2. hits'[b] = [hits[b] EXCEPT !.count = Min({@ + 1, Limit + 1})]
          BY <2>3, <3>4, <4>1 DEF Increment
        <5>3. Min({old + 1, Limit + 1}) = IF old + 1 <= Limit + 1 THEN old + 1 ELSE Limit + 1
          BY <3>3, <5>1, MinIs
        <5>4. /\ hits'[b].resets = hits[b].resets
              /\ n = IF old <= Limit THEN old + 1 ELSE Limit + 1
          BY <3>3, <5>1, <5>2, <5>3
        <5>5. h = hits[b].resets - w /\ Spent(k) = IF old <= Limit THEN old ELSE Limit
          BY <4>1 DEF Began, Spent, b
        <5> HIDE DEF old, n
        <5> QED
          BY <3>1, <3>2, <3>3, <4>1, <5>1, <5>4, <5>5
      <4>2. CASE ~Held(k)
        <5>1. hits'[b] = [count |-> 1, resets |-> now + w]
          BY <2>3, <3>1, <3>4, <4>2 DEF Increment
        <5>2. h = now /\ Spent(k) = 0
          BY <4>2 DEF Began, Spent
        <5> QED
          BY <3>1, <3>2, <3>3, <4>2, <5>1, <5>2
      <4> QED
        BY <4>1, <4>2
    <3>6. Ledger(p, now, h, Spent(k), w) /\ (h = now \/ Opened(p, h))
      BY <3>2 DEF CounterInv, Began
    <3>7. Began(k)' = h /\ hits'[b] \in [count : Nat \ {0}, resets : Nat]
      <4>1. Began(k)' = hits'[b].resets - w
        BY <2>1, <3>4 DEF Began
      <4>2. hits'[b] \in [count : Nat \ {0}, resets : Nat]
        <5>1. Increment(b) \in [count : {n}, resets : {hits'[b].resets}]
          <6>1. CASE Held(k)
            BY <2>3, <3>2, <3>4, <6>1 DEF Increment, CounterInv, b
          <6>2. CASE ~Held(k)
            BY <2>3, <3>4, <6>2 DEF Increment
          <6> QED
            BY <6>1, <6>2
        <5> QED
          BY <2>3, <3>5, <5>1
      <4> QED
        BY <3>1, <3>2, <3>5, <3>6, <4>1, <4>2 DEF Ledger
    <3>8. Spent(k)' = IF n <= Limit THEN n ELSE Limit
      BY <3>4 DEF Spent
    <3> HIDE DEF n, w, h, p
    <3>9. CASE n <= Limit
      <4>1. passed'[k] = more
        BY <1>2, <2>2, <2>7, <3>3, <3>5, <3>9 DEF n, b
      <4>2. Spent(k) < Limit
        BY <3>3, <3>5, <3>9
      <4>3. Ledger(more, now, h, Spent(k) + 1, w) /\ Opened(more, h)
        BY <3>1, <3>2, <3>5, <3>6, <4>2, LedgerLetsIn DEF more
      <4>4. Spent(k)' = Spent(k) + 1
        BY <3>5, <3>8, <3>9
      <4> QED
        BY <2>1, <3>4, <3>5, <3>7, <4>1, <4>3, <4>4 DEF CounterInv, w, Ledger, Opened
    <3>10. CASE n > Limit
      <4>1. passed'[k] = p
        BY <1>2, <2>2, <3>10 DEF n, p, b
      <4>2. Spent(k)' = Spent(k)
        BY <3>3, <3>5, <3>8, <3>10
      <4>3. Opened(p, h)
        BY <3>2, <3>5, <3>10 DEF CounterInv, p, h
      <4> QED
        BY <2>1, <3>4, <3>5, <3>6, <3>7, <4>1, <4>2, <4>3 DEF CounterInv, w, Ledger, Opened
    <3> QED
      BY <3>3, <3>5, <3>9, <3>10
  <2> QED
    BY <2>1, <2>7, <2>8, <2>9 DEF BudgetInv
<1> QED
  BY <1>1, <1>2 DEF Limiter

LEMMA TickBudgetInv == BudgetInv /\ Tick => BudgetInv'
<1> SUFFICES ASSUME BudgetInv, Tick PROVE BudgetInv'
  OBVIOUS
<1>1. now < MaxTime /\ now' = now + 1 /\ config' = config /\ passed' = passed
  BY DEF Tick
<1>2. now \in Nat /\ now \in 0 .. MaxTime /\ now' \in 0 .. MaxTime
  BY <1>1, TimeBounds DEF BudgetInv
<1>3. ASSUME config.window # Off, NEW c \in Counters PROVE CounterInv(c)'
  <2> DEFINE w == config.window
             p == passed[c]
             b == BucketOf(c)
  <2>1. w \in Lengths /\ w \in Nat /\ w > 0 /\ Limit \in Nat /\ Limit > 0
    BY <1>3, ConfigTyped, LengthsPositive, TimeBounds DEF BudgetInv
  <2>2. CounterInv(c) /\ Ledger(p, now, Began(c), Spent(c), w)
    BY <1>3 DEF BudgetInv, CounterInv
  <2>3. /\ b' = b /\ Held(c)' <=> Held(c) /\ now + 1 < hits[b].resets
        /\ Held(c)' => hits'[b] = hits[b]
    BY DEF Tick, Restrict, Held, BucketOf
  <2>4. Spent(c) \in Nat /\ Spent(c) <= Limit
    BY <2>1, <2>2 DEF Spent, CounterInv
  <2> HIDE DEF b, p
  <2>5. CASE Held(c)'
    <3>1. Began(c)' = Began(c) /\ Spent(c)' = Spent(c)
      BY <1>1, <2>3, <2>5 DEF Began, Spent, b
    <3>2. Ledger(p, now + 1, Began(c), Spent(c), w)
      BY <1>1, <1>2, <2>1, <2>2, <2>4, LedgerGoesOn
    <3>3. Held(c) /\ Opened(p, Began(c)) /\ hits[b] \in [count : Nat \ {0}, resets : Nat]
      BY <2>2, <2>3, <2>5 DEF CounterInv, b, p
    <3> QED
      BY <1>1, <2>3, <2>5, <3>1, <3>2, <3>3 DEF CounterInv, b, p, Ledger, Opened
  <2>6. CASE ~Held(c)'
    <3>1. Began(c)' = now + 1 /\ Spent(c)' = 0
      BY <1>1, <2>6 DEF Began, Spent
    <3>2. \/ Began(c) + w = now + 1 /\ Opened(p, Began(c))
          \/ Began(c) = now /\ Spent(c) = 0
      <4>1. CASE Held(c)
        <5>1. hits[b].resets \in Nat /\ now < hits[b].resets /\ Opened(p, Began(c))
          BY <2>2, <4>1 DEF CounterInv, b, p
        <5>2. hits[b].resets = now + 1
          BY <1>2, <2>3, <2>6, <4>1, <5>1
        <5>3. Began(c) = hits[b].resets - w
          BY <4>1 DEF Began, b
        <5> QED
          BY <1>2, <2>1, <5>1, <5>2, <5>3
      <4>2. CASE ~Held(c)
        BY <4>2 DEF Began, Spent
      <4> QED
        BY <4>1, <4>2
    <3>3. Ledger(p, now + 1, now + 1, 0, w)
      BY <1>1, <1>2, <2>1, <2>2, <2>4, <3>2, LedgerBegins
    <3> QED
      BY <1>1, <2>6, <3>1, <3>3 DEF CounterInv, p, Ledger
  <2> QED
    BY <2>5, <2>6
<1> QED
  BY <1>1, <1>2, <1>3 DEF BudgetInv

LEMMA NextBudgetInv == RequestInv /\ BudgetInv /\ [Next]_vars => BudgetInv'
<1> SUFFICES ASSUME RequestInv, BudgetInv, [Next]_vars PROVE BudgetInv'
  OBVIOUS
<1>1. CASE UNCHANGED <<now, config, hits, passed>>
  <2>1. \A c : CounterInv(c) => CounterInv(c)'
    BY <1>1, SameCounter DEF Held, BucketOf
  <2> QED
    BY <1>1, <2>1 DEF BudgetInv
<1> QED
  BY <1>1, LimiterBudgetInv, TickBudgetInv
     DEF Next, Step, HostParser, Parsers, HmacGuard, Controller, RequireAuth, HostHandler,
         ErrorHandler, DefaultHandler, Arrive, vars

\* The budget is one for the limited endpoints (createRateLimiter), and no interval
\* as long as the window sees more than a window's worth and what a window that
\* ends in it has left after its first request, for every limit and every window.
THEOREM BudgetHeldHolds == Spec => []BudgetHeld
<1>1. BudgetInv => BudgetHeld
  <2> SUFFICES ASSUME BudgetInv, NEW c \in Counters, NEW t \in Instants, NEW u \in Instants,
                      t <= u, u <= t + config.window
               PROVE  passed[c][u] - passed[c][t] <= 2 * Limit - 1
    BY DEF BudgetHeld, Counters
  <2>1. CASE config.window = Off
    <3>1. t = u /\ passed[c][t] \in Nat /\ Limit \in Nat /\ Limit > 0
      BY <2>1, TimeBounds DEF Off, BudgetInv
    <3> QED
      BY <3>1
  <2>2. CASE config.window # Off
    BY <2>2 DEF BudgetInv, CounterInv, Ledger
  <2> QED
    BY <2>1, <2>2
<1> QED
  BY <1>1, InitRequestInv, NextRequestInv, InitBudgetInv, NextBudgetInv, PTL DEF Spec
=============================================================================

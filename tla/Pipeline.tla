------------------------------ MODULE Pipeline ------------------------------
(***************************************************************************)
(* The way of a request through the HTTP layer: RegisterRoutes, the        *)
(* middleware of internal/middleware, the JWTManager, the error handler of *)
(* internal/app and the counters of internal/pkg/metrics.                  *)
(*                                                                         *)
(* A request passes the layers of its route from the outermost inwards,    *)
(* each calling c.Next(), until one answers it, returns an error or        *)
(* panics; then the layers it passed finish.  What the handlers do is the  *)
(* subject of the other modules: here a handler answers with some status,  *)
(* returns an error or panics.                                             *)
(*                                                                         *)
(* The process is started in some environment, and serves if it loads a    *)
(* configuration that is valid.                                            *)
(*                                                                         *)
(* Time has Second units to the second: the clock is finer than the dates  *)
(* a token holds.  The minutes of the expiry are counted as seconds.       *)
(***************************************************************************)
EXTENDS Configuration, Sequences, FiniteSets, Bags

CONSTANTS
    Requests,      \* requests, each made once
    Users,
    Admins,        \* the users whose role is ADMIN
    Addresses,     \* client addresses, c.IP()
    Environments,  \* environments the process may be started in
    IssuedAt,      \* times before 0 at which the users may have logged in
    Second,        \* units of time to the second
    MaxTime,       \* bound: the clock stops here
    None

ASSUME PipelineAssumption ==
    /\ Admins \subseteq Users
    /\ None \notin Users
    /\ Second \in Nat \ {0}
    /\ MaxTime \in Nat
    /\ IssuedAt \subseteq Int
    /\ IsFiniteSet(Requests)

\* A number that is set is one strconv.Atoi accepts, or it is Garbage.
ASSUME EnvironmentAssumption ==
    \A e \in Environments :
        {e.jwtExpiry, e.limitLogin, e.limitTopup, e.limitTransfer}
            \subseteq Int \cup {Unset, Garbage}

\* The configurations main gets as far as serving with: log.Fatal ends the others.
Configs == {c \in {Load(e) : e \in Environments} : Validate(c)}

Scopes    == {"login", "topup", "transfer"}
Protected == {"read", "topup", "transfer", "admin", "unknownApi"}
\* The routes that differ in their layers; "open" stands for /health and /auth/register,
\* "read" for the queries of a user.
Routes    == Scopes \cup Protected \cup {"open", "metrics", "docs", "unknown"}

VARIABLES
    cfg,
    now,
    tokens,   \* the tokens issued so far
    req,      \* req[r] : route, address and header of the request
    at,       \* at[r] : the layer of its chain the request is in; 0 before it comes
    locals,   \* locals[r] : user_id and role, as Auth stored them
    judged,   \* judged[r] : the time at which Auth looked at the token
    spent,    \* the rate limiter's counters: a bag of keys
    reply,    \* reply[r] : the status the client got, 0 before
    panicked, \* the requests whose handler panicked
    logged,   \* logged[r] : status and user of the log line
    counted,  \* go_hermes_http_requests_total : a bag of <<route, status>>
    limited   \* go_hermes_rate_limit_exceeded_total : a bag of scopes

vars == <<cfg, now, tokens, req, at, locals, judged, spent, reply, panicked, logged,
          counted, limited>>

\* The number of times e is in the bag.
Copies(e, bag) == IF BagIn(e, bag) THEN bag[e] ELSE 0

-----------------------------------------------------------------------------
(* JWTManager.                                                             *)

\* What the Authorization (or X-Metrics-Token) header holds: nothing, the metrics token,
\* something this process did not sign (malformed, or of another key, method or
\* issuer), or a token of this process with its claims.
Bare(kind) == [kind |-> kind, user |-> None, role |-> "", exp |-> 0, told |-> 0]

\* jwt.NewNumericDate truncates to the second.
NumericDate(t) == (t \div Second) * Second

\* Mutant: the claim is set from the time of issue.
GenerateTokenUnextended(c, u, t) ==
    [kind |-> "jwt", user |-> u, role |-> IF u \in Admins THEN "ADMIN" ELSE "USER",
     exp |-> NumericDate(t), told |-> t + c.jwtExpiry * Second]

\* GenerateToken at time t.  told is expires_at of the login response.
GenerateToken(c, u, t) ==
    LET expiresAt == t + c.jwtExpiry * Second IN
    [kind |-> "jwt", user |-> u, role |-> IF u \in Admins THEN "ADMIN" ELSE "USER",
     exp |-> NumericDate(expiresAt), told |-> expiresAt]

\* ParseToken
Accepted(header) == header.kind = "jwt" /\ now < header.exp

-----------------------------------------------------------------------------
(* RegisterRoutes.                                                         *)

\* Mutant: nothing recovers from a panic.
GlobalNoRecover(c) ==
    (IF c.metricsEnabled THEN <<"metrics">> ELSE <<>>) \o <<"logger">>

\* app.Use, in order; the request id and the trace id only label the request.
Global(c) ==
    <<"recover">> \o (IF c.metricsEnabled THEN <<"metrics">> ELSE <<>>) \o <<"logger">>

\* Mutant: the admin group hangs on the group of all users.
AdminLayerMissing(route) == <<>>

AdminLayer(route) == IF route = "admin" THEN <<"role">> ELSE <<>>

LimitLayer(route) == IF route \in Scopes THEN <<"limit">> ELSE <<>>

\* The group of the protected routes puts Auth on every path below /api/v1 that
\* register and login do not match.
AuthLayer(route) == IF route \in Protected THEN <<"auth">> ELSE <<>>

MetricsLayer(route) == IF route = "metrics" THEN <<"metricsAuth">> ELSE <<>>

\* The routes that are registered.
Registered(c, route) ==
    /\ route \notin {"unknown", "unknownApi"}
    /\ route = "metrics" => c.metricsEnabled
    /\ route = "docs" => c.docs

\* Mutant: the limiter runs before Auth, and knows no user.
RouteLayersLimitFirst(c, route) ==
    IF Registered(c, route)
    THEN LimitLayer(route) \o AuthLayer(route) \o AdminLayer(route)
           \o MetricsLayer(route) \o <<"handler">>
    ELSE AuthLayer(route) \o <<"notFound">>

RouteLayers(c, route) ==
    IF Registered(c, route)
    THEN AuthLayer(route) \o AdminLayer(route) \o LimitLayer(route)
           \o MetricsLayer(route) \o <<"handler">>
    ELSE AuthLayer(route) \o <<"notFound">>

Chains == [c \in Configs |-> [route \in Routes |-> Global(c) \o RouteLayers(c, route)]]

Chain(r) == Chains[cfg][req[r].route]

Layer(r) == IF at[r] = 0 THEN "none" ELSE Chain(r)[at[r]]

In(r, layer) == reply[r] = 0 /\ r \notin panicked /\ Layer(r) = layer

\* c.Route().Path when the chain is done: the route of the innermost layer reached.
Label(r) ==
    CASE Layer(r) = "auth"     -> "/api/v1"
      [] Layer(r) = "role"     -> "/api/v1/admin"
      [] Layer(r) = "notFound" -> "/"
      [] OTHER                 -> req[r].route

-----------------------------------------------------------------------------
(* The way back.  The outcome of a layer is an answer it wrote itself, a   *)
(* *fiber.Error, an *apperror.Error, or a panic, which recover turns into  *)
(* an error of neither kind.                                               *)

Outcome(kind, status) == [kind |-> kind, status |-> status]

\* apperror.As(err).Status
As(o) == IF o.kind = "app" THEN o.status ELSE 500

\* Mutant: the status of the response, which an error has not set yet.
ObservedResponse(o) == IF o.kind = "written" THEN o.status ELSE 200

\* The status RequestLogger and Metrics work out before the error is rendered.
Observed(o) == IF o.kind \in {"written", "fiber"} THEN o.status ELSE As(o)

\* ErrorHandler
Rendered(o) == IF o.kind \in {"written", "fiber"} THEN o.status ELSE As(o)

\* The layers that finish: a panic passes those inside recover without a trace.
Finishing(r, o) ==
    LET c == Chain(r)
        inside == {i \in 1 .. at[r] - 1 : \E j \in 1 .. i : c[j] = "recover"}
    IN  {c[i] : i \in IF o.kind = "panic" THEN (1 .. at[r] - 1) \ inside
                                          ELSE 1 .. at[r] - 1}

\* Without recover a panic is not answered.
Recovered(r, o) == o.kind = "panic" => \E i \in 1 .. at[r] - 1 : Chain(r)[i] = "recover"

ObserveHTTPRequest(route, status) == counted' = counted (+) SetToBag({<<route, status>>})

IncrementRateLimitExceeded(scope) == limited' = limited (+) SetToBag({scope})

Return(r, o) ==
    /\ reply' = IF Recovered(r, o) THEN [reply EXCEPT ![r] = Rendered(o)] ELSE reply
    /\ panicked' = IF o.kind = "panic" THEN panicked \cup {r} ELSE panicked
    /\ logged' = IF "logger" \in Finishing(r, o)
                 THEN [logged EXCEPT ![r] = [status |-> Observed(o), user |-> locals[r].user]]
                 ELSE logged
    /\ IF "metrics" \in Finishing(r, o) THEN ObserveHTTPRequest(Label(r), Observed(o))
                                          ELSE UNCHANGED counted
    /\ UNCHANGED <<cfg, now, req, at, locals>>

\* return c.Next()
Pass(r) ==
    /\ at' = [at EXCEPT ![r] = @ + 1]
    /\ UNCHANGED <<cfg, now, req, tokens, reply, panicked, logged, counted>>

-----------------------------------------------------------------------------
(* The layers.                                                             *)

\* The request comes in, through the global layers.
Receive(r, route, address, header) ==
    /\ at[r] = 0
    /\ req' = [req EXCEPT ![r] = [route |-> route, address |-> address, header |-> header]]
    /\ at' = [at EXCEPT ![r] = Len(Global(cfg)) + 1]
    /\ UNCHANGED <<cfg, now, tokens, locals, judged, spent, reply, panicked, logged,
                   counted, limited>>

Auth(r) ==
    LET header == req[r].header IN
    /\ In(r, "auth")
    /\ judged' = [judged EXCEPT ![r] = now]
    /\ IF Accepted(header)
       THEN /\ locals' = [locals EXCEPT ![r] = [user |-> header.user, role |-> header.role]]
            /\ Pass(r)
       ELSE Return(r, Outcome("app", 401)) /\ UNCHANGED tokens
    /\ UNCHANGED <<spent, limited>>

RequireRole(r) ==
    /\ In(r, "role")
    /\ IF locals[r].role = "ADMIN"
       THEN Pass(r) /\ UNCHANGED locals
       ELSE Return(r, Outcome("app", 403)) /\ UNCHANGED tokens
    /\ UNCHANGED <<judged, spent, limited>>

\* An empty token opens /metrics.
ProtectMetrics(r) ==
    /\ In(r, "metricsAuth")
    /\ IF cfg.metricsToken = Unset \/ req[r].header.kind = "metricsToken"
       THEN Pass(r) /\ UNCHANGED locals
       ELSE Return(r, Outcome("app", 401)) /\ UNCHANGED tokens
    /\ UNCHANGED <<judged, spent, limited>>

\* fmt.Sprintf("%s:%s", name, identifier)
Key(r) == <<req[r].route, IF locals[r].user # None THEN locals[r].user ELSE req[r].address>>

\* The limiter answers; see RateLimit.  With a limit of 0 it is off.
RateLimit(r) ==
    LET scope == req[r].route
        taken == spent (+) SetToBag({Key(r)})
    IN
    /\ In(r, "limit")
    /\ IF cfg.limit[scope] <= 0
       THEN Pass(r) /\ UNCHANGED <<locals, spent, limited>>
       ELSE /\ spent' = taken
            /\ IF Copies(Key(r), taken) <= cfg.limit[scope]
               THEN Pass(r) /\ UNCHANGED <<locals, limited>>
               ELSE /\ IncrementRateLimitExceeded(scope)
                    /\ Return(r, Outcome("written", 429))
                    /\ UNCHANGED tokens
    /\ UNCHANGED judged

\* The backend fails: the request passes, counted or not.
RateLimitFails(r) ==
    /\ In(r, "limit")
    /\ cfg.limit[req[r].route] > 0
    /\ spent' \in {spent, spent (+) SetToBag({Key(r)})}
    /\ Pass(r)
    /\ UNCHANGED <<locals, judged, limited>>

\* response.Success, or response.Error with apperror.As(err)
Handle(r, status) ==
    /\ In(r, "handler")
    /\ Return(r, Outcome("written", status))
    /\ IF req[r].route = "login" /\ status = 200
       THEN \E u \in Users : tokens' = tokens \cup {GenerateToken(cfg, u, now)}
       ELSE UNCHANGED tokens
    /\ UNCHANGED <<judged, spent, limited>>

Panic(r) ==
    /\ In(r, "handler")
    /\ Return(r, Outcome("panic", 0))
    /\ UNCHANGED <<tokens, judged, spent, limited>>

\* The fallback of RegisterRoutes; SendFile answers a missing openapi.yaml alike.
NotFound(r) ==
    /\ \/ In(r, "notFound")
       \/ In(r, "handler") /\ req[r].route = "docs"
    /\ Return(r, Outcome("fiber", 404))
    /\ UNCHANGED <<tokens, judged, spent, limited>>

Tick ==
    /\ now < MaxTime
    /\ now' = now + 1
    /\ UNCHANGED <<cfg, tokens, req, at, locals, judged, spent, reply, panicked, logged,
                   counted, limited>>

-----------------------------------------------------------------------------
NoRequest == [route |-> "unknown", address |-> None, header |-> Bare("none")]

Init ==
    /\ cfg \in Configs
    /\ now = 0
    /\ \E t \in IssuedAt : tokens = {GenerateToken(cfg, u, t) : u \in Users}
    /\ req = [r \in Requests |-> NoRequest]
    /\ at = [r \in Requests |-> 0]
    /\ locals = [r \in Requests |-> [user |-> None, role |-> ""]]
    /\ judged = [r \in Requests |-> 0]
    /\ spent = EmptyBag
    /\ reply = [r \in Requests |-> 0]
    /\ panicked = {}
    /\ logged = [r \in Requests |-> [status |-> 0, user |-> None]]
    /\ counted = EmptyBag
    /\ limited = EmptyBag

\* The header is enumerated where a layer reads it, the address where a limiter
\* is on, which could put it in a key.
HeadersFor(route) ==
    IF route \in Protected THEN tokens \cup {Bare("none"), Bare("foreign")}
    ELSE IF route = "metrics" THEN {Bare("none"), Bare("metricsToken")}
    ELSE {Bare("none")}

AddressesFor(route) ==
    IF route \in Scopes /\ cfg.limit[route] > 0 THEN Addresses ELSE {None}

Step(r) ==
    \/ Auth(r)
    \/ RequireRole(r)
    \/ ProtectMetrics(r)
    \/ RateLimit(r)
    \/ RateLimitFails(r)
    \/ \E status \in {200, 400} : Handle(r, status)
    \/ NotFound(r)

Next ==
    \/ \E r \in Requests :
         \/ \E route \in Routes :
              \E address \in AddressesFor(route), header \in HeadersFor(route) :
                Receive(r, route, address, header)
         \/ Step(r)
         \/ Panic(r)
    \/ Tick

Spec == Init /\ [][Next]_vars

\* Every layer and every handler comes to an end, in a panic or otherwise.
FairSpec == Spec /\ \A r \in Requests : WF_vars(Step(r) \/ Panic(r))

-----------------------------------------------------------------------------
(* Properties.                                                             *)

Statuses == {200, 400, 401, 403, 404, 429, 500}

TypeOK ==
    /\ cfg \in Configs
    /\ now \in 0 .. MaxTime
    /\ \A t \in tokens : t.kind = "jwt" /\ t.user \in Users
    /\ \A r \in Requests :
         /\ req[r].route \in Routes
         /\ at[r] \in 0 .. Len(Chain(r))
         /\ locals[r].user \in Users \cup {None}
         /\ judged[r] \in 0 .. MaxTime
         /\ reply[r] \in {0} \cup Statuses
    /\ panicked \subseteq Requests
    /\ IsABag(spent) /\ IsABag(counted) /\ IsABag(limited)

Answered(r) == reply[r] # 0

\* Metrics and log tell what clients were told: for every route and status the counter
\* is the number of requests that got that answer, refusals are counted in their scope,
\* and every log line names the status the client got and the caller, although both are
\* written before the error handler decides the status (metrics.go:21-35,
\* request_logger.go:16-45, app.go:22-29).  The counters hold no request that panicked: recover is outside them
\* (router.go:48).
CountedAsAnswered ==
    LET done == {r \in Requests : Answered(r) /\ r \notin panicked} IN
    /\ cfg.metricsEnabled =>
         \A r \in Requests, s \in Statuses :
             Copies(<<Label(r), s>>, counted) =
                Cardinality({q \in done : Label(q) = Label(r) /\ reply[q] = s})
    /\ \A scope \in Scopes :
         Copies(scope, limited) =
            Cardinality({r \in done : req[r].route = scope /\ reply[r] = 429})
    /\ \A r \in done : /\ logged[r].status = reply[r]
                       /\ Layer(r) = "handler" /\ req[r].route \in Protected
                            => logged[r].user = req[r].header.user

\* A handler is reached only by those it is for: behind the protected routes by a user
\* whose token was good when it was looked at, and the handler works for that user;
\* behind /admin by an administrator; outside development, behind /metrics by a holder
\* of the metrics token (router.go:54-118, auth.go, metrics_auth.go, config.go:161).
ServedToEntitled ==
    \A r \in Requests : Layer(r) = "handler" =>
        LET q == req[r] IN
        /\ q.route \in Protected => /\ q.header \in tokens
                                    /\ locals[r].user = q.header.user
                                    /\ judged[r] < q.header.told
        /\ q.route = "admin" => q.header.user \in Admins
        /\ q.route = "metrics" /\ ~IsDevelopment(cfg) => q.header.kind = "metricsToken"

\* The user of a token is served until less than a second before the expires_at that
\* Login told: the date in the token is cut to the second (jwt.go:33-44).
RefusedOnlyWhenExpired ==
    \A r \in Requests :
        Answered(r) /\ Layer(r) = "auth" /\ req[r].header \in tokens =>
            judged[r] > req[r].header.told - Second

\* A caller is turned away with 429 only for traffic of his own: his requests to that
\* endpoint exceed its limit, whoever shares his address (login: whoever shares it).
Caller(r) == IF req[r].route = "login" THEN req[r].address ELSE req[r].header.user

DeniedForOwnTraffic ==
    \A r \in Requests : reply[r] = 429 =>
        Cardinality({q \in Requests : /\ at[q] > 0
                                      /\ req[q].route = req[r].route
                                      /\ Caller(q) = Caller(r)}) > cfg.limit[req[r].route]

\* Every request is answered, those that panic too (router.go:48).
EveryRequestAnswered == \A r \in Requests : at[r] > 0 ~> Answered(r)
=============================================================================

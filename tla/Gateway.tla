------------------------------- MODULE Gateway -------------------------------
(***************************************************************************)
(* The API processes: the gateway in front of the payment service and the  *)
(* ledger service.  The gateway authenticates a request, applies the rate  *)
(* limit, matches a route and proxies the request under a rewritten path;  *)
(* the service checks the internal token, matches its own routes and runs  *)
(* the handler.  Each process may stop, gracefully or not, and come back.  *)
(*                                                                         *)
(* A request occupies a slot from its arrival until both sides are done    *)
(* with it: the client may have its answer while the service is still at   *)
(* work.  What the handlers do is modelled by PaymentApi and LedgerQueries;*)
(* here a handler has or has not taken effect.                             *)
(***************************************************************************)
EXTENDS RateLimiter

CONSTANTS Slots,          \* requests that may be under way at once
          RequestKinds,   \* the requests clients send
          PaymentTarget,  \* path of PAYMENT_SERVICE_URL, as a sequence of segments
          LedgerTarget,   \* path of LEDGER_SERVICE_URL
          GatewayToken,   \* INTERNAL_SERVICE_TOKEN of the gateway
          ServiceToken,   \* INTERNAL_SERVICE_TOKEN of the services
          MaxStops,       \* bound: stops of a process
          None            \* no request, no header, no answer

\* What Validate asks of the gateway's configuration: a positive limit and
\* window, and a token; a secret that is set is not None.
Validate == Limit > 0 /\ Window > 0 /\ GatewayToken # None

clientKey(k) == IF k.forwarded # None THEN k.forwarded ELSE k.addr

\* A request: whether its API key is right, where it comes from, and what it
\* asks for.  A path is the sequence of its segments.
ASSUME GatewayAssumption ==
    /\ Validate
    /\ \A k \in RequestKinds :
         /\ DOMAIN k = {"authorised", "forwarded", "addr", "method", "path"}
         /\ clientKey(k) \in Clients

Processes == {"gateway", "payment", "ledger"}
Services == {"payment", "ledger"}

VARIABLES process,   \* [Processes -> "serving", "draining" or "down"]
          stops,     \* how often a process was stopped
          request,   \* [Slots -> the request in the slot, or None]
          gateway,   \* [Slots -> "free", "proxying" or "answered"]
          upstream,  \* [Slots -> "none", "arrived", "working", "replied" or "gone"]
          reply,     \* [Slots -> the status the service replied with, or None]
          code,      \* [Slots -> the status the client got, or None]
          effect     \* [Slots -> whether the handler has taken effect]

slots == <<request, gateway, upstream, reply, code, effect>>
vars == <<limiter, process, stops, slots>>

\* What the client has when the connection was closed without a status.
Reset == 0

Init ==
    /\ LimiterInit
    /\ process = [x \in Processes |-> "serving"]
    /\ stops = 0
    /\ request = [i \in Slots |-> None]
    /\ gateway = [i \in Slots |-> "free"]
    /\ upstream = [i \in Slots |-> "none"]
    /\ reply = [i \in Slots |-> None]
    /\ code = [i \in Slots |-> None]
    /\ effect = [i \in Slots |-> FALSE]

-----------------------------------------------------------------------------
(***************************************************************************)
(* Paths and routes.                                                       *)
(***************************************************************************)
IsPrefixOf(prefix, path) ==
    Len(prefix) <= Len(path) /\ SubSeq(path, 1, Len(prefix)) = prefix

\* strings.TrimPrefix: the prefix goes once, if it is there.
rewritePath(path, prefix) ==
    IF IsPrefixOf(prefix, path) THEN SubSeq(path, Len(prefix) + 1, Len(path)) ELSE path

ApiPrefix == <<"api", "v1">>

\* The gateway's routes /payments, /payments/*, /ledger and /ledger/*.
Target(path) ==
    CASE IsPrefixOf(ApiPrefix \o <<"payments">>, path) -> "payment"
      [] IsPrefixOf(ApiPrefix \o <<"ledger">>, path) -> "ledger"
      [] OTHER -> None

\* The director joins the target's path and the request's, then strips.
ForwardedPath(path) ==
    IF Target(path) = "payment"
    THEN rewritePath(PaymentTarget \o path, ApiPrefix)
    ELSE rewritePath(LedgerTarget \o path, <<>>)

\* RegisterRoutes of the two services, under /api/v1.
Routes(service) ==
    IF service = "payment"
    THEN {<<"POST", ApiPrefix \o <<"payments">>>>,
          <<"GET", ApiPrefix \o <<"payments", "id">>>>,
          <<"PATCH", ApiPrefix \o <<"payments", "id", "status">>>>}
    ELSE {<<"GET", ApiPrefix \o <<"ledger", "balances">>>>,
          <<"GET", ApiPrefix \o <<"ledger", "payments", "id", "entries">>>>}

\* The director replaces whatever the client sent.
tokenSent == GatewayToken

\* InternalServiceToken of the services: a missing token is never right.
TokenAccepted == tokenSent # None /\ tokenSent = ServiceToken

\* What the service's router makes of a request before a handler sees it: not
\* found outside /api/v1, then the token, then its own routes.
Routed(service, method, path) ==
    IF ~IsPrefixOf(ApiPrefix, path) THEN 404
    ELSE IF ~TokenAccepted THEN 401
    ELSE IF <<method, path>> \in Routes(service) THEN 200
    ELSE IF \E r \in Routes(service) : r[2] = path THEN 405
    ELSE 404

-----------------------------------------------------------------------------
(***************************************************************************)
(* The gateway's handler chain, up to the proxy: one step, since the       *)
(* limiter's mutex is all that requests share.                             *)
(***************************************************************************)
Arrive(i, k) ==
    /\ process["gateway"] = "serving"
    /\ gateway[i] = "free"
    /\ request' = [request EXCEPT ![i] = k]

AnswerAtOnce(i, status) ==
    /\ gateway' = [gateway EXCEPT ![i] = "answered"]
    /\ code' = [code EXCEPT ![i] = status]
    /\ UNCHANGED <<process, stops, upstream, reply, effect>>

Unauthorised(i, k) ==
    /\ Arrive(i, k)
    /\ ~k.authorised
    /\ AnswerAtOnce(i, 401)
    /\ UNCHANGED limiter

RateLimited(i, k) ==
    /\ Arrive(i, k)
    /\ k.authorised
    /\ ~allowed(clientKey(k))
    /\ allow(clientKey(k))
    /\ AnswerAtOnce(i, 429)

NoRoute(i, k) ==
    /\ Arrive(i, k)
    /\ k.authorised
    /\ allowed(clientKey(k))
    /\ Target(k.path) = None
    /\ allow(clientKey(k))
    /\ AnswerAtOnce(i, 404)

Forward(i, k) ==
    /\ Arrive(i, k)
    /\ k.authorised
    /\ allowed(clientKey(k))
    /\ Target(k.path) # None
    /\ allow(clientKey(k))
    /\ gateway' = [gateway EXCEPT ![i] = "proxying"]
    /\ UNCHANGED <<process, stops, upstream, reply, code, effect>>

ServiceOf(i) == Target(request[i].path)

-----------------------------------------------------------------------------
(***************************************************************************)
(* The service's side.                                                     *)
(***************************************************************************)
Deliver(i) ==
    /\ gateway[i] = "proxying"
    /\ upstream[i] = "none"
    /\ process[ServiceOf(i)] = "serving"
    /\ upstream' = [upstream EXCEPT ![i] = "arrived"]
    /\ UNCHANGED <<limiter, process, stops, request, gateway, reply, code, effect>>

\* The service's router: the handler is entered, or the reply is ready.
Route(i) ==
    LET status == Routed(ServiceOf(i), request[i].method, ForwardedPath(request[i].path))
    IN  /\ upstream[i] = "arrived"
        /\ IF status = 200
           THEN upstream' = [upstream EXCEPT ![i] = "working"] /\ UNCHANGED reply
           ELSE /\ upstream' = [upstream EXCEPT ![i] = "replied"]
                /\ reply' = [reply EXCEPT ![i] = status]
        /\ UNCHANGED <<limiter, process, stops, request, gateway, code, effect>>

\* The handler takes effect: it commits, or has read what it was asked for.  It
\* goes on when the gateway has given up on it, and the process may end here.
HandlerCommits(i) ==
    /\ upstream[i] = "working"
    /\ ~effect[i]
    /\ effect' = [effect EXCEPT ![i] = TRUE]
    /\ UNCHANGED <<limiter, process, stops, request, gateway, upstream, reply, code>>

\* What a handler replies, before or after it took effect: done, refused (400
\* stands for its own 404 and 409 too, so that 404 here is a router's), or an
\* error (PaymentApi!CallFails, PaymentApi!CommitLost).
Outcomes == {<<200, TRUE>>, <<400, FALSE>>, <<500, FALSE>>, <<500, TRUE>>}

HandlerEnds(i) ==
    /\ upstream[i] = "working"
    /\ \E o \in Outcomes : o[2] = effect[i] /\ reply' = [reply EXCEPT ![i] = o[1]]
    /\ upstream' = [upstream EXCEPT ![i] = "replied"]
    /\ UNCHANGED <<limiter, process, stops, request, gateway, code, effect>>

-----------------------------------------------------------------------------
(***************************************************************************)
(* The proxy's end of it: the reply is copied to the client, or the        *)
(* ErrorHandler answers 502.                                               *)
(***************************************************************************)
\* Slip: the proxy answers for the service.
RelayAlwaysOk(i) ==
    /\ gateway[i] = "proxying"
    /\ upstream[i] = "replied"
    /\ gateway' = [gateway EXCEPT ![i] = "answered"]
    /\ code' = [code EXCEPT ![i] = 200]
    /\ UNCHANGED <<limiter, process, stops, request, upstream, reply, effect>>

Relay(i) ==
    /\ gateway[i] = "proxying"
    /\ upstream[i] = "replied"
    /\ gateway' = [gateway EXCEPT ![i] = "answered"]
    /\ code' = [code EXCEPT ![i] = reply[i]]
    /\ UNCHANGED <<limiter, process, stops, request, upstream, reply, effect>>

\* The connection was refused or broken, the body was too large to copy, or the
\* fifteen seconds of the Timeout middleware were over, wherever the service
\* stood; its 504 comes after the ErrorHandler's 502 and is dropped.
BadGateway(i) ==
    /\ gateway[i] = "proxying"
    /\ gateway' = [gateway EXCEPT ![i] = "answered"]
    /\ code' = [code EXCEPT ![i] = 502]
    /\ UNCHANGED <<limiter, process, stops, request, upstream, reply, effect>>

\* Both sides are done: the slot is free for another request.
Forget(i) ==
    /\ gateway[i] = "answered"
    /\ upstream[i] \in {"none", "replied", "gone"}
    /\ request' = [request EXCEPT ![i] = None]
    /\ gateway' = [gateway EXCEPT ![i] = "free"]
    /\ upstream' = [upstream EXCEPT ![i] = "none"]
    /\ reply' = [reply EXCEPT ![i] = None]
    /\ code' = [code EXCEPT ![i] = None]
    /\ effect' = [effect EXCEPT ![i] = FALSE]
    /\ UNCHANGED <<limiter, process, stops>>

-----------------------------------------------------------------------------
(***************************************************************************)
(* The life of a process: SIGTERM ends the listener and lets requests      *)
(* finish for ten seconds, less than the fifteen a handler may take; then  *)
(* main returns and cuts off those still running.                          *)
(***************************************************************************)
InFlight(x) ==
    IF x = "gateway"
    THEN {i \in Slots : gateway[i] = "proxying"}
    ELSE {i \in Slots : upstream[i] \in {"arrived", "working"} /\ ServiceOf(i) = x}

Sigterm(x) ==
    /\ process[x] = "serving"
    /\ stops < MaxStops
    /\ stops' = stops + 1
    /\ process' = [process EXCEPT ![x] = "draining"]
    /\ UNCHANGED <<limiter, slots>>

\* Shutdown returns, because nothing is running or because its time is over,
\* and the process ends.
Exit(x) ==
    /\ process' = [process EXCEPT ![x] = "down"]
    /\ IF x = "gateway"
       THEN /\ gateway' = [i \in Slots |-> IF i \in InFlight(x) THEN "answered" ELSE gateway[i]]
            /\ code' = [i \in Slots |-> IF i \in InFlight(x) THEN Reset ELSE code[i]]
            /\ UNCHANGED upstream
       ELSE /\ upstream' = [i \in Slots |-> IF i \in InFlight(x) THEN "gone" ELSE upstream[i]]
            /\ UNCHANGED <<gateway, code>>
    /\ UNCHANGED <<limiter, request, reply, effect>>

ShutdownEnds(x) ==
    /\ process[x] = "draining"
    /\ Exit(x)
    /\ UNCHANGED stops

\* The process is killed.
Crash(x) ==
    /\ process[x] = "serving"
    /\ stops < MaxStops
    /\ stops' = stops + 1
    /\ Exit(x)

\* main, once the configuration is valid and the database answers the ping of
\* Connect: until then it exits and is started again.  The gateway begins with an
\* empty limiter.
Start(x) ==
    /\ process[x] = "down"
    /\ process' = [process EXCEPT ![x] = "serving"]
    /\ IF x = "gateway" THEN EmptyLimiter(requests', passed') ELSE UNCHANGED <<requests, passed>>
    /\ UNCHANGED <<clock, stops, slots>>

Tick == LimiterTick /\ UNCHANGED <<process, stops, slots>>

-----------------------------------------------------------------------------
Next ==
    \/ \E i \in Slots, k \in RequestKinds :
         Unauthorised(i, k) \/ RateLimited(i, k) \/ NoRoute(i, k) \/ Forward(i, k)
    \/ \E i \in Slots :
         \/ Deliver(i) \/ Route(i) \/ HandlerCommits(i) \/ HandlerEnds(i)
         \/ Relay(i) \/ BadGateway(i) \/ Forget(i)
    \/ \E x \in Processes : Sigterm(x) \/ ShutdownEnds(x) \/ Crash(x) \/ Start(x)
    \/ Tick

Spec == Init /\ [][Next]_vars

-----------------------------------------------------------------------------
\* An answer tells the truth about the payment or the ledger: 200 means the
\* handler did its work, an answer in the four hundreds that it did nothing and
\* will not, although the service may go on when the client has its answer.
\* 500, 502 and a connection that is cut leave it open: the client retries with
\* its idempotency key.
AnswersAreHonest ==
    \A i \in Slots : gateway[i] = "answered" =>
        /\ code[i] = 200 => effect[i]
        /\ code[i] \in {400, 401, 404, 405, 429} =>
             ~effect[i] /\ upstream[i] \notin {"arrived", "working"}

\* The endpoints of README.md:33-37.
Documented == Routes("payment") \cup Routes("ledger")

\* "Send API requests through the gateway" (README.md:213): an authorised request
\* for a documented endpoint reaches its handler; neither the gateway nor a
\* service answers that there is no such thing or that the caller is unknown.
DocumentedEndpointsServed ==
    \A i \in Slots :
        (gateway[i] = "answered" /\ request[i].authorised
           /\ <<request[i].method, request[i].path>> \in Documented)
        => code[i] \notin {401, 404, 405}
=============================================================================

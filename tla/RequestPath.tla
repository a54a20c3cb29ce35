----------------------------- MODULE RequestPath -----------------------------
(***************************************************************************)
(* A request of a driver on its way: the REST gateway (internal/gateway,   *)
(* pkg/middleware), the interceptors of the reservation service            *)
(* (pkg/grpcmiddleware), its usecase as a sequence of transactions and     *)
(* remote calls, each behind a circuit breaker, the interceptors of the    *)
(* service called, and the way back: errors become gRPC codes, and those   *)
(* HTTP codes. What the services do is in other modules; here a step either*)
(* may have changed something or has not, and what matters is what the     *)
(* driver is told. A token may expire and a limiter may refuse at any hop. *)
(***************************************************************************)
EXTENDS RateLimiter, CircuitBreaker, Sequences

VARIABLES cmd,          \* the command of request r
          at,           \* where the request is
          step,         \* the step of the usecase it is at
          changed,      \* history: something may have been changed for it
          status        \* the HTTP status of its answer, 0 before

requestVars == <<cmd, at, step, changed, status>>

vars == <<limiterVars, breakerVars, requestVars>>

\* The steps of each usecase that can fail: a transaction, or a remote call. A
\* refusal of a transaction is an AppError with one of these HTTP statuses.
Steps ==
    [CreateReservation  |-> <<"write", "billing">>,
     ConfirmReservation |-> <<"read", "billing", "payment", "write", "payment">>,
     CancelReservation  |-> <<"write">>,
     CheckIn            |-> <<"write", "billing", "presence">>,
     CheckOut           |-> <<"write", "billing", "billing">>,
     CompleteCheckout   |-> <<"read", "billing", "payment", "write">>,
     GetReservationBilling |-> <<>>,
     Query              |-> <<>>]

\* "Query" is any request that asks one service and changes nothing: reservations,
\* availability, floors, spots, payments, presence, analytics. Every other command
\* but CreateReservation looks the reservation up first.
FirstPlace(c) ==
    CASE c = "CreateReservation" -> "service"
      [] c = "Query"             -> "query"
      [] OTHER                   -> "lookup"

\* A token that is not valid, too many requests of this client.
MiddlewareRefusals == {401, 429}

\* No id or body, or no connection to presence or analytics.
QueryRefusals == {400, 503}

\* No body, id or user; a reservation for somebody else.
HandlerRefusals(c) ==
    {400, 401} \cup CASE c = "CreateReservation" -> {403}
                      [] c = "Query"             -> QueryRefusals
                      [] OTHER                   -> {}

Success(c) == IF c = "CreateReservation" THEN 201 ELSE 200

\* The fifth step of ConfirmReservation is the refund, if the second transaction
\* finds that the reservation is not waiting any more.
LastStep(c) == IF c = "ConfirmReservation" THEN 4 ELSE Len(Steps[c])

TransactionRefusals(c, i) ==
    CASE i > 1                              -> {409}
      [] i = 1 /\ c = "CreateReservation"   -> {400, 409}
      [] i = 1 /\ c # "CreateReservation"   -> {400, 403, 404}

\* A service that answers with one of these codes has changed nothing: it refused in
\* an interceptor, or found the request wrong. The other codes leave that open.
NothingDone == {"Unauthenticated", "ResourceExhausted", "InvalidArgument", "NotFound",
                "AlreadyExists", "FailedPrecondition", "PermissionDenied"}

------------------------------------------------------------------------------
(* What a service may answer. Its own errors are found with errors.Is: the *)
(* ErrConcurrentModification of billing's repository and the               *)
(* ErrStatusMismatch of payment's are not the ones mapError looks for, and *)
(* come out as Internal, like every error nobody looks for.                *)

\* On every hop: its interceptors, its panics, its connection, its caller.
HopAnswers == {"Unauthenticated", "ResourceExhausted", "Internal", "Unavailable", "Canceled"}

BillingAnswers == {"OK", "InvalidArgument", "NotFound", "FailedPrecondition", "Internal"}

\* ErrCancelled is Unavailable, ErrRefundFailed Aborted. A payment that failed is OK.
PaymentAnswers == {"OK", "InvalidArgument", "NotFound", "FailedPrecondition", "Aborted",
                   "Unavailable", "Internal"}

AnswersOf == [billing |-> BillingAnswers, payment |-> PaymentAnswers]

------------------------------------------------------------------------------
(* Errors and their translation                                            *)

App(http) == [app |-> TRUE, http |-> http, code |-> "OK"]

Grpc(code) == [app |-> FALSE, http |-> 0, code |-> code]

AppErrorToCode(http) ==
    CASE http = 400 -> "InvalidArgument"
      [] http = 402 -> "Aborted"
      [] http = 403 -> "PermissionDenied"
      [] http = 404 -> "NotFound"
      [] http = 409 -> "AlreadyExists"
      [] http = 503 -> "Unavailable"
      [] OTHER      -> "Internal"

\* Mutant: a wrapped gRPC status keeps its code.
MapErrorUnwraps(e) == IF e.app THEN AppErrorToCode(e.http) ELSE e.code

\* An error of a remote call is wrapped by the usecase and is no AppError: it comes
\* out as Internal, whatever its code.
MapError(e) == IF e.app THEN AppErrorToCode(e.http) ELSE "Internal"

GrpcCodeToHTTP(code) ==
    CASE code = "OK"                 -> 200
      [] code = "InvalidArgument"    -> 400
      [] code = "NotFound"           -> 404
      [] code = "AlreadyExists"      -> 409
      [] code = "PermissionDenied"   -> 403
      [] code = "Unauthenticated"    -> 401
      [] code = "FailedPrecondition" -> 412
      [] code = "ResourceExhausted"  -> 429
      [] code = "Unavailable"        -> 503
      [] code = "DeadlineExceeded"   -> 504
      [] OTHER                       -> 500

\* PredictResources: no horizon, a query that fails, less than two days of history.
PredictionErrors == {App(400), App(500), App(422)}

\* What the gateway asks for a query.
SearchAnswers        == {"OK", "InvalidArgument", "NotFound", "Internal"}
PaymentStatusAnswers == {"OK", "InvalidArgument", "NotFound", "Internal"}
AnalyticsAnswers     == {"OK", "InvalidArgument"} \cup {MapError(e) : e \in PredictionErrors}
\* A sensor that fails counts as a driver who is there.
PresenceAnswers      == {"OK", "InvalidArgument"}
ReservationAnswers   == {"OK", "InvalidArgument", "NotFound", "PermissionDenied", "Internal"}

QueriedAnswers == UNION {SearchAnswers, PaymentStatusAnswers, AnalyticsAnswers,
                         PresenceAnswers, ReservationAnswers}

\* What a usecase makes of a failed call: its own AppError, or the error itself.
ErrorOfCall(c, e) ==
    IF c \in {"CreateReservation", "ConfirmReservation"} THEN App(402) ELSE e

------------------------------------------------------------------------------
TypeOK ==
    /\ LimiterTypeOK /\ BreakerTypeOK
    /\ cmd \in [Requests -> {"none"} \cup DOMAIN Steps]
    /\ at \in [Requests -> {"idle", "lookup", "service", "work", "called", "invoice", "query"}]
    /\ step \in [Requests -> 1..5]
    /\ changed \in [Requests -> BOOLEAN]
    /\ status \in [Requests -> {0, 200, 201, 400, 401, 403, 404, 409, 412, 429, 500, 503, 504}]

Init ==
    /\ LimiterInit /\ BreakerInit
    /\ cmd = [r \in Requests |-> "none"]
    /\ at = [r \in Requests |-> "idle"]
    /\ step = [r \in Requests |-> 1]
    /\ changed = [r \in Requests |-> FALSE]
    /\ status = [r \in Requests |-> 0]

Goes(r, place) ==
    /\ at' = [at EXCEPT ![r] = place]
    /\ UNCHANGED <<cmd, step, status>>

AnsweredWith(r, http) ==
    /\ at' = [at EXCEPT ![r] = "idle"]
    /\ status' = [status EXCEPT ![r] = http]
    /\ cmd' = [cmd EXCEPT ![r] = "none"]
    /\ step' = [step EXCEPT ![r] = 1]

Fails(r, code) == AnsweredWith(r, GrpcCodeToHTTP(code))

Refunds(r) == step[r] = 5

\* The usecase goes on behind the step, or is done.
GoesOn(r) ==
    IF Refunds(r) THEN Fails(r, MapError(App(409)))
    ELSE IF step[r] = LastStep(cmd[r]) THEN AnsweredWith(r, Success(cmd[r]))
    ELSE /\ at' = [at EXCEPT ![r] = "work"]
         /\ step' = [step EXCEPT ![r] = @ + 1]
         /\ UNCHANGED <<cmd, status>>

------------------------------------------------------------------------------
(* The gateway                                                             *)

GatewayRefuses(r, http) ==
    /\ at[r] = "idle"
    /\ http \in MiddlewareRefusals \cup UNION {HandlerRefusals(c) : c \in DOMAIN Steps}
    /\ AnsweredWith(r, http)
    /\ changed' = [changed EXCEPT ![r] = FALSE]
    /\ UNCHANGED <<limiterVars, breakerVars>>

GatewayForwards(r, c) ==
    /\ at[r] = "idle"
    /\ cmd' = [cmd EXCEPT ![r] = c]
    /\ at' = [at EXCEPT ![r] = FirstPlace(c)]
    /\ changed' = [changed EXCEPT ![r] = FALSE]
    /\ status' = [status EXCEPT ![r] = 0]
    /\ UNCHANGED <<limiterVars, breakerVars, step>>

------------------------------------------------------------------------------
(* The reservation service: authentication, limiter, handler. The gateway  *)
(* is one host to its limiter.                                             *)

TokenExpired(r) ==
    /\ at[r] \in {"lookup", "service"}
    /\ Fails(r, "Unauthenticated")
    /\ UNCHANGED <<limiterVars, breakerVars, changed>>

Limited(r, k) ==
    /\ at[r] \in {"lookup", "service"}
    /\ Allow(k, FALSE)
    /\ Fails(r, "ResourceExhausted")
    /\ UNCHANGED <<breakerVars, changed>>

\* GetReservation: not there, of somebody else (as the service or the gateway
\* finds), or a failure.
LookupErrors == {App(404), App(403), Grpc("Internal")}

Lookup(r, k) ==
    /\ at[r] = "lookup"
    /\ Allow(k, TRUE)
    /\ \/ \E e \in LookupErrors : Fails(r, MapError(e))
       \/ Goes(r, IF cmd[r] = "GetReservationBilling" THEN "invoice" ELSE "service")
    /\ UNCHANGED <<breakerVars, changed>>

\* A field is missing, or the usecase begins.
Serve(r, k) ==
    /\ at[r] = "service"
    /\ Allow(k, TRUE)
    /\ Goes(r, "work") \/ Fails(r, "InvalidArgument")
    /\ UNCHANGED <<breakerVars, changed>>

------------------------------------------------------------------------------
(* The usecase                                                             *)

CurrentStep(r) == Steps[cmd[r]][step[r]]

InTransaction(r) == at[r] = "work" /\ CurrentStep(r) \in {"read", "write"}

Wrote(r, did) == changed' = [changed EXCEPT ![r] = @ \/ did]

\* CreateReservation finds the key used.
KeyIsUsed(r) ==
    /\ InTransaction(r) /\ cmd[r] = "CreateReservation"
    /\ AnsweredWith(r, Success(cmd[r]))
    /\ UNCHANGED <<limiterVars, breakerVars, changed>>

Transaction(r) ==
    /\ InTransaction(r)
    /\ GoesOn(r) /\ Wrote(r, CurrentStep(r) = "write")
    /\ UNCHANGED <<limiterVars, breakerVars>>

TransactionRefused(r, http) ==
    /\ InTransaction(r) /\ http \in TransactionRefusals(cmd[r], step[r])
    /\ IF cmd[r] = "ConfirmReservation" /\ http = 409
       THEN step' = [step EXCEPT ![r] = 5] /\ UNCHANGED <<cmd, at, status>>
       ELSE Fails(r, MapError(App(http)))
    /\ UNCHANGED <<limiterVars, breakerVars, changed>>

\* A statement or the commit fails; what a failed commit did is not known.
TransactionFails(r) ==
    /\ InTransaction(r)
    /\ Fails(r, MapError(Grpc("Internal"))) /\ Wrote(r, CurrentStep(r) = "write")
    /\ UNCHANGED <<limiterVars, breakerVars>>

\* What the usecase does about a call that failed: check-in goes on without it, and
\* a refund is not looked at.
CallFailed(r, e) ==
    IF cmd[r] = "CheckIn" \/ Refunds(r) THEN GoesOn(r)
    ELSE Fails(r, MapError(ErrorOfCall(cmd[r], e)))

\* failReservationInternal
GivesUp(r) == cmd[r] = "CreateReservation" \/ (cmd[r] = "ConfirmReservation" /\ step[r] = 3)

Calling(r) == at[r] = "work" /\ CurrentStep(r) \in Remotes

Call(r) ==
    /\ Calling(r) /\ Admit(CurrentStep(r), r)
    /\ Goes(r, "called")
    /\ UNCHANGED <<limiterVars, changed>>

CallRefused(r) ==
    /\ Calling(r) /\ ~Admits(CurrentStep(r))
    /\ CallFailed(r, App(503)) /\ Wrote(r, GivesUp(r))
    /\ UNCHANGED <<limiterVars, breakerVars>>

\* The service called answers, or the caller is gone: with interceptors of its own,
\* for which the reservation service is one host and the token is the driver's.
CallReturns(r, code) ==
    /\ at[r] = "called"
    /\ AfterCall(CurrentStep(r), r, code)
    /\ IF code = "OK" THEN GoesOn(r) ELSE CallFailed(r, Grpc(code))
    /\ Wrote(r, code \notin NothingDone \/ GivesUp(r))
    /\ UNCHANGED limiterVars

\* Presence answers or not: a wrong spot is a warning, an error (or a breaker of its
\* own that refuses) is ignored.
AskPresence(r) ==
    /\ at[r] = "work" /\ CurrentStep(r) = "presence"
    /\ GoesOn(r)
    /\ UNCHANGED <<limiterVars, breakerVars, changed>>

------------------------------------------------------------------------------
(* Services the gateway asks itself, without a breaker: it passes the code *)
(* on. GET /reservations/:id/billing makes billing write the invoice.      *)

PassedOn(r, code) == IF code = "OK" THEN AnsweredWith(r, 200) ELSE Fails(r, code)

InvoiceAnswers(r, code) ==
    /\ at[r] = "invoice"
    /\ PassedOn(r, code) /\ Wrote(r, code \notin NothingDone)
    /\ UNCHANGED <<limiterVars, breakerVars>>

QueryAnswers(r, code) ==
    /\ at[r] = "query"
    /\ PassedOn(r, code)
    /\ UNCHANGED <<limiterVars, breakerVars, changed>>

------------------------------------------------------------------------------
TimePasses ==
    /\ Tick \/ Cleanup
    /\ UNCHANGED <<breakerVars, requestVars>>

BreakerExpires(b) ==
    /\ Expire(b)
    /\ UNCHANGED <<limiterVars, requestVars>>

CallEnds(r) ==
    /\ at[r] = "called"
    /\ \E code \in HopAnswers \cup AnswersOf[CurrentStep(r)] : CallReturns(r, code)

Progress(r) ==
    \/ KeyIsUsed(r) \/ Transaction(r) \/ TransactionFails(r)
    \/ AskPresence(r) \/ Call(r) \/ CallRefused(r) \/ CallEnds(r) \/ TokenExpired(r)
    \/ \E http \in {400, 403, 404, 409} : TransactionRefused(r, http)
    \/ \E code \in HopAnswers \cup BillingAnswers : InvoiceAnswers(r, code)
    \/ \E code \in HopAnswers \cup QueriedAnswers : QueryAnswers(r, code)
    \/ \E k \in Keys : Lookup(r, k) \/ Serve(r, k) \/ Limited(r, k)

Arrive(r) ==
    \/ \E http \in {400, 401, 403, 429, 503} : GatewayRefuses(r, http)
    \/ \E c \in DOMAIN Steps : GatewayForwards(r, c)

Next ==
    \/ \E r \in Requests : Progress(r) \/ Arrive(r)
    \/ TimePasses
    \/ \E b \in Remotes : BreakerExpires(b)

\* A call ends with its service or its connection; nothing else needs to happen.
Spec == Init /\ [][Next]_vars /\ \A r \in Requests : WF_vars(CallEnds(r))

------------------------------------------------------------------------------
\* A driver who is told that a request was wrong, not authorised, not possible in
\* this state or too much may repeat it or not: nothing has been changed for it in
\* any service. A token that expires, or a limiter that refuses, between two hops is
\* reported so only if nothing was done before. (409, 500 and 503 promise nothing.)
RefusalsChangeNothing ==
    \A r \in Requests : status[r] \in {400, 401, 403, 404, 412, 429} => ~changed[r]
=============================================================================

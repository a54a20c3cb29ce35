-------------------------- MODULE RequestPath_proofs --------------------------
(***************************************************************************)
(* What RequestPath promises for every number of requests, every limiter   *)
(* and every threshold of the breakers.                                    *)
(***************************************************************************)
EXTENDS RequestPath, TLAPS

------------------------------------------------------------------------------
(* The limiter. A bucket that counts as idle has had the time to fill up.  *)

HonestInv ==
    /\ LimiterTypeOK
    /\ \A k \in Keys : /\ tokens[k] <= ideal[k]
                       /\ Rate * idle[k] <= ideal[k] \/ ideal[k] = Burst

LimiterStep == Tick \/ Cleanup \/ \E k \in Keys, ok \in BOOLEAN : Allow(k, ok)

LEMMA AtMostInRange ==
    ASSUME NEW n \in Nat, NEW bound \in Nat
    PROVE  AtMost(n, bound) \in 0..bound
BY DEF AtMost

LEMMA TickIsHonest ==
    ASSUME HonestInv, Tick
    PROVE  HonestInv'
<1> USE LimiterAssumption
<1>1. LimiterTypeOK'
    BY AtMostInRange DEF HonestInv, LimiterTypeOK, Tick, Forgotten, AtMost
<1>2. ASSUME NEW k \in Keys
      PROVE  (/\ tokens[k] <= ideal[k]
              /\ Rate * idle[k] <= ideal[k] \/ ideal[k] = Burst)'
  <2>1. /\ tokens[k] \in 0..Burst /\ ideal[k] \in 0..Burst /\ idle[k] \in Nat
        /\ tokens[k] <= ideal[k]
        /\ Rate * idle[k] <= ideal[k] \/ ideal[k] = Burst
      BY DEF HonestInv, LimiterTypeOK, Forgotten
  <2>2. /\ tokens'[k] = AtMost(tokens[k] + Rate, Burst)
        /\ ideal'[k] = AtMost(ideal[k] + Rate, Burst)
        /\ idle'[k] = idle[k] + 1 \/ idle'[k] <= idle[k] + 1
        /\ idle'[k] \in Nat
      BY <2>1 DEF Tick, AtMost, Forgotten
  <2>3. Rate * (idle[k] + 1) = Rate * idle[k] + Rate
      BY <2>1
  <2>4. Rate * idle'[k] <= Rate * (idle[k] + 1)
      BY <2>1, <2>2
  <2>5. Rate * idle[k] \in Nat /\ Rate * idle'[k] \in Nat
      BY <2>1, <2>2
  <2>6. CASE ideal[k] + Rate < Burst
      BY <2>1, <2>2, <2>3, <2>4, <2>5, <2>6 DEF AtMost
  <2>7. CASE ideal[k] + Rate >= Burst
      BY <2>1, <2>2, <2>7 DEF AtMost
  <2> QED BY <2>1, <2>6, <2>7
<1> QED BY <1>1, <1>2 DEF HonestInv

LEMMA CleanupIsHonest ==
    ASSUME HonestInv, Cleanup
    PROVE  HonestInv'
<1> USE LimiterAssumption
<1>1. LimiterTypeOK'
    BY DEF HonestInv, LimiterTypeOK, Cleanup
<1>2. ASSUME NEW k \in Keys
      PROVE  (/\ tokens[k] <= ideal[k]
              /\ Rate * idle[k] <= ideal[k] \/ ideal[k] = Burst)'
  <2>1. /\ tokens[k] \in 0..Burst /\ ideal[k] \in 0..Burst /\ idle[k] \in Nat
        /\ tokens[k] <= ideal[k]
        /\ Rate * idle[k] <= ideal[k] \/ ideal[k] = Burst
      BY DEF HonestInv, LimiterTypeOK, Forgotten
  <2>2. /\ ideal'[k] = ideal[k] /\ idle'[k] = idle[k]
        /\ tokens'[k] = IF idle[k] > 2 * Interval THEN Burst ELSE tokens[k]
      BY DEF Cleanup
  <2>3. idle[k] > 2 * Interval => ideal[k] = Burst
    <3> SUFFICES ASSUME idle[k] > 2 * Interval, Rate * idle[k] <= ideal[k]
                 PROVE  ideal[k] >= Burst
        BY <2>1
    <3>1. Rate * (2 * Interval) <= Rate * idle[k]
        BY <2>1
    <3>2. Rate * (2 * Interval) = 2 * Interval * Rate
        OBVIOUS
    <3>3. Rate * idle[k] \in Nat /\ 2 * Interval * Rate \in Nat
        BY <2>1
    <3> QED BY <2>1, <3>1, <3>2, <3>3
  <2> QED BY <2>1, <2>2, <2>3
<1> QED BY <1>1, <1>2 DEF HonestInv

LEMMA AllowIsHonest ==
    ASSUME HonestInv, NEW k \in Keys, NEW ok \in BOOLEAN, Allow(k, ok)
    PROVE  HonestInv'
<1> USE LimiterAssumption
<1>1. ok => tokens[k] - 1 \in 0..Burst /\ ideal[k] - 1 \in 0..Burst
    BY DEF HonestInv, LimiterTypeOK, Allow
<1>2. LimiterTypeOK'
    BY <1>1 DEF HonestInv, LimiterTypeOK, Allow, Forgotten
<1>3. ASSUME NEW j \in Keys
      PROVE  (/\ tokens[j] <= ideal[j]
              /\ Rate * idle[j] <= ideal[j] \/ ideal[j] = Burst)'
  <2>1. CASE j # k
      BY <2>1 DEF HonestInv, LimiterTypeOK, Allow
  <2>2. CASE j = k
    <3>1. idle'[k] = 0 /\ Rate * 0 = 0
        BY DEF Allow, HonestInv, LimiterTypeOK
    <3>2. tokens'[k] <= ideal'[k] /\ ideal'[k] \in 0..Burst
        BY <1>1 DEF Allow, HonestInv, LimiterTypeOK
    <3> QED BY <2>2, <3>1, <3>2
  <2> QED BY <2>1, <2>2
<1> QED BY <1>2, <1>3 DEF HonestInv

\* Whatever a request or the clock does, it does to the limiter what the
\* limiter's own operations do.
LEMMA LimiterStepsOnly ==
    ASSUME Next
    PROVE  LimiterStep \/ UNCHANGED limiterVars
<1>1. ASSUME NEW r \in Requests, Progress(r)
      PROVE  LimiterStep \/ UNCHANGED limiterVars
    BY <1>1 DEF Progress, CallEnds, KeyIsUsed, Transaction, TransactionFails,
       TransactionRefused, AskPresence, Call, CallRefused, CallReturns, TokenExpired,
       InvoiceAnswers, QueryAnswers, Lookup, Serve, Limited, LimiterStep
<1>2. ASSUME NEW r \in Requests, Arrive(r)
      PROVE  UNCHANGED limiterVars
    BY <1>2 DEF Arrive, GatewayRefuses, GatewayForwards
<1>3. CASE TimePasses
    BY <1>3 DEF TimePasses, LimiterStep
<1>4. ASSUME NEW b \in Remotes, BreakerExpires(b)
      PROVE  UNCHANGED limiterVars
    BY <1>4 DEF BreakerExpires
<1> QED BY <1>1, <1>2, <1>3, <1>4 DEF Next

LEMMA HonestInvHolds == Spec => []HonestInv
<1>1. Init => HonestInv
  <2> SUFFICES ASSUME Init PROVE HonestInv OBVIOUS
  <2>1. Forgotten \in Nat /\ Burst \in 0..Burst
      BY LimiterAssumption DEF Forgotten
  <2> QED BY <2>1, LimiterAssumption DEF Init, LimiterInit, HonestInv, LimiterTypeOK
<1>2. HonestInv /\ [Next]_vars => HonestInv'
  <2> SUFFICES ASSUME HonestInv, [Next]_vars PROVE HonestInv' OBVIOUS
  <2>1. CASE UNCHANGED limiterVars
      BY <2>1 DEF HonestInv, LimiterTypeOK, limiterVars
  <2>2. CASE LimiterStep
      BY <2>2, TickIsHonest, CleanupIsHonest, AllowIsHonest DEF LimiterStep
  <2> QED BY <2>1, <2>2, LimiterStepsOnly DEF vars
<1> QED BY <1>1, <1>2, PTL DEF Spec

\* Deleting idle limiters gives nobody tokens, for every burst, rate and cleanup
\* interval that lets a bucket fill up before it counts as idle: Store.Allow and
\* cleanup together never let a caller through where one bucket kept for ever refuses.
THEOREM LimiterIsHonest == Spec => []BucketsAreHonest
<1>1. HonestInv => BucketsAreHonest
    BY DEF HonestInv, BucketsAreHonest
<1> QED BY <1>1, HonestInvHolds, PTL

------------------------------------------------------------------------------
(* The request. Before its first step nothing has been changed for it, and *)
(* it has no status before it is answered.                                 *)

RequestTypeOK ==
    /\ cmd \in [Requests -> {"none"} \cup DOMAIN Steps]
    /\ at \in [Requests -> {"idle", "lookup", "service", "work", "called", "invoice", "query"}]
    /\ step \in [Requests -> 1..5]
    /\ changed \in [Requests -> BOOLEAN]
    /\ status \in [Requests -> {0, 200, 201, 400, 401, 403, 404, 409, 412, 429, 500, 503, 504}]

Answers == {200, 201, 400, 401, 403, 404, 409, 412, 429, 500, 503, 504}

Telling == {400, 401, 403, 404, 412, 429}

Untouched(r) ==
    \/ at[r] \in {"lookup", "service", "invoice", "query"}
    \/ at[r] = "work" /\ step[r] = 1
    \/ status[r] \in Telling

RequestInv ==
    /\ RequestTypeOK
    /\ \A r \in Requests : /\ at[r] # "idle" => status[r] = 0
                           /\ Untouched(r) => ~changed[r]

\* What a request that is answered, or goes on, looks like.
LEMMA AnswerKeeps ==
    ASSUME RequestInv, NEW r \in Requests, NEW http, AnsweredWith(r, http),
           http \in Answers,
           NEW value \in BOOLEAN, changed' = [changed EXCEPT ![r] = value],
           http \in Telling => ~value
    PROVE  RequestInv'
BY DEF RequestInv, RequestTypeOK, Untouched, Telling, Answers, AnsweredWith

LEMMA CodesBecomeHTTP ==
    ASSUME NEW code
    PROVE  /\ GrpcCodeToHTTP(code) \in Answers
           /\ GrpcCodeToHTTP(code) \in Telling => code \in NothingDone
BY DEF GrpcCodeToHTTP, Answers, Telling, NothingDone

\* What the service's own errors come out as.
LEMMA OwnErrors ==
    /\ MapError(App(409)) = "AlreadyExists" /\ GrpcCodeToHTTP("AlreadyExists") = 409
    /\ MapError(App(402)) = "Aborted" /\ GrpcCodeToHTTP("Aborted") = 500
    /\ MapError(App(503)) = "Unavailable" /\ GrpcCodeToHTTP("Unavailable") = 503
    /\ GrpcCodeToHTTP("Internal") = 500
    /\ \A e : ~e.app => MapError(e) = "Internal"
<1>1. /\ App(409).app /\ App(409).http = 409
      /\ App(402).app /\ App(402).http = 402
      /\ App(503).app /\ App(503).http = 503
    BY DEF App
<1>2. /\ AppErrorToCode(409) = "AlreadyExists"
      /\ AppErrorToCode(402) = "Aborted"
      /\ AppErrorToCode(503) = "Unavailable"
    BY DEF AppErrorToCode
<1>3. /\ GrpcCodeToHTTP("AlreadyExists") = 409 /\ GrpcCodeToHTTP("Aborted") = 500
      /\ GrpcCodeToHTTP("Unavailable") = 503 /\ GrpcCodeToHTTP("Internal") = 500
    BY DEF GrpcCodeToHTTP
<1> QED BY <1>1, <1>2, <1>3 DEF MapError

LEMMA GoesOnKeeps ==
    ASSUME RequestInv, NEW r \in Requests, GoesOn(r), at[r] # "idle",
           NEW value \in BOOLEAN, changed' = [changed EXCEPT ![r] = value]
    PROVE  RequestInv'
<1>1. CASE Refunds(r)
  <2>1. AnsweredWith(r, 409)
      BY <1>1, OwnErrors DEF GoesOn, Fails
  <2>2. 409 \in Answers /\ 409 \notin Telling
      BY DEF Answers, Telling
  <2> QED BY <2>1, <2>2, AnswerKeeps, Zenon
<1>2. CASE ~Refunds(r) /\ step[r] = LastStep(cmd[r])
  <2>1. AnsweredWith(r, Success(cmd[r]))
      BY <1>2 DEF GoesOn
  <2>2. Success(cmd[r]) \in Answers /\ Success(cmd[r]) \notin Telling
      BY DEF Success, Answers, Telling
  <2> QED BY <2>1, <2>2, AnswerKeeps, Zenon
<1>3. CASE ~Refunds(r) /\ step[r] # LastStep(cmd[r])
  <2>1. /\ at' = [at EXCEPT ![r] = "work"]
        /\ step' = [step EXCEPT ![r] = step[r] + 1]
        /\ UNCHANGED <<cmd, status>>
        /\ step[r] \in 1..4
      BY <1>3 DEF GoesOn, Refunds, RequestInv, RequestTypeOK
  <2> QED BY <2>1 DEF RequestInv, RequestTypeOK, Untouched, Telling
<1> QED BY <1>1, <1>2, <1>3

\* A call that failed is never told as a refusal.
LEMMA CallFailedKeeps ==
    ASSUME RequestInv, NEW r \in Requests, NEW e, CallFailed(r, e), at[r] # "idle",
           ~e.app \/ e = App(503),
           NEW value \in BOOLEAN, changed' = [changed EXCEPT ![r] = value]
    PROVE  RequestInv'
<1>1. CASE cmd[r] = "CheckIn" \/ Refunds(r)
    BY <1>1, GoesOnKeeps DEF CallFailed
<1>2. CASE ~(cmd[r] = "CheckIn" \/ Refunds(r))
  <2>1. AnsweredWith(r, 500) \/ AnsweredWith(r, 503)
    <3>1. AnsweredWith(r, GrpcCodeToHTTP(MapError(ErrorOfCall(cmd[r], e))))
        BY <1>2 DEF CallFailed, Fails
    <3>2. ErrorOfCall(cmd[r], e) = App(402) \/ ErrorOfCall(cmd[r], e) = e
        BY DEF ErrorOfCall
    <3>3. GrpcCodeToHTTP(MapError(ErrorOfCall(cmd[r], e))) \in {500, 503}
        BY <3>2, OwnErrors
    <3> QED BY <3>1, <3>3
  <2>2. {500, 503} \subseteq Answers /\ {500, 503} \cap Telling = {}
      BY DEF Answers, Telling
  <2>3. CASE AnsweredWith(r, 500)
    <3>1. 500 \in Answers /\ 500 \notin Telling
        BY <2>2
    <3> QED BY <2>3, <3>1, AnswerKeeps, Zenon
  <2>4. CASE AnsweredWith(r, 503)
    <3>1. 503 \in Answers /\ 503 \notin Telling
        BY <2>2
    <3> QED BY <2>4, <3>1, AnswerKeeps, Zenon
  <2> QED BY <2>1, <2>3, <2>4
<1> QED BY <1>1, <1>2

LEMMA ProgressKeeps ==
    ASSUME RequestInv, NEW r \in Requests, Progress(r)
    PROVE  RequestInv'
<1>0. changed[r] \in BOOLEAN /\ changed \in [Requests -> BOOLEAN]
    BY DEF RequestInv, RequestTypeOK
<1>1. ASSUME UNCHANGED changed PROVE changed' = [changed EXCEPT ![r] = changed[r]]
    BY <1>0, <1>1
<1>2. ASSUME NEW did \in BOOLEAN, Wrote(r, did)
      PROVE  /\ changed' = [changed EXCEPT ![r] = changed[r] \/ did]
             /\ (changed[r] \/ did) \in BOOLEAN
    BY <1>0, <1>2 DEF Wrote
<1>3. ASSUME NEW code, Fails(r, code), UNCHANGED changed,
             code \in NothingDone => ~changed[r]
      PROVE  RequestInv'
    BY <1>0, <1>1, <1>3, AnswerKeeps, CodesBecomeHTTP, Zenon DEF Fails
<1>4. ASSUME AnsweredWith(r, 409), UNCHANGED changed
       PROVE  RequestInv'
  <2>1. 409 \in Answers /\ 409 \notin Telling
      BY DEF Answers, Telling
  <2> QED BY <1>0, <1>1, <1>4, <2>1, AnswerKeeps, Zenon
<1>5. CASE KeyIsUsed(r)
  <2>1. Success(cmd[r]) \in Answers /\ Success(cmd[r]) \notin Telling
      BY DEF Success, Answers, Telling
  <2> QED BY <1>0, <1>1, <1>5, <2>1, AnswerKeeps, Zenon DEF KeyIsUsed
<1>6. CASE Transaction(r)
    BY <1>2, <1>6, GoesOnKeeps DEF Transaction, InTransaction
<1>7. CASE TransactionFails(r)
  <2>1. AnsweredWith(r, 500)
      BY <1>7, OwnErrors DEF TransactionFails, Fails, Grpc
  <2>2. 500 \in Answers /\ 500 \notin Telling
      BY DEF Answers, Telling
  <2> QED BY <1>2, <1>7, <2>1, <2>2, AnswerKeeps, Zenon DEF TransactionFails
<1>8. ASSUME NEW http \in {400, 403, 404, 409}, TransactionRefused(r, http)
      PROVE  RequestInv'
  <2>1. CASE cmd[r] = "ConfirmReservation" /\ http = 409
    <3>1. /\ step' = [step EXCEPT ![r] = 5] /\ UNCHANGED <<cmd, at, status, changed>>
        BY <1>8, <2>1 DEF TransactionRefused
    <3> QED BY <3>1 DEF RequestInv, RequestTypeOK, Untouched, Telling
  <2>2. CASE ~(cmd[r] = "ConfirmReservation" /\ http = 409)
    <3>1. AnsweredWith(r, GrpcCodeToHTTP(MapError(App(http)))) /\ UNCHANGED changed
        BY <1>8, <2>2 DEF TransactionRefused, Fails
    <3>2. CASE step[r] = 1
      <4>1. ~changed[r]
          BY <1>8, <3>2 DEF RequestInv, Untouched, TransactionRefused, InTransaction
      <4> QED BY <1>3, <1>8, <2>2, <4>1 DEF TransactionRefused
    <3>3. CASE step[r] # 1
      <4>1. http = 409
          BY <1>8, <3>3 DEF TransactionRefused, TransactionRefusals, RequestInv, RequestTypeOK
      <4>2. AnsweredWith(r, 409)
          BY <3>1, <4>1, OwnErrors
      <4> QED BY <1>4, <3>1, <4>2
    <3> QED BY <3>2, <3>3
  <2> QED BY <2>1, <2>2
<1>9. CASE AskPresence(r)
    BY <1>0, <1>1, <1>9, GoesOnKeeps DEF AskPresence
<1>10. CASE Call(r)
    BY <1>10 DEF Call, Calling, Goes, RequestInv, RequestTypeOK, Untouched, Telling
<1>11. CASE CallRefused(r)
    BY <1>2, <1>11, CallFailedKeeps DEF CallRefused, Calling, GivesUp
<1>12. ASSUME NEW code, CallReturns(r, code)
       PROVE  RequestInv'
  <2>1. at[r] # "idle" /\ Wrote(r, code \notin NothingDone \/ GivesUp(r))
      BY <1>12 DEF CallReturns
  <2>2. (code \notin NothingDone \/ GivesUp(r)) \in BOOLEAN
      BY DEF GivesUp
  <2>3. ~Grpc(code).app
      BY DEF Grpc
  <2>4. GoesOn(r) \/ CallFailed(r, Grpc(code))
      BY <1>12 DEF CallReturns
  <2> QED BY <1>2, <2>1, <2>2, <2>3, <2>4, GoesOnKeeps, CallFailedKeeps
<1>13. CASE TokenExpired(r)
    BY <1>3, <1>13 DEF TokenExpired, RequestInv, Untouched
<1>14. ASSUME NEW k \in Keys, Limited(r, k)
       PROVE  RequestInv'
    BY <1>3, <1>14 DEF Limited, RequestInv, Untouched
<1>15. ASSUME NEW k \in Keys, Lookup(r, k)
       PROVE  RequestInv'
  <2>1. at[r] = "lookup" /\ ~changed[r] /\ UNCHANGED changed
      BY <1>15 DEF Lookup, RequestInv, Untouched
  <2>2. CASE \E e \in LookupErrors : Fails(r, MapError(e))
      BY <1>3, <2>1, <2>2
  <2>3. CASE Goes(r, IF cmd[r] = "GetReservationBilling" THEN "invoice" ELSE "service")
      BY <2>1, <2>3 DEF Goes, RequestInv, RequestTypeOK, Untouched, Telling
  <2> QED BY <1>15, <2>2, <2>3 DEF Lookup
<1>16. ASSUME NEW k \in Keys, Serve(r, k)
       PROVE  RequestInv'
  <2>1. at[r] = "service" /\ ~changed[r] /\ UNCHANGED changed
      BY <1>16 DEF Serve, RequestInv, Untouched
  <2>2. CASE Fails(r, "InvalidArgument")
      BY <1>3, <2>1, <2>2
  <2>3. CASE Goes(r, "work")
      BY <2>1, <2>3 DEF Goes, RequestInv, RequestTypeOK, Untouched, Telling
  <2> QED BY <1>16, <2>2, <2>3 DEF Serve
<1>17. ASSUME NEW code, InvoiceAnswers(r, code)
       PROVE  RequestInv'
  <2>1. /\ ~changed[r] /\ PassedOn(r, code)
        /\ Wrote(r, code \notin NothingDone)
      BY <1>17 DEF InvoiceAnswers, RequestInv, Untouched
  <2>2. CASE code = "OK"
    <3>1. AnsweredWith(r, 200) /\ 200 \in Answers /\ 200 \notin Telling
        BY <2>1, <2>2 DEF PassedOn, Answers, Telling
    <3> QED BY <1>2, <2>1, <3>1, AnswerKeeps, Zenon
  <2>3. CASE code # "OK"
    <3>1. AnsweredWith(r, GrpcCodeToHTTP(code))
        BY <2>1, <2>3 DEF PassedOn, Fails
    <3>2. GrpcCodeToHTTP(code) \in Telling => ~(changed[r] \/ code \notin NothingDone)
        BY <2>1, CodesBecomeHTTP
    <3> QED BY <1>2, <2>1, <3>1, <3>2, CodesBecomeHTTP, AnswerKeeps, Zenon
  <2> QED BY <2>2, <2>3
<1>18. ASSUME NEW code, QueryAnswers(r, code)
       PROVE  RequestInv'
  <2>1. ~changed[r] /\ PassedOn(r, code) /\ UNCHANGED changed
      BY <1>18 DEF QueryAnswers, RequestInv, Untouched
  <2>2. CASE code = "OK"
    <3>1. AnsweredWith(r, 200) /\ 200 \in Answers
        BY <2>1, <2>2 DEF PassedOn, Answers
    <3> QED BY <1>0, <1>1, <2>1, <3>1, AnswerKeeps, Zenon
  <2>3. CASE code # "OK"
      BY <1>3, <2>1, <2>3 DEF PassedOn
  <2> QED BY <2>2, <2>3
<1> QED BY <1>5, <1>6, <1>7, <1>8, <1>9, <1>10, <1>11, <1>12, <1>13, <1>14, <1>15, <1>16,
           <1>17, <1>18 DEF Progress, CallEnds

LEMMA ArriveKeeps ==
    ASSUME RequestInv, NEW r \in Requests, Arrive(r)
    PROVE  RequestInv'
<1>1. ASSUME NEW http \in {400, 401, 403, 429, 503}, GatewayRefuses(r, http)
      PROVE  RequestInv'
    BY <1>1 DEF GatewayRefuses, AnsweredWith, RequestInv, RequestTypeOK, Untouched, Telling
<1>2. ASSUME NEW c \in DOMAIN Steps, GatewayForwards(r, c)
      PROVE  RequestInv'
  <2>1. FirstPlace(c) \in {"service", "query", "lookup"}
      BY DEF FirstPlace
  <2> QED BY <1>2, <2>1 DEF GatewayForwards, RequestInv, RequestTypeOK, Untouched, Telling
<1> QED BY <1>1, <1>2 DEF Arrive

LEMMA RequestInvHolds == Spec => []RequestInv
<1>1. Init => RequestInv
    BY DEF Init, RequestInv, RequestTypeOK, Untouched, Telling
<1>2. RequestInv /\ [Next]_vars => RequestInv'
  <2> SUFFICES ASSUME RequestInv, [Next]_vars PROVE RequestInv' OBVIOUS
  <2>1. CASE UNCHANGED requestVars
      BY <2>1 DEF requestVars, RequestInv, RequestTypeOK, Untouched
  <2>2. CASE Next
      BY <2>1, <2>2, ProgressKeeps, ArriveKeeps DEF Next, TimePasses, BreakerExpires
  <2> QED BY <2>1, <2>2 DEF vars
<1> QED BY <1>1, <1>2, PTL DEF Spec

\* For every number of requests, every limiter and every breaker: what the gateway
\* reports as a refusal (400, 401, 403, 404, 412, 429) has changed nothing in any
\* service, although tokens expire and limiters refuse between two hops: the usecase
\* never passes the code of a failed call on.
THEOREM RefusalsAreHarmless == Spec => []RefusalsChangeNothing
<1>1. RequestInv => RefusalsChangeNothing
    BY DEF RequestInv, Untouched, Telling, RefusalsChangeNothing
<1> QED BY <1>1, RequestInvHolds, PTL

------------------------------------------------------------------------------
(* The breakers                                                            *)

LEMMA BreakerStepKeepsType ==
    ASSUME BreakerTypeOK, NEW b, NEW r, NEW code,
           \/ r \in Requests /\ (Admit(b, r) \/ AfterCall(b, r, code))
           \/ Expire(b) \/ UNCHANGED breakerVars
    PROVE  BreakerTypeOK'
<1> USE BreakerAssumption
<1>1. 0 \in 0..(FailureThreshold - 1)
    OBVIOUS
<1>2. ASSUME NEW s \in {"closed", "open", "half-open"}, Enters(b, s)
      PROVE  BreakerTypeOK'
    BY <1>1, <1>2 DEF Enters, BreakerTypeOK
<1>3. ASSUME NEW ok \in BOOLEAN, Counted(b, r, ok)
      PROVE  BreakerTypeOK'
  <2>1. CASE breaker[b] = "half-open"
      BY <1>2, <1>3, <2>1 DEF Counted
  <2>2. CASE breaker[b] = "closed" /\ ~ok /\ Trips(failures[b] + 1)
      BY <1>2, <1>3, <2>2 DEF Counted
  <2>3. CASE breaker[b] = "closed" /\ ~(~ok /\ Trips(failures[b] + 1))
    <3>1. /\ failures' = [failures EXCEPT ![b] = IF ok THEN 0 ELSE failures[b] + 1]
          /\ admitted' = [admitted EXCEPT ![b] = admitted[b] \ {r}]
          /\ UNCHANGED breaker
        BY <1>3, <2>3 DEF Counted
    <3>2. ASSUME b \in Remotes
          PROVE  (IF ok THEN 0 ELSE failures[b] + 1) \in 0..(FailureThreshold - 1)
        BY <1>1, <2>3, <3>2 DEF BreakerTypeOK, Trips
    <3> QED BY <3>1, <3>2 DEF BreakerTypeOK
  <2> QED BY <1>3, <2>1, <2>2, <2>3 DEF Counted
<1>4. CASE r \in Requests /\ Admit(b, r)
    BY <1>4 DEF Admit, BreakerTypeOK
<1>5. CASE AfterCall(b, r, code)
  <2>1. CASE UNCHANGED breakerVars
      BY <2>1 DEF breakerVars, BreakerTypeOK
  <2> QED BY <1>3, <1>5, <2>1 DEF AfterCall
<1>6. CASE Expire(b)
    BY <1>2, <1>6 DEF Expire
<1>7. CASE UNCHANGED breakerVars
    BY <1>7 DEF breakerVars, BreakerTypeOK
<1> QED BY <1>4, <1>5, <1>6, <1>7

LEMMA BreakerStepsOnly ==
    ASSUME Next
    PROVE  \/ UNCHANGED breakerVars
           \/ \E b, code : \/ \E r \in Requests : Admit(b, r) \/ AfterCall(b, r, code)
                           \/ Expire(b)
<1>1. ASSUME NEW r \in Requests, Progress(r)
      PROVE  \/ UNCHANGED breakerVars
             \/ \E b, code : Admit(b, r) \/ AfterCall(b, r, code)
    BY <1>1 DEF Progress, CallEnds, KeyIsUsed, Transaction, TransactionFails,
       TransactionRefused, AskPresence, Call, CallRefused, CallReturns, TokenExpired,
       InvoiceAnswers, QueryAnswers, Lookup, Serve, Limited
<1>2. ASSUME NEW r \in Requests, Arrive(r)
      PROVE  UNCHANGED breakerVars
    BY <1>2 DEF Arrive, GatewayRefuses, GatewayForwards
<1>3. CASE TimePasses
    BY <1>3 DEF TimePasses
<1>4. ASSUME NEW b \in Remotes, BreakerExpires(b)
      PROVE  Expire(b)
    BY <1>4 DEF BreakerExpires
<1> QED BY <1>1, <1>2, <1>3, <1>4 DEF Next

LEMMA BreakerTypeHolds == Spec => []BreakerTypeOK
<1>1. Init => BreakerTypeOK
    BY BreakerAssumption DEF Init, BreakerInit, BreakerTypeOK
<1>2. BreakerTypeOK /\ [Next]_vars => BreakerTypeOK'
  <2> SUFFICES ASSUME BreakerTypeOK, [Next]_vars PROVE BreakerTypeOK' OBVIOUS
  <2>1. CASE UNCHANGED breakerVars
      BY <2>1, BreakerStepKeepsType
  <2>2. CASE Next
      BY <2>1, <2>2, BreakerStepsOnly, BreakerStepKeepsType
  <2> QED BY <2>1, <2>2 DEF vars
<1> QED BY <1>1, <1>2, PTL DEF Spec

\* The limiter, the breakers and every request keep their types: the failures of a
\* breaker stay below its threshold, a bucket never goes below nothing or above its
\* burst.
THEOREM TypeIsKept == Spec => []TypeOK
<1>1. HonestInv /\ BreakerTypeOK /\ RequestInv => TypeOK
    BY DEF HonestInv, RequestInv, RequestTypeOK, TypeOK
<1> QED BY <1>1, HonestInvHolds, BreakerTypeHolds, RequestInvHolds, PTL

------------------------------------------------------------------------------
(* Probes. What a breaker has admitted in this generation is under way.    *)

ProbeInv ==
    \A b \in Remotes :
        /\ \A r \in admitted[b] : at[r] = "called" /\ CurrentStep(r) = b
        /\ breaker[b] = "half-open" => \A r, q \in admitted[b] : r = q

\* A half-open breaker that refuses everybody does so for one call that is under way
\* to its service: that the call ends is all the breaker needs.
OneProbeUnderWay ==
    \A b \in Remotes :
        breaker[b] = "half-open" /\ admitted[b] # {} =>
            \E r \in Requests : admitted[b] = {r} /\ at[r] = "called" /\ CurrentStep(r) = b

Stays(q) == at'[q] = at[q] /\ step'[q] = step[q] /\ cmd'[q] = cmd[q]

\* A step of one request leaves the others where they are.
LEMMA OthersStay ==
    ASSUME RequestTypeOK, NEW r \in Requests, Progress(r) \/ Arrive(r), NEW q \in Requests, q # r
    PROVE  Stays(q)
<1> USE DEF Stays
<1>1. ASSUME NEW place, Goes(r, place) PROVE Stays(q)
    BY <1>1 DEF Goes, RequestTypeOK
<1>2. ASSUME NEW http, AnsweredWith(r, http) PROVE Stays(q)
    BY <1>2 DEF AnsweredWith, RequestTypeOK
<1>3. ASSUME NEW code, Fails(r, code) PROVE Stays(q)
    BY <1>2, <1>3 DEF Fails
<1>4. ASSUME GoesOn(r) PROVE Stays(q)
  <2>1. CASE at' = [at EXCEPT ![r] = "work"] /\ step' = [step EXCEPT ![r] = @ + 1] /\ UNCHANGED cmd
      BY <2>1 DEF RequestTypeOK
  <2> QED BY <1>2, <1>3, <1>4, <2>1 DEF GoesOn
<1>5. ASSUME NEW e, CallFailed(r, e) PROVE Stays(q)
    BY <1>3, <1>4, <1>5 DEF CallFailed
<1>6. ASSUME NEW code, PassedOn(r, code) PROVE Stays(q)
    BY <1>2, <1>3, <1>6 DEF PassedOn
<1>7. ASSUME NEW http, TransactionRefused(r, http) PROVE Stays(q)
  <2>1. CASE step' = [step EXCEPT ![r] = 5] /\ UNCHANGED <<cmd, at>>
      BY <2>1 DEF RequestTypeOK
  <2> QED BY <1>3, <1>7, <2>1 DEF TransactionRefused
<1>8. ASSUME NEW c, GatewayForwards(r, c) PROVE Stays(q)
    BY <1>8 DEF GatewayForwards, RequestTypeOK
<1> HIDE DEF Stays
<1>9. CASE Arrive(r)
    BY <1>2, <1>8, <1>9 DEF Arrive, GatewayRefuses
<1>10. CASE Progress(r)
  <2>1. CASE KeyIsUsed(r)
      BY <1>2, <2>1, Zenon DEF KeyIsUsed
  <2>2. CASE Transaction(r) \/ AskPresence(r)
      BY <1>4, <2>2, Zenon DEF Transaction, AskPresence
  <2>3. CASE TransactionFails(r) \/ TokenExpired(r)
      BY <1>3, <2>3, Zenon DEF TransactionFails, TokenExpired
  <2>4. CASE Call(r)
      BY <1>1, <2>4, Zenon DEF Call
  <2>5. CASE CallRefused(r)
      BY <1>5, <2>5, Zenon DEF CallRefused
  <2>6. CASE CallEnds(r)
    <3>1. PICK code : CallReturns(r, code)
        BY <2>6, Zenon DEF CallEnds
    <3>2. GoesOn(r) \/ CallFailed(r, Grpc(code))
        BY <3>1, Zenon DEF CallReturns
    <3> QED BY <1>4, <1>5, <3>2, Zenon
  <2>7. ASSUME NEW code, InvoiceAnswers(r, code) \/ QueryAnswers(r, code) PROVE Stays(q)
      BY <1>6, <2>7, Zenon DEF InvoiceAnswers, QueryAnswers
  <2>8. ASSUME NEW k \in Keys, Lookup(r, k) PROVE Stays(q)
    <3>1. (\E e \in LookupErrors : Fails(r, MapError(e))) \/ (\E place : Goes(r, place))
        BY <2>8, Zenon DEF Lookup
    <3> QED BY <1>1, <1>3, <3>1, Zenon
  <2>9. ASSUME NEW k \in Keys, Serve(r, k) \/ Limited(r, k) PROVE Stays(q)
      BY <1>1, <1>3, <2>9, Zenon DEF Serve, Limited
  <2> QED BY <1>7, <1>10, <2>1, <2>2, <2>3, <2>4, <2>5, <2>6, <2>7, <2>8, <2>9, Zenon DEF Progress
<1> QED BY <1>9, <1>10

\* What an answer, or the time, does to the calls that are admitted.
LEMMA BreakersForget ==
    ASSUME BreakerTypeOK, NEW b, NEW r, NEW code, AfterCall(b, r, code) \/ Expire(b)
    PROVE  /\ \A d \in Remotes : admitted'[d] \subseteq admitted[d]
           /\ \A d \in Remotes : breaker'[d] = "half-open" => breaker[d] = "half-open" \/ admitted'[d] = {}
           /\ b \in Remotes /\ AfterCall(b, r, code) => r \notin admitted'[b]
<1>1. ASSUME NEW s, Enters(b, s)
      PROVE  /\ b \in Remotes => admitted'[b] = {}
             /\ \A d \in Remotes \ {b} : admitted'[d] = admitted[d] /\ breaker'[d] = breaker[d]
    BY <1>1 DEF Enters, BreakerTypeOK
<1>2. CASE r \notin admitted[b] /\ UNCHANGED breakerVars
    BY <1>2 DEF breakerVars
<1>3. CASE admitted' = [admitted EXCEPT ![b] = @ \ {r}] /\ UNCHANGED breaker
    BY <1>3 DEF BreakerTypeOK
<1> QED BY <1>1, <1>2, <1>3 DEF AfterCall, Counted, Expire

LEMMA ProbesKept ==
    ASSUME BreakerTypeOK, RequestTypeOK, ProbeInv, [Next]_vars
    PROVE  ProbeInv'
<1>0. \A b \in Remotes : admitted[b] \subseteq Requests
    BY DEF BreakerTypeOK
<1>1. CASE UNCHANGED <<breakerVars, requestVars>>
    BY <1>1 DEF breakerVars, requestVars, ProbeInv, CurrentStep
<1>2. ASSUME NEW r \in Requests, Progress(r) \/ Arrive(r), at[r] # "called", UNCHANGED breakerVars
      PROVE  ProbeInv'
  <2>1. \A b \in Remotes : \A q \in admitted[b] : q \in Requests /\ q # r
      BY <1>0, <1>2 DEF ProbeInv
  <2>2. \A b \in Remotes : \A q \in admitted[b] : Stays(q)
      BY <1>2, <2>1, OthersStay
  <2> QED BY <1>2, <2>2 DEF breakerVars, ProbeInv, CurrentStep, Stays
<1>3. ASSUME NEW r \in Requests, Call(r)
      PROVE  ProbeInv'
  <2>1. /\ CurrentStep(r) \in Remotes /\ at[r] # "called" /\ UNCHANGED <<cmd, step>>
        /\ at' = [at EXCEPT ![r] = "called"]
        /\ Admit(CurrentStep(r), r)
      BY <1>3 DEF Call, Calling, Goes
  <2>2. \A b \in Remotes : admitted'[b] = IF b = CurrentStep(r) THEN admitted[b] \cup {r} ELSE admitted[b]
      BY <2>1 DEF Admit, BreakerTypeOK
  <2>3. \A b \in Remotes : \A q \in admitted[b] : q \in Requests /\ q # r
      BY <1>0, <2>1 DEF ProbeInv
  <2>4. \A b \in Remotes : \A q \in admitted'[b] : at'[q] = "called" /\ CurrentStep(q)' = b
    <3> SUFFICES ASSUME NEW b \in Remotes, NEW q \in admitted'[b]
                 PROVE  at'[q] = "called" /\ CurrentStep(q)' = b
        OBVIOUS
    <3>1. CurrentStep(q)' = CurrentStep(q)
        BY <2>1 DEF CurrentStep
    <3>2. CASE q \in admitted[b]
        BY <2>1, <2>3, <3>1, <3>2 DEF ProbeInv, RequestTypeOK
    <3>3. CASE q = r /\ b = CurrentStep(r)
        BY <2>1, <3>1, <3>3 DEF RequestTypeOK
    <3> QED BY <2>2, <3>2, <3>3
  <2>5. UNCHANGED breaker /\ (breaker[CurrentStep(r)] = "half-open" => admitted[CurrentStep(r)] = {})
      BY <2>1 DEF Admit, Admits
  <2>6. ASSUME NEW b \in Remotes, breaker'[b] = "half-open"
        PROVE  \A q, t \in admitted'[b] : q = t
    <3>1. CASE b = CurrentStep(r)
      <4>1. admitted'[b] = {r}
          BY <2>2, <2>5, <2>6, <3>1
      <4> QED BY <4>1
    <3>2. CASE b # CurrentStep(r)
      <4>1. admitted'[b] = admitted[b] /\ breaker[b] = "half-open"
          BY <2>2, <2>5, <2>6, <3>2
      <4> QED BY <4>1 DEF ProbeInv
    <3> QED BY <3>1, <3>2
  <2> QED BY <2>4, <2>6 DEF ProbeInv
<1>4. ASSUME NEW r \in Requests, CallEnds(r)
      PROVE  ProbeInv'
  <2>1. PICK code : at[r] = "called" /\ AfterCall(CurrentStep(r), r, code)
      BY <1>4, Zenon DEF CallEnds, CallReturns
  <2>2. \A d \in Remotes : \A q \in admitted'[d] : q \in admitted[d] /\ q \in Requests /\ q # r
      BY <1>0, <2>1, BreakersForget DEF ProbeInv
  <2>3. \A d \in Remotes : \A q \in admitted'[d] : Stays(q)
      BY <1>4, <2>2, OthersStay DEF Progress
  <2>4. \A d \in Remotes : \A q \in admitted'[d] : at'[q] = "called" /\ CurrentStep(q)' = d
      BY <2>2, <2>3 DEF ProbeInv, CurrentStep, Stays
  <2>5. \A d \in Remotes : breaker'[d] = "half-open" => \A q, t \in admitted'[d] : q = t
      BY <2>1, <2>2, BreakersForget DEF ProbeInv
  <2> QED BY <2>4, <2>5 DEF ProbeInv
<1>5. ASSUME NEW b \in Remotes, BreakerExpires(b)
      PROVE  ProbeInv'
  <2>1. Expire(b) /\ UNCHANGED <<cmd, at, step>>
      BY <1>5 DEF BreakerExpires, requestVars
  <2>2. \A d \in Remotes : \A q \in admitted'[d] : q \in admitted[d]
      BY <2>1, BreakersForget
  <2>3. \A d \in Remotes : breaker'[d] = "half-open" => \A q, t \in admitted'[d] : q = t
      BY <2>1, <2>2, BreakersForget DEF ProbeInv
  <2> QED BY <2>1, <2>2, <2>3 DEF ProbeInv, CurrentStep
<1>6. ASSUME NEW r \in Requests, Progress(r)
      PROVE  Call(r) \/ CallEnds(r) \/ (at[r] # "called" /\ UNCHANGED breakerVars)
  <2> DEFINE Elsewhere == at[r] # "called" /\ UNCHANGED breakerVars
  <2>1. ASSUME KeyIsUsed(r) \/ Transaction(r) \/ TransactionFails(r) \/ AskPresence(r)
        PROVE  Elsewhere
      BY <2>1, Zenon DEF KeyIsUsed, Transaction, TransactionFails, AskPresence, InTransaction
  <2>2. ASSUME CallRefused(r) \/ TokenExpired(r)
        PROVE  Elsewhere
    <3>1. at[r] \in {"work", "lookup", "service"} /\ UNCHANGED breakerVars
        BY <2>2, Zenon DEF CallRefused, TokenExpired, Calling
    <3> QED BY <3>1
  <2>3. ASSUME NEW http, TransactionRefused(r, http)
        PROVE  Elsewhere
      BY <2>3, Zenon DEF TransactionRefused, InTransaction
  <2>4. ASSUME NEW code, InvoiceAnswers(r, code) \/ QueryAnswers(r, code)
        PROVE  Elsewhere
      BY <2>4, Zenon DEF InvoiceAnswers, QueryAnswers
  <2>5. ASSUME NEW k \in Keys, Lookup(r, k) \/ Serve(r, k) \/ Limited(r, k)
        PROVE  Elsewhere
    <3>1. at[r] \in {"lookup", "service"} /\ UNCHANGED breakerVars
        BY <2>5, Zenon DEF Lookup, Serve, Limited
    <3> QED BY <3>1
  <2> HIDE DEF Elsewhere
  <2>6. Call(r) \/ CallEnds(r) \/ Elsewhere
      BY <1>6, <2>1, <2>2, <2>3, <2>4, <2>5, Zenon DEF Progress
  <2> QED BY <2>6, Zenon DEF Elsewhere
<1>7. ASSUME NEW r \in Requests, Arrive(r)
      PROVE  at[r] # "called" /\ UNCHANGED breakerVars
    BY <1>7 DEF Arrive, GatewayRefuses, GatewayForwards
<1>8. CASE TimePasses
    BY <1>1, <1>8 DEF TimePasses
<1> QED BY <1>1, <1>2, <1>3, <1>4, <1>5, <1>6, <1>7, <1>8 DEF Next, vars

\* For any number of requests and any threshold a half-open breaker waits for one
\* call at most, and for one that is on its way: an answer of an earlier generation
\* neither takes the place of the probe nor leaves it behind.
THEOREM HalfOpenWaitsForOneCall == Spec => []OneProbeUnderWay
<1>1. Init => ProbeInv
    BY DEF Init, BreakerInit, ProbeInv
<1>2. ProbeInv /\ BreakerTypeOK => OneProbeUnderWay
    BY DEF ProbeInv, OneProbeUnderWay, BreakerTypeOK
<1>3. RequestInv => RequestTypeOK
    BY DEF RequestInv
<1> QED BY <1>1, <1>2, <1>3, ProbesKept, BreakerTypeHolds, RequestInvHolds, PTL DEF Spec
=============================================================================

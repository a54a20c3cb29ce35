------------------------------- MODULE Payment -------------------------------
(***************************************************************************)
(* The payment service (internal/payment): the payments table, the handler *)
(* goroutines and the books of the payment gateway behind it.              *)
(*                                                                         *)
(* Each SQL statement is a step (no method opens a transaction), and so is *)
(* each attempt of a gateway call.  A payment is known by its idempotency  *)
(* key: the table holds at most one row per key.  Amounts are left out, one*)
(* charge and one refund move the amount of the row.                       *)
(***************************************************************************)
EXTENDS Naturals

CONSTANTS
    Keys,         \* idempotency keys of the payments
    Handlers,     \* goroutines serving gRPC calls
    Attempts,     \* retry.DefaultConfig().Attempts
    CheckStatus,  \* statuses the CHECK of payments.status lets in
    Faults,       \* what may go wrong in the environment
    MaxRefunds,   \* bound on the refunds whose answer is lost
    None

PaymentStatus == {"pending", "success", "failed", "refunding", "refunded"}

\* crash: a handler dies; database: a statement fails; cancel: the caller's
\* context ends; gateway: a call is refused and no money moves; lost: money
\* moves but the caller gets an error.
Fault == {"crash", "database", "cancel", "gateway", "lost"}

ASSUME AttemptsAssumption == Attempts \in Nat \ {0}
ASSUME CheckAssumption ==
    {"pending", "success", "failed", "refunded"} \subseteq CheckStatus
ASSUME FaultsAssumption == Faults \subseteq Fault
ASSUME NoneAssumption == None \notin Keys
ASSUME MaxRefundsAssumption == MaxRefunds \in Nat

RefundPC == {"refund", "saveRefunded", "revert", "revertCancelled"}
PC == {"idle", "insert", "charge", "saveSuccess", "saveFailed", "saveCancelled",
       "publish", "lockRefund"} \cup RefundPC

VARIABLES
    status,    \* status[k] of the row with key k, "absent" while there is none
    charged,   \* the gateway's books: charges made for key k
    refunds,   \* and refunds
    pc,
    key,       \* the payment a handler works on
    tries      \* gateway attempts of this call that have failed

books    == <<charged, refunds>>
procVars == <<pc, key, tries>>
vars     == <<status, books, procVars>>

Init ==
    /\ status  = [k \in Keys |-> "absent"]
    /\ charged = [k \in Keys |-> 0]
    /\ refunds = [k \in Keys |-> 0]
    /\ pc      = [p \in Handlers |-> "idle"]
    /\ key     = [p \in Handlers |-> None]
    /\ tries   = [p \in Handlers |-> 0]

At(p, l)   == pc[p] = l
Goto(p, l) == pc' = [pc EXCEPT ![p] = l]
Start(p, k, l) == /\ Goto(p, l)
                  /\ key' = [key EXCEPT ![p] = k]
                  /\ UNCHANGED tries
Go(p, l)   == Goto(p, l) /\ UNCHANGED <<key, tries>>
Return(p)  == /\ Goto(p, "idle")
              /\ key'   = [key EXCEPT ![p] = None]
              /\ tries' = [tries EXCEPT ![p] = 0]

\* A statement run with the context of the call; one run with a fresh context.
StatementMayFail == Faults \cap {"database", "cancel"} # {}
CleanupMayFail   == "database" \in Faults

SetStatus(p, st) == status' = [status EXCEPT ![key[p]] = st]

------------------------------------------------------------------------------
(* ProcessPayment (and ProcessQRIS, which calls it)                        *)

\* idempotency.Check found no row; one that is found is returned as it is,
\* whatever its status.
ProcessBegin(p, k) ==
    /\ At(p, "idle")
    /\ status[k] = "absent"
    /\ Start(p, k, "insert")
    /\ UNCHANGED <<status, books>>

\* CreatePayment.
CreatePayment(p) ==
    /\ At(p, "insert")
    /\ status[key[p]] = "absent"
    /\ SetStatus(p, "pending")
    /\ Go(p, "charge")
    /\ UNCHANGED books

\* Mutant: the row of the winner is taken for the handler's own.
CreateConflictJoins(p) ==
    /\ At(p, "insert")
    /\ status[key[p]] # "absent"
    /\ Go(p, "charge")
    /\ UNCHANGED <<status, books>>

\* The unique index refuses the row: the existing one is returned as it is.
CreateConflict(p) ==
    /\ At(p, "insert")
    /\ status[key[p]] # "absent"
    /\ Return(p)
    /\ UNCHANGED <<status, books>>

\* One attempt of gw.Charge that returns without error.
Charge(p) ==
    /\ At(p, "charge")
    /\ charged' = [charged EXCEPT ![key[p]] = @ + 1]
    /\ Go(p, "saveSuccess")
    /\ UNCHANGED <<status, refunds>>

\* Mutant: one attempt more than configured.
GatewayErrorExtra(p, l, giveUp) ==
    /\ At(p, l)
    /\ tries' = [tries EXCEPT ![p] = @ + 1]
    /\ Goto(p, IF tries[p] = Attempts THEN giveUp ELSE l)
    /\ UNCHANGED <<status, key>>

\* One attempt that returns an error; retry.Do gives up after the last one.
GatewayError(p, l, giveUp) ==
    /\ At(p, l)
    /\ tries' = [tries EXCEPT ![p] = @ + 1]
    /\ Goto(p, IF tries[p] + 1 = Attempts THEN giveUp ELSE l)
    /\ UNCHANGED <<status, key>>

ChargeRefused(p) ==
    /\ "gateway" \in Faults
    /\ GatewayError(p, "charge", "saveFailed")
    /\ UNCHANGED books

\* The gateway took the money and the answer is lost.  Charge carries no key
\* of its own, so the gateway cannot tell the next attempt from a new charge.
ChargeLost(p) ==
    /\ "lost" \in Faults
    /\ GatewayError(p, "charge", "saveFailed")
    /\ charged' = [charged EXCEPT ![key[p]] = @ + 1]
    /\ UNCHANGED refunds

\* The context ends before an attempt or during a backoff.
ChargeCancelled(p) ==
    /\ "cancel" \in Faults
    /\ At(p, "charge")
    /\ Go(p, "saveCancelled")
    /\ UNCHANGED <<status, books>>

\* UpdatePayment(success) with the context of the call.
SaveSuccess(p) ==
    /\ At(p, "saveSuccess")
    /\ \/ SetStatus(p, "success") /\ Go(p, "publish")
       \/ StatementMayFail /\ Return(p) /\ UNCHANGED status
    /\ UNCHANGED books

\* UpdatePayment(failed) with the context of the call.
SaveFailed(p) ==
    /\ At(p, "saveFailed")
    /\ \/ SetStatus(p, "failed") /\ Go(p, "publish")
       \/ StatementMayFail /\ Return(p) /\ UNCHANGED status
    /\ UNCHANGED books

\* UpdatePayment(failed) with a fresh context; ErrCancelled either way.
SaveCancelled(p) ==
    /\ At(p, "saveCancelled")
    /\ SetStatus(p, "failed") \/ (CleanupMayFail /\ UNCHANGED status)
    /\ Return(p)
    /\ UNCHANGED books

\* PublishPaymentSuccess or PublishPaymentFailed, best effort.
Publish(p) ==
    /\ At(p, "publish")
    /\ Return(p)
    /\ UNCHANGED <<status, books>>

------------------------------------------------------------------------------
(* RefundPayment                                                           *)

\* GetByID.  The gRPC handler passes no idempotency key, so the lookup by key
\* is skipped.  A payment that is not in success is refused.
RefundBegin(p, k) ==
    /\ At(p, "idle")
    /\ status[k] = "success"
    /\ Start(p, k, "lockRefund")
    /\ UNCHANGED <<status, books>>

\* Mutant: the row is updated without comparing its status.
RefundLockBlind(p) ==
    /\ At(p, "lockRefund")
    /\ "refunding" \in CheckStatus
    /\ SetStatus(p, "refunding")
    /\ Go(p, "refund")
    /\ UNCHANGED books

\* UpdatePaymentWithStatusCheck(refunding, success).
RefundLock(p) ==
    /\ At(p, "lockRefund")
    /\ status[key[p]] = "success"
    /\ "refunding" \in CheckStatus
    /\ SetStatus(p, "refunding")
    /\ Go(p, "refund")
    /\ UNCHANGED books

\* The row has moved on (ErrStatusMismatch), the CHECK refuses the new status,
\* or the statement fails.
RefundLockRefused(p) ==
    /\ At(p, "lockRefund")
    /\ status[key[p]] # "success" \/ "refunding" \notin CheckStatus \/ StatementMayFail
    /\ Return(p)
    /\ UNCHANGED <<status, books>>

\* One attempt of gw.Refund that returns without error.
Refund(p) ==
    /\ At(p, "refund")
    /\ refunds' = [refunds EXCEPT ![key[p]] = @ + 1]
    /\ Go(p, "saveRefunded")
    /\ UNCHANGED <<status, charged>>

RefundRefused(p) ==
    /\ "gateway" \in Faults
    /\ GatewayError(p, "refund", "revert")
    /\ UNCHANGED books

RefundLost(p) ==
    /\ "lost" \in Faults
    /\ GatewayError(p, "refund", "revert")
    /\ refunds[key[p]] < MaxRefunds
    /\ refunds' = [refunds EXCEPT ![key[p]] = @ + 1]
    /\ UNCHANGED charged

RefundCancelled(p) ==
    /\ "cancel" \in Faults
    /\ At(p, "refund")
    /\ Go(p, "revertCancelled")
    /\ UNCHANGED <<status, books>>

\* UpdatePayment(refunded); a failure is logged and the call succeeds.
SaveRefunded(p) ==
    /\ At(p, "saveRefunded")
    /\ SetStatus(p, "refunded") \/ (StatementMayFail /\ UNCHANGED status)
    /\ Return(p)
    /\ UNCHANGED books

\* Mutant: the row is left as it is when the gateway gives up.
RevertForgotten(p) == /\ At(p, "revert")
                      /\ Return(p)
                      /\ UNCHANGED <<status, books>>

\* UpdatePayment(success) after the last refused attempt; a failure is logged.
Revert(p) ==
    /\ At(p, "revert")
    /\ SetStatus(p, "success") \/ (StatementMayFail /\ UNCHANGED status)
    /\ Return(p)
    /\ UNCHANGED books

\* The same with a fresh context.
RevertCancelled(p) ==
    /\ At(p, "revertCancelled")
    /\ SetStatus(p, "success") \/ (CleanupMayFail /\ UNCHANGED status)
    /\ Return(p)
    /\ UNCHANGED books

\* The process dies, or the INSERT fails and the call returns that error.
Abandon(p) ==
    /\ \/ "crash" \in Faults /\ pc[p] # "idle"
       \/ StatementMayFail /\ At(p, "insert")
    /\ Return(p)
    /\ UNCHANGED <<status, books>>

------------------------------------------------------------------------------
ProcessStep(p) ==
    \/ CreatePayment(p) \/ CreateConflict(p)
    \/ Charge(p) \/ ChargeRefused(p) \/ ChargeLost(p) \/ ChargeCancelled(p)
    \/ SaveSuccess(p) \/ SaveFailed(p) \/ SaveCancelled(p) \/ Publish(p)

RefundStep(p) ==
    \/ RefundLock(p) \/ RefundLockRefused(p)
    \/ Refund(p) \/ RefundRefused(p) \/ RefundLost(p) \/ RefundCancelled(p)
    \/ SaveRefunded(p) \/ Revert(p) \/ RevertCancelled(p)

Continue(p) == ProcessStep(p) \/ RefundStep(p)

Next == \E p \in Handlers : \/ \E k \in Keys : ProcessBegin(p, k) \/ RefundBegin(p, k)
                            \/ Continue(p)
                            \/ Abandon(p)

Spec == Init /\ [][Next]_vars

\* A call that has begun goes on: every statement and every attempt is bounded
\* in time.  Nothing makes a client call.
FairSpec == Spec /\ \A p \in Handlers : WF_vars(Continue(p))

------------------------------------------------------------------------------
(* Properties                                                              *)

TypeOK ==
    /\ status  \in [Keys -> PaymentStatus \cup {"absent"}]
    /\ charged \in [Keys -> Nat]
    /\ refunds \in [Keys -> Nat]
    /\ pc      \in [Handlers -> PC]
    /\ key     \in [Handlers -> Keys \cup {None}]
    /\ tries   \in [Handlers -> 0..Attempts]

\* The handler is between the write that made the payment its own and the one
\* that gives it up.
Works(p) == pc[p] \in {"charge", "saveSuccess", "saveFailed", "saveCancelled"}
                      \cup RefundPC

RowAgrees(k) ==
    /\ status[k] \in {"absent", "failed"} => charged[k] = 0 /\ refunds[k] = 0
    /\ status[k] = "pending"   => charged[k] \in {0, 1} /\ refunds[k] = 0
    /\ status[k] = "success"   => charged[k] = 1 /\ refunds[k] = 0
    /\ status[k] = "refunding" => charged[k] = 1 /\ refunds[k] \in {0, 1}
    /\ status[k] = "refunded"  => charged[k] = 1 /\ refunds[k] = 1

\* As long as the gateway's answers arrive, the row never contradicts the
\* gateway's books, however calls with one key, refunds, retries, failed
\* statements and crashes interleave: no double charge, no double refund, no
\* refund of money that was not taken, and a final status that is true.
BooksAgree == \A k \in Keys : RowAgrees(k)

\* Only one refund of a payment proceeds at a time, and no handler talks to the
\* gateway about a payment another one is charging or refunding.
OneHandlerPerPayment ==
    \A p, q \in Handlers : Works(p) /\ Works(q) /\ key[p] = key[q] => p = q

\* What a handler knows about its payment between two statements; with the two
\* properties above it is inductive as long as no answer is lost.
HandlerKnows(p) ==
    LET k == key[p] IN
    /\ pc[p] # "idle" => k \in Keys
    /\ pc[p] \in {"idle", "insert", "lockRefund"} => tries[p] = 0
    /\ pc[p] \in {"charge", "refund"} => tries[p] < Attempts
    /\ pc[p] \in {"charge", "saveFailed", "saveCancelled"}
          => status[k] = "pending" /\ charged[k] = 0
    /\ At(p, "saveSuccess") => status[k] = "pending" /\ charged[k] = 1
    /\ At(p, "lockRefund") => status[k] # "absent"
    /\ pc[p] \in {"refund", "revert", "revertCancelled"}
          => status[k] = "refunding" /\ refunds[k] = 0
    /\ At(p, "saveRefunded") => status[k] = "refunding" /\ refunds[k] = 1

HandlersKnow == \A p \in Handlers : HandlerKnows(p)

IInv == TypeOK /\ BooksAgree /\ OneHandlerPerPayment /\ HandlersKnow

\* The state machine of the payments table: no write of a slow handler brings a
\* payment back to an earlier state.
allowedTransitions ==
    {<<"absent", "pending">>, <<"pending", "success">>, <<"pending", "failed">>,
     <<"success", "refunding">>, <<"refunding", "refunded">>, <<"refunding", "success">>}

LifecycleStep == \A k \in Keys : \/ status'[k] = status[k]
                                 \/ <<status[k], status'[k]>> \in allowedTransitions
LifecycleFollowed == [][LifecycleStep]_vars

\* No payment stays in an intermediate state for ever.
PaymentsSettle ==
    \A k \in Keys : /\ status[k] = "pending"   ~> status[k] # "pending"
                    /\ status[k] = "refunding" ~> status[k] # "refunding"

=============================================================================

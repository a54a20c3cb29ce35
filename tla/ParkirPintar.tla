----------------------------- MODULE ParkirPintar -----------------------------
(***************************************************************************)
(* The reservation service together with the billing and payment services  *)
(* it calls over gRPC.  Reservation leaves the answers of its calls open;  *)
(* here a call is served by Billing or Payment, one step at a time, while  *)
(* other callers, tasks and clients go on.                                 *)
(*                                                                         *)
(* A caller may get no answer: the service is unreachable, the circuit     *)
(* breaker is open, the driver's request is cancelled or the caller dies.  *)
(* The service goroutine of such a call goes on, and its caller's next call*)
(* waits for it (the bound on goroutines: one per caller and service).     *)
(* Its context is the caller's, from the gateway's request on: once the    *)
(* caller has left, any statement or gateway call made with it may fail.   *)
(***************************************************************************)
EXTENDS Reservation, Naturals

CONSTANTS
    BookingFee,   \* constants.BookingFee
    SessionFees, Attempts, CheckStatus, Faults   \* of Billing and Payment

VARIABLES
    record, bpc, bres, bcopy, bfee, btries,            \* of Billing
    paid, charged, refunds, ppc, pkey, ptries,         \* of Payment
    calling,   \* calling[p]: the service has the request of p
    cut        \* history: the payments that were cut off when a caller left

billVars == <<record, bpc, bres, bcopy, bfee, btries>>
payVars  == <<paid, charged, refunds, ppc, pkey, ptries>>
callVars == <<calling, cut>>
allVars  == <<vars, billVars, payVars, callVars>>

\* The idempotency keys booking-payment-<id> and payment-<id>.
PaymentKey == [pays : {"booking", "total"}, res : Reservations]
Booking(r) == [pays |-> "booking", res |-> r]
Total(r)   == [pays |-> "total", res |-> r]

Bill == INSTANCE Billing WITH
    Handlers <- Procs, BookingFees <- {BookingFee, 0},
    OvernightPerNight <- 0, OvernightCalls <- FALSE,
    pc <- bpc, res <- bres, copy <- bcopy, fee <- bfee, tries <- btries

\* What the payment service may do at all, and what it may do while the caller
\* of the goroutine that does it is there.
Pay == INSTANCE Payment WITH
    Handlers <- Procs, Keys <- PaymentKey, MaxRefunds <- 0,
    Faults <- Faults \cup {"cancel"},
    status <- paid, pc <- ppc, key <- pkey, tries <- ptries

Attended == INSTANCE Payment WITH
    Handlers <- Procs, Keys <- PaymentKey, MaxRefunds <- 0,
    status <- paid, pc <- ppc, key <- pkey, tries <- ptries

ASSUME FeesAssumption == /\ BookingFee \in Nat
                         /\ SessionFees \subseteq [parking : Nat, overnight : Nat]
ASSUME GatewayAssumption == /\ Pay!AttemptsAssumption
                            /\ Pay!CheckAssumption
                            /\ Pay!FaultsAssumption
\* Only a caller that leaves ends the context of a call.
ASSUME CancelAssumption == "cancel" \notin Faults
ASSUME AbsentAssumption == /\ None \notin Bill!Record
                           /\ None \notin SessionFees
                           /\ None \notin PaymentKey

SystemInit == /\ Init
              /\ Bill!Init
              /\ Pay!Init
              /\ calling = [p \in Procs |-> FALSE]
              /\ cut = {}

------------------------------------------------------------------------------
(* The calls                                                               *)

StartCalls   == {"startBilling", "confirmBilling", "activateBilling"}
InvoiceCalls == {"generateInvoice", "completeInvoice"}
BillingCalls == StartCalls \cup InvoiceCalls \cup {"calculateFee"}
PayCalls     == {"confirmPay", "completePay"}
PaymentCalls == PayCalls \cup {"refund"}
RemoteCalls  == BillingCalls \cup PaymentCalls

Waits(p, calls) == calling[p] /\ pc[p] \in calls

\* The fee StartBilling is called with.
StartFee(p) == IF At(p, "activateBilling") THEN 0 ELSE BookingFee

\* Mutant: one key per reservation.
PaymentOfReservation(p) == Booking(res[p])

PaymentOf(p) == IF At(p, "completePay") THEN Total(res[p]) ELSE Booking(res[p])

\* The method of p gets an answer, or an error if ok is FALSE, and goes on.
Answer(p, ok) ==
    /\ \/ CreateStartBilling(p, ok)
       \/ ConfirmStartBilling(p, ok)
       \/ CheckInActivateBilling(p)
       \/ CheckOutCalculateFee(p, ok)
       \/ CheckOutGenerateInvoice(p, ok)
       \/ CompleteInvoice(p, ok)
       \/ ConfirmPay(p, ok)
       \/ CompletePay(p, ok)
       \/ ConfirmRefund(p)
    /\ calling' = [calling EXCEPT ![p] = FALSE]

\* A service method ends; nobody listens if the caller has given up.
Reply(p, calls, ok) ==
    IF Waits(p, calls) THEN Answer(p, ok) ELSE UNCHANGED <<vars, calling>>

------------------------------------------------------------------------------
(* Billing                                                                 *)

BillingBegins(p) ==
    \/ pc[p] \in StartCalls /\ Bill!StartBilling(p, res[p], StartFee(p))
    \/ At(p, "calculateFee") /\ \E f \in SessionFees : Bill!CalculateFee(p, res[p], f)
    \/ pc[p] \in InvoiceCalls /\ Bill!GenerateInvoice(p, res[p])

\* The methods that return what they have read.
BillingAnswers(p, ok) ==
    LET none == record[res[p]] = None
        has(st) == ~none /\ record[res[p]].status = st
    IN \/ ok  /\ pc[p] \in StartCalls /\ ~none
       \/ ok  /\ pc[p] \in InvoiceCalls /\ has("invoiced")
       \/ ~ok /\ pc[p] \in InvoiceCalls /\ (none \/ has("pending"))
       \/ ~ok /\ At(p, "calculateFee") /\ ~has("pending")

BillingEnds(p, ok) ==
    \/ ok  /\ (Bill!Write(p) \/ Bill!CreateConflict(p))
    \/ ~ok /\ (Bill!InvoiceConflict(p) \/ Bill!Abandon(p))
    \/ ~ok /\ Bill!CalculateRetry(p) /\ bpc'[p] = "idle"

BillingGoesOn(p) == Bill!CalculateRetry(p) /\ bpc'[p] # "idle"

------------------------------------------------------------------------------
(* Payment                                                                 *)

PaymentBegins(p) ==
    \/ pc[p] \in PayCalls /\ Pay!ProcessBegin(p, PaymentOf(p))
    \/ At(p, "refund") /\ Pay!RefundBegin(p, PaymentOf(p))

\* ProcessPayment returns the row it finds, whatever its status; the gRPC client
\* of the reservation service looks at the id only.
PaymentAnswers(p, ok) ==
    \/ ok  /\ pc[p] \in PayCalls /\ paid[PaymentOf(p)] # "absent"
    \/ ~ok /\ At(p, "refund") /\ paid[PaymentOf(p)] # "success"

\* Publish is the last step of ProcessPayment after a charge that succeeded and
\* after one that was refused: both return the payment and no error.
PaymentEnds(p, ok) ==
    \/ ok  /\ (Pay!CreateConflict(p) \/ Pay!Publish(p) \/ Pay!SaveRefunded(p))
    \/ ~ok /\ \/ Pay!SaveCancelled(p) \/ Pay!RefundLockRefused(p) \/ Pay!Abandon(p)
              \/ Pay!Revert(p) \/ Pay!RevertCancelled(p)
              \/ (Pay!SaveSuccess(p) \/ Pay!SaveFailed(p)) /\ ppc'[p] = "idle"

PaymentGoesOn(p) == Pay!Continue(p) /\ ppc'[p] # "idle"

------------------------------------------------------------------------------
\* The request reaches a service, whose method begins.
Send(p) == /\ ~calling[p]
           /\ calling' = [calling EXCEPT ![p] = TRUE]
           /\ \/ BillingBegins(p) /\ UNCHANGED payVars
              \/ PaymentBegins(p) /\ UNCHANGED billVars
           /\ UNCHANGED <<vars, cut>>

\* The request is served with one read.
SendAndAnswer(p) ==
    /\ ~calling[p]
    /\ \E ok \in BOOLEAN : /\ BillingAnswers(p, ok) \/ PaymentAnswers(p, ok)
                           /\ Answer(p, ok)
    /\ UNCHANGED <<billVars, payVars, cut>>

ServeBilling(p) ==
    /\ \/ \E ok \in BOOLEAN : BillingEnds(p, ok) /\ Reply(p, BillingCalls, ok)
       \/ BillingGoesOn(p) /\ UNCHANGED <<vars, calling>>
    /\ UNCHANGED <<payVars, cut>>

\* What a goroutine does while its context is alive, and a step that fails because
\* its caller has left: the charge, whose payment becomes failed, or a statement.
InTime(p) == Attended!Continue(p) \/ Attended!Abandon(p)
CutOff(p) == /\ ~Waits(p, PaymentCalls)
             /\ cut' = IF ppc[p] = "insert" THEN cut ELSE cut \cup {pkey[p]}

ServePayment(p) ==
    /\ \/ \E ok \in BOOLEAN : PaymentEnds(p, ok) /\ Reply(p, PaymentCalls, ok)
       \/ PaymentGoesOn(p) /\ UNCHANGED <<vars, calling>>
    /\ IF InTime(p) THEN UNCHANGED cut ELSE CutOff(p)
    /\ UNCHANGED billVars

\* The caller leaves without an answer. The goroutine that serves the call goes on,
\* with a context that has ended: from now on CutOff is open to it.
NoAnswer(p) == Answer(p, FALSE) /\ UNCHANGED <<billVars, payVars, cut>>

\* The reservation process dies, and with it the connection and the context of the
\* goroutine that serves its call.
Die(p) == /\ Abandon(p)
          /\ calling' = [calling EXCEPT ![p] = FALSE]
          /\ UNCHANGED <<billVars, payVars, cut>>

\* What the reservation service does by itself.
Own == /\ \/ \E p \in Handlers : Call(p)
          \/ \E p \in Workers, r \in Reservations : RunTask(p, r)
          \/ \E p \in Procs : pc[p] \notin RemoteCalls /\ Continue(p)
          \/ \E t \in Task : ArchiveTask(t)
          \/ \E s \in Spots : LockTTL(s)
       /\ UNCHANGED <<billVars, payVars, callVars>>

SystemNext == \/ Own
              \/ \E p \in Procs : \/ Send(p) \/ SendAndAnswer(p)
                                  \/ ServeBilling(p) \/ ServePayment(p)
                                  \/ NoAnswer(p) \/ Die(p)

SystemSpec == SystemInit /\ [][SystemNext]_allVars

------------------------------------------------------------------------------
(* Properties                                                              *)

\* The statuses of reservations that were confirmed (some cancelled ones were too).
Booked == {"confirmed", "checked_in", "checked_out", "completed", "expired"}

IsInvoiced(r) == record[r] # None /\ record[r].status = "invoiced"

\* Some goroutine of the payment service still works on the payment.
InProgress(k) == \E p \in Procs : ppc[p] # "idle" /\ pkey[p] = k

\* The payment service has done what it had to do for the payment, and no caller
\* that left has cut it off.
Done(k) == k \notin cut /\ ~InProgress(k)

\* A reservation that was ever confirmed has paid its booking fee as soon as the
\* payment service is done with it: whoever confirmed, with how many confirmations
\* at once, and whatever callers left that did not cut the charge off.  One that
\* was cut off is failed, or pending and charged; the next confirmation takes its
\* row for a payment.
ConfirmedIsPaid ==
    \A r \in Reservations :
        status[r] \in Booked /\ Done(Booking(r)) => paid[Booking(r)] = "success"

\* A reservation is completed, and its spot given back, only after its invoice
\* was made out; the session is charged only once the amount is final, whoever
\* leaves; and it is paid as soon as the payment service is done with a payment
\* that no leaving caller cut off.
CompletedIsSettled ==
    \A r \in Reservations :
        /\ status[r] = "completed" \/ charged[Total(r)] > 0 => IsInvoiced(r)
        /\ status[r] = "completed" /\ Done(Total(r)) => paid[Total(r)] = "success"

\* The record bills the booking fee, never the zero that check-in starts billing
\* with, also when creation died before it called billing or gave up on it.
BookingFeeBilled ==
    \A r \in Reservations : record[r] # None => record[r].booking = BookingFee

\* The label at which the billing service serves the call of p.
BillingLabel(p) == IF pc[p] \in StartCalls THEN "insert"
                   ELSE IF pc[p] \in InvoiceCalls THEN "invoice" ELSE "calculate"

\* While a service has a request, its goroutine is busy with just that request.
ServedAsAsked(p) ==
    calling[p] => \/ /\ pc[p] \in BillingCalls
                     /\ bpc[p] = BillingLabel(p)
                     /\ bres[p] = res[p]
                  \/ /\ pc[p] \in PaymentCalls
                     /\ ppc[p] # "idle"
                     /\ pkey[p] = PaymentOf(p)

\* What a goroutine has learnt from the answers it got.
LearntBilled(p) ==
    pc[p] \in {"confirmPay", "confirmCommit", "activateBilling"} => record[res[p]] # None
LearntInvoiced(p) ==
    pc[p] \in {"completePay", "completeCommit"} => IsInvoiced(res[p])
LearntPaid(p) ==
    /\ At(p, "confirmCommit") => paid[Booking(res[p])] # "absent"
    /\ At(p, "completeCommit") => paid[Total(res[p])] # "absent"

\* What the tables of the three services say of one another.
BillingAgrees ==
    /\ BookingFeeBilled
    /\ \A p \in Procs : bpc[p] = "insert" => bfee[p].booking = BookingFee
    /\ \A r \in Reservations : status[r] \in Booked => record[r] # None
InvoiceAgrees ==
    /\ \A r \in Reservations : status[r] = "completed" \/ charged[Total(r)] > 0 => IsInvoiced(r)
    /\ \A p \in Procs, r \in Reservations :
          ppc[p] # "idle" /\ pkey[p] = Total(r) => IsInvoiced(r)
PaymentAgrees ==
    \A r \in Reservations :
        /\ status[r] \in Booked => paid[Booking(r)] # "absent"
        /\ status[r] = "completed" => paid[Total(r)] # "absent"

\* With the invariants of the services it is inductive, whatever fails.
SystemInv ==
    /\ calling \in [Procs -> BOOLEAN]
    /\ \A p \in Procs : ServedAsAsked(p) /\ LearntBilled(p) /\ LearntInvoiced(p) /\ LearntPaid(p)
    /\ BillingAgrees /\ InvoiceAgrees /\ PaymentAgrees

\* The composition is the services: each of them takes its own steps.
ReservationSpec == Spec
BillingSpec     == Bill!Spec
PaymentSpec     == Pay!Spec

=============================================================================

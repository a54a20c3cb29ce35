-------------------------- MODULE ParkirPintar_proofs --------------------------
(***************************************************************************)
(* The composition takes only steps of its three services, so what is      *)
(* proved of the reservation service alone holds of the system; and what   *)
(* the three services promise together, for any number of drivers, spots,  *)
(* reservations and goroutines.                                            *)
(***************************************************************************)
EXTENDS ParkirPintar, Reservation_proofs

\* An answer is one of the remote steps Reservation leaves open.
LEMMA AnswerIsStep ==
    ASSUME NEW p \in Procs, NEW ok \in BOOLEAN, Answer(p, ok)
    PROVE  Continue(p)
BY DEF Answer, Continue, CreateStep, ConfirmStep, SessionStep

LEMMA ReplyIsStep ==
    ASSUME NEW p \in Procs, NEW ok \in BOOLEAN, NEW calls, Reply(p, calls, ok)
    PROVE  Continue(p) \/ UNCHANGED vars
BY AnswerIsStep DEF Reply

\* The reservation service does not notice who answers its calls.
THEOREM SystemImplementsReservation == SystemSpec => ReservationSpec
<1>1. SystemInit => Init
  BY DEF SystemInit
<1>2. ASSUME NEW p \in Procs, Continue(p) \/ Abandon(p)
      PROVE  Next
  BY <1>2 DEF Next
<1>3. ASSUME Own
      PROVE  Next
  BY <1>3 DEF Own, Next
<1>4. ASSUME NEW p \in Procs, ServeBilling(p) \/ ServePayment(p)
      PROVE  Continue(p) \/ UNCHANGED vars
  BY <1>4, ReplyIsStep DEF ServeBilling, ServePayment
<1>5. ASSUME NEW p \in Procs, SendAndAnswer(p) \/ NoAnswer(p)
      PROVE  Continue(p)
  BY <1>5, AnswerIsStep DEF SendAndAnswer, NoAnswer
<1>6. ASSUME NEW p \in Procs, Send(p) \/ Die(p)
      PROVE  Abandon(p) \/ UNCHANGED vars
  BY <1>6 DEF Send, Die
<1>7. [SystemNext]_allVars => [Next]_vars
  BY <1>2, <1>3, <1>4, <1>5, <1>6 DEF SystemNext, allVars
<1> QED BY <1>1, <1>7, PTL DEF SystemSpec, ReservationSpec, Spec

\* What a caller knows while it calls: the invariant of the reservation service.
LEMMA CallerKnows == SystemSpec => []IInv
BY SystemImplementsReservation, Invariance DEF ReservationSpec

LEMMA CallerHasReservation ==
    ASSUME IInv, NEW p \in Procs, pc[p] \in RemoteCalls
    PROVE  res[p] \in Reservations
BY DEF IInv, TypeOK, MethodsConsistent, MethodConsistent, RemoteCalls, BillingCalls, StartCalls,
       InvoiceCalls, PaymentCalls, PayCalls, ConfirmPC, SessionPC

------------------------------------------------------------------------------
(* Billing                                                                 *)

LEMMA RequestsAreBillingCalls ==
    ASSUME IInv, NEW p \in Procs, BillingBegins(p)
    PROVE  Bill!Call(p)
<1>1. pc[p] \in RemoteCalls
  BY DEF BillingBegins, RemoteCalls, BillingCalls, At
<1>2. res[p] \in Reservations
  BY <1>1, CallerHasReservation
<1>3. StartFee(p) \in {BookingFee, 0}
  BY DEF StartFee
<1> QED BY <1>2, <1>3 DEF BillingBegins, Bill!Call

\* The billing service of the system is the one Billing describes: a caller that
\* dies, gives up or calls twice makes it do nothing else.
THEOREM SystemImplementsBilling == SystemSpec => BillingSpec
<1>1. SystemInit => Bill!Init
  BY DEF SystemInit
<1>2. ASSUME IInv, NEW p \in Procs, Send(p)
      PROVE  Bill!Call(p) \/ UNCHANGED billVars
  BY <1>2, RequestsAreBillingCalls DEF Send
<1>3. ASSUME NEW p \in Procs, ServeBilling(p)
      PROVE  Bill!Continue(p) \/ Bill!Abandon(p)
  BY <1>3 DEF ServeBilling, BillingEnds, BillingGoesOn, Bill!Continue
<1>4. UNCHANGED billVars => UNCHANGED Bill!vars
  BY DEF billVars, Bill!vars, Bill!procVars
<1>5. IInv /\ [SystemNext]_allVars => [Bill!Next]_Bill!vars
  BY <1>2, <1>3, <1>4 DEF SystemNext, Own, SendAndAnswer, ServePayment, NoAnswer, Die, Bill!Next,
     allVars
<1> QED BY <1>1, <1>5, CallerKnows, PTL DEF SystemSpec, BillingSpec, Bill!Spec

------------------------------------------------------------------------------
(* Payment                                                                 *)

LEMMA RequestsAreAboutPayments ==
    ASSUME IInv, NEW p \in Procs, PaymentBegins(p)
    PROVE  \E k \in PaymentKey : Pay!ProcessBegin(p, k) \/ Pay!RefundBegin(p, k)
<1>1. pc[p] \in RemoteCalls
  BY DEF PaymentBegins, RemoteCalls, PaymentCalls, At
<1>2. res[p] \in Reservations
  BY <1>1, CallerHasReservation
<1>3. PaymentOf(p) \in PaymentKey
  BY <1>2 DEF PaymentOf, Total, Booking, PaymentKey
<1> QED BY <1>3 DEF PaymentBegins

\* The payment service of the system is the one Payment describes.
THEOREM SystemImplementsPayment == SystemSpec => PaymentSpec
<1>1. SystemInit => Pay!Init
  BY DEF SystemInit
<1>2. ASSUME IInv, NEW p \in Procs, Send(p)
      PROVE  \/ \E k \in PaymentKey : Pay!ProcessBegin(p, k) \/ Pay!RefundBegin(p, k)
             \/ UNCHANGED payVars
  BY <1>2, RequestsAreAboutPayments DEF Send
<1>3. ASSUME NEW p \in Procs, ServePayment(p)
      PROVE  Pay!Continue(p) \/ Pay!Abandon(p)
  BY <1>3 DEF ServePayment, PaymentEnds, PaymentGoesOn, Pay!Continue, Pay!ProcessStep, Pay!RefundStep
<1>4. UNCHANGED payVars => UNCHANGED Pay!vars
  BY DEF payVars, Pay!vars, Pay!books, Pay!procVars
<1>5. IInv /\ [SystemNext]_allVars => [Pay!Next]_Pay!vars
  BY <1>2, <1>3, <1>4 DEF SystemNext, Own, SendAndAnswer, ServeBilling, NoAnswer, Die, Pay!Next,
     allVars
<1> QED BY <1>1, <1>5, CallerKnows, PTL DEF SystemSpec, PaymentSpec, Pay!Spec

------------------------------------------------------------------------------
(* The system                                                              *)

\* The proofs about the services, at the constants and variables of the system.
BillT == INSTANCE Billing_proofs WITH
    Handlers <- Procs, BookingFees <- {BookingFee, 0},
    OvernightPerNight <- 0, OvernightCalls <- FALSE,
    pc <- bpc, res <- bres, copy <- bcopy, fee <- bfee, tries <- btries

PayT == INSTANCE Payment_proofs WITH
    Handlers <- Procs, Keys <- PaymentKey, MaxRefunds <- 0,
    Faults <- Faults \cup {"cancel"},
    status <- paid, pc <- ppc, key <- pkey, tries <- ptries

LEMMA BillingAssumptions ==
    /\ BillT!BookingFeesAssumption /\ BillT!SessionFeesAssumption
    /\ BillT!OvernightAssumption /\ BillT!NoneAssumption
<1>1. BillT!BookingFeesAssumption
  BY FeesAssumption DEF BillT!BookingFeesAssumption
<1>2. BillT!SessionFeesAssumption
  BY FeesAssumption DEF BillT!SessionFeesAssumption
<1>3. BillT!OvernightAssumption
  BY DEF BillT!OvernightAssumption
<1>4. BillT!NoneAssumption
  BY AbsentAssumption, NoneAssumption
     DEF BillT!NoneAssumption, BillT!Record, Bill!Record, BillT!BillingStatus, Bill!BillingStatus
<1> QED BY <1>1, <1>2, <1>3, <1>4

LEMMA PaymentAssumptions ==
    /\ PayT!AttemptsAssumption /\ PayT!CheckAssumption /\ PayT!FaultsAssumption
    /\ PayT!NoneAssumption /\ PayT!MaxRefundsAssumption
BY GatewayAssumption, AbsentAssumption
   DEF PayT!AttemptsAssumption, PayT!CheckAssumption, PayT!FaultsAssumption, PayT!NoneAssumption,
       PayT!MaxRefundsAssumption, PayT!Fault, Pay!AttemptsAssumption, Pay!CheckAssumption,
       Pay!FaultsAssumption, Pay!Fault

\* Both names of an action of a service mean the same.
LEMMA SameBilling ==
    ASSUME NEW p, NEW r, NEW f
    PROVE  /\ Bill!StartBilling(p, r, f) <=> BillT!StartBilling(p, r, f)
           /\ Bill!CalculateFee(p, r, f) <=> BillT!CalculateFee(p, r, f)
           /\ Bill!GenerateInvoice(p, r) <=> BillT!GenerateInvoice(p, r)
           /\ Bill!Write(p) <=> BillT!Write(p)
           /\ Bill!CreateConflict(p) <=> BillT!CreateConflict(p)
           /\ Bill!InvoiceConflict(p) <=> BillT!InvoiceConflict(p)
           /\ Bill!CalculateRetry(p) <=> BillT!CalculateRetry(p)
           /\ Bill!OvernightRetry(p) <=> BillT!OvernightRetry(p)
           /\ Bill!ApplyOvernightFee(p, r) <=> BillT!ApplyOvernightFee(p, r)
           /\ Bill!Abandon(p) <=> BillT!Abandon(p)
<1> USE DEF Bill!At, BillT!At, Bill!Goto, BillT!Goto, Bill!Return, BillT!Return,
            Bill!Read, BillT!Read, Bill!Current, BillT!Current,
            Bill!UpdateBillingRecord, BillT!UpdateBillingRecord,
            Bill!CalculateTotal, BillT!CalculateTotal
<1>1. /\ Bill!StartBilling(p, r, f) <=> BillT!StartBilling(p, r, f)
      /\ Bill!CalculateFee(p, r, f) <=> BillT!CalculateFee(p, r, f)
      /\ Bill!GenerateInvoice(p, r) <=> BillT!GenerateInvoice(p, r)
  BY DEF Bill!StartBilling, BillT!StartBilling, Bill!CalculateFee, BillT!CalculateFee,
         Bill!CanCalculate, BillT!CanCalculate, Bill!GenerateInvoice, BillT!GenerateInvoice
<1>2. Bill!Write(p) <=> BillT!Write(p)
  BY DEF Bill!Write, BillT!Write, Bill!CreateBillingRecord, BillT!CreateBillingRecord,
         Bill!NewRecord, BillT!NewRecord, Bill!CalculateWrite, BillT!CalculateWrite,
         Bill!Calculated, BillT!Calculated, Bill!InvoiceWrite, BillT!InvoiceWrite,
         Bill!Invoiced, BillT!Invoiced, Bill!OvernightWrite, BillT!OvernightWrite,
         Bill!WithOvernight, BillT!WithOvernight
<1>3. /\ Bill!CreateConflict(p) <=> BillT!CreateConflict(p)
      /\ Bill!InvoiceConflict(p) <=> BillT!InvoiceConflict(p)
      /\ Bill!CalculateRetry(p) <=> BillT!CalculateRetry(p)
      /\ Bill!OvernightRetry(p) <=> BillT!OvernightRetry(p)
      /\ Bill!ApplyOvernightFee(p, r) <=> BillT!ApplyOvernightFee(p, r)
      /\ Bill!Abandon(p) <=> BillT!Abandon(p)
  BY DEF Bill!CreateConflict, BillT!CreateConflict, Bill!InvoiceConflict, BillT!InvoiceConflict,
         Bill!CalculateRetry, BillT!CalculateRetry, Bill!RetryOrReturn, BillT!RetryOrReturn,
         Bill!CanCalculate, BillT!CanCalculate, Bill!MaxRetries, BillT!MaxRetries,
         Bill!OvernightRetry, BillT!OvernightRetry, Bill!ApplyOvernightFee, BillT!ApplyOvernightFee,
         Bill!Abandon, BillT!Abandon
<1> QED BY <1>1, <1>2, <1>3

LEMMA SamePayment ==
    ASSUME NEW p, NEW k
    PROVE  /\ Pay!ProcessBegin(p, k) <=> PayT!ProcessBegin(p, k)
           /\ Pay!RefundBegin(p, k) <=> PayT!RefundBegin(p, k)
           /\ Pay!Continue(p) <=> PayT!Continue(p)
           /\ Pay!Abandon(p) <=> PayT!Abandon(p)
<1> USE DEF Pay!At, PayT!At, Pay!Goto, PayT!Goto, Pay!Go, PayT!Go, Pay!Return, PayT!Return,
            Pay!Start, PayT!Start, Pay!books, PayT!books, Pay!SetStatus, PayT!SetStatus,
            Pay!StatementMayFail, PayT!StatementMayFail, Pay!CleanupMayFail, PayT!CleanupMayFail
<1>1. /\ Pay!ProcessBegin(p, k) <=> PayT!ProcessBegin(p, k)
      /\ Pay!RefundBegin(p, k) <=> PayT!RefundBegin(p, k)
      /\ Pay!Abandon(p) <=> PayT!Abandon(p)
  BY DEF Pay!ProcessBegin, PayT!ProcessBegin, Pay!RefundBegin, PayT!RefundBegin,
         Pay!Abandon, PayT!Abandon
<1>2. Pay!ProcessStep(p) <=> PayT!ProcessStep(p)
  BY DEF Pay!ProcessStep, PayT!ProcessStep, Pay!CreatePayment, PayT!CreatePayment,
         Pay!CreateConflict, PayT!CreateConflict, Pay!Charge, PayT!Charge,
         Pay!ChargeRefused, PayT!ChargeRefused, Pay!ChargeLost, PayT!ChargeLost,
         Pay!GatewayError, PayT!GatewayError, Pay!ChargeCancelled, PayT!ChargeCancelled,
         Pay!SaveSuccess, PayT!SaveSuccess, Pay!SaveFailed, PayT!SaveFailed,
         Pay!SaveCancelled, PayT!SaveCancelled, Pay!Publish, PayT!Publish
<1>3. Pay!RefundStep(p) <=> PayT!RefundStep(p)
  BY DEF Pay!RefundStep, PayT!RefundStep, Pay!RefundLock, PayT!RefundLock,
         Pay!RefundLockRefused, PayT!RefundLockRefused, Pay!Refund, PayT!Refund,
         Pay!RefundRefused, PayT!RefundRefused, Pay!RefundLost, PayT!RefundLost,
         Pay!GatewayError, PayT!GatewayError, Pay!RefundCancelled, PayT!RefundCancelled,
         Pay!SaveRefunded, PayT!SaveRefunded, Pay!Revert, PayT!Revert,
         Pay!RevertCancelled, PayT!RevertCancelled
<1> QED BY <1>1, <1>2, <1>3 DEF Pay!Continue, PayT!Continue

LEMMA BillingHolds == SystemSpec => []BillT!IInv
<1>1. Bill!Init => BillT!Init
  BY DEF Bill!Init, BillT!Init
<1>2. Bill!Next => BillT!Next
  BY SameBilling DEF Bill!Next, BillT!Next, Bill!Call, BillT!Call, Bill!Continue, BillT!Continue
<1>3. UNCHANGED Bill!vars => UNCHANGED BillT!vars
  BY DEF Bill!vars, BillT!vars, Bill!procVars, BillT!procVars
<1>4. [Bill!Next]_Bill!vars => [BillT!Next]_BillT!vars
  BY <1>2, <1>3
<1>5. BillingSpec => BillT!Spec
  BY <1>1, <1>4, PTL DEF BillingSpec, Bill!Spec, BillT!Spec
<1> QED BY <1>5, BillingAssumptions, SystemImplementsBilling, BillT!Invariance
        DEF BillT!BookingFeesAssumption, BillT!SessionFeesAssumption,
            BillT!OvernightAssumption, BillT!NoneAssumption

LEMMA PaymentSpecs == SystemSpec => PayT!Spec
<1>1. Pay!Init => PayT!Init
  BY DEF Pay!Init, PayT!Init
<1>2. Pay!Next => PayT!Next
  BY SamePayment DEF Pay!Next, PayT!Next
<1>3. UNCHANGED Pay!vars => UNCHANGED PayT!vars
  BY DEF Pay!vars, PayT!vars, Pay!procVars, PayT!procVars, Pay!books, PayT!books
<1>4. [Pay!Next]_Pay!vars => [PayT!Next]_PayT!vars
  BY <1>2, <1>3
<1> QED BY <1>1, <1>4, SystemImplementsPayment, PTL DEF PaymentSpec, Pay!Spec, PayT!Spec

LEMMA PaymentHolds == SystemSpec => []PayT!RowsKnown
BY PaymentSpecs, PaymentAssumptions, PayT!RowsAreKnown
   DEF PayT!AttemptsAssumption, PayT!CheckAssumption, PayT!FaultsAssumption,
       PayT!NoneAssumption, PayT!MaxRefundsAssumption

------------------------------------------------------------------------------
(* The kinds of effect a step has                                          *)

CallerKept(p) == pc'[p] = pc[p] /\ res'[p] = res[p]

Moves(p) == \A q \in Procs \ {p} : CallerKept(q)

Knowing == {"confirmPay", "confirmCommit", "activateBilling", "completePay", "completeCommit"}

\* A goroutine comes to know something only from a row or from an answer.
Learns(p) ==
    pc'[p] \in Knowing =>
        \/ CallerKept(p)
        \/ pc'[p] = "activateBilling" /\ res'[p] \in Reservations /\ status[res'[p]] \in Booked
        \/ /\ res'[p] = res[p]
           /\ \/ pc'[p] = "confirmPay" /\ record'[res[p]] # None
              \/ /\ pc[p] = "confirmPay" /\ pc'[p] = "confirmCommit"
                 /\ paid'[Booking(res[p])] # "absent"
              \/ /\ pc'[p] = "completePay" /\ IsInvoiced(res[p])'
              \/ /\ pc[p] = "completePay" /\ pc'[p] = "completeCommit"
                 /\ paid'[Total(res[p])] # "absent"

\* A reservation becomes confirmed or completed only at the commits that say so.
StatusMoves ==
    \A r \in Reservations :
        /\ status'[r] \in Booked =>
              status[r] \in Booked \/ \E p \in Procs : At(p, "confirmCommit") /\ res[p] = r
        /\ status'[r] = "completed" =>
              status[r] = "completed" \/ \E p \in Procs : At(p, "completeCommit") /\ res[p] = r

\* Records stay, and new ones bill the booking fee.
BillingMoves ==
    /\ BillT!RecordsStay
    /\ \A r \in Reservations :
          record[r] = None /\ record'[r] # None => record'[r].booking = BookingFee
    /\ \A p \in Procs : bpc'[p] = "insert" => bfee'[p].booking = BookingFee

\* Payments stay, and only a call charges.
PaymentMoves ==
    /\ PayT!RowsStay
    /\ \A k \in PaymentKey :
          charged'[k] = charged[k] \/ \E p \in Procs : ppc[p] # "idle" /\ pkey[p] = k
    /\ \A p \in Procs :
          ppc'[p] # "idle" => \/ ppc[p] # "idle" /\ pkey'[p] = pkey[p]
                              \/ pc[p] \in PaymentCalls /\ pkey'[p] = PaymentOf(p)

CallersMove == /\ StatusMoves
               /\ calling' \in [Procs -> BOOLEAN]
               /\ \A p \in Procs : Learns(p) /\ ServedAsAsked(p)'

Inv == IInv /\ SystemInv /\ BillT!IInv /\ PayT!RowsKnown

\* What the steps leave is what the invariant asks for.
LEMMA MovesPreserve ==
    ASSUME Inv, IInv', BillingMoves, PaymentMoves, CallersMove
    PROVE  SystemInv'
<1> USE DEF At
<1>0. /\ \A r \in Reservations : Booking(r) \in PaymentKey /\ Total(r) \in PaymentKey
      /\ \A r1, r2 \in Reservations : Total(r1) = Total(r2) => r1 = r2
      /\ \A r1, r2 \in Reservations : Booking(r1) # Total(r2)
  BY DEF Booking, Total, PaymentKey
<1>1. \A r \in Reservations : IsInvoiced(r) => IsInvoiced(r)'
  BY DEF BillingMoves, BillT!RecordsStay, IsInvoiced
<1>2. \A p \in Procs : pc[p] \in Knowing => res[p] \in Reservations
  BY CallerHasReservation, NoneAssumption
     DEF Inv, Knowing, RemoteCalls, BillingCalls, StartCalls, InvoiceCalls, PaymentCalls, PayCalls,
         IInv, TypeOK, MethodsConsistent, MethodConsistent, ConfirmPC, SessionPC
<1>3. ASSUME NEW p \in Procs
      PROVE  LearntBilled(p)'
  BY <1>2, <1>3 DEF Inv, SystemInv, LearntBilled, CallersMove, Learns, Knowing, CallerKept,
     BillingMoves, BillT!RecordsStay, BillingAgrees
<1>4. ASSUME NEW p \in Procs
      PROVE  LearntInvoiced(p)'
  <2>1. CASE pc'[p] \notin {"completePay", "completeCommit"}
    BY <2>1 DEF LearntInvoiced
  <2>2. CASE pc'[p] \in {"completePay", "completeCommit"}
    <3>1. res'[p] = res[p] /\ (IsInvoiced(res[p])' \/ pc[p] \in {"completePay", "completeCommit"})
      BY <2>2 DEF CallersMove, Learns, Knowing, CallerKept, IsInvoiced
    <3>2. pc[p] \in {"completePay", "completeCommit"} => IsInvoiced(res[p])
      BY DEF Inv, SystemInv, LearntInvoiced
    <3>3. pc[p] \in {"completePay", "completeCommit"} => IsInvoiced(res[p])'
      BY <1>1, <1>2, <3>1, <3>2 DEF Knowing, IsInvoiced, BillingMoves, BillT!RecordsStay
    <3> QED BY <3>1, <3>3 DEF LearntInvoiced, IsInvoiced
  <2> QED BY <2>1, <2>2
<1>5. ASSUME NEW p \in Procs
      PROVE  LearntPaid(p)'
  <2>1. CASE pc'[p] \notin {"confirmCommit", "completeCommit"}
    BY <2>1 DEF LearntPaid
  <2>2. CASE pc'[p] = "confirmCommit"
    <3>1. /\ res'[p] = res[p]
          /\ paid'[Booking(res[p])] # "absent" \/ (pc[p] = "confirmCommit" /\ res[p] \in Reservations)
      BY <1>2, <2>2 DEF CallersMove, Learns, Knowing, CallerKept
    <3>2. paid'[Booking(res[p])] # "absent"
      BY <1>0, <3>1 DEF Inv, SystemInv, LearntPaid, PaymentMoves, PayT!RowsStay
    <3> QED BY <2>2, <3>1, <3>2 DEF LearntPaid, Booking
  <2>3. CASE pc'[p] = "completeCommit"
    <3>1. /\ res'[p] = res[p]
          /\ paid'[Total(res[p])] # "absent" \/ (pc[p] = "completeCommit" /\ res[p] \in Reservations)
      BY <1>2, <2>3 DEF CallersMove, Learns, Knowing, CallerKept
    <3>2. paid'[Total(res[p])] # "absent"
      BY <1>0, <3>1 DEF Inv, SystemInv, LearntPaid, PaymentMoves, PayT!RowsStay
    <3> QED BY <2>3, <3>1, <3>2 DEF LearntPaid, Total
  <2> QED BY <2>1, <2>2, <2>3
<1>6. BillingAgrees'
  BY <1>2 DEF Inv, SystemInv, BillingAgrees, BookingFeeBilled, LearntBilled, CallersMove, StatusMoves,
     BillingMoves, BillT!RecordsStay, Knowing
<1>7. InvoiceAgrees'
  <2>1. ASSUME NEW r \in Reservations, status'[r] = "completed"
        PROVE  IsInvoiced(r)'
    BY <1>1, <2>1 DEF CallersMove, StatusMoves, Inv, SystemInv, LearntInvoiced, InvoiceAgrees
  <2>2. ASSUME NEW r \in Reservations, charged'[Total(r)] > 0
        PROVE  IsInvoiced(r)'
    <3>1. charged[Total(r)] > 0 \/ \E p \in Procs : ppc[p] # "idle" /\ pkey[p] = Total(r)
      BY <1>0, <2>2 DEF PaymentMoves
    <3> QED BY <1>1, <3>1 DEF Inv, SystemInv, InvoiceAgrees
  <2>3. ASSUME NEW p \in Procs, NEW r \in Reservations, ppc'[p] # "idle", pkey'[p] = Total(r)
        PROVE  IsInvoiced(r)'
    <3>1. CASE ppc[p] # "idle" /\ pkey'[p] = pkey[p]
      BY <1>1, <2>3, <3>1 DEF Inv, SystemInv, InvoiceAgrees
    <3>2. CASE pc[p] \in PaymentCalls /\ pkey'[p] = PaymentOf(p)
      <4>1. res[p] \in Reservations
        BY <3>2, CallerHasReservation DEF Inv, RemoteCalls
      <4>2. pc[p] = "completePay" /\ res[p] = r
        BY <1>0, <2>3, <3>2, <4>1 DEF PaymentOf
      <4> QED BY <1>1, <4>2 DEF Inv, SystemInv, LearntInvoiced
    <3> QED BY <2>3, <3>1, <3>2 DEF PaymentMoves
  <2>4. \A r \in Reservations : Total(r)' = Total(r)
    BY DEF Total
  <2> QED BY <2>1, <2>2, <2>3, <2>4 DEF InvoiceAgrees
<1>8. PaymentAgrees'
  <2>1. ASSUME NEW r \in Reservations, status'[r] \in Booked
        PROVE  paid'[Booking(r)] # "absent"
    BY <1>0, <2>1 DEF CallersMove, StatusMoves, Inv, SystemInv, LearntPaid, PaymentAgrees,
       PaymentMoves, PayT!RowsStay
  <2>2. ASSUME NEW r \in Reservations, status'[r] = "completed"
        PROVE  paid'[Total(r)] # "absent"
    BY <1>0, <2>2 DEF CallersMove, StatusMoves, Inv, SystemInv, LearntPaid, PaymentAgrees,
       PaymentMoves, PayT!RowsStay
  <2> QED BY <2>1, <2>2 DEF PaymentAgrees, Booking, Total
<1> QED BY <1>3, <1>4, <1>5, <1>6, <1>7, <1>8 DEF SystemInv, CallersMove

------------------------------------------------------------------------------
(* The reservation service                                                 *)

\* One method of the reservation service takes a step of its own.
OwnMove(p) ==
    /\ Moves(p)
    /\ pc[p] \notin RemoteCalls
    /\ pc'[p] \in Knowing =>
          pc'[p] = "activateBilling" /\ res'[p] \in Reservations /\ status[res'[p]] = "confirmed"
    /\ StatusMoves

LEMMA CallIsOwnMove ==
    ASSUME IInv, NEW p \in Procs, Call(p)
    PROVE  OwnMove(p)
<1> USE DEF OwnMove, Moves, CallerKept, Knowing, StatusMoves, Booked, At, Goto, RemoteCalls,
            BillingCalls, StartCalls, InvoiceCalls, PaymentCalls, PayCalls
<1>0. /\ pc \in [Procs -> PC] /\ res \in [Procs -> Reservations \cup {None}]
      /\ status \in [Reservations -> RowStatus \cup {"absent"}]
  BY DEF IInv, TypeOK
<1>1. ASSUME NEW q \in Requests, CreateBegin(p, q)
      PROVE  OwnMove(p)
  BY <1>0, <1>1 DEF CreateBegin, dbVars
<1>2. ASSUME NEW r \in Reservations, ConfirmBegin(p, r) \/ CompleteBegin(p, r)
      PROVE  OwnMove(p)
  BY <1>0, <1>2 DEF ConfirmBegin, CompleteBegin, dbVars
<1>3. ASSUME NEW r \in Reservations, CancelReservation(p, r) \/ ExpireReservation(p, r)
      PROVE  OwnMove(p)
  BY <1>0, <1>3, Transitions DEF CancelReservation, ExpireReservation, SetStatus, ThenPublish
<1>4. ASSUME NEW r \in Reservations, CheckIn(p, r) \/ CheckOut(p, r)
      PROVE  OwnMove(p)
  BY <1>0, <1>4, Transitions DEF CheckIn, CheckOut, SetStatus
<1> QED BY <1>1, <1>2, <1>3, <1>4 DEF Call, ExpireCall

LEMMA TaskIsOwnMove ==
    ASSUME IInv, NEW p \in Procs, NEW r \in Reservations, RunTask(p, r)
    PROVE  OwnMove(p)
<1>0. /\ pc \in [Procs -> PC] /\ res \in [Procs -> Reservations \cup {None}]
      /\ status \in [Reservations -> RowStatus \cup {"absent"}]
  BY DEF IInv, TypeOK
<1> QED BY <1>0, Transitions
        DEF OwnMove, Moves, CallerKept, Knowing, StatusMoves, Booked, At, Goto, RemoteCalls,
            BillingCalls, StartCalls, InvoiceCalls, PaymentCalls, PayCalls, RunTask, ExpiryTask,
            ExpireReservation, FailReservation, SetStatus, ThenPublish

LEMMA ContinueIsOwnMove ==
    ASSUME IInv, NEW p \in Procs, pc[p] \notin RemoteCalls, Continue(p)
    PROVE  OwnMove(p)
<1> USE DEF OwnMove, Moves, CallerKept, Knowing, StatusMoves, Booked, At, Goto, RemoteCalls,
            BillingCalls, StartCalls, InvoiceCalls, PaymentCalls, PayCalls
<1>0. /\ pc \in [Procs -> PC] /\ res \in [Procs -> Reservations \cup {None}]
      /\ status \in [Reservations -> RowStatus \cup {"absent"}]
      /\ res[p] # None => res[p] \in Reservations
  BY DEF IInv, TypeOK
<1>1. ASSUME CreateFindSpot(p) \/ CreateNoSpot(p) \/ CreateAcquire(p) \/ CreateLockRefused(p)
      PROVE  OwnMove(p)
  BY <1>0, <1>1 DEF CreateFindSpot, CreateNoSpot, CreateAcquire, CreateLockRefused, Return, dbVars
<1>2. ASSUME CreateInsert(p)
      PROVE  OwnMove(p)
  BY <1>0, <1>2 DEF CreateInsert, SetStatus
<1>3. ASSUME CreateDuplicate(p) \/ CreateRefused(p)
      PROVE  OwnMove(p)
  BY <1>0, <1>3 DEF CreateDuplicate, CreateRefused, dbVars
<1>4. ASSUME CreateFail(p) \/ ConfirmFail(p)
      PROVE  OwnMove(p)
  <2>1. res[p] \in Reservations
    BY <1>0, <1>4 DEF IInv, MethodsConsistent, MethodConsistent, CreateFail, ConfirmFail, ConfirmPC
  <2> QED BY <1>0, <1>4, <2>1 DEF CreateFail, ConfirmFail, FailInternal, SetStatus, Return, dbVars
<1>5. ASSUME NEW ok \in BOOLEAN,
             CreateEnqueueExpiry(p, ok) \/ CreateEnqueueHold(p, ok) \/ CreateRelease(p, ok)
             \/ CreatePublish(p)
      PROVE  OwnMove(p)
  BY <1>0, <1>5 DEF CreateEnqueueExpiry, CreateEnqueueHold, CreateRelease, CreatePublish, Return, dbVars
<1>6. ASSUME NEW ok \in BOOLEAN, ConfirmCancelHold(p, ok) \/ ConfirmLost(p)
      PROVE  OwnMove(p)
  BY <1>0, <1>6 DEF ConfirmCancelHold, ConfirmLost, Return, dbVars
<1>7. ASSUME CompleteLost(p) \/ Publish(p)
      PROVE  OwnMove(p)
  BY <1>0, <1>7 DEF CompleteLost, Publish, Return, dbVars
<1>8. ASSUME ConfirmCommit(p)
      PROVE  OwnMove(p)
  BY <1>0, <1>8 DEF ConfirmCommit, SetStatus
<1>9. ASSUME CompleteCommit(p)
      PROVE  OwnMove(p)
  BY <1>0, <1>9 DEF CompleteCommit, SetStatus, ThenPublish
<1> QED BY <1>1, <1>2, <1>3, <1>4, <1>5, <1>6, <1>7, <1>8, <1>9
        DEF Continue, CreateStep, ConfirmStep, SessionStep, CreateStartBilling,
            ConfirmStartBilling, ConfirmPay, ConfirmRefund, CheckInActivateBilling,
            CheckOutCalculateFee, CheckOutGenerateInvoice, CompleteInvoice, CompletePay

\* An answer lets its caller go on and touches no row of the reservation service.
AnswerMove(p, ok) ==
    /\ Moves(p) /\ UNCHANGED status
    /\ pc[p] \in RemoteCalls
    /\ calling' = [calling EXCEPT ![p] = FALSE]
    /\ pc'[p] \in Knowing =>
          /\ ok /\ res'[p] = res[p]
          /\ \/ pc[p] = "confirmBilling"  /\ pc'[p] = "confirmPay"
             \/ pc[p] = "confirmPay"      /\ pc'[p] = "confirmCommit"
             \/ pc[p] = "completeInvoice" /\ pc'[p] = "completePay"
             \/ pc[p] = "completePay"     /\ pc'[p] = "completeCommit"

LEMMA AnswersMove ==
    ASSUME IInv, NEW p \in Procs, NEW ok \in BOOLEAN, Answer(p, ok)
    PROVE  AnswerMove(p, ok)
<1> USE DEF AnswerMove, Moves, CallerKept, Knowing, At, Goto, RemoteCalls,
            BillingCalls, StartCalls, InvoiceCalls, PaymentCalls, PayCalls, dbVars
<1>0. pc \in [Procs -> PC] /\ res \in [Procs -> Reservations \cup {None}]
  BY DEF IInv, TypeOK
<1>1. calling' = [calling EXCEPT ![p] = FALSE]
  BY DEF Answer
<1>2. ASSUME CreateStartBilling(p, ok) \/ CheckInActivateBilling(p)
      PROVE  AnswerMove(p, ok)
  BY <1>0, <1>1, <1>2 DEF CreateStartBilling, CheckInActivateBilling, ThenPublish
<1>3. ASSUME ConfirmStartBilling(p, ok) \/ ConfirmPay(p, ok) \/ ConfirmRefund(p)
      PROVE  AnswerMove(p, ok)
  BY <1>0, <1>1, <1>3 DEF ConfirmStartBilling, ConfirmPay, ConfirmRefund, Return
<1>4. ASSUME CheckOutCalculateFee(p, ok) \/ CheckOutGenerateInvoice(p, ok)
      PROVE  AnswerMove(p, ok)
  BY <1>0, <1>1, <1>4 DEF CheckOutCalculateFee, CheckOutGenerateInvoice, Return
<1>5. ASSUME CompleteInvoice(p, ok) \/ CompletePay(p, ok)
      PROVE  AnswerMove(p, ok)
  BY <1>0, <1>1, <1>5 DEF CompleteInvoice, CompletePay, Return
<1> QED BY <1>2, <1>3, <1>4, <1>5 DEF Answer

------------------------------------------------------------------------------
(* The steps of the system                                                 *)

StepGood == BillingMoves /\ PaymentMoves /\ CallersMove

LEMMA BillingQuiet ==
    ASSUME Inv, UNCHANGED billVars
    PROVE  BillingMoves
BY DEF Inv, SystemInv, BillingAgrees, billVars, BillingMoves, BillT!RecordsStay

LEMMA PaymentQuiet ==
    ASSUME UNCHANGED payVars
    PROVE  PaymentMoves
BY DEF payVars, PaymentMoves, PayT!RowsStay

\* A goroutine that stays where it is, whose request nobody serves meanwhile.
LEMMA Unserved ==
    ASSUME SystemInv, NEW p \in Procs, CallerKept(p), calling'[p] = calling[p],
           bpc'[p] = bpc[p], bres'[p] = bres[p], ppc'[p] = ppc[p], pkey'[p] = pkey[p]
    PROVE  Learns(p) /\ ServedAsAsked(p)'
<1>1. ServedAsAsked(p)
  BY DEF SystemInv
<1>2. BillingLabel(p)' = BillingLabel(p) /\ PaymentOf(p)' = PaymentOf(p)
  BY DEF CallerKept, BillingLabel, PaymentOf, At, Booking, Total
<1> QED BY <1>1, <1>2 DEF Learns, CallerKept, ServedAsAsked

LEMMA OwnIsGood ==
    ASSUME Inv, Own
    PROVE  StepGood
<1>1. /\ BillingMoves /\ PaymentMoves
      /\ calling' = calling /\ bpc' = bpc /\ bres' = bres /\ ppc' = ppc /\ pkey' = pkey
  BY BillingQuiet, PaymentQuiet DEF Own, billVars, payVars, callVars
<1>2. CASE \E p \in Procs : OwnMove(p)
  <2>1. PICK p \in Procs : OwnMove(p)
    BY <1>2
  <2>2. ASSUME NEW q \in Procs \ {p}
        PROVE  Learns(q) /\ ServedAsAsked(q)'
    BY <1>1, <2>1, Unserved DEF OwnMove, Moves, Inv
  <2>3. Learns(p)
    BY <2>1 DEF OwnMove, Learns, Booked
  <2>4. ~calling[p]
    BY <2>1 DEF OwnMove, Inv, SystemInv, ServedAsAsked, RemoteCalls
  <2> QED BY <1>1, <2>1, <2>2, <2>3, <2>4
          DEF StepGood, CallersMove, OwnMove, ServedAsAsked, Inv, SystemInv
<1>3. CASE UNCHANGED <<dbVars, procVars>>
  <2>1. \A p \in Procs : Learns(p) /\ ServedAsAsked(p)'
    BY <1>1, <1>3, Unserved DEF procVars, CallerKept, Inv
  <2> QED BY <1>1, <1>3, <2>1 DEF StepGood, CallersMove, StatusMoves, dbVars, Inv, SystemInv
<1>4. ASSUME NEW p \in Procs, Call(p) \/ \E r \in Reservations : RunTask(p, r)
      PROVE  OwnMove(p)
  BY <1>4, CallIsOwnMove, TaskIsOwnMove DEF Inv
<1>5. ASSUME NEW p \in Procs, pc[p] \notin RemoteCalls, Continue(p)
      PROVE  OwnMove(p)
  BY <1>5, ContinueIsOwnMove DEF Inv
<1> QED BY <1>2, <1>3, <1>4, <1>5 DEF Own, Procs, ArchiveTask, LockTTL

\* The caller p stops waiting; what the services did at the same time justifies
\* what it goes on with.
LEMMA AnswerIsGood ==
    ASSUME Inv, NEW p \in Procs, NEW ok \in BOOLEAN, AnswerMove(p, ok), Learns(p),
           \A q \in Procs \ {p} :
               bpc'[q] = bpc[q] /\ bres'[q] = bres[q] /\ ppc'[q] = ppc[q] /\ pkey'[q] = pkey[q]
    PROVE  CallersMove
<1>1. /\ calling' \in [Procs -> BOOLEAN] /\ ~calling'[p]
      /\ \A q \in Procs \ {p} : calling'[q] = calling[q]
  BY DEF AnswerMove, Inv, SystemInv
<1>2. ASSUME NEW q \in Procs \ {p}
      PROVE  Learns(q) /\ ServedAsAsked(q)'
  BY <1>1, Unserved DEF AnswerMove, Moves, Inv
<1>3. ServedAsAsked(p)' /\ StatusMoves
  BY <1>1 DEF ServedAsAsked, AnswerMove, StatusMoves
<1> QED BY <1>1, <1>2, <1>3 DEF CallersMove

LEMMA NoAnswerIsGood ==
    ASSUME Inv, NEW p \in Procs, NoAnswer(p)
    PROVE  StepGood
<1>1. AnswerMove(p, FALSE) /\ UNCHANGED <<billVars, payVars>>
  BY AnswersMove DEF NoAnswer, Inv
<1>2. Learns(p)
  BY <1>1 DEF AnswerMove, Learns
<1> QED BY <1>1, <1>2, AnswerIsGood, BillingQuiet, PaymentQuiet DEF StepGood, billVars, payVars

LEMMA DieIsGood ==
    ASSUME Inv, NEW p \in Procs, Die(p)
    PROVE  StepGood
<1>1. UNCHANGED <<billVars, payVars>> /\ UNCHANGED status
  BY DEF Die, Abandon, dbVars
<1>2. /\ calling' \in [Procs -> BOOLEAN] /\ ~calling'[p] /\ pc'[p] = "idle"
      /\ \A q \in Procs \ {p} : calling'[q] = calling[q] /\ CallerKept(q)
  BY DEF Die, Abandon, Return, Goto, CallerKept, Inv, SystemInv, IInv, TypeOK
<1>3. ASSUME NEW q \in Procs \ {p}
      PROVE  Learns(q) /\ ServedAsAsked(q)'
  BY <1>1, <1>2, Unserved DEF Inv, billVars, payVars
<1>4. Learns(p) /\ ServedAsAsked(p)' /\ StatusMoves
  BY <1>1, <1>2 DEF Learns, Knowing, ServedAsAsked, StatusMoves
<1> QED BY <1>1, <1>2, <1>3, <1>4, BillingQuiet, PaymentQuiet DEF StepGood, CallersMove

LEMMA SendAndAnswerIsGood ==
    ASSUME Inv, NEW p \in Procs, SendAndAnswer(p)
    PROVE  StepGood
<1>1. PICK ok \in BOOLEAN : (BillingAnswers(p, ok) \/ PaymentAnswers(p, ok)) /\ Answer(p, ok)
  BY DEF SendAndAnswer
<1>2. AnswerMove(p, ok) /\ UNCHANGED <<billVars, payVars>>
  BY <1>1, AnswersMove DEF Inv, SendAndAnswer
<1>3. Learns(p)
  <2>1. CASE pc'[p] \notin Knowing
    BY <2>1 DEF Learns
  <2>2. CASE pc'[p] \in Knowing /\ BillingAnswers(p, ok)
    BY <1>2, <2>2 DEF AnswerMove, Learns, BillingAnswers, IsInvoiced, billVars, At,
       StartCalls, InvoiceCalls
  <2>3. CASE pc'[p] \in Knowing /\ PaymentAnswers(p, ok)
    BY <1>2, <2>3 DEF AnswerMove, Learns, PaymentAnswers, PaymentOf, payVars, At, PayCalls
  <2> QED BY <1>1, <2>1, <2>2, <2>3
<1> QED BY <1>2, <1>3, AnswerIsGood, BillingQuiet, PaymentQuiet DEF StepGood, billVars, payVars

\* A call that begins: the fee is the booking fee, and the session is charged by
\* a caller that has seen the invoice.
LEMMA BillingBeginsGood ==
    ASSUME Inv, NEW p \in Procs, Send(p), BillingBegins(p), UNCHANGED payVars
    PROVE  StepGood
<1>0. UNCHANGED vars /\ ~calling[p] /\ calling' = [calling EXCEPT ![p] = TRUE]
  BY DEF Send
<1>1. pc[p] \in BillingCalls /\ res[p] \in Reservations
  BY CallerHasReservation DEF BillingBegins, At, BillingCalls, RemoteCalls, Inv
<1>2. PICK f : \/ pc[p] \in StartCalls /\ f = StartFee(p) /\ BillT!StartBilling(p, res[p], f)
               \/ At(p, "calculateFee") /\ BillT!CalculateFee(p, res[p], f)
               \/ pc[p] \in InvoiceCalls /\ BillT!GenerateInvoice(p, res[p])
  BY SameBilling DEF BillingBegins
<1>3. /\ record' = record /\ BillT!OthersStay(p) /\ bres'[p] = res[p]
      /\ bpc'[p] = BillingLabel(p)
      /\ bpc'[p] = "insert" => record[res[p]] = None /\ bfee'[p].booking = StartFee(p)
  BY <1>1, <1>2, BillT!CallServes, BillingAssumptions
     DEF Inv, BillingLabel, At, StartCalls, InvoiceCalls,
         BillT!BookingFeesAssumption, BillT!SessionFeesAssumption,
         BillT!OvernightAssumption, BillT!NoneAssumption
<1>4. bpc'[p] = "insert" => StartFee(p) = BookingFee
  BY <1>3 DEF Inv, SystemInv, LearntBilled, StartFee, At
<1>5. BillingMoves
  BY <1>3, <1>4 DEF BillingMoves, BillT!RecordsStay, BillT!OthersStay, Inv, SystemInv, BillingAgrees
<1>6. ASSUME NEW q \in Procs \ {p}
      PROVE  Learns(q) /\ ServedAsAsked(q)'
  BY <1>0, <1>3, Unserved
     DEF CallerKept, BillT!OthersStay, vars, procVars, payVars, Inv, SystemInv
<1>7. Learns(p) /\ ServedAsAsked(p)'
  BY <1>0, <1>1, <1>3 DEF Learns, CallerKept, ServedAsAsked, BillingLabel, vars, procVars
<1>8. calling' \in [Procs -> BOOLEAN] /\ StatusMoves
  BY <1>0 DEF Inv, SystemInv, StatusMoves, vars, dbVars
<1> QED BY <1>5, <1>6, <1>7, <1>8, PaymentQuiet DEF StepGood, CallersMove

LEMMA PaymentBeginsGood ==
    ASSUME Inv, NEW p \in Procs, Send(p), PaymentBegins(p), UNCHANGED billVars
    PROVE  StepGood
<1>0. UNCHANGED vars /\ ~calling[p] /\ calling' = [calling EXCEPT ![p] = TRUE]
  BY DEF Send
<1>1. pc[p] \in PaymentCalls /\ res[p] \in Reservations
  BY CallerHasReservation DEF PaymentBegins, At, PaymentCalls, RemoteCalls, Inv
<1>2. PaymentOf(p) \in PaymentKey
  BY <1>1 DEF PaymentOf, Total, Booking, PaymentKey
<1>3. /\ UNCHANGED <<paid, charged>> /\ PayT!OthersStay(p)
      /\ ppc'[p] # "idle" /\ pkey'[p] = PaymentOf(p)
  <2>1. PayT!ProcessBegin(p, PaymentOf(p)) \/ PayT!RefundBegin(p, PaymentOf(p))
    BY SamePayment DEF PaymentBegins
  <2> QED BY <1>2, <2>1, PayT!BeginServes, PaymentAssumptions
          DEF Inv, PayT!AttemptsAssumption, PayT!CheckAssumption, PayT!FaultsAssumption,
              PayT!NoneAssumption, PayT!MaxRefundsAssumption
<1>4. PaymentMoves
  BY <1>1, <1>3 DEF PaymentMoves, PayT!RowsStay, PayT!OthersStay
<1>5. ASSUME NEW q \in Procs \ {p}
      PROVE  Learns(q) /\ ServedAsAsked(q)'
  BY <1>0, <1>3, Unserved
     DEF CallerKept, PayT!OthersStay, vars, procVars, billVars, Inv, SystemInv
<1>6. Learns(p) /\ ServedAsAsked(p)'
  <2>1. PaymentOf(p)' = PaymentOf(p) /\ pc'[p] = pc[p] /\ res'[p] = res[p]
    BY <1>0 DEF PaymentOf, At, Booking, Total, vars, procVars
  <2> QED BY <1>1, <1>3, <2>1 DEF Learns, CallerKept, ServedAsAsked
<1>7. calling' \in [Procs -> BOOLEAN] /\ StatusMoves
  BY <1>0 DEF Inv, SystemInv, StatusMoves, vars, dbVars
<1> QED BY <1>4, <1>5, <1>6, <1>7, BillingQuiet DEF StepGood, CallersMove

LEMMA ServeBillingIsGood ==
    ASSUME Inv, NEW p \in Procs, ServeBilling(p)
    PROVE  StepGood
<1>0. UNCHANGED payVars
  BY DEF ServeBilling
<1>1. BillT!Continue(p) \/ BillT!Abandon(p)
  BY SameBilling DEF ServeBilling, BillingEnds, BillingGoesOn, BillT!Continue
<1>2. /\ BillT!RecordsStay /\ BillT!InsertsOwnFee(p) /\ BillT!OthersStay(p)
      /\ bpc'[p] = "idle" \/ (bpc'[p] = bpc[p] /\ bres'[p] = bres[p] /\ bpc[p] # "insert")
  BY <1>1, BillT!HandlerServes, BillingAssumptions
     DEF Inv, BillT!BookingFeesAssumption, BillT!SessionFeesAssumption,
         BillT!OvernightAssumption, BillT!NoneAssumption
<1>3. BillingMoves
  BY <1>2 DEF BillingMoves, BillT!InsertsOwnFee, BillT!OthersStay, BillT!At,
     Inv, SystemInv, BillingAgrees
<1>4. ASSUME UNCHANGED <<vars, calling>>,
             bpc'[p] # "idle" \/ ~Waits(p, BillingCalls)
      PROVE  CallersMove
  <2>1. ASSUME NEW q \in Procs \ {p}
        PROVE  Learns(q) /\ ServedAsAsked(q)'
    BY <1>0, <1>2, <1>4, Unserved
       DEF CallerKept, BillT!OthersStay, vars, procVars, payVars, Inv
  <2>2. CallerKept(p) /\ ServedAsAsked(p)
    BY <1>4 DEF CallerKept, vars, procVars, Inv, SystemInv
  <2>3. BillingLabel(p)' = BillingLabel(p) /\ PaymentOf(p)' = PaymentOf(p)
    BY <2>2 DEF CallerKept, BillingLabel, PaymentOf, At, Booking, Total
  <2>4. Learns(p) /\ ServedAsAsked(p)'
    BY <1>0, <1>2, <1>4, <2>2, <2>3 DEF Learns, CallerKept, ServedAsAsked, Waits, payVars
  <2> QED BY <1>4, <2>1, <2>4 DEF CallersMove, StatusMoves, vars, dbVars, Inv, SystemInv
<1>5. ASSUME NEW ok \in BOOLEAN, BillingEnds(p, ok), Waits(p, BillingCalls), Answer(p, ok)
      PROVE  CallersMove
  <2>1. AnswerMove(p, ok)
    BY <1>5, AnswersMove DEF Inv
  <2>2. ServedAsAsked(p) /\ pc[p] \in BillingCalls /\ calling[p]
    BY <1>5 DEF Inv, SystemInv, Waits
  <2>3. bpc[p] = BillingLabel(p) /\ bres[p] = res[p] /\ res[p] \in Reservations
    BY <2>2, CallerHasReservation
       DEF ServedAsAsked, BillingCalls, StartCalls, InvoiceCalls, PaymentCalls, PayCalls, RemoteCalls, Inv
  <2>4. ok => /\ record'[res[p]] # None
              /\ bpc[p] = "invoice" => record'[res[p]].status = "invoiced"
    <3>1. CASE BillT!Write(p)
      BY <2>3, <3>1, BillT!WriteAnswers, BillingAssumptions
         DEF Inv, BillT!At, BillT!BookingFeesAssumption, BillT!SessionFeesAssumption,
             BillT!OvernightAssumption, BillT!NoneAssumption
    <3>2. CASE BillT!CreateConflict(p)
      BY <2>3, <3>2 DEF BillT!CreateConflict, BillT!At
    <3>3. ok => BillT!Write(p) \/ BillT!CreateConflict(p)
      BY <1>5, SameBilling DEF BillingEnds
    <3> QED BY <3>1, <3>2, <3>3
  <2>5. Learns(p)
    BY <2>1, <2>2, <2>3, <2>4
       DEF AnswerMove, Learns, BillingCalls, StartCalls, InvoiceCalls, BillingLabel, IsInvoiced
  <2> QED BY <1>0, <1>2, <2>1, <2>5, AnswerIsGood DEF BillT!OthersStay, payVars
<1>6. CallersMove
  BY <1>4, <1>5 DEF ServeBilling, BillingGoesOn, Reply
<1> QED BY <1>0, <1>3, <1>6, PaymentQuiet DEF StepGood

LEMMA ServePaymentIsGood ==
    ASSUME Inv, NEW p \in Procs, ServePayment(p)
    PROVE  StepGood
<1>0. UNCHANGED billVars
  BY DEF ServePayment
<1>1. PayT!Continue(p) \/ PayT!Abandon(p)
  BY SamePayment DEF ServePayment, PaymentEnds, PaymentGoesOn, Pay!Continue, Pay!ProcessStep, Pay!RefundStep
<1>2. PayT!RowsStay /\ PayT!OthersStay(p) /\ PayT!Serves(p)
  BY <1>1, PayT!HandlerServes, PaymentAssumptions
     DEF Inv, PayT!AttemptsAssumption, PayT!CheckAssumption, PayT!FaultsAssumption,
         PayT!NoneAssumption, PayT!MaxRefundsAssumption
<1>3. PaymentMoves
  BY <1>2 DEF PaymentMoves, PayT!OthersStay, PayT!Serves
<1>4. ASSUME UNCHANGED <<vars, calling>>,
             ppc'[p] # "idle" \/ ~Waits(p, PaymentCalls)
      PROVE  CallersMove
  <2>1. ASSUME NEW q \in Procs \ {p}
        PROVE  Learns(q) /\ ServedAsAsked(q)'
    BY <1>0, <1>2, <1>4, Unserved
       DEF CallerKept, PayT!OthersStay, vars, procVars, billVars, Inv
  <2>2. CallerKept(p) /\ ServedAsAsked(p)
    BY <1>4 DEF CallerKept, vars, procVars, Inv, SystemInv
  <2>3. BillingLabel(p)' = BillingLabel(p) /\ PaymentOf(p)' = PaymentOf(p)
    BY <2>2 DEF CallerKept, BillingLabel, PaymentOf, At, Booking, Total
  <2>4. Learns(p) /\ ServedAsAsked(p)'
    BY <1>0, <1>2, <1>4, <2>2, <2>3
       DEF Learns, CallerKept, ServedAsAsked, Waits, billVars, PayT!Serves
  <2> QED BY <1>4, <2>1, <2>4 DEF CallersMove, StatusMoves, vars, dbVars, Inv, SystemInv
<1>5. ASSUME NEW ok \in BOOLEAN, PaymentEnds(p, ok), Waits(p, PaymentCalls), Answer(p, ok)
      PROVE  CallersMove
  <2>1. AnswerMove(p, ok)
    BY <1>5, AnswersMove DEF Inv
  <2>2. ServedAsAsked(p) /\ pc[p] \in PaymentCalls /\ calling[p]
    BY <1>5 DEF Inv, SystemInv, Waits
  <2>3. pkey[p] = PaymentOf(p) /\ PaymentOf(p) \in PaymentKey
    BY <1>2, <2>2
       DEF ServedAsAsked, BillingCalls, StartCalls, InvoiceCalls, PaymentCalls, PayCalls, PayT!Serves
  <2>4. ok => paid[PaymentOf(p)] # "absent"
    BY <1>5, <2>3 DEF PaymentEnds, Pay!CreateConflict, Pay!Publish, Pay!SaveRefunded, Pay!At,
       Inv, PayT!RowsKnown
  <2>5. ok => paid'[PaymentOf(p)] # "absent"
    BY <1>2, <2>3, <2>4 DEF PayT!RowsStay
  <2>6. Learns(p)
    BY <2>1, <2>2, <2>5 DEF AnswerMove, Learns, PaymentCalls, PayCalls, PaymentOf, At
  <2> QED BY <1>0, <1>2, <2>1, <2>6, AnswerIsGood DEF PayT!OthersStay, billVars
<1>6. CallersMove
  BY <1>4, <1>5 DEF ServePayment, PaymentGoesOn, Reply
<1> QED BY <1>0, <1>3, <1>6, BillingQuiet DEF StepGood

LEMMA StepsAreGood ==
    ASSUME Inv, SystemNext
    PROVE  StepGood
<1>1. ASSUME NEW p \in Procs, Send(p)
      PROVE  StepGood
  BY <1>1, BillingBeginsGood, PaymentBeginsGood DEF Send
<1> QED BY <1>1, OwnIsGood, NoAnswerIsGood, DieIsGood, SendAndAnswerIsGood,
           ServeBillingIsGood, ServePaymentIsGood DEF SystemNext

------------------------------------------------------------------------------
(* The theorems                                                            *)

\* What callers learn, and what the three tables say of one another, whatever
\* fails: the inductive invariant of the composition.
THEOREM SystemInvariance == SystemSpec => []SystemInv
<1>1. SystemInit => SystemInv
  BY DEF SystemInit, Init, Bill!Init, Pay!Init, SystemInv, ServedAsAsked, LearntBilled,
     LearntInvoiced, LearntPaid, BillingAgrees, BookingFeeBilled, InvoiceAgrees, PaymentAgrees,
     Booked, At, Total, PaymentKey
<1>2. SystemNext /\ Inv /\ IInv' => SystemInv'
  BY StepsAreGood, MovesPreserve DEF StepGood
<1>3. SystemInv /\ UNCHANGED allVars => SystemInv'
  BY DEF allVars, vars, dbVars, procVars, billVars, payVars, callVars, SystemInv, ServedAsAsked,
     LearntBilled, LearntInvoiced, LearntPaid, BillingAgrees, BookingFeeBilled, InvoiceAgrees,
     PaymentAgrees, BillingLabel, PaymentOf, IsInvoiced, At, Booking, Total
<1>4. SystemInv /\ IInv /\ IInv' /\ BillT!IInv /\ PayT!RowsKnown /\ [SystemNext]_allVars => SystemInv'
  BY <1>2, <1>3 DEF Inv
<1> QED BY <1>1, <1>4, CallerKnows, BillingHolds, PaymentHolds, PTL DEF SystemSpec

\* Whoever starts billing first, with whatever fee and key, and whoever gives up
\* or dies meanwhile: the record bills the booking fee.
THEOREM TheBookingFeeIsBilled == SystemSpec => []BookingFeeBilled
<1>1. SystemInv => BookingFeeBilled
  BY DEF SystemInv, BillingAgrees
<1> QED BY <1>1, SystemInvariance, PTL

------------------------------------------------------------------------------
(* Payments no leaving caller has cut off                                  *)

\* The payment service fails only when a caller leaves it, and refunds are refused
\* by the migration's CHECK.  Everything else may fail: callers, answers, locks, tasks.
PaymentsReliable == Faults = {} /\ "refunding" \notin CheckStatus

\* A payment that was not cut off is on its way only in somebody's hands.
UncutIsWorkedOn ==
    /\ \A k \in PaymentKey : k \notin cut => paid[k] \in {"absent", "pending", "success"}
    /\ \A p \in Procs : pkey[p] \notin cut =>
          ppc[p] \in {"idle", "insert", "charge", "saveSuccess", "publish", "lockRefund"}
    /\ \A k \in PaymentKey : k \notin cut /\ paid[k] = "pending" =>
          \E p \in Procs : ppc[p] \in {"charge", "saveSuccess"} /\ pkey[p] = k

\* A step of one handler concerns one payment and leaves the others as they are.
LEMMA OnePaymentMoves ==
    ASSUME UncutIsWorkedOn, PayT!RowsKnown, NEW p \in Procs, PayT!OthersStay(p), PayT!Serves(p),
           cut' \subseteq cut \cup {pkey[p]}, cut \subseteq cut',
           \/ pkey[p] \in cut'
           \/ /\ paid'[pkey[p]] \in {"absent", "pending", "success"}
              /\ ppc'[p] \in {"idle", "insert", "charge", "saveSuccess", "publish", "lockRefund"}
              /\ paid'[pkey[p]] = "pending" =>
                    \/ ppc'[p] \in {"charge", "saveSuccess"} /\ pkey'[p] = pkey[p]
                    \/ paid[pkey[p]] = "pending" /\ ppc[p] \notin {"charge", "saveSuccess"}
    PROVE  UncutIsWorkedOn'
<1>0. pkey[p] \in PaymentKey
  BY DEF PayT!Serves
<1>1. ASSUME NEW k \in PaymentKey, k \notin cut'
      PROVE  paid'[k] \in {"absent", "pending", "success"}
  BY <1>1 DEF UncutIsWorkedOn, PayT!Serves
<1>2. ASSUME NEW q \in Procs, pkey'[q] \notin cut'
      PROVE  ppc'[q] \in {"idle", "insert", "charge", "saveSuccess", "publish", "lockRefund"}
  BY <1>2 DEF UncutIsWorkedOn, PayT!Serves, PayT!OthersStay
<1>3. ASSUME NEW k \in PaymentKey, k \notin cut', paid'[k] = "pending"
      PROVE  \E q \in Procs : ppc'[q] \in {"charge", "saveSuccess"} /\ pkey'[q] = k
  <2>1. CASE k # pkey[p]
    <3>1. paid[k] = "pending" /\ k \notin cut
      BY <1>3, <2>1 DEF PayT!Serves
    <3>2. PICK q \in Procs : ppc[q] \in {"charge", "saveSuccess"} /\ pkey[q] = k
      BY <3>1 DEF UncutIsWorkedOn
    <3> QED BY <2>1, <3>2 DEF PayT!OthersStay
  <2>2. CASE k = pkey[p] /\ ppc'[p] \in {"charge", "saveSuccess"} /\ pkey'[p] = pkey[p]
    BY <2>2
  <2>3. CASE k = pkey[p] /\ paid[k] = "pending" /\ ppc[p] \notin {"charge", "saveSuccess"}
    <3>1. PICK q \in Procs : ppc[q] \in {"charge", "saveSuccess"} /\ pkey[q] = k
      BY <1>3, <2>3 DEF UncutIsWorkedOn
    <3> QED BY <2>3, <3>1 DEF PayT!OthersStay
  <2> QED BY <1>3, <2>1, <2>2, <2>3
<1> QED BY <1>1, <1>2, <1>3 DEF UncutIsWorkedOn

\* What a handler does with a live context where nothing else fails.
LEMMA InTimeMoves ==
    ASSUME PaymentsReliable, UncutIsWorkedOn, PayT!RowsKnown, NEW p \in Procs, pkey[p] \notin cut,
           InTime(p)
    PROVE  /\ paid'[pkey[p]] \in {"absent", "pending", "success"}
           /\ ppc'[p] \in {"idle", "insert", "charge", "saveSuccess", "publish", "lockRefund"}
           /\ paid'[pkey[p]] = "pending" =>
                 \/ ppc'[p] \in {"charge", "saveSuccess"} /\ pkey'[p] = pkey[p]
                 \/ paid[pkey[p]] = "pending" /\ ppc[p] \notin {"charge", "saveSuccess"}
<1> DEFINE Good == /\ paid'[pkey[p]] \in {"absent", "pending", "success"}
                   /\ ppc'[p] \in {"idle", "insert", "charge", "saveSuccess", "publish", "lockRefund"}
                   /\ paid'[pkey[p]] = "pending" =>
                         \/ ppc'[p] \in {"charge", "saveSuccess"} /\ pkey'[p] = pkey[p]
                         \/ paid[pkey[p]] = "pending" /\ ppc[p] \notin {"charge", "saveSuccess"}
<1> USE DEF PaymentsReliable, PayT!RowsKnown, Attended!At, Attended!Goto
<1>0. ppc[p] \in {"idle", "insert", "charge", "saveSuccess", "publish", "lockRefund"}
  BY DEF UncutIsWorkedOn
<1>1. ppc[p] # "idle" => pkey[p] \in PaymentKey /\ paid[pkey[p]] \in {"absent", "pending", "success"}
  BY DEF UncutIsWorkedOn
<1>2. CASE Attended!CreatePayment(p)
  BY <1>1, <1>2 DEF Attended!CreatePayment, Attended!SetStatus, Attended!Go
<1>3. CASE Attended!Charge(p)
  BY <1>1, <1>3 DEF Attended!Charge, Attended!Go
<1>4. CASE Attended!SaveSuccess(p)
  BY <1>1, <1>4 DEF Attended!SaveSuccess, Attended!SetStatus, Attended!Go, Attended!StatementMayFail
<1>5. CASE Attended!CreateConflict(p) \/ Attended!Publish(p) \/ Attended!RefundLockRefused(p)
  BY <1>1, <1>5 DEF Attended!CreateConflict, Attended!Publish, Attended!RefundLockRefused,
     Attended!Return, Attended!books
<1>6. ~Attended!Abandon(p)
  BY DEF Attended!Abandon, Attended!StatementMayFail
<1> QED BY <1>0, <1>2, <1>3, <1>4, <1>5, <1>6
        DEF InTime, Attended!Continue, Attended!ProcessStep, Attended!RefundStep,
            Attended!ChargeRefused, Attended!ChargeLost, Attended!ChargeCancelled, Attended!SaveFailed,
            Attended!SaveCancelled, Attended!RefundLock, Attended!Refund, Attended!RefundRefused,
            Attended!RefundLost, Attended!RefundCancelled, Attended!SaveRefunded, Attended!Revert,
            Attended!RevertCancelled, Attended!GatewayError

LEMMA ServePaymentKeepsUncut ==
    ASSUME PaymentsReliable, UncutIsWorkedOn, PayT!RowsKnown, NEW p \in Procs, ServePayment(p)
    PROVE  UncutIsWorkedOn'
<1>1. Pay!Continue(p) \/ Pay!Abandon(p)
  BY DEF ServePayment, PaymentEnds, PaymentGoesOn, Pay!Continue, Pay!ProcessStep, Pay!RefundStep
<1>2. PayT!OthersStay(p) /\ PayT!Serves(p)
  BY <1>1, SamePayment, PayT!HandlerServes, PaymentAssumptions
     DEF PayT!AttemptsAssumption, PayT!CheckAssumption, PayT!FaultsAssumption,
         PayT!NoneAssumption, PayT!MaxRefundsAssumption
<1>3. CASE InTime(p)
  <2>1. cut' = cut
    BY <1>3 DEF ServePayment
  <2> QED BY <1>2, <1>3, <2>1, InTimeMoves, OnePaymentMoves
<1>4. CASE ~InTime(p) /\ ppc[p] # "insert"
  <2>1. cut' = cut \cup {pkey[p]}
    BY <1>4 DEF ServePayment, CutOff
  <2> QED BY <1>2, <2>1, OnePaymentMoves
<1>5. CASE ~InTime(p) /\ ppc[p] = "insert"
  <2>1. cut' = cut
    BY <1>5 DEF ServePayment, CutOff
  <2>2. ~Pay!CreatePayment(p) /\ ~Pay!CreateConflict(p)
    BY <1>5 DEF InTime, Attended!Continue, Attended!ProcessStep, Pay!CreatePayment, Pay!CreateConflict,
       Attended!CreatePayment, Attended!CreateConflict, Pay!At, Attended!At, Pay!SetStatus,
       Attended!SetStatus, Pay!Go, Attended!Go, Pay!Goto, Attended!Goto, Pay!Return, Attended!Return,
       Pay!books, Attended!books
  <2>3. ~Pay!Continue(p)
    BY <1>5, <2>2 DEF Pay!Continue, Pay!ProcessStep, Pay!RefundStep, Pay!Charge, Pay!ChargeRefused,
       Pay!ChargeLost, Pay!ChargeCancelled, Pay!SaveSuccess, Pay!SaveFailed, Pay!SaveCancelled,
       Pay!Publish, Pay!RefundLock, Pay!RefundLockRefused, Pay!Refund, Pay!RefundRefused,
       Pay!RefundLost, Pay!RefundCancelled, Pay!SaveRefunded, Pay!Revert, Pay!RevertCancelled,
       Pay!GatewayError, Pay!At
  <2>4. paid' = paid /\ ppc'[p] = "idle"
    BY <1>1, <2>3 DEF Pay!Abandon, Pay!Return, Pay!Goto, PayT!RowsKnown
  <2>5. pkey[p] \in PaymentKey
    BY <1>2 DEF PayT!Serves
  <2>6. pkey[p] \notin cut => paid[pkey[p]] \in {"absent", "pending", "success"}
    BY <2>5 DEF UncutIsWorkedOn
  <2> QED BY <1>2, <1>5, <2>1, <2>4, <2>6, OnePaymentMoves
<1> QED BY <1>3, <1>4, <1>5

LEMMA SendKeepsUncut ==
    ASSUME IInv, UncutIsWorkedOn, PayT!RowsKnown, NEW p \in Procs, Send(p)
    PROVE  UncutIsWorkedOn'
<1>1. CASE UNCHANGED payVars
  BY <1>1 DEF Send, payVars, UncutIsWorkedOn
<1>2. CASE PaymentBegins(p)
  <2>1. PICK k \in PaymentKey : Pay!ProcessBegin(p, k) \/ Pay!RefundBegin(p, k)
    BY <1>2, RequestsAreAboutPayments
  <2>2. /\ paid' = paid /\ cut' = cut /\ ppc[p] = "idle"
        /\ ppc' = [ppc EXCEPT ![p] = "insert"] \/ ppc' = [ppc EXCEPT ![p] = "lockRefund"]
        /\ pkey' = [pkey EXCEPT ![p] = k]
    BY <2>1 DEF Send, Pay!ProcessBegin, Pay!RefundBegin, Pay!Start, Pay!Goto, Pay!At
  <2> QED BY <2>2 DEF UncutIsWorkedOn, PayT!RowsKnown
<1> QED BY <1>1, <1>2 DEF Send

LEMMA UncutHolds == PaymentsReliable => (SystemSpec => []UncutIsWorkedOn)
<1> SUFFICES ASSUME PaymentsReliable
             PROVE  SystemSpec => []UncutIsWorkedOn
  OBVIOUS
<1>1. SystemInit => UncutIsWorkedOn
  BY DEF SystemInit, Pay!Init, UncutIsWorkedOn
<1>2. ASSUME IInv, PayT!RowsKnown, UncutIsWorkedOn, [SystemNext]_allVars
      PROVE  UncutIsWorkedOn'
  <2>1. CASE UNCHANGED <<payVars, cut>>
    BY <1>2, <2>1 DEF payVars, UncutIsWorkedOn
  <2>2. ASSUME NEW p \in Procs, Send(p) \/ ServePayment(p)
        PROVE  UncutIsWorkedOn'
    BY <1>2, <2>2, SendKeepsUncut, ServePaymentKeepsUncut
  <2> QED BY <1>2, <2>1, <2>2
          DEF SystemNext, Own, SendAndAnswer, ServeBilling, NoAnswer, Die, allVars, callVars
<1>3. IInv /\ PayT!RowsKnown /\ UncutIsWorkedOn /\ [SystemNext]_allVars => UncutIsWorkedOn'
  BY <1>2
<1> QED BY <1>1, <1>3, CallerKnows, PaymentHolds, PTL DEF SystemSpec

LEMMA PaidWhenDone ==
    ASSUME UncutIsWorkedOn, NEW k \in PaymentKey, paid[k] # "absent", Done(k)
    PROVE  paid[k] = "success"
BY DEF UncutIsWorkedOn, Done, InProgress

\* Where the gateway refuses nothing and the database fails nothing, a confirmed
\* reservation has paid its booking fee, or is about to, or a caller that left has
\* cut its payment off: for any number of confirmations, timeouts, and callers that
\* give up or die, which end the contexts of what they called.
THEOREM ConfirmedReservationsPaid == PaymentsReliable => (SystemSpec => []ConfirmedIsPaid)
<1>1. ASSUME SystemInv, UncutIsWorkedOn
      PROVE  ConfirmedIsPaid
  <2>1. \A r \in Reservations : Booking(r) \in PaymentKey
    BY DEF Booking, PaymentKey
  <2> QED BY <1>1, <2>1, PaidWhenDone DEF ConfirmedIsPaid, SystemInv, PaymentAgrees
<1>2. SystemInv /\ UncutIsWorkedOn => ConfirmedIsPaid
  BY <1>1
<1> QED BY <1>2, SystemInvariance, UncutHolds, PTL

\* And a completed one was invoiced before it was charged, whatever was cut off, and
\* its session is paid unless a caller that left has cut that payment off.
THEOREM CompletedReservationsSettled == PaymentsReliable => (SystemSpec => []CompletedIsSettled)
<1>1. ASSUME SystemInv, UncutIsWorkedOn
      PROVE  CompletedIsSettled
  <2>1. \A r \in Reservations : Total(r) \in PaymentKey
    BY DEF Total, PaymentKey
  <2> QED BY <1>1, <2>1, PaidWhenDone DEF CompletedIsSettled, SystemInv, PaymentAgrees, InvoiceAgrees
<1>2. SystemInv /\ UncutIsWorkedOn => CompletedIsSettled
  BY <1>1
<1> QED BY <1>2, SystemInvariance, UncutHolds, PTL

------------------------------------------------------------------------------
(* What drivers may rely on, in the whole system                           *)

\* The three services together are still the abstract car park, whose spots have one
\* holder at a time: no caller that dies, gives up or calls twice, and no answer of
\* billing or payment, makes a spot lie, a driver hold two or a key create two.
THEOREM SystemIsACarPark ==
    SystemSpec => /\ InventorySpec
                  /\ []SpotMatchesReservations
                  /\ []OneActivePerDriver
                  /\ []SameKeySameReservation
BY SystemImplementsReservation, ImplementsInventory, SpotsAreTruthful, DriversHaveOneReservation,
   CreationIsIdempotent DEF ReservationSpec

LEMMA BooksHold == PayT!Answered => (SystemSpec => []PayT!IInv)
BY PaymentSpecs, PaymentAssumptions, PayT!Invariance
   DEF PayT!AttemptsAssumption, PayT!CheckAssumption, PayT!FaultsAssumption,
       PayT!NoneAssumption, PayT!MaxRefundsAssumption

\* The gateway has charged each fee once at most, and once if its row says success.
ChargedOnce ==
    \A k \in PaymentKey : charged[k] \in {0, 1} /\ (paid[k] = "success" => charged[k] = 1)

\* A driver is charged the booking fee once at most and the session once at most,
\* however often confirmations and check-outs are repeated, overlap, give up or die
\* and the payment service fails, as long as the gateway's answers arrive.
THEOREM NobodyPaysTwice == "lost" \notin Faults => (SystemSpec => []ChargedOnce)
<1>1. ASSUME PayT!IInv
      PROVE  ChargedOnce
  <2> SUFFICES ASSUME NEW k \in PaymentKey
               PROVE  charged[k] \in {0, 1} /\ (paid[k] = "success" => charged[k] = 1)
    BY DEF ChargedOnce
  <2>1. paid[k] \in {"absent", "failed", "pending", "success", "refunding", "refunded"}
    BY <1>1 DEF PayT!IInv, PayT!TypeOK, PayT!PaymentStatus
  <2>2. PayT!RowAgrees(k)
    BY <1>1 DEF PayT!IInv, PayT!BooksAgree
  <2> QED BY <2>1, <2>2 DEF PayT!RowAgrees
<1>2. "lost" \notin Faults => PayT!Answered
  BY DEF PayT!Answered
<1> QED BY <1>1, <1>2, BooksHold, PTL

\* Nobody calls ApplyOvernightFee in the system.
NobodyAtOvernight == \A p \in Procs : bpc[p] # "overnight"

LEMMA OvernightIsNotCalled == SystemSpec => []NobodyAtOvernight
<1>1. Bill!Init => NobodyAtOvernight
  BY DEF Bill!Init, NobodyAtOvernight
<1>2. ASSUME NobodyAtOvernight, NEW p \in Procs, BillT!IInv, Bill!Call(p) \/ Bill!Continue(p) \/ Bill!Abandon(p)
      PROVE  NobodyAtOvernight'
  <2>1. DOMAIN bpc = Procs
    BY <1>2 DEF BillT!IInv, BillT!TypeOK
  <2>2. ASSUME NEW l, l # "overnight", Bill!Goto(p, l)
        PROVE  NobodyAtOvernight'
    BY <1>2, <2>1, <2>2 DEF Bill!Goto, NobodyAtOvernight
  <2>3. ASSUME Bill!Return(p)
        PROVE  NobodyAtOvernight'
    BY <2>2, <2>3 DEF Bill!Return
  <2>4. ASSUME Bill!Call(p)
        PROVE  NobodyAtOvernight'
    BY <2>2, <2>4 DEF Bill!Call, Bill!StartBilling, Bill!CalculateFee, Bill!GenerateInvoice,
       Bill!ApplyOvernightFee, Bill!Read
  <2>5. ASSUME NEW may, Bill!RetryOrReturn(p, may)
        PROVE  NobodyAtOvernight'
    BY <1>2, <2>3, <2>5 DEF Bill!RetryOrReturn, NobodyAtOvernight
  <2>6. ASSUME Bill!Continue(p)
        PROVE  NobodyAtOvernight'
    BY <2>3, <2>5, <2>6 DEF Bill!Continue, Bill!Write, Bill!CreateBillingRecord, Bill!CalculateWrite,
       Bill!InvoiceWrite, Bill!OvernightWrite, Bill!CreateConflict, Bill!CalculateRetry,
       Bill!OvernightRetry, Bill!InvoiceConflict
  <2> QED BY <1>2, <2>3, <2>4, <2>6 DEF Bill!Abandon
<1>3. NobodyAtOvernight /\ BillT!IInv /\ [Bill!Next]_Bill!vars => NobodyAtOvernight'
  BY <1>2 DEF Bill!Next, Bill!vars, Bill!procVars, NobodyAtOvernight
<1> QED BY <1>1, <1>3, BillingHolds, SystemImplementsBilling, PTL DEF BillingSpec, Bill!Spec

LEMMA InvoicesFinalInBilling == SystemSpec => BillT!InvoiceIsFinal
<1>1. Bill!Init => BillT!Init
  BY DEF Bill!Init, BillT!Init
<1>2. [Bill!Next]_Bill!vars => [BillT!Next]_BillT!vars
  BY SameBilling DEF Bill!Next, BillT!Next, Bill!Call, BillT!Call, Bill!Continue, BillT!Continue,
     Bill!vars, BillT!vars, Bill!procVars, BillT!procVars
<1>3. BillingSpec => BillT!Spec
  BY <1>1, <1>2, PTL DEF BillingSpec, Bill!Spec, BillT!Spec
<1> QED BY <1>3, BillingAssumptions, SystemImplementsBilling, BillT!InvoicesAreFinal
        DEF BillT!BookingFeesAssumption, BillT!SessionFeesAssumption,
            BillT!OvernightAssumption, BillT!NoneAssumption

InvoiceStaysStep == \A r \in Reservations : IsInvoiced(r) => record'[r] = record[r]

\* The amount a driver was invoiced is the amount that is charged: once written an
\* invoice is not changed by any step of the system, though billing itself would let
\* an overnight fee into it, since nobody in the system calls for one.
THEOREM InvoicesNeverChange == SystemSpec => [][InvoiceStaysStep]_allVars
<1>1. NobodyAtOvernight /\ [BillT!InvoiceIsFinalStep]_BillT!vars => InvoiceStaysStep
  BY DEF NobodyAtOvernight, BillT!InvoiceIsFinalStep, BillT!vars, BillT!At, InvoiceStaysStep, IsInvoiced
<1> QED BY <1>1, OvernightIsNotCalled, InvoicesFinalInBilling, PTL DEF BillT!InvoiceIsFinal

=============================================================================

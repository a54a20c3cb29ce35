---------------------------- MODULE Payment_proofs ---------------------------
(***************************************************************************)
(* Proofs about Payment for any number of keys, handlers and attempts.     *)
(* First as long as no answer of the gateway is lost, then what callers    *)
(* may rely on whatever fails, then where nothing fails.                   *)
(***************************************************************************)
EXTENDS Payment, TLAPS

Answered == "lost" \notin Faults

Shape == TypeOK /\ HandlersKnow
Safe  == BooksAgree /\ OneHandlerPerPayment

RowKept(k)    == /\ status'[k] = status[k]
                 /\ charged'[k] = charged[k]
                 /\ refunds'[k] = refunds[k]
OnlyMoves(p)  == \A q \in Handlers \ {p} : /\ pc'[q] = pc[q]
                                           /\ key'[q] = key[q]
                                           /\ tries'[q] = tries[q]

\* A payment that is absent or in success is in nobody's hands.
LEMMA Unclaimed ==
    ASSUME IInv, NEW p \in Handlers, status[key[p]] \in {"absent", "success"}
    PROVE  \A q \in Handlers : Works(q) => key[q] # key[p]
BY DEF IInv, HandlersKnow, HandlerKnows, Works, RefundPC, At

\* A handler that touches no row and takes no new payment disturbs nobody.
LEMMA Quiet ==
    ASSUME IInv, NEW p \in Handlers, OnlyMoves(p),
           \A k \in Keys : RowKept(k),
           HandlerKnows(p)',
           Works(p)' => Works(p) /\ key'[p] = key[p]
    PROVE  Safe' /\ HandlersKnow'
<1>1. BooksAgree'
  BY DEF IInv, BooksAgree, RowAgrees, RowKept
<1>2. OneHandlerPerPayment'
  BY DEF IInv, OneHandlerPerPayment, OnlyMoves, Works
<1>3. HandlersKnow'
  BY DEF IInv, HandlersKnow, HandlerKnows, OnlyMoves, RowKept, At
<1> QED BY <1>1, <1>2, <1>3 DEF Safe

\* A handler that changes the row it works on, which no other handler works on,
\* disturbs nobody.
LEMMA OwnRow ==
    ASSUME IInv, NEW p \in Handlers, NEW k \in Keys, key[p] = k, OnlyMoves(p),
           \A j \in Keys \ {k} : RowKept(j),
           \A q \in Handlers \ {p} : Works(q) => key[q] # k,
           status'[k] # "absent",
           RowAgrees(k)',
           HandlerKnows(p)',
           Works(p)' => key'[p] = k
    PROVE  Safe' /\ HandlersKnow'
<1>1. BooksAgree'
  <2>1. \A j \in Keys \ {k} : RowAgrees(j)'
    BY DEF IInv, BooksAgree, RowAgrees, RowKept
  <2> QED BY <2>1 DEF BooksAgree
<1>2. OneHandlerPerPayment'
  BY DEF IInv, OneHandlerPerPayment, OnlyMoves, Works
<1>3. HandlersKnow'
  <2>1. ASSUME NEW q \in Handlers \ {p}
        PROVE  HandlerKnows(q)'
    <3>1. CASE key[q] # k
      BY <3>1 DEF IInv, HandlersKnow, HandlerKnows, OnlyMoves, RowKept, At
    <3>2. CASE key[q] = k
      BY <3>2 DEF IInv, HandlersKnow, HandlerKnows, OnlyMoves, Works, RefundPC, At
    <3> QED BY <3>1, <3>2
  <2> QED BY <2>1 DEF HandlersKnow
<1> QED BY <1>1, <1>2, <1>3 DEF Safe

\* What a return does to the handler.
LEMMA Returns ==
    ASSUME TypeOK, NEW p \in Handlers, Return(p)
    PROVE  /\ pc' \in [Handlers -> PC] /\ pc'[p] = "idle"
           /\ key' \in [Handlers -> Keys \cup {None}]
           /\ tries' \in [Handlers -> 0..Attempts]
           /\ OnlyMoves(p) /\ HandlerKnows(p)' /\ ~Works(p)'
BY AttemptsAssumption
   DEF TypeOK, Return, Goto, PC, OnlyMoves, HandlerKnows, At, Works, RefundPC

\* A call that returns leaves every payment alone.
LEMMA ReturnIsQuiet ==
    ASSUME IInv, NEW p \in Handlers, Return(p), UNCHANGED <<status, books>>
    PROVE  TypeOK' /\ Safe' /\ HandlersKnow'
<1>1. TypeOK
  BY DEF IInv
<1>2. TypeOK'
  BY <1>1, Returns DEF TypeOK, books
<1>3. \A k \in Keys : RowKept(k)
  BY DEF RowKept, books
<1> QED BY <1>1, <1>2, <1>3, Returns, Quiet

\* A handler that claimed a payment is the only one that works on it.
LEMMA Exclusive ==
    ASSUME IInv, NEW p \in Handlers, NEW k \in Keys, key[p] = k, Works(p)
    PROVE  \A q \in Handlers \ {p} : Works(q) => key[q] # k
BY DEF IInv, OneHandlerPerPayment

\* The last write of a call: the row of the payment takes a status that agrees
\* with the books, and the handler gives the payment up.
LEMMA LastWrite ==
    ASSUME IInv, NEW p \in Handlers, NEW k \in Keys, key[p] = k, Works(p),
           NEW st \in PaymentStatus,
           status' = [status EXCEPT ![k] = st], UNCHANGED books,
           RowAgrees(k)',
           OnlyMoves(p), HandlerKnows(p)', ~Works(p)'
    PROVE  Safe' /\ HandlersKnow'
<1>1. status'[k] = st /\ st # "absent"
  BY DEF IInv, TypeOK, PaymentStatus
<1>2. \A j \in Keys \ {k} : RowKept(j)
  BY DEF IInv, TypeOK, RowKept, books
<1> QED BY <1>1, <1>2, Exclusive, OwnRow

------------------------------------------------------------------------------
(* One step of a handler                                                   *)

LEMMA BeginsAreSafe ==
    ASSUME IInv, NEW p \in Handlers, NEW k \in Keys,
           ProcessBegin(p, k) \/ RefundBegin(p, k)
    PROVE  TypeOK' /\ Safe' /\ HandlersKnow'
<1> USE DEF ProcessBegin, RefundBegin, Start, Goto, At
<1>1. TypeOK'
  BY DEF IInv, TypeOK, PC, books
<1>2. OnlyMoves(p) /\ \A j \in Keys : RowKept(j)
  BY DEF IInv, TypeOK, OnlyMoves, RowKept, books
<1>3. HandlerKnows(p)' /\ ~Works(p)'
  BY DEF IInv, TypeOK, HandlersKnow, HandlerKnows, Works, RefundPC
<1> QED BY <1>1, <1>2, <1>3, Quiet

\* The write before the return.
LEMMA ReturnWrites ==
    ASSUME IInv, NEW p \in Handlers, NEW k \in Keys, key[p] = k, Works(p),
           NEW st \in PaymentStatus,
           status' = [status EXCEPT ![k] = st], UNCHANGED books,
           RowAgrees(k)', Return(p)
    PROVE  TypeOK' /\ Safe' /\ HandlersKnow'
<1>1. TypeOK
  BY DEF IInv
<1>2. TypeOK'
  BY <1>1, Returns DEF TypeOK, books, PaymentStatus
<1> QED BY <1>1, <1>2, Returns, LastWrite

\* Every step of ProcessPayment.
LEMMA ProcessIsSafe ==
    ASSUME IInv, Answered, NEW p \in Handlers, ProcessStep(p)
    PROVE  TypeOK' /\ Safe' /\ HandlersKnow'
<1> USE DEF At
<1>0. TypeOK /\ HandlerKnows(p)
  BY DEF IInv, HandlersKnow
<1>1. CASE CreatePayment(p)
  <2> USE <1>1 DEF CreatePayment, Go, Goto, SetStatus
  <2>1. PICK k \in Keys : k = key[p]
    BY <1>0 DEF HandlerKnows
  <2>2. TypeOK'
    BY <1>0 DEF TypeOK, PC, PaymentStatus, books
  <2>3. OnlyMoves(p) /\ \A j \in Keys \ {k} : RowKept(j)
    BY <1>0, <2>1 DEF TypeOK, OnlyMoves, RowKept, books
  <2>4. status'[k] = "pending" /\ charged'[k] = 0 /\ refunds'[k] = 0
    BY <1>0, <2>1 DEF TypeOK, IInv, BooksAgree, RowAgrees, books
  <2>5. HandlerKnows(p)' /\ RowAgrees(k)'
    BY <1>0, <2>1, <2>4, AttemptsAssumption DEF TypeOK, HandlerKnows, RowAgrees, RefundPC
  <2> QED BY <2>1, <2>2, <2>3, <2>4, <2>5, Unclaimed, OwnRow
<1>2. CASE CreateConflict(p) \/ Publish(p)
  BY <1>2, ReturnIsQuiet DEF CreateConflict, Publish
<1>3. CASE Charge(p)
  <2> USE <1>3 DEF Charge, Go, Goto
  <2>1. PICK k \in Keys : k = key[p]
    BY <1>0 DEF HandlerKnows
  <2>2. TypeOK'
    BY <1>0, <2>1 DEF TypeOK, PC
  <2>3. OnlyMoves(p) /\ \A j \in Keys \ {k} : RowKept(j)
    BY <1>0, <2>1 DEF TypeOK, OnlyMoves, RowKept
  <2>4. status'[k] = "pending" /\ charged'[k] = 1 /\ refunds'[k] = 0
    BY <1>0, <2>1 DEF TypeOK, IInv, BooksAgree, RowAgrees, HandlerKnows
  <2>5. HandlerKnows(p)' /\ RowAgrees(k)'
    BY <1>0, <2>1, <2>4 DEF TypeOK, HandlerKnows, RowAgrees, RefundPC
  <2> QED BY <2>1, <2>2, <2>3, <2>4, <2>5, Exclusive, OwnRow DEF Works
<1>4. CASE ChargeRefused(p) \/ ChargeCancelled(p)
  <2> USE <1>4 DEF ChargeRefused, ChargeCancelled, GatewayError, Go, Goto
  <2>1. TypeOK'
    BY <1>0, AttemptsAssumption DEF TypeOK, PC, HandlerKnows, books
  <2>2. OnlyMoves(p) /\ \A j \in Keys : RowKept(j)
    BY <1>0 DEF TypeOK, OnlyMoves, RowKept, books
  <2>3. HandlerKnows(p)'
    BY <1>0, AttemptsAssumption DEF TypeOK, HandlerKnows, RefundPC, books
  <2> QED BY <2>1, <2>2, <2>3, Quiet DEF Works
<1>5. CASE ChargeLost(p)
  BY <1>5 DEF ChargeLost, Answered
<1>6. CASE SaveSuccess(p)
  <2> USE <1>6 DEF SaveSuccess, Go, Goto, SetStatus
  <2>1. PICK k \in Keys : k = key[p]
    BY <1>0 DEF HandlerKnows
  <2>2. CASE Return(p)
    <3>1. pc'[p] = "idle"
      BY <1>0, <2>2, Returns
    <3>2. UNCHANGED <<status, books>>
      BY <1>0, <3>1 DEF TypeOK, books
    <3> QED BY <2>2, <3>2, ReturnIsQuiet
  <2>3. CASE ~Return(p)
    <3>1. TypeOK'
      BY <1>0, <2>3 DEF TypeOK, PC, PaymentStatus, books
    <3>2. OnlyMoves(p) /\ HandlerKnows(p)' /\ RowAgrees(k)'
      BY <1>0, <2>1, <2>3 DEF TypeOK, OnlyMoves, IInv, BooksAgree, RowAgrees, HandlerKnows, RefundPC, books
    <3> QED BY <1>0, <2>1, <2>3, <3>1, <3>2, LastWrite DEF TypeOK, Works, RefundPC, PaymentStatus
  <2> QED BY <2>2, <2>3
<1>7. CASE SaveFailed(p)
  <2> USE <1>7 DEF SaveFailed, Go, Goto, SetStatus
  <2>1. PICK k \in Keys : k = key[p]
    BY <1>0 DEF HandlerKnows
  <2>2. CASE Return(p)
    <3>1. pc'[p] = "idle"
      BY <1>0, <2>2, Returns
    <3>2. UNCHANGED <<status, books>>
      BY <1>0, <3>1 DEF TypeOK, books
    <3> QED BY <2>2, <3>2, ReturnIsQuiet
  <2>3. CASE ~Return(p)
    <3>1. TypeOK'
      BY <1>0, <2>3 DEF TypeOK, PC, PaymentStatus, books
    <3>2. OnlyMoves(p) /\ HandlerKnows(p)' /\ RowAgrees(k)'
      BY <1>0, <2>1, <2>3 DEF TypeOK, OnlyMoves, IInv, BooksAgree, RowAgrees, HandlerKnows, RefundPC, books
    <3> QED BY <1>0, <2>1, <2>3, <3>1, <3>2, LastWrite DEF TypeOK, Works, RefundPC, PaymentStatus
  <2> QED BY <2>2, <2>3
<1>8. CASE SaveCancelled(p)
  <2> USE <1>8 DEF SaveCancelled, SetStatus
  <2>1. PICK k \in Keys : k = key[p]
    BY <1>0 DEF HandlerKnows
  <2>2. CASE UNCHANGED status
    BY <2>2, ReturnIsQuiet
  <2>3. CASE SetStatus(p, "failed")
    <3>1. RowAgrees(k)'
      BY <1>0, <2>1, <2>3 DEF TypeOK, IInv, BooksAgree, RowAgrees, HandlerKnows, books
    <3> QED BY <2>1, <2>3, <3>1, ReturnWrites DEF Works, PaymentStatus
  <2> QED BY <2>2, <2>3
<1> QED BY <1>1, <1>2, <1>3, <1>4, <1>5, <1>6, <1>7, <1>8 DEF ProcessStep

\* Every step of RefundPayment.
LEMMA RefundIsSafe ==
    ASSUME IInv, Answered, NEW p \in Handlers, RefundStep(p)
    PROVE  TypeOK' /\ Safe' /\ HandlersKnow'
<1> USE DEF At
<1>0. TypeOK /\ HandlerKnows(p)
  BY DEF IInv, HandlersKnow
<1>1. CASE RefundLock(p)
  <2> USE <1>1 DEF RefundLock, Go, Goto, SetStatus
  <2>1. PICK k \in Keys : k = key[p]
    BY <1>0 DEF HandlerKnows
  <2>2. TypeOK'
    BY <1>0 DEF TypeOK, PC, RefundPC, PaymentStatus, books
  <2>3. OnlyMoves(p) /\ \A j \in Keys \ {k} : RowKept(j)
    BY <1>0, <2>1 DEF TypeOK, OnlyMoves, RowKept, books
  <2>4. status'[k] = "refunding" /\ charged'[k] = 1 /\ refunds'[k] = 0
    BY <1>0, <2>1 DEF TypeOK, IInv, BooksAgree, RowAgrees, books
  <2>5. HandlerKnows(p)' /\ RowAgrees(k)'
    BY <1>0, <2>1, <2>4, AttemptsAssumption DEF TypeOK, HandlerKnows, RowAgrees, RefundPC
  <2> QED BY <2>1, <2>2, <2>3, <2>4, <2>5, Unclaimed, OwnRow
<1>2. CASE RefundLockRefused(p)
  BY <1>2, ReturnIsQuiet DEF RefundLockRefused
<1>3. CASE Refund(p)
  <2> USE <1>3 DEF Refund, Go, Goto
  <2>1. PICK k \in Keys : k = key[p]
    BY <1>0 DEF HandlerKnows
  <2>2. TypeOK'
    BY <1>0, <2>1 DEF TypeOK, PC, RefundPC
  <2>3. OnlyMoves(p) /\ \A j \in Keys \ {k} : RowKept(j)
    BY <1>0, <2>1 DEF TypeOK, OnlyMoves, RowKept
  <2>4. status'[k] = "refunding" /\ charged'[k] = 1 /\ refunds'[k] = 1
    BY <1>0, <2>1 DEF TypeOK, IInv, BooksAgree, RowAgrees, HandlerKnows
  <2>5. HandlerKnows(p)' /\ RowAgrees(k)'
    BY <1>0, <2>1, <2>4 DEF TypeOK, HandlerKnows, RowAgrees, RefundPC
  <2> QED BY <2>1, <2>2, <2>3, <2>4, <2>5, Exclusive, OwnRow DEF Works, RefundPC
<1>4. CASE RefundRefused(p) \/ RefundCancelled(p)
  <2> USE <1>4 DEF RefundRefused, RefundCancelled, GatewayError, Go, Goto
  <2>1. TypeOK'
    BY <1>0, AttemptsAssumption DEF TypeOK, PC, RefundPC, HandlerKnows, books
  <2>2. OnlyMoves(p) /\ \A j \in Keys : RowKept(j)
    BY <1>0 DEF TypeOK, OnlyMoves, RowKept, books
  <2>3. HandlerKnows(p)'
    BY <1>0, AttemptsAssumption DEF TypeOK, HandlerKnows, RefundPC, books
  <2> QED BY <2>1, <2>2, <2>3, Quiet DEF Works, RefundPC
<1>5. CASE RefundLost(p)
  BY <1>5 DEF RefundLost, Answered
<1>6. CASE SaveRefunded(p) \/ Revert(p) \/ RevertCancelled(p)
  <2> USE <1>6 DEF SaveRefunded, Revert, RevertCancelled, SetStatus
  <2>1. PICK k \in Keys : k = key[p]
    BY <1>0 DEF HandlerKnows
  <2>2. CASE UNCHANGED status
    BY <2>2, ReturnIsQuiet
  <2>3. ASSUME NEW st \in {"refunded", "success"}, SetStatus(p, st),
               pc[p] = "saveRefunded" <=> st = "refunded"
        PROVE  TypeOK' /\ Safe' /\ HandlersKnow'
    <3>1. RowAgrees(k)'
      BY <1>0, <2>1, <2>3 DEF TypeOK, IInv, BooksAgree, RowAgrees, HandlerKnows, books
    <3> QED BY <2>1, <2>3, <3>1, ReturnWrites DEF Works, RefundPC, PaymentStatus
  <2> QED BY <2>2, <2>3
<1> QED BY <1>1, <1>2, <1>3, <1>4, <1>5, <1>6 DEF RefundStep

------------------------------------------------------------------------------
(* The invariant                                                           *)

LEMMA InitEstablishes == Init => IInv
BY AttemptsAssumption, NoneAssumption
   DEF Init, IInv, TypeOK, PC, PaymentStatus, BooksAgree, RowAgrees,
       OneHandlerPerPayment, HandlersKnow, HandlerKnows, Works, RefundPC, At

LEMMA NextPreserves ==
    ASSUME IInv, Answered, [Next]_vars
    PROVE  IInv'
<1>1. CASE UNCHANGED vars
  BY <1>1 DEF vars, books, procVars, IInv, TypeOK, BooksAgree, RowAgrees,
     OneHandlerPerPayment, HandlersKnow, HandlerKnows, Works, At
<1>2. CASE Next
  <2>1. PICK p \in Handlers :
           \/ \E k \in Keys : ProcessBegin(p, k) \/ RefundBegin(p, k)
           \/ Continue(p)
           \/ Abandon(p)
    BY <1>2 DEF Next
  <2>2. CASE \E k \in Keys : ProcessBegin(p, k) \/ RefundBegin(p, k)
    BY <2>2, BeginsAreSafe DEF IInv, Safe
  <2>3. CASE Continue(p)
    BY <2>3, ProcessIsSafe, RefundIsSafe DEF Continue, IInv, Safe
  <2>4. CASE Abandon(p)
    BY <2>4, ReturnIsQuiet DEF Abandon, IInv, Safe
  <2> QED BY <2>1, <2>2, <2>3, <2>4
<1> QED BY <1>1, <1>2

\* The inductive invariant.
THEOREM Invariance == Answered => (Spec => []IInv)
<1> SUFFICES ASSUME Answered PROVE Spec => []IInv
  OBVIOUS
<1>1. IInv /\ [Next]_vars => IInv'
  BY NextPreserves
<1> QED BY <1>1, InitEstablishes, PTL DEF Spec

\* Statuses, books and handlers keep their types; no handler makes more attempts
\* than the retry loop allows.
THEOREM TypesHold == Answered => (Spec => []TypeOK)
<1>1. IInv => TypeOK
  BY DEF IInv
<1> QED BY <1>1, Invariance, PTL

\* No double charge, no double refund and no status that contradicts the
\* gateway's books, for any number of concurrent calls, failed statements,
\* refused attempts, cancellations and crashes.
THEOREM BooksAlwaysAgree == Answered => (Spec => []BooksAgree)
<1>1. IInv => BooksAgree
  BY DEF IInv
<1> QED BY <1>1, Invariance, PTL

\* Two handlers never charge or refund the same payment at the same time.
THEOREM RefundsAreExclusive == Answered => (Spec => []OneHandlerPerPayment)
<1>1. IInv => OneHandlerPerPayment
  BY DEF IInv
<1> QED BY <1>1, Invariance, PTL

\* No write of a slow handler takes a payment along a transition that the state
\* machine of the table does not have.
THEOREM LifecycleIsFollowed == Answered => (Spec => LifecycleFollowed)
<1> SUFFICES ASSUME Answered PROVE Spec => LifecycleFollowed
  OBVIOUS
<1>1. IInv /\ [Next]_vars => [LifecycleStep]_vars
  <2> SUFFICES ASSUME IInv, [Next]_vars PROVE LifecycleStep
    OBVIOUS
  <2>1. CASE status' = status
    BY <2>1 DEF LifecycleStep
  <2>2. ASSUME NEW p \in Handlers, NEW st \in PaymentStatus, key[p] \in Keys, SetStatus(p, st),
               <<status[key[p]], st>> \in allowedTransitions
        PROVE  LifecycleStep
    BY <2>2 DEF IInv, TypeOK, SetStatus, LifecycleStep
  <2>3. ASSUME NEW p \in Handlers, ProcessStep(p), status' # status
        PROVE  LifecycleStep
    <3>0. HandlerKnows(p)
      BY DEF IInv, HandlersKnow
    <3>1. CASE CreatePayment(p)
      BY <2>2, <3>0, <3>1 DEF CreatePayment, HandlerKnows, At, allowedTransitions, PaymentStatus
    <3>2. CASE SaveSuccess(p)
      BY <2>2, <2>3, <3>0, <3>2 DEF SaveSuccess, HandlerKnows, At, allowedTransitions, PaymentStatus
    <3>3. CASE SaveFailed(p) \/ SaveCancelled(p)
      BY <2>2, <2>3, <3>0, <3>3
         DEF SaveFailed, SaveCancelled, HandlerKnows, At, allowedTransitions, PaymentStatus
    <3> QED BY <2>3, <3>1, <3>2, <3>3
            DEF ProcessStep, CreateConflict, Charge, ChargeRefused, ChargeLost,
                ChargeCancelled, Publish, GatewayError
  <2>4. ASSUME NEW p \in Handlers, RefundStep(p), status' # status
        PROVE  LifecycleStep
    <3>0. HandlerKnows(p)
      BY DEF IInv, HandlersKnow
    <3>1. CASE RefundLock(p)
      BY <2>2, <3>0, <3>1 DEF RefundLock, HandlerKnows, At, allowedTransitions, PaymentStatus
    <3>2. CASE SaveRefunded(p) \/ Revert(p) \/ RevertCancelled(p)
      BY <2>2, <2>4, <3>0, <3>2
         DEF SaveRefunded, Revert, RevertCancelled, HandlerKnows, At, allowedTransitions, PaymentStatus
    <3> QED BY <2>4, <3>1, <3>2
            DEF RefundStep, RefundLockRefused, Refund, RefundRefused, RefundLost,
                RefundCancelled, GatewayError
  <2> QED BY <2>1, <2>3, <2>4
          DEF Next, Continue, ProcessBegin, RefundBegin, Abandon, vars
<1> QED BY <1>1, Invariance, PTL DEF Spec, LifecycleFollowed

------------------------------------------------------------------------------
(* What callers rely on, whatever fails                                    *)

\* Rows and handlers as far as no fault touches them: a handler past its insert
\* has a row.
RowsKnown ==
    /\ status \in [Keys -> PaymentStatus \cup {"absent"}]
    /\ charged \in [Keys -> Nat]
    /\ pc \in [Handlers -> PC]
    /\ key \in [Handlers -> Keys \cup {None}]
    /\ \A p \in Handlers :
          /\ pc[p] # "idle" => key[p] \in Keys
          /\ pc[p] \notin {"idle", "insert"} => status[key[p]] # "absent"

RowsStay == \A k \in Keys : status[k] # "absent" => status'[k] # "absent"

OthersStay(p) == \A q \in Handlers \ {p} : pc'[q] = pc[q] /\ key'[q] = key[q]

\* One step of a handler concerns its own payment.
Serves(p) ==
    /\ pc[p] # "idle" /\ key[p] \in Keys
    /\ pc'[p] = "idle" \/ key'[p] = key[p]
    /\ \A k \in Keys : (status'[k] = status[k] /\ charged'[k] = charged[k]) \/ k = key[p]

LEMMA HandlerServes ==
    ASSUME RowsKnown, NEW p \in Handlers, Continue(p) \/ Abandon(p)
    PROVE  RowsKnown' /\ RowsStay /\ OthersStay(p) /\ Serves(p)
<1> USE DEF RowsKnown, RowsStay, OthersStay, Serves, At, Goto, PaymentStatus, PC, RefundPC
<1>0. pc[p] # "idle" /\ key[p] \in Keys
  BY DEF Continue, ProcessStep, RefundStep, Abandon, CreatePayment, CreateConflict, Charge,
         ChargeRefused, ChargeLost, ChargeCancelled, SaveSuccess, SaveFailed, SaveCancelled,
         Publish, RefundLock, RefundLockRefused, Refund, RefundRefused, RefundLost,
         RefundCancelled, SaveRefunded, Revert, RevertCancelled, GatewayError
<1>1. ASSUME CreatePayment(p) \/ CreateConflict(p) \/ ChargeCancelled(p) \/ Publish(p)
      PROVE  RowsKnown' /\ RowsStay /\ OthersStay(p) /\ Serves(p)
  BY <1>0, <1>1 DEF CreatePayment, CreateConflict, ChargeCancelled, Publish, SetStatus, Go, Return, books
<1>2. ASSUME Charge(p) \/ ChargeRefused(p) \/ ChargeLost(p)
      PROVE  RowsKnown' /\ RowsStay /\ OthersStay(p) /\ Serves(p)
  BY <1>0, <1>2 DEF Charge, ChargeRefused, ChargeLost, GatewayError, Go, books
<1>3. ASSUME SaveSuccess(p) \/ SaveFailed(p) \/ SaveCancelled(p)
      PROVE  RowsKnown' /\ RowsStay /\ OthersStay(p) /\ Serves(p)
  BY <1>0, <1>3 DEF SaveSuccess, SaveFailed, SaveCancelled, SetStatus, Go, Return, books
<1>4. ASSUME RefundLock(p) \/ RefundLockRefused(p) \/ RefundCancelled(p)
      PROVE  RowsKnown' /\ RowsStay /\ OthersStay(p) /\ Serves(p)
  BY <1>0, <1>4 DEF RefundLock, RefundLockRefused, RefundCancelled, SetStatus, Go, Return, books
<1>5. ASSUME Refund(p) \/ RefundRefused(p) \/ RefundLost(p)
      PROVE  RowsKnown' /\ RowsStay /\ OthersStay(p) /\ Serves(p)
  BY <1>0, <1>5 DEF Refund, RefundRefused, RefundLost, GatewayError, Go, books
<1>6. ASSUME SaveRefunded(p) \/ Revert(p) \/ RevertCancelled(p) \/ Abandon(p)
      PROVE  RowsKnown' /\ RowsStay /\ OthersStay(p) /\ Serves(p)
  BY <1>0, <1>6 DEF SaveRefunded, Revert, RevertCancelled, Abandon, SetStatus, Return, books
<1> QED BY <1>1, <1>2, <1>3, <1>4, <1>5, <1>6 DEF Continue, ProcessStep, RefundStep

LEMMA BeginServes ==
    ASSUME RowsKnown, NEW p \in Handlers, NEW k \in Keys,
           ProcessBegin(p, k) \/ RefundBegin(p, k)
    PROVE  /\ RowsKnown' /\ OthersStay(p) /\ UNCHANGED <<status, charged>>
           /\ pc'[p] # "idle" /\ key'[p] = k
BY DEF RowsKnown, OthersStay, ProcessBegin, RefundBegin, Start, Goto, At, PC, books

LEMMA RowsKnownStable == RowsKnown /\ [Next]_vars => RowsKnown'
<1>1. RowsKnown /\ Next => RowsKnown'
  BY HandlerServes, BeginServes DEF Next
<1>2. RowsKnown /\ UNCHANGED vars => RowsKnown'
  BY DEF RowsKnown, vars, books, procVars
<1> QED BY <1>1, <1>2

LEMMA RowsAreKnown == Spec => []RowsKnown
<1>1. Init => RowsKnown
  BY DEF Init, RowsKnown, PC
<1> QED BY <1>1, RowsKnownStable, PTL DEF Spec

------------------------------------------------------------------------------
(* Where nothing fails, and with the migration's CHECK                     *)

Reliable == Faults = {} /\ "refunding" \notin CheckStatus

\* A payment is on its way only in somebody's hands.
PendingIsWorkedOn ==
    /\ \A k \in Keys : status[k] \in {"absent", "pending", "success"}
    /\ \A p \in Handlers :
          pc[p] \in {"idle", "insert", "charge", "saveSuccess", "publish", "lockRefund"}
    /\ \A k \in Keys :
          status[k] = "pending" => \E p \in Handlers : pc[p] \in {"charge", "saveSuccess"} /\ key[p] = k

LEMMA PendingStep ==
    ASSUME Reliable, RowsKnown, PendingIsWorkedOn, NEW p \in Handlers,
           \/ \E k \in Keys : ProcessBegin(p, k) \/ RefundBegin(p, k)
           \/ Continue(p) \/ Abandon(p)
    PROVE  PendingIsWorkedOn'
<1> USE DEF Reliable, RowsKnown, At, Goto
<1>0. pc[p] \in {"idle", "insert", "charge", "saveSuccess", "publish", "lockRefund"}
  BY DEF PendingIsWorkedOn
<1>1. ASSUME NEW k \in Keys, ProcessBegin(p, k) \/ RefundBegin(p, k)
      PROVE  PendingIsWorkedOn'
  BY <1>1 DEF ProcessBegin, RefundBegin, Start, books, PendingIsWorkedOn
<1>2. ASSUME CreatePayment(p)
      PROVE  PendingIsWorkedOn'
  BY <1>2 DEF CreatePayment, SetStatus, Go, books, PendingIsWorkedOn
<1>3. ASSUME Charge(p)
      PROVE  PendingIsWorkedOn'
  BY <1>3 DEF Charge, Go, books, PendingIsWorkedOn
<1>4. ASSUME SaveSuccess(p)
      PROVE  PendingIsWorkedOn'
  BY <1>4 DEF SaveSuccess, SetStatus, Go, books, StatementMayFail, PendingIsWorkedOn
<1>5. ASSUME CreateConflict(p) \/ Publish(p) \/ RefundLockRefused(p)
      PROVE  PendingIsWorkedOn'
  BY <1>5 DEF CreateConflict, Publish, RefundLockRefused, Return, books, PendingIsWorkedOn
<1>6. CASE Continue(p)
  BY <1>0, <1>2, <1>3, <1>4, <1>5, <1>6
     DEF Continue, ProcessStep, RefundStep, ChargeRefused, ChargeLost, ChargeCancelled,
         SaveFailed, SaveCancelled, RefundLock, Refund, RefundRefused, RefundLost,
         RefundCancelled, SaveRefunded, Revert, RevertCancelled, GatewayError
<1>7. ~Abandon(p)
  BY DEF Abandon, StatementMayFail
<1> QED BY <1>1, <1>6, <1>7

\* Where nothing fails no payment is left pending: either a handler is about to
\* charge it or to save the charge, or it has succeeded.
THEOREM NothingIsLeftPending == Reliable => (Spec => []PendingIsWorkedOn)
<1> SUFFICES ASSUME Reliable PROVE Spec => []PendingIsWorkedOn
  OBVIOUS
<1>1. Init => PendingIsWorkedOn
  BY DEF Init, PendingIsWorkedOn
<1>2. RowsKnown /\ PendingIsWorkedOn /\ [Next]_vars => PendingIsWorkedOn'
  <2>1. RowsKnown /\ PendingIsWorkedOn /\ Next => PendingIsWorkedOn'
    BY PendingStep DEF Next
  <2>2. PendingIsWorkedOn /\ UNCHANGED vars => PendingIsWorkedOn'
    BY DEF PendingIsWorkedOn, vars, books, procVars
  <2> QED BY <2>1, <2>2
<1> QED BY <1>1, <1>2, RowsAreKnown, PTL DEF Spec

==============================================================================

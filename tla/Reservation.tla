----------------------------- MODULE Reservation -----------------------------
(***************************************************************************)
(* The reservation service (internal/reservation): the reservations and    *)
(* parking_spots tables, the per-spot Redis locks, the delayed asynq tasks *)
(* and the goroutines that run the usecase methods.                        *)
(*                                                                         *)
(* A database transaction of the usecase is one step: it locks the row it  *)
(* depends on with SELECT ... FOR UPDATE before it reads it.  Everything   *)
(* between two transactions (a billing or payment call, an enqueue, a      *)
(* publish, the release of the lock) is a step of its own, so other        *)
(* handlers, tasks and crashes come in between.                            *)
(*                                                                         *)
(* What the billing and payment services answer is left open: a step that  *)
(* calls them takes the answer (ok) as a parameter.                        *)
(***************************************************************************)
EXTENDS ReservationStatus

CONSTANTS
    Spots,        \* rows of parking_spots
    Drivers,
    Keys,         \* idempotency keys chosen by the clients
    Reservations, \* the ids that may be generated (bounds the inserts)
    Handlers,     \* goroutines serving client calls
    Workers,      \* goroutines of the asynq server
    VehicleTypes,
    SpotType,     \* vehicle type of each spot
    Requests,     \* the CreateReservation requests the clients send
    None

Procs == Handlers \cup Workers

Request == [driver : Drivers, key : Keys, vtype : VehicleTypes,
            mode : {"system_assigned", "user_selected"}, spot : Spots \cup {None}]

ASSUME RequestsAssumption ==
    /\ Requests \subseteq Request
    /\ \A q \in Requests : q.mode = "user_selected" <=> q.spot # None
ASSUME SpotTypeAssumption == SpotType \in [Spots -> VehicleTypes]
ASSUME NoneAssumption ==
    /\ None \notin Spots /\ None \notin Drivers /\ None \notin Keys
    /\ None \notin Reservations /\ None \notin Procs
    /\ None \notin Requests /\ None \notin SpotStatus

Task == [kind : {"expire", "hold"}, res : Reservations]
Expire(r) == [kind |-> "expire", res |-> r]
Hold(r)   == [kind |-> "hold", res |-> r]

CreatePC   == {"findSpot", "acquire", "insert", "startBilling", "failCreate",
               "enqueueExpiry", "enqueueHold", "publishCreated", "release"}
ConfirmPC  == {"confirmBilling", "confirmPay", "failConfirm", "confirmCommit",
               "refund", "cancelHold"}
SessionPC  == {"activateBilling", "calculateFee", "generateInvoice",
               "completeInvoice", "completePay", "completeCommit"}
PC == {"idle", "publish"} \cup CreatePC \cup ConfirmPC \cup SessionPC

VARIABLES
    \* the database
    status,    \* status[r] of the row, "absent" while there is none
    spotOf,    \* the columns a row keeps for life, None while there is none
    driverOf,
    keyOf,
    spot,      \* spot[s]: status column of parking_spots
    \* Redis
    lock,      \* lock[s]: who holds spot:<s>, None if the key is not set
    tasks,     \* scheduled tasks that have been neither acked nor archived
    \* the goroutines
    pc,
    req,       \* the request a CreateReservation is serving
    target,    \* its spot, or the spot whose new status is to be published
    res,       \* the reservation it works on
    note       \* the spot status it is about to publish

dbVars   == <<status, spotOf, driverOf, keyOf, spot>>
procVars == <<pc, req, target, res, note>>
vars     == <<dbVars, lock, tasks, procVars>>

------------------------------------------------------------------------------
Init ==
    /\ status   = [r \in Reservations |-> "absent"]
    /\ spotOf   = [r \in Reservations |-> None]
    /\ driverOf = [r \in Reservations |-> None]
    /\ keyOf    = [r \in Reservations |-> None]
    /\ spot     = [s \in Spots |-> "available"]
    /\ lock     = [s \in Spots |-> None]
    /\ tasks    = {}
    /\ pc       = [p \in Procs |-> "idle"]
    /\ req      = [p \in Procs |-> None]
    /\ target   = [p \in Procs |-> None]
    /\ res      = [p \in Procs |-> None]
    /\ note     = [p \in Procs |-> None]

At(p, l)        == pc[p] = l
Goto(p, l)      == pc' = [pc EXCEPT ![p] = l]
Return(p)       == /\ Goto(p, "idle")
                   /\ req'    = [req EXCEPT ![p] = None]
                   /\ target' = [target EXCEPT ![p] = None]
                   /\ res'    = [res EXCEPT ![p] = None]
                   /\ note'   = [note EXCEPT ![p] = None]

\* UpdateReservationTx and UpdateSpotStatusTx inside one transaction.
SetStatus(r, to)        == status' = [status EXCEPT ![r] = to]
SetSpot(r, to)          == spot' = [spot EXCEPT ![spotOf[r]] = to]
RowUnchanged            == UNCHANGED <<spotOf, driverOf, keyOf>>

\* The usecase method goes on with publishSpotUpdated for the spot of r.
ThenPublish(p, r, st) == /\ Goto(p, "publish")
                         /\ target' = [target EXCEPT ![p] = spotOf[r]]
                         /\ note'   = [note EXCEPT ![p] = st]

------------------------------------------------------------------------------
(* CreateReservation                                                       *)

\* Mutants: a unique index over the open rows only, and none for drivers.
RowsWithKeyOpen(k)      == {r \in Reservations :
                               keyOf[r] = k /\ status[r] \in ActiveStatus}
ActiveDriverNoIndex(d)  == FALSE

\* FindByIdempotencyKey: rows are looked up whatever their status.
RowsWithKey(k) == {r \in Reservations : keyOf[r] = k}

ActiveOn(s)     == \E r \in Reservations :
                      status[r] \in ActiveStatus /\ spotOf[r] = s
ActiveDriver(d) == \E r \in Reservations :
                      status[r] \in ActiveStatus /\ driverOf[r] = d

\* Step 1: a row with the key is returned as it is and nothing changes.  The
\* code goes on if there is none, and also if the lookup failed.
CreateBegin(p, q) ==
    /\ At(p, "idle")
    /\ Goto(p, "findSpot")
    /\ req' = [req EXCEPT ![p] = q]
    /\ UNCHANGED <<dbVars, lock, tasks, target, res, note>>

\* Step 2.  FindAvailableSpot returns some available spot of the type.
CreateFindSpot(p) ==
    /\ At(p, "findSpot")
    /\ \E s \in Spots :
          /\ IF req[p].mode = "system_assigned"
             THEN spot[s] = "available" /\ SpotType[s] = req[p].vtype
             ELSE s = req[p].spot
          /\ target' = [target EXCEPT ![p] = s]
    /\ Goto(p, "acquire")
    /\ UNCHANGED <<dbVars, lock, tasks, req, res, note>>

\* Step 2, "no available spots for vehicle type" (or the query failed).
CreateNoSpot(p) ==
    /\ At(p, "findSpot")
    /\ req[p].mode = "system_assigned"
    /\ Return(p)
    /\ UNCHANGED <<dbVars, lock, tasks>>

\* Step 3: SETNX with a TTL, no retry.
CreateAcquire(p) ==
    /\ At(p, "acquire")
    /\ lock[target[p]] = None
    /\ lock' = [lock EXCEPT ![target[p]] = p]
    /\ Goto(p, "insert")
    /\ UNCHANGED <<dbVars, tasks, req, target, res, note>>

\* Step 3, the key is set or Redis failed.
CreateLockRefused(p) ==
    /\ At(p, "acquire")
    /\ Return(p)
    /\ UNCHANGED <<dbVars, lock, tasks>>

\* Mutant: the spot is trusted to be as free as it was in step 2.
SpotStillFitsStale(p) ==
    req[p].mode = "user_selected" => SpotType[target[p]] = req[p].vtype

\* GetSpotForUpdateTx and the two checks under the row lock.
SpotStillFits(p) ==
    /\ spot[target[p]] = "available"
    /\ req[p].mode = "user_selected" => SpotType[target[p]] = req[p].vtype

\* Steps 4 and 5: the row is inserted and the spot reserved.  The INSERT
\* passes the three unique indexes.
CreateInsert(p) ==
    /\ At(p, "insert")
    /\ SpotStillFits(p)
    /\ RowsWithKey(req[p].key) = {}
    /\ ~ActiveOn(target[p])
    /\ ~ActiveDriver(req[p].driver)
    /\ \E r \in Reservations :
          /\ status[r] = "absent"
          /\ SetStatus(r, "waiting_payment")
          /\ spotOf'   = [spotOf EXCEPT ![r] = target[p]]
          /\ driverOf' = [driverOf EXCEPT ![r] = req[p].driver]
          /\ keyOf'    = [keyOf EXCEPT ![r] = req[p].key]
          /\ res'      = [res EXCEPT ![p] = r]
    /\ spot' = [spot EXCEPT ![target[p]] = "reserved"]
    /\ Goto(p, "startBilling")
    /\ UNCHANGED <<lock, tasks, req, target, note>>

\* Steps 4 and 5, the key is taken: the unique index on idempotency_key is the
\* first one PostgreSQL tries, and the existing row is looked up and returned.
CreateDuplicate(p) ==
    /\ At(p, "insert")
    /\ SpotStillFits(p)
    /\ \E r \in RowsWithKey(req[p].key) : res' = [res EXCEPT ![p] = r]
    /\ Goto(p, "release")
    /\ UNCHANGED <<dbVars, lock, tasks, req, target, note>>

\* Steps 4 and 5, the transaction rolls back: the spot is gone, a unique index
\* refuses the row, or the database fails.
CreateRefused(p) ==
    /\ At(p, "insert")
    /\ Goto(p, "release")
    /\ UNCHANGED <<dbVars, lock, tasks, req, target, res, note>>

\* Step 6.
CreateStartBilling(p, ok) ==
    /\ At(p, "startBilling")
    /\ Goto(p, IF ok THEN "enqueueExpiry" ELSE "failCreate")
    /\ UNCHANGED <<dbVars, lock, tasks, req, target, res, note>>

\* Step 7, best effort: the expiry is scheduled from creation.
CreateEnqueueExpiry(p, ok) ==
    /\ At(p, "enqueueExpiry")
    /\ tasks' = IF ok THEN tasks \cup {Expire(res[p])} ELSE tasks
    /\ Goto(p, "enqueueHold")
    /\ UNCHANGED <<dbVars, lock, req, target, res, note>>

\* Step 7b, best effort.
CreateEnqueueHold(p, ok) ==
    /\ At(p, "enqueueHold")
    /\ tasks' = IF ok THEN tasks \cup {Hold(res[p])} ELSE tasks
    /\ Goto(p, "publishCreated")
    /\ note' = [note EXCEPT ![p] = "reserved"]
    /\ UNCHANGED <<dbVars, lock, req, target, res>>

\* Step 8.
CreatePublish(p) ==
    /\ At(p, "publishCreated")
    /\ note' = [note EXCEPT ![p] = None]
    /\ Goto(p, "release")
    /\ UNCHANGED <<dbVars, lock, tasks, req, target, res>>

\* The deferred Release deletes the key only if it still holds this lock's
\* token; the method then returns its reservation, if it has one.
CreateRelease(p, ok) ==
    /\ At(p, "release")
    /\ lock' = IF ok /\ lock[target[p]] = p
               THEN [lock EXCEPT ![target[p]] = None]
               ELSE lock
    /\ Return(p)
    /\ UNCHANGED <<dbVars, tasks>>

------------------------------------------------------------------------------
(* failReservationInternal: only a row that is still waiting is failed, a  *)
(* database error is logged and ignored, nothing is published.             *)

FailInternal(r) ==
    \/ /\ status[r] = "waiting_payment"
       /\ SetStatus(r, "failed")
       /\ SetSpot(r, "available")
       /\ RowUnchanged
    \/ UNCHANGED dbVars

\* After a failed StartBilling the method returns PaymentFailed.
CreateFail(p) ==
    /\ At(p, "failCreate")
    /\ FailInternal(res[p])
    /\ Goto(p, "release")
    /\ res' = [res EXCEPT ![p] = None]
    /\ UNCHANGED <<lock, tasks, req, target, note>>

------------------------------------------------------------------------------
(* ConfirmReservation                                                      *)

\* First transaction: the status is checked and the row lock given up.
ConfirmBegin(p, r) ==
    /\ At(p, "idle")
    /\ status[r] = "waiting_payment"
    /\ res' = [res EXCEPT ![p] = r]
    /\ Goto(p, "confirmBilling")
    /\ UNCHANGED <<dbVars, lock, tasks, req, target, note>>

\* Mutant: the record is thought to be there already, as in CheckIn.
ConfirmStartBillingBestEffort(p, ok) ==
    /\ At(p, "confirmBilling")
    /\ ok \in BOOLEAN
    /\ Goto(p, "confirmPay")
    /\ UNCHANGED <<dbVars, lock, tasks, req, target, res, note>>

ConfirmStartBilling(p, ok) ==
    /\ At(p, "confirmBilling")
    /\ IF ok
       THEN Goto(p, "confirmPay") /\ UNCHANGED <<req, target, res, note>>
       ELSE Return(p)
    /\ UNCHANGED <<dbVars, lock, tasks>>

\* Mutant: the error of the payment client is logged only.
ConfirmPayUnchecked(p, ok) ==
    /\ At(p, "confirmPay")
    /\ ok \in BOOLEAN
    /\ Goto(p, "confirmCommit")
    /\ UNCHANGED <<dbVars, lock, tasks, req, target, res, note>>

\* ProcessPayment of the booking fee.
ConfirmPay(p, ok) ==
    /\ At(p, "confirmPay")
    /\ Goto(p, IF ok THEN "confirmCommit" ELSE "failConfirm")
    /\ UNCHANGED <<dbVars, lock, tasks, req, target, res, note>>

ConfirmFail(p) ==
    /\ At(p, "failConfirm")
    /\ FailInternal(res[p])
    /\ Return(p)
    /\ UNCHANGED <<lock, tasks>>

\* Mutant: the status read by the first transaction is trusted.
ConfirmCommitStale(p) ==
    /\ At(p, "confirmCommit")
    /\ SetStatus(res[p], "confirmed")
    /\ Goto(p, "cancelHold")
    /\ RowUnchanged
    /\ UNCHANGED <<spot, lock, tasks, req, target, res, note>>

\* Second transaction: the row is read again under its lock.
ConfirmCommit(p) ==
    /\ At(p, "confirmCommit")
    /\ status[res[p]] = "waiting_payment"
    /\ SetStatus(res[p], "confirmed")
    /\ Goto(p, "cancelHold")
    /\ RowUnchanged
    /\ UNCHANGED <<spot, lock, tasks, req, target, res, note>>

\* Second transaction, the status changed meanwhile: refund and Conflict.
ConfirmLost(p) ==
    /\ At(p, "confirmCommit")
    /\ status[res[p]] # "waiting_payment"
    /\ Goto(p, "refund")
    /\ UNCHANGED <<dbVars, lock, tasks, req, target, res, note>>

\* Best effort: whatever RefundPayment answers, the method returns Conflict.
ConfirmRefund(p) ==
    /\ At(p, "refund")
    /\ Return(p)
    /\ UNCHANGED <<dbVars, lock, tasks>>

\* CancelTask("payment-hold:<id>"), best effort.
ConfirmCancelHold(p, ok) ==
    /\ At(p, "cancelHold")
    /\ tasks' = IF ok THEN tasks \ {Hold(res[p])} ELSE tasks
    /\ Return(p)
    /\ UNCHANGED <<dbVars, lock>>

------------------------------------------------------------------------------
(* One-transaction methods: ValidateTransition under the row lock, the new *)
(* status, the spot, then the event.  An invalid transition changes nothing*)
(* and returns an error.                                                   *)

\* From waiting_payment or confirmed, at the owner's request.
CancelReservation(p, r) ==
    /\ At(p, "idle")
    /\ ValidateTransition(status[r], "cancelled")
    /\ SetStatus(r, "cancelled")
    /\ SetSpot(r, "available")
    /\ ThenPublish(p, r, "available")
    /\ RowUnchanged
    /\ UNCHANGED <<lock, tasks, req, res>>

\* Mutant: the status of the reservation is written to its spot.
CheckInWrongColumn(p, r) ==
    /\ At(p, "idle")
    /\ ValidateTransition(status[r], "checked_in")
    /\ SetStatus(r, "checked_in")
    /\ SetSpot(r, "checked_in")
    /\ res' = [res EXCEPT ![p] = r]
    /\ Goto(p, "activateBilling")
    /\ RowUnchanged
    /\ UNCHANGED <<lock, tasks, req, target, note>>

\* CheckIn then calls StartBilling and ignores what it answers; the presence
\* check only sets a warning in the response.
CheckIn(p, r) ==
    /\ At(p, "idle")
    /\ ValidateTransition(status[r], "checked_in")
    /\ SetStatus(r, "checked_in")
    /\ SetSpot(r, "occupied")
    /\ res' = [res EXCEPT ![p] = r]
    /\ Goto(p, "activateBilling")
    /\ RowUnchanged
    /\ UNCHANGED <<lock, tasks, req, target, note>>

CheckInActivateBilling(p) ==
    /\ At(p, "activateBilling")
    /\ ThenPublish(p, res[p], "occupied")
    /\ UNCHANGED <<dbVars, lock, tasks, req, res>>

\* Mutant: the spot is given back before the fee is paid.
CheckOutFreesSpot(p, r) ==
    /\ At(p, "idle")
    /\ ValidateTransition(status[r], "checked_out")
    /\ SetStatus(r, "checked_out")
    /\ SetSpot(r, "available")
    /\ res' = [res EXCEPT ![p] = r]
    /\ Goto(p, "calculateFee")
    /\ RowUnchanged
    /\ UNCHANGED <<lock, tasks, req, target, note>>

\* The row is checked_out before the fee is known; the spot stays occupied.
CheckOut(p, r) ==
    /\ At(p, "idle")
    /\ ValidateTransition(status[r], "checked_out")
    /\ SetStatus(r, "checked_out")
    /\ res' = [res EXCEPT ![p] = r]
    /\ Goto(p, "calculateFee")
    /\ RowUnchanged
    /\ UNCHANGED <<spot, lock, tasks, req, target, note>>

CheckOutCalculateFee(p, ok) ==
    /\ At(p, "calculateFee")
    /\ IF ok
       THEN Goto(p, "generateInvoice") /\ UNCHANGED <<req, target, res, note>>
       ELSE Return(p)
    /\ UNCHANGED <<dbVars, lock, tasks>>

CheckOutGenerateInvoice(p, ok) ==
    /\ At(p, "generateInvoice")
    /\ ok \in BOOLEAN
    /\ Return(p)
    /\ UNCHANGED <<dbVars, lock, tasks>>

\* CompleteCheckout: check, invoice, payment, and a second transaction that
\* checks again.
CompleteBegin(p, r) ==
    /\ At(p, "idle")
    /\ status[r] = "checked_out"
    /\ res' = [res EXCEPT ![p] = r]
    /\ Goto(p, "completeInvoice")
    /\ UNCHANGED <<dbVars, lock, tasks, req, target, note>>

\* Mutant: the error of the billing client is logged only, as in CheckIn.
CompleteInvoiceUnchecked(p, ok) ==
    /\ At(p, "completeInvoice")
    /\ ok \in BOOLEAN
    /\ Goto(p, "completePay")
    /\ UNCHANGED <<dbVars, lock, tasks, req, target, res, note>>

CompleteInvoice(p, ok) ==
    /\ At(p, "completeInvoice")
    /\ IF ok
       THEN Goto(p, "completePay") /\ UNCHANGED <<req, target, res, note>>
       ELSE Return(p)
    /\ UNCHANGED <<dbVars, lock, tasks>>

CompletePay(p, ok) ==
    /\ At(p, "completePay")
    /\ IF ok
       THEN Goto(p, "completeCommit") /\ UNCHANGED <<req, target, res, note>>
       ELSE Return(p)
    /\ UNCHANGED <<dbVars, lock, tasks>>

\* Mutant: the row is not read again after the payment.
CompleteCommitStale(p) ==
    /\ At(p, "completeCommit")
    /\ SetStatus(res[p], "completed")
    /\ SetSpot(res[p], "available")
    /\ ThenPublish(p, res[p], "available")
    /\ RowUnchanged
    /\ UNCHANGED <<lock, tasks, req, res>>

CompleteCommit(p) ==
    /\ At(p, "completeCommit")
    /\ status[res[p]] = "checked_out"
    /\ SetStatus(res[p], "completed")
    /\ SetSpot(res[p], "available")
    /\ ThenPublish(p, res[p], "available")
    /\ RowUnchanged
    /\ UNCHANGED <<lock, tasks, req, res>>

\* Another CompleteCheckout finished first: Conflict, and no refund.
CompleteLost(p) ==
    /\ At(p, "completeCommit")
    /\ status[res[p]] # "checked_out"
    /\ Return(p)
    /\ UNCHANGED <<dbVars, lock, tasks>>

------------------------------------------------------------------------------
(* asynq workers.  A task is delivered at least once: the worker that ran  *)
(* it may die before it acknowledges it.                                   *)

Acked(t) == tasks' = tasks \/ tasks' = tasks \ {t}

\* The confirmed reservation of a no-show.
ExpireReservation(p, r) ==
    /\ At(p, "idle")
    /\ ValidateTransition(status[r], "expired")
    /\ SetStatus(r, "expired")
    /\ SetSpot(r, "available")
    /\ ThenPublish(p, r, "available")
    /\ RowUnchanged
    /\ UNCHANGED <<lock, req, res>>

\* ExpiryHandler runs it when the task is due; the gRPC interface also offers it
\* as a call of its own.
ExpiryTask(p, r) == Expire(r) \in tasks /\ ExpireReservation(p, r) /\ Acked(Expire(r))
ExpireCall(p, r) == ExpireReservation(p, r) /\ UNCHANGED tasks

\* PaymentTimeoutHandler: the booking fee was not paid in time.
FailReservation(p, r) ==
    /\ At(p, "idle")
    /\ Hold(r) \in tasks
    /\ ValidateTransition(status[r], "failed")
    /\ SetStatus(r, "failed")
    /\ SetSpot(r, "available")
    /\ ThenPublish(p, r, "available")
    /\ Acked(Hold(r))
    /\ RowUnchanged
    /\ UNCHANGED <<lock, req, res>>

\* Mutant: a task is dropped whenever its handler fails once.
ArchiveTaskEarly(t) == /\ t \in tasks
                       /\ tasks' = tasks \ {t}
                       /\ UNCHANGED <<dbVars, lock, procVars>>

\* The handler returns an error because the transition is invalid; asynq has
\* retried the task as often as it does and archives it.
ArchiveTask(t) ==
    /\ t \in tasks
    /\ ~ValidateTransition(status[t.res],
                           IF t.kind = "expire" THEN "expired" ELSE "failed")
    /\ tasks' = tasks \ {t}
    /\ UNCHANGED <<dbVars, lock, procVars>>

------------------------------------------------------------------------------
(* Events and failures                                                     *)

\* publishSpotUpdated, best effort, the last thing the method does.
Publish(p) ==
    /\ At(p, "publish")
    /\ Return(p)
    /\ UNCHANGED <<dbVars, lock, tasks>>

\* The process dies between two steps, or its second transaction fails and the
\* method returns that error: either way nothing more happens for the request.
Abandon(p) ==
    /\ pc[p] # "idle"
    /\ Return(p)
    /\ UNCHANGED <<dbVars, lock, tasks>>

\* Redis drops the key after its TTL, whether or not its owner is still busy.
LockTTL(s) ==
    /\ lock[s] # None
    /\ lock' = [lock EXCEPT ![s] = None]
    /\ UNCHANGED <<dbVars, tasks, procVars>>

------------------------------------------------------------------------------
CreateStep(p) ==
    \/ CreateFindSpot(p) \/ CreateNoSpot(p) \/ CreateAcquire(p)
    \/ CreateLockRefused(p) \/ CreateInsert(p) \/ CreateDuplicate(p)
    \/ CreateRefused(p) \/ CreateFail(p) \/ CreatePublish(p)
    \/ \E ok \in BOOLEAN : \/ CreateStartBilling(p, ok)
                           \/ CreateEnqueueExpiry(p, ok)
                           \/ CreateEnqueueHold(p, ok)
                           \/ CreateRelease(p, ok)

ConfirmStep(p) ==
    \/ ConfirmFail(p) \/ ConfirmCommit(p) \/ ConfirmLost(p) \/ ConfirmRefund(p)
    \/ \E ok \in BOOLEAN : \/ ConfirmStartBilling(p, ok)
                           \/ ConfirmPay(p, ok)
                           \/ ConfirmCancelHold(p, ok)

SessionStep(p) ==
    \/ CheckInActivateBilling(p) \/ CompleteCommit(p) \/ CompleteLost(p)
    \/ \E ok \in BOOLEAN : \/ CheckOutCalculateFee(p, ok)
                           \/ CheckOutGenerateInvoice(p, ok)
                           \/ CompleteInvoice(p, ok)
                           \/ CompletePay(p, ok)

\* The next step of a method that is already running.
Continue(p) == CreateStep(p) \/ ConfirmStep(p) \/ SessionStep(p) \/ Publish(p)

\* A call arrives from a client.
Call(p) == \/ \E q \in Requests : CreateBegin(p, q)
           \/ \E r \in Reservations : \/ ConfirmBegin(p, r)
                                      \/ CancelReservation(p, r)
                                      \/ CheckIn(p, r)
                                      \/ CheckOut(p, r)
                                      \/ CompleteBegin(p, r)
                                      \/ ExpireCall(p, r)

RunTask(p, r) == ExpiryTask(p, r) \/ FailReservation(p, r)

Next ==
    \/ \E p \in Handlers : Call(p)
    \/ \E p \in Workers, r \in Reservations : RunTask(p, r)
    \/ \E p \in Procs : Continue(p) \/ Abandon(p)
    \/ \E t \in Task : ArchiveTask(t)
    \/ \E s \in Spots : LockTTL(s)

Spec == Init /\ [][Next]_vars

\* A task that a worker has taken goes on (asynq ends the context of a task, and with
\* it every statement and call, by a timeout of its own) and the asynq server runs the
\* due tasks.  Nothing makes a client call, the method of a client go on (its calls have
\* no deadline) or a process die.
Fairness ==
    /\ \A p \in Workers : WF_vars(Continue(p))
    /\ \A r \in Reservations : WF_vars(\E p \in Workers : ExpiryTask(p, r))
    /\ \A r \in Reservations : WF_vars(\E p \in Workers : FailReservation(p, r))

FairSpec == Spec /\ Fairness

------------------------------------------------------------------------------
(* Properties                                                              *)

Live(r) == status[r] \in HoldingStatus

\* The shape of every variable.
TypeOK ==
    /\ status   \in [Reservations -> RowStatus \cup {"absent"}]
    /\ spotOf   \in [Reservations -> Spots \cup {None}]
    /\ driverOf \in [Reservations -> Drivers \cup {None}]
    /\ keyOf    \in [Reservations -> Keys \cup {None}]
    /\ spot     \in [Spots -> SpotStatus]
    /\ lock     \in [Spots -> Procs \cup {None}]
    /\ tasks    \subseteq Task
    /\ pc       \in [Procs -> PC]
    /\ req      \in [Procs -> Requests \cup {None}]
    /\ target   \in [Procs -> Spots \cup {None}]
    /\ res      \in [Procs -> Reservations \cup {None}]
    /\ note     \in [Procs -> SpotStatus \cup {None}]

\* The denormalised status column of parking_spots agrees with the reservations
\* table in every committed state: reserved or occupied exactly when some
\* reservation holds the spot in that way, and never held by two, whatever
\* becomes of the Redis locks and of the processes.
SpotMatchesReservations ==
    /\ \A s \in Spots :
          /\ spot[s] = "reserved" <=>
                \E r \in Reservations : spotOf[r] = s /\ status[r] \in ReservingStatus
          /\ spot[s] = "occupied" <=>
                \E r \in Reservations : spotOf[r] = s /\ status[r] \in OccupyingStatus
    /\ \A r1, r2 \in Reservations :
          Live(r1) /\ Live(r2) /\ spotOf[r1] = spotOf[r2] => r1 = r2

\* A driver has at most one reservation between creation and check-out, however
\* the creations and the returns of earlier reservations interleave.
OneActivePerDriver ==
    \A r1, r2 \in Reservations :
        /\ status[r1] \in ActiveStatus
        /\ status[r2] \in ActiveStatus
        /\ driverOf[r1] = driverOf[r2]
        => r1 = r2

\* An idempotency key creates at most one row, even when retries with the same
\* key run concurrently, pick different spots and pass the lookup of step 1
\* together; and the reservation a CreateReservation is about to return is the
\* one of its own key.
SameKeySameReservation ==
    /\ \A r1, r2 \in Reservations :
          keyOf[r1] = keyOf[r2] /\ keyOf[r1] # None => r1 = r2
    /\ \A p \in Procs :
          At(p, "release") /\ res[p] # None => keyOf[res[p]] = req[p].key

\* What the rows and the running methods always satisfy; with the properties
\* above it is inductive.
RowsComplete ==
    \A r \in Reservations :
        IF status[r] = "absent"
        THEN spotOf[r] = None /\ driverOf[r] = None /\ keyOf[r] = None
        ELSE spotOf[r] \in Spots /\ driverOf[r] \in Drivers /\ keyOf[r] \in Keys

MethodConsistent(p) ==
    /\ pc[p] \in CreatePC => req[p] \in Requests
    /\ pc[p] \in CreatePC \ {"findSpot"} => target[p] \in Spots
    /\ pc[p] \in {"idle", "findSpot", "acquire", "insert"} => res[p] = None
    /\ pc[p] \in {"startBilling", "failCreate", "enqueueExpiry", "enqueueHold",
                  "publishCreated"} \cup ConfirmPC \cup SessionPC
          => res[p] # None
    /\ res[p] # None => status[res[p]] # "absent"
    /\ pc[p] \in CreatePC /\ res[p] # None => keyOf[res[p]] = req[p].key

MethodsConsistent == \A p \in Procs : MethodConsistent(p)

IInv == /\ TypeOK
        /\ RowsComplete
        /\ MethodsConsistent
        /\ SpotMatchesReservations
        /\ OneActivePerDriver
        /\ SameKeySameReservation

\* Every change of a row follows the transition table, also in the methods that
\* compare the status by hand after a remote call (ConfirmReservation,
\* CompleteCheckout, failReservationInternal) instead of calling
\* ValidateTransition; a row is created waiting for payment and never deleted.
LifecycleStep ==
    \A r \in Reservations :
        status'[r] # status[r] =>
            \/ status[r] = "absent" /\ status'[r] = "waiting_payment"
            \/ ValidateTransition(status[r], status'[r])

LifecycleFollowed == [][LifecycleStep]_vars

\* The abstract car park this service implements.
Inventory == INSTANCE SpotInventory WITH
    held  <- [s \in Spots |-> {r \in Reservations : Live(r) /\ spotOf[r] = s}],
    shown <- spot,
    used  <- {r \in Reservations : status[r] # "absent"}

InventorySpec == Inventory!Spec

\* Once a timeout is scheduled it does its work: the reservation leaves the
\* status the timeout is about, and its spot is not kept for ever by a client
\* that never comes back or by a process that died.
ScheduledTimeoutsWork ==
    \A r \in Reservations :
        /\ (Hold(r) \in tasks /\ status[r] = "waiting_payment")
              ~> status[r] # "waiting_payment"
        /\ (Expire(r) \in tasks /\ status[r] = "confirmed")
              ~> status[r] # "confirmed"

\* Every unpaid reservation ends waiting, whether or not its timeout could be
\* scheduled (README.md:136 promises a polling fallback behind asynq).
UnpaidIsReleased ==
    \A r \in Reservations :
        status[r] = "waiting_payment" ~> status[r] # "waiting_payment"

=============================================================================

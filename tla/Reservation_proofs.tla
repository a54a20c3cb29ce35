-------------------------- MODULE Reservation_proofs --------------------------
(***************************************************************************)
(* Proofs about Reservation, for any number of spots, drivers, keys,       *)
(* reservations, handlers and workers.                                     *)
(*                                                                         *)
(* The argument: whatever the many steps of the methods do, the database   *)
(* moves in only five ways (an insert, a confirmation, a check-in, a       *)
(* check-out, the release of a spot).  DatabaseStep shows that, from the   *)
(* invariant; each property of the tables then needs only these five cases.*)
(***************************************************************************)
EXTENDS Reservation, TLAPS

Inserted(r, s, d, k) ==
    /\ status[r] = "absent"
    /\ spot[s] = "available"
    /\ \A x \in Reservations : keyOf[x] # k
    /\ \A x \in Reservations : status[x] \in ActiveStatus => driverOf[x] # d
    /\ status'   = [status EXCEPT ![r] = "waiting_payment"]
    /\ spotOf'   = [spotOf EXCEPT ![r] = s]
    /\ driverOf' = [driverOf EXCEPT ![r] = d]
    /\ keyOf'    = [keyOf EXCEPT ![r] = k]
    /\ spot'     = [spot EXCEPT ![s] = "reserved"]

Confirmed(r) ==
    /\ status[r] = "waiting_payment"
    /\ status' = [status EXCEPT ![r] = "confirmed"]
    /\ spot' = spot
    /\ RowUnchanged

CheckedIn(r) ==
    /\ status[r] = "confirmed"
    /\ status' = [status EXCEPT ![r] = "checked_in"]
    /\ SetSpot(r, "occupied")
    /\ RowUnchanged

CheckedOut(r) ==
    /\ status[r] = "checked_in"
    /\ status' = [status EXCEPT ![r] = "checked_out"]
    /\ spot' = spot
    /\ RowUnchanged

Freed(r, to) ==
    /\ ValidateTransition(status[r], to)
    /\ to \in {"cancelled", "expired", "failed", "completed"}
    /\ status' = [status EXCEPT ![r] = to]
    /\ SetSpot(r, "available")
    /\ RowUnchanged

DatabaseMoves ==
    \/ UNCHANGED dbVars
    \/ \E r \in Reservations, s \in Spots, d \in Drivers, k \in Keys :
          Inserted(r, s, d, k)
    \/ \E r \in Reservations : \/ Confirmed(r) \/ CheckedIn(r) \/ CheckedOut(r)
                               \/ \E to \in RowStatus : Freed(r, to)

\* What the transition table says of each target the methods use.
LEMMA Transitions ==
    ASSUME NEW from
    PROVE  /\ ValidateTransition(from, "confirmed") <=> from \in {"pending", "waiting_payment"}
           /\ ValidateTransition(from, "failed") <=> from = "waiting_payment"
           /\ ValidateTransition(from, "cancelled") <=> from \in ReservingStatus
           /\ ValidateTransition(from, "expired") <=> from = "confirmed"
           /\ ValidateTransition(from, "checked_in") <=> from = "confirmed"
           /\ ValidateTransition(from, "checked_out") <=> from = "checked_in"
           /\ ValidateTransition(from, "completed") <=> from = "checked_out"
BY DEF ValidateTransition, allowedTransitions, ReservingStatus

\* A creation that commits inserts a fresh row on an available spot.
LEMMA InsertMoves ==
    ASSUME IInv, NEW p \in Procs, CreateInsert(p)
    PROVE  \E r \in Reservations, s \in Spots, d \in Drivers, k \in Keys :
               Inserted(r, s, d, k)
<1>1. PICK r \in Reservations :
         /\ status[r] = "absent"
         /\ status'   = [status EXCEPT ![r] = "waiting_payment"]
         /\ spotOf'   = [spotOf EXCEPT ![r] = target[p]]
         /\ driverOf' = [driverOf EXCEPT ![r] = req[p].driver]
         /\ keyOf'    = [keyOf EXCEPT ![r] = req[p].key]
  BY DEF CreateInsert, SetStatus
<1>2. target[p] \in Spots /\ req[p] \in Requests
  BY DEF IInv, MethodsConsistent, MethodConsistent, CreateInsert, At, CreatePC
<1>3. req[p].driver \in Drivers /\ req[p].key \in Keys
  BY <1>2, RequestsAssumption DEF Request
<1>4. Inserted(r, target[p], req[p].driver, req[p].key)
  BY <1>1 DEF Inserted, CreateInsert, SpotStillFits, RowsWithKey, ActiveDriver
<1> QED BY <1>2, <1>3, <1>4

\* failReservationInternal frees the spot of a waiting row or does nothing.
LEMMA FailMoves ==
    ASSUME NEW r \in Reservations, FailInternal(r)
    PROVE  UNCHANGED dbVars \/ Freed(r, "failed")
BY Transitions DEF FailInternal, Freed, SetStatus

\* Every step of the service moves the database in one of the five ways.
LEMMA DatabaseStep ==
    ASSUME IInv, [Next]_vars
    PROVE  DatabaseMoves
<1> USE DEF DatabaseMoves
<1>1. CASE UNCHANGED vars
  BY <1>1 DEF vars
<1>2. ASSUME NEW p \in Handlers, Call(p)
      PROVE  DatabaseMoves
  <2>1. ASSUME NEW q \in Requests, CreateBegin(p, q)
        PROVE  DatabaseMoves
    BY <2>1 DEF CreateBegin
  <2>2. ASSUME NEW r \in Reservations, ConfirmBegin(p, r) \/ CompleteBegin(p, r)
        PROVE  DatabaseMoves
    BY <2>2 DEF ConfirmBegin, CompleteBegin
  <2>3. ASSUME NEW r \in Reservations, CancelReservation(p, r)
        PROVE  Freed(r, "cancelled")
    BY <2>3 DEF CancelReservation, Freed, SetStatus
  <2>4. ASSUME NEW r \in Reservations, CheckIn(p, r)
        PROVE  CheckedIn(r)
    BY <2>4, Transitions DEF CheckIn, CheckedIn, SetStatus
  <2>5. ASSUME NEW r \in Reservations, CheckOut(p, r)
        PROVE  CheckedOut(r)
    BY <2>5, Transitions DEF CheckOut, CheckedOut, SetStatus
  <2>6. ASSUME NEW r \in Reservations, ExpireCall(p, r)
        PROVE  Freed(r, "expired")
    BY <2>6 DEF ExpireCall, ExpireReservation, Freed, SetStatus
  <2> QED BY <1>2, <2>1, <2>2, <2>3, <2>4, <2>5, <2>6 DEF Call, RowStatus
<1>3. ASSUME NEW p \in Workers, NEW r \in Reservations, RunTask(p, r)
      PROVE  DatabaseMoves
  <2>1. CASE ExpiryTask(p, r)
    <3> Freed(r, "expired")
      BY <2>1 DEF ExpiryTask, ExpireReservation, Freed, SetStatus
    <3> QED BY DEF RowStatus
  <2>2. CASE FailReservation(p, r)
    <3> Freed(r, "failed")
      BY <2>2 DEF FailReservation, Freed, SetStatus
    <3> QED BY DEF RowStatus
  <2> QED BY <1>3, <2>1, <2>2 DEF RunTask
<1>4. ASSUME NEW p \in Procs, CreateStep(p)
      PROVE  DatabaseMoves
  <2>1. CASE CreateInsert(p)
    BY <2>1, InsertMoves
  <2>2. CASE CreateFail(p)
    <3> res[p] \in Reservations
      BY <2>2 DEF CreateFail, At, IInv, TypeOK, MethodsConsistent, MethodConsistent
    <3> QED BY <2>2, FailMoves DEF CreateFail, RowStatus
  <2>3. CASE ~CreateInsert(p) /\ ~CreateFail(p)
    BY <1>4, <2>3 DEF CreateStep, CreateFindSpot, CreateNoSpot, CreateAcquire,
       CreateLockRefused, CreateDuplicate, CreateRefused, CreatePublish,
       CreateStartBilling, CreateEnqueueExpiry, CreateEnqueueHold, CreateRelease
  <2> QED BY <2>1, <2>2, <2>3
<1>5. ASSUME NEW p \in Procs, ConfirmStep(p)
      PROVE  DatabaseMoves
  <2>0. pc[p] \in ConfirmPC => res[p] \in Reservations
    BY DEF IInv, TypeOK, MethodsConsistent, MethodConsistent
  <2>1. CASE ConfirmCommit(p)
    <3> res[p] \in Reservations /\ Confirmed(res[p])
      BY <2>0, <2>1 DEF ConfirmCommit, Confirmed, SetStatus, At, ConfirmPC
    <3> QED OBVIOUS
  <2>2. CASE ConfirmFail(p)
    <3> res[p] \in Reservations
      BY <2>0, <2>2 DEF ConfirmFail, At, ConfirmPC
    <3> QED BY <2>2, FailMoves DEF ConfirmFail, RowStatus
  <2>3. CASE ~ConfirmCommit(p) /\ ~ConfirmFail(p)
    BY <1>5, <2>3 DEF ConfirmStep, ConfirmLost, ConfirmRefund,
       ConfirmStartBilling, ConfirmPay, ConfirmCancelHold
  <2> QED BY <2>1, <2>2, <2>3
<1>6. ASSUME NEW p \in Procs, SessionStep(p)
      PROVE  DatabaseMoves
  <2>1. CASE CompleteCommit(p)
    <3> res[p] \in Reservations
      BY <2>1 DEF CompleteCommit, At, IInv, TypeOK, MethodsConsistent, MethodConsistent, SessionPC
    <3> Freed(res[p], "completed")
      BY <2>1, Transitions DEF CompleteCommit, Freed, SetStatus
    <3> QED BY DEF RowStatus
  <2>2. CASE ~CompleteCommit(p)
    BY <1>6, <2>2 DEF SessionStep, CheckInActivateBilling, CompleteLost,
       CheckOutCalculateFee, CheckOutGenerateInvoice, CompleteInvoice, CompletePay
  <2> QED BY <2>1, <2>2
<1>7. ASSUME NEW p \in Procs, Publish(p) \/ Abandon(p)
      PROVE  DatabaseMoves
  BY <1>7 DEF Publish, Abandon
<1>8. ASSUME NEW t \in Task, ArchiveTask(t)
      PROVE  DatabaseMoves
  BY <1>8 DEF ArchiveTask
<1>9. ASSUME NEW s \in Spots, LockTTL(s)
      PROVE  DatabaseMoves
  BY <1>9 DEF LockTTL
<1> QED BY <1>1, <1>2, <1>3, <1>4, <1>5, <1>6, <1>7, <1>8, <1>9 DEF Next, Continue

------------------------------------------------------------------------------
(* The tables                                                              *)

TablesTyped ==
    /\ status   \in [Reservations -> RowStatus \cup {"absent"}]
    /\ spotOf   \in [Reservations -> Spots \cup {None}]
    /\ driverOf \in [Reservations -> Drivers \cup {None}]
    /\ keyOf    \in [Reservations -> Keys \cup {None}]
    /\ spot     \in [Spots -> SpotStatus]

OneRowPerKey == \A r1, r2 \in Reservations :
                    keyOf[r1] = keyOf[r2] /\ keyOf[r1] # None => r1 = r2

\* Rows are never deleted and keep their key, driver and spot.
RowsPersist == \A r \in Reservations : status[r] # "absent" =>
                  /\ status'[r] # "absent"
                  /\ keyOf'[r] = keyOf[r]

LEMMA TypesPreserved ==
    ASSUME IInv, DatabaseMoves
    PROVE  TablesTyped' /\ RowsPersist
<1> USE DEF TablesTyped, RowsPersist, RowStatus, SpotStatus
<1>0. TablesTyped
  BY DEF IInv, TypeOK
<1>1. CASE UNCHANGED dbVars
  BY <1>0, <1>1 DEF dbVars
<1>2. ASSUME NEW r \in Reservations, NEW s \in Spots, NEW d \in Drivers, NEW k \in Keys,
             Inserted(r, s, d, k)
      PROVE  TablesTyped' /\ RowsPersist
  BY <1>0, <1>2 DEF Inserted
<1>3. ASSUME NEW r \in Reservations, NEW to \in RowStatus,
             Confirmed(r) \/ CheckedIn(r) \/ CheckedOut(r) \/ Freed(r, to)
      PROVE  TablesTyped' /\ RowsPersist
  BY <1>0, <1>3 DEF Confirmed, CheckedIn, CheckedOut, Freed, SetSpot, RowUnchanged
<1> QED BY <1>1, <1>2, <1>3 DEF DatabaseMoves

LEMMA RowsPreserved ==
    ASSUME IInv, DatabaseMoves
    PROVE  RowsComplete' /\ OneRowPerKey' /\ OneActivePerDriver'
<1> USE NoneAssumption DEF RowsComplete, OneRowPerKey, OneActivePerDriver, ActiveStatus
<1>0. TablesTyped /\ RowsComplete /\ OneRowPerKey /\ OneActivePerDriver
  BY DEF IInv, TypeOK, TablesTyped, SameKeySameReservation
<1> USE DEF TablesTyped
<1>1. CASE UNCHANGED dbVars
  BY <1>0, <1>1 DEF dbVars
<1>2. ASSUME NEW r \in Reservations, NEW s \in Spots, NEW d \in Drivers, NEW k \in Keys,
             Inserted(r, s, d, k)
      PROVE  RowsComplete' /\ OneRowPerKey' /\ OneActivePerDriver'
  BY <1>0, <1>2 DEF Inserted
<1>3. ASSUME NEW r \in Reservations, NEW to \in RowStatus,
             Confirmed(r) \/ CheckedIn(r) \/ CheckedOut(r) \/ Freed(r, to)
      PROVE  RowsComplete' /\ OneRowPerKey' /\ OneActivePerDriver'
  BY <1>0, <1>3, Transitions
     DEF Confirmed, CheckedIn, CheckedOut, Freed, RowUnchanged, ReservingStatus
<1> QED BY <1>1, <1>2, <1>3 DEF DatabaseMoves, RowStatus

LEMMA SpotsPreserved ==
    ASSUME IInv, DatabaseMoves
    PROVE  SpotMatchesReservations'
<1> USE NoneAssumption DEF Live, HoldingStatus, ReservingStatus, OccupyingStatus
<1>0. /\ TablesTyped
      /\ SpotMatchesReservations
      /\ \A r \in Reservations : IF status[r] = "absent" THEN spotOf[r] = None
                                                         ELSE spotOf[r] \in Spots
  BY DEF IInv, TypeOK, TablesTyped, RowsComplete
<1> USE DEF TablesTyped
<1>1. CASE UNCHANGED dbVars
  BY <1>0, <1>1 DEF dbVars, SpotMatchesReservations
<1>2. ASSUME NEW r \in Reservations, NEW s \in Spots, NEW d \in Drivers, NEW k \in Keys,
             Inserted(r, s, d, k)
      PROVE  SpotMatchesReservations'
  <2>1. \A x \in Reservations : spotOf[x] = s => ~Live(x)
    BY <1>0, <1>2 DEF Inserted, SpotMatchesReservations
  <2> QED BY <1>0, <1>2, <2>1 DEF Inserted, SpotMatchesReservations
<1>3. ASSUME NEW r \in Reservations, Confirmed(r) \/ CheckedOut(r)
      PROVE  SpotMatchesReservations'
  BY <1>0, <1>3 DEF Confirmed, CheckedOut, RowUnchanged, SpotMatchesReservations
<1>4. ASSUME NEW r \in Reservations, NEW to \in RowStatus, CheckedIn(r) \/ Freed(r, to)
      PROVE  SpotMatchesReservations'
  <2>1. Live(r) /\ spotOf[r] \in Spots
    BY <1>0, <1>4, Transitions DEF CheckedIn, Freed
  <2>2. \A x \in Reservations : Live(x) /\ spotOf[x] = spotOf[r] => x = r
    BY <1>0, <2>1 DEF SpotMatchesReservations
  <2>3. CASE CheckedIn(r)
    BY <1>0, <2>1, <2>2, <2>3
       DEF CheckedIn, SetSpot, RowUnchanged, SpotMatchesReservations
  <2>4. CASE Freed(r, to)
    BY <1>0, <2>1, <2>2, <2>4
       DEF Freed, SetSpot, RowUnchanged, SpotMatchesReservations
  <2> QED BY <1>4, <2>3, <2>4
<1> QED BY <1>1, <1>2, <1>3, <1>4 DEF DatabaseMoves, RowStatus

------------------------------------------------------------------------------
(* The methods, the locks and the tasks                                    *)

ProcsTyped ==
    /\ lock   \in [Spots -> Procs \cup {None}]
    /\ tasks  \subseteq Task
    /\ pc     \in [Procs -> PC]
    /\ req    \in [Procs -> Requests \cup {None}]
    /\ target \in [Procs -> Spots \cup {None}]
    /\ res    \in [Procs -> Reservations \cup {None}]
    /\ note   \in [Procs -> SpotStatus \cup {None}]

\* A method that does not move is not disturbed by what happens to the rows.
LEMMA Undisturbed ==
    ASSUME IInv, RowsPersist, NEW p \in Procs,
           pc'[p] = pc[p], req'[p] = req[p], target'[p] = target[p], res'[p] = res[p]
    PROVE  MethodConsistent(p)'
<1>1. MethodConsistent(p) /\ res[p] \in Reservations \cup {None}
  BY DEF IInv, MethodsConsistent, TypeOK
<1> QED BY <1>1, NoneAssumption DEF MethodConsistent, RowsPersist

\* One method moves: it is enough to look at that one.
LEMMA OneMethodMoves ==
    ASSUME IInv, RowsPersist, NEW p \in Procs,
           \A x \in Procs \ {p} : /\ pc'[x] = pc[x] /\ req'[x] = req[x]
                                 /\ target'[x] = target[x] /\ res'[x] = res[x],
           MethodConsistent(p)'
    PROVE  MethodsConsistent'
BY Undisturbed DEF MethodsConsistent, Procs

LEMMA ReturnPreserves ==
    ASSUME IInv, RowsPersist, NEW p \in Procs, Return(p)
    PROVE  /\ MethodsConsistent'
           /\ pc' \in [Procs -> PC] /\ req' \in [Procs -> Requests \cup {None}]
           /\ target' \in [Procs -> Spots \cup {None}]
           /\ res' \in [Procs -> Reservations \cup {None}]
           /\ note' \in [Procs -> SpotStatus \cup {None}]
<1>0. ProcsTyped
  BY DEF IInv, TypeOK, ProcsTyped
<1>1. pc'[p] = "idle" /\ res'[p] = None
  BY <1>0 DEF Return, Goto, ProcsTyped
<1>2. MethodConsistent(p)'
  BY <1>1 DEF MethodConsistent, CreatePC, ConfirmPC, SessionPC
<1>3. MethodsConsistent'
  BY <1>0, <1>2, OneMethodMoves DEF Return, Goto, ProcsTyped
<1> QED BY <1>0, <1>3 DEF Return, Goto, ProcsTyped, PC

\* CreateReservation keeps its own account of request, spot and reservation.
LEMMA CreateStepPreserves ==
    ASSUME IInv, RowsPersist, NEW p \in Procs, CreateStep(p)
    PROVE  ProcsTyped' /\ MethodsConsistent'
<1> USE NoneAssumption, RequestsAssumption
    DEF At, Goto, MethodConsistent, PC, CreatePC, ConfirmPC, SessionPC, RowsPersist
<1>0. ProcsTyped /\ MethodConsistent(p) /\ RowsComplete /\ TablesTyped
  BY DEF IInv, TypeOK, ProcsTyped, TablesTyped, MethodsConsistent
<1>1. CASE CreateFindSpot(p)
  <2>1. ProcsTyped'
    BY <1>1, <1>0 DEF CreateFindSpot, ProcsTyped
  <2>2. MethodConsistent(p)'
    BY <1>1, <1>0 DEF CreateFindSpot, ProcsTyped
  <2> QED BY <1>1, <1>0, <2>1, <2>2, OneMethodMoves DEF CreateFindSpot, ProcsTyped
<1>2. CASE CreateNoSpot(p)
  BY <1>2, <1>0, ReturnPreserves DEF CreateNoSpot, ProcsTyped
<1>3. CASE CreateAcquire(p)
  <2>1. ProcsTyped'
    BY <1>3, <1>0 DEF CreateAcquire, ProcsTyped
  <2>2. MethodConsistent(p)'
    BY <1>3, <1>0 DEF CreateAcquire, ProcsTyped
  <2> QED BY <1>3, <1>0, <2>1, <2>2, OneMethodMoves DEF CreateAcquire, ProcsTyped
<1>4. CASE CreateLockRefused(p)
  BY <1>4, <1>0, ReturnPreserves DEF CreateLockRefused, ProcsTyped
<1>5. CASE CreateInsert(p)
  <2>1. ProcsTyped'
    BY <1>5, <1>0 DEF CreateInsert, ProcsTyped, SetStatus
  <2>2. MethodConsistent(p)'
    <3>1. PICK r \in Reservations :
             /\ status' = [status EXCEPT ![r] = "waiting_payment"]
             /\ keyOf'  = [keyOf EXCEPT ![r] = req[p].key]
             /\ res'    = [res EXCEPT ![p] = r]
      BY <1>5 DEF CreateInsert, SetStatus
    <3>2. /\ pc'[p] = "startBilling" /\ req'[p] = req[p] /\ target'[p] = target[p]
          /\ res'[p] = r
          /\ status'[r] = "waiting_payment" /\ keyOf'[r] = req[p].key
      BY <1>5, <1>0, <3>1 DEF CreateInsert, ProcsTyped, TablesTyped
    <3> QED BY <1>5, <1>0, <3>2 DEF CreateInsert
  <2> QED BY <1>5, <1>0, <2>1, <2>2, OneMethodMoves DEF CreateInsert, ProcsTyped, SetStatus
<1>6. CASE CreateDuplicate(p)
  <2>1. ProcsTyped'
    BY <1>6, <1>0 DEF CreateDuplicate, ProcsTyped, RowsWithKey, Request, RowsComplete
  <2>2. MethodConsistent(p)'
    BY <1>6, <1>0 DEF CreateDuplicate, ProcsTyped, RowsWithKey, Request, RowsComplete
  <2> QED BY <1>6, <1>0, <2>1, <2>2, OneMethodMoves DEF CreateDuplicate, ProcsTyped, RowsWithKey, Request, RowsComplete
<1>7. CASE CreateRefused(p)
  <2>1. ProcsTyped'
    BY <1>7, <1>0 DEF CreateRefused, ProcsTyped
  <2>2. MethodConsistent(p)'
    BY <1>7, <1>0 DEF CreateRefused, ProcsTyped
  <2> QED BY <1>7, <1>0, <2>1, <2>2, OneMethodMoves DEF CreateRefused, ProcsTyped
<1>8. CASE CreateFail(p)
  <2>1. ProcsTyped'
    BY <1>8, <1>0 DEF CreateFail, ProcsTyped
  <2>2. MethodConsistent(p)'
    BY <1>8, <1>0 DEF CreateFail, ProcsTyped
  <2> QED BY <1>8, <1>0, <2>1, <2>2, OneMethodMoves DEF CreateFail, ProcsTyped
<1>9. CASE CreatePublish(p)
  <2>1. ProcsTyped'
    BY <1>9, <1>0 DEF CreatePublish, ProcsTyped
  <2>2. MethodConsistent(p)'
    BY <1>9, <1>0 DEF CreatePublish, ProcsTyped
  <2> QED BY <1>9, <1>0, <2>1, <2>2, OneMethodMoves DEF CreatePublish, ProcsTyped
<1>10. ASSUME NEW ok \in BOOLEAN, CreateStartBilling(p, ok)
      PROVE  ProcsTyped' /\ MethodsConsistent'
  <2>1. ProcsTyped'
    BY <1>10, <1>0 DEF CreateStartBilling, ProcsTyped
  <2>2. MethodConsistent(p)'
    BY <1>10, <1>0 DEF CreateStartBilling, ProcsTyped
  <2> QED BY <1>10, <1>0, <2>1, <2>2, OneMethodMoves DEF CreateStartBilling, ProcsTyped
<1>11. ASSUME NEW ok \in BOOLEAN, CreateEnqueueExpiry(p, ok)
      PROVE  ProcsTyped' /\ MethodsConsistent'
  <2>1. ProcsTyped'
    BY <1>11, <1>0 DEF CreateEnqueueExpiry, ProcsTyped, Task, Expire
  <2>2. MethodConsistent(p)'
    BY <1>11, <1>0 DEF CreateEnqueueExpiry, ProcsTyped
  <2> QED BY <1>11, <1>0, <2>1, <2>2, OneMethodMoves DEF CreateEnqueueExpiry, ProcsTyped
<1>12. ASSUME NEW ok \in BOOLEAN, CreateEnqueueHold(p, ok)
      PROVE  ProcsTyped' /\ MethodsConsistent'
  <2>1. ProcsTyped'
    BY <1>12, <1>0 DEF CreateEnqueueHold, ProcsTyped, Task, Hold, SpotStatus
  <2>2. MethodConsistent(p)'
    BY <1>12, <1>0 DEF CreateEnqueueHold, ProcsTyped
  <2> QED BY <1>12, <1>0, <2>1, <2>2, OneMethodMoves DEF CreateEnqueueHold, ProcsTyped
<1>13. ASSUME NEW ok \in BOOLEAN, CreateRelease(p, ok)
      PROVE  ProcsTyped' /\ MethodsConsistent'
  BY <1>13, <1>0, ReturnPreserves DEF CreateRelease, ProcsTyped
<1> QED BY <1>1, <1>2, <1>3, <1>4, <1>5, <1>6, <1>7, <1>8, <1>9, <1>10, <1>11, <1>12,
          <1>13 DEF CreateStep

\* ConfirmReservation holds on to an existing row until it returns.
LEMMA ConfirmStepPreserves ==
    ASSUME IInv, RowsPersist, NEW p \in Procs, ConfirmStep(p)
    PROVE  ProcsTyped' /\ MethodsConsistent'
<1> USE NoneAssumption
    DEF At, Goto, MethodConsistent, PC, CreatePC, ConfirmPC, SessionPC, RowsPersist
<1>0. ProcsTyped /\ MethodConsistent(p) /\ RowsComplete /\ TablesTyped
  BY DEF IInv, TypeOK, ProcsTyped, TablesTyped, MethodsConsistent
<1>1. CASE ConfirmFail(p)
  BY <1>1, <1>0, ReturnPreserves DEF ConfirmFail, ProcsTyped
<1>2. CASE ConfirmCommit(p)
  <2>1. ProcsTyped'
    BY <1>2, <1>0 DEF ConfirmCommit, ProcsTyped
  <2>2. MethodConsistent(p)'
    BY <1>2, <1>0 DEF ConfirmCommit, ProcsTyped
  <2> QED BY <1>2, <1>0, <2>1, <2>2, OneMethodMoves DEF ConfirmCommit, ProcsTyped
<1>3. CASE ConfirmLost(p)
  <2>1. ProcsTyped'
    BY <1>3, <1>0 DEF ConfirmLost, ProcsTyped
  <2>2. MethodConsistent(p)'
    BY <1>3, <1>0 DEF ConfirmLost, ProcsTyped
  <2> QED BY <1>3, <1>0, <2>1, <2>2, OneMethodMoves DEF ConfirmLost, ProcsTyped
<1>4. CASE ConfirmRefund(p)
  BY <1>4, <1>0, ReturnPreserves DEF ConfirmRefund, ProcsTyped
<1>5. ASSUME NEW ok \in BOOLEAN, ConfirmStartBilling(p, ok)
      PROVE  ProcsTyped' /\ MethodsConsistent'
  <2>1. CASE ok
    <3>1. ProcsTyped' /\ MethodConsistent(p)'
      BY <1>5, <1>0, <2>1 DEF ConfirmStartBilling, ProcsTyped
    <3> QED BY <1>5, <1>0, <2>1, <3>1, OneMethodMoves DEF ConfirmStartBilling, ProcsTyped
  <2>2. CASE ~ok
    BY <1>5, <1>0, <2>2, ReturnPreserves DEF ConfirmStartBilling, ProcsTyped
  <2> QED BY <2>1, <2>2
<1>6. ASSUME NEW ok \in BOOLEAN, ConfirmPay(p, ok)
      PROVE  ProcsTyped' /\ MethodsConsistent'
  <2>1. ProcsTyped'
    BY <1>6, <1>0 DEF ConfirmPay, ProcsTyped
  <2>2. MethodConsistent(p)'
    BY <1>6, <1>0 DEF ConfirmPay, ProcsTyped
  <2> QED BY <1>6, <1>0, <2>1, <2>2, OneMethodMoves DEF ConfirmPay, ProcsTyped
<1>7. ASSUME NEW ok \in BOOLEAN, ConfirmCancelHold(p, ok)
      PROVE  ProcsTyped' /\ MethodsConsistent'
  BY <1>7, <1>0, ReturnPreserves DEF ConfirmCancelHold, ProcsTyped
<1> QED BY <1>1, <1>2, <1>3, <1>4, <1>5, <1>6, <1>7 DEF ConfirmStep

\* So do check-in, check-out and completion.
LEMMA SessionStepPreserves ==
    ASSUME IInv, RowsPersist, NEW p \in Procs, SessionStep(p)
    PROVE  ProcsTyped' /\ MethodsConsistent'
<1> USE NoneAssumption
    DEF At, Goto, MethodConsistent, PC, CreatePC, ConfirmPC, SessionPC, RowsPersist
<1>0. ProcsTyped /\ MethodConsistent(p) /\ RowsComplete /\ TablesTyped
  BY DEF IInv, TypeOK, ProcsTyped, TablesTyped, MethodsConsistent
<1>1. CASE CheckInActivateBilling(p)
  <2>1. ProcsTyped'
    BY <1>1, <1>0 DEF CheckInActivateBilling, ProcsTyped, ThenPublish, SpotStatus, TablesTyped
  <2>2. MethodConsistent(p)'
    BY <1>1, <1>0 DEF CheckInActivateBilling, ProcsTyped, ThenPublish, SpotStatus
  <2> QED BY <1>1, <1>0, <2>1, <2>2, OneMethodMoves DEF CheckInActivateBilling, ProcsTyped, ThenPublish, SpotStatus
<1>2. CASE CompleteCommit(p)
  <2>1. ProcsTyped'
    BY <1>2, <1>0 DEF CompleteCommit, ProcsTyped, ThenPublish, SpotStatus, TablesTyped
  <2>2. MethodConsistent(p)'
    BY <1>2, <1>0 DEF CompleteCommit, ProcsTyped, ThenPublish, SpotStatus
  <2> QED BY <1>2, <1>0, <2>1, <2>2, OneMethodMoves DEF CompleteCommit, ProcsTyped, ThenPublish, SpotStatus
<1>3. CASE CompleteLost(p)
  BY <1>3, <1>0, ReturnPreserves DEF CompleteLost, ProcsTyped
<1>4. ASSUME NEW ok \in BOOLEAN, CheckOutCalculateFee(p, ok)
      PROVE  ProcsTyped' /\ MethodsConsistent'
  <2>1. CASE ok
    <3>1. ProcsTyped' /\ MethodConsistent(p)'
      BY <1>4, <1>0, <2>1 DEF CheckOutCalculateFee, ProcsTyped
    <3> QED BY <1>4, <1>0, <2>1, <3>1, OneMethodMoves DEF CheckOutCalculateFee, ProcsTyped
  <2>2. CASE ~ok
    BY <1>4, <1>0, <2>2, ReturnPreserves DEF CheckOutCalculateFee, ProcsTyped
  <2> QED BY <2>1, <2>2
<1>5. ASSUME NEW ok \in BOOLEAN, CheckOutGenerateInvoice(p, ok)
      PROVE  ProcsTyped' /\ MethodsConsistent'
  BY <1>5, <1>0, ReturnPreserves DEF CheckOutGenerateInvoice, ProcsTyped
<1>6. ASSUME NEW ok \in BOOLEAN, CompleteInvoice(p, ok)
      PROVE  ProcsTyped' /\ MethodsConsistent'
  <2>1. CASE ok
    <3>1. ProcsTyped' /\ MethodConsistent(p)'
      BY <1>6, <1>0, <2>1 DEF CompleteInvoice, ProcsTyped
    <3> QED BY <1>6, <1>0, <2>1, <3>1, OneMethodMoves DEF CompleteInvoice, ProcsTyped
  <2>2. CASE ~ok
    BY <1>6, <1>0, <2>2, ReturnPreserves DEF CompleteInvoice, ProcsTyped
  <2> QED BY <2>1, <2>2
<1>7. ASSUME NEW ok \in BOOLEAN, CompletePay(p, ok)
      PROVE  ProcsTyped' /\ MethodsConsistent'
  <2>1. CASE ok
    <3>1. ProcsTyped' /\ MethodConsistent(p)'
      BY <1>7, <1>0, <2>1 DEF CompletePay, ProcsTyped
    <3> QED BY <1>7, <1>0, <2>1, <3>1, OneMethodMoves DEF CompletePay, ProcsTyped
  <2>2. CASE ~ok
    BY <1>7, <1>0, <2>2, ReturnPreserves DEF CompletePay, ProcsTyped
  <2> QED BY <2>1, <2>2
<1> QED BY <1>1, <1>2, <1>3, <1>4, <1>5, <1>6, <1>7 DEF SessionStep

\* An expiry frees the spot and goes on to publish it.
LEMMA ExpirePreserves ==
    ASSUME IInv, RowsPersist, NEW p \in Procs, NEW r \in Reservations,
           ExpireReservation(p, r), tasks' \subseteq Task
    PROVE  ProcsTyped' /\ MethodsConsistent'
<1> USE NoneAssumption
    DEF At, Goto, MethodConsistent, PC, CreatePC, ConfirmPC, SessionPC, RowsPersist
<1>0. ProcsTyped /\ MethodConsistent(p) /\ RowsComplete /\ TablesTyped
  BY DEF IInv, TypeOK, ProcsTyped, TablesTyped, MethodsConsistent
<1>1. ProcsTyped'
  BY <1>0 DEF ExpireReservation, ProcsTyped, ThenPublish, SpotStatus, TablesTyped
<1>2. MethodConsistent(p)'
  BY <1>0 DEF ExpireReservation, ProcsTyped, ThenPublish, SpotStatus
<1> QED BY <1>0, <1>1, <1>2, OneMethodMoves DEF ExpireReservation, ProcsTyped, ThenPublish, SpotStatus

\* A new call starts from an idle goroutine on an existing row.
LEMMA CallPreserves ==
    ASSUME IInv, RowsPersist, NEW p \in Procs, Call(p)
    PROVE  ProcsTyped' /\ MethodsConsistent'
<1> USE NoneAssumption
    DEF At, Goto, MethodConsistent, PC, CreatePC, ConfirmPC, SessionPC, RowsPersist
<1>0. ProcsTyped /\ MethodConsistent(p) /\ RowsComplete /\ TablesTyped
  BY DEF IInv, TypeOK, ProcsTyped, TablesTyped, MethodsConsistent
<1>1. ASSUME NEW q \in Requests, CreateBegin(p, q)
      PROVE  ProcsTyped' /\ MethodsConsistent'
  <2>1. ProcsTyped'
    BY <1>1, <1>0 DEF CreateBegin, ProcsTyped
  <2>2. MethodConsistent(p)'
    BY <1>1, <1>0 DEF CreateBegin, ProcsTyped
  <2> QED BY <1>1, <1>0, <2>1, <2>2, OneMethodMoves DEF CreateBegin, ProcsTyped
<1>2. ASSUME NEW r \in Reservations, ConfirmBegin(p, r)
      PROVE  ProcsTyped' /\ MethodsConsistent'
  <2>1. ProcsTyped'
    BY <1>2, <1>0 DEF ConfirmBegin, ProcsTyped
  <2>2. MethodConsistent(p)'
    BY <1>2, <1>0 DEF ConfirmBegin, ProcsTyped
  <2> QED BY <1>2, <1>0, <2>1, <2>2, OneMethodMoves DEF ConfirmBegin, ProcsTyped
<1>3. ASSUME NEW r \in Reservations, CancelReservation(p, r)
      PROVE  ProcsTyped' /\ MethodsConsistent'
  <2>1. ProcsTyped'
    BY <1>3, <1>0 DEF CancelReservation, ProcsTyped, ThenPublish, SpotStatus, TablesTyped
  <2>2. MethodConsistent(p)'
    BY <1>3, <1>0 DEF CancelReservation, ProcsTyped, ThenPublish, SpotStatus
  <2> QED BY <1>3, <1>0, <2>1, <2>2, OneMethodMoves DEF CancelReservation, ProcsTyped, ThenPublish, SpotStatus
<1>4. ASSUME NEW r \in Reservations, CheckIn(p, r)
      PROVE  ProcsTyped' /\ MethodsConsistent'
  <2>1. ProcsTyped'
    BY <1>4, <1>0 DEF CheckIn, ProcsTyped, ValidateTransition, allowedTransitions
  <2>2. MethodConsistent(p)'
    BY <1>4, <1>0 DEF CheckIn, ProcsTyped, ValidateTransition, allowedTransitions
  <2> QED BY <1>4, <1>0, <2>1, <2>2, OneMethodMoves DEF CheckIn, ProcsTyped, ValidateTransition, allowedTransitions
<1>5. ASSUME NEW r \in Reservations, CheckOut(p, r)
      PROVE  ProcsTyped' /\ MethodsConsistent'
  <2>1. ProcsTyped'
    BY <1>5, <1>0 DEF CheckOut, ProcsTyped, ValidateTransition, allowedTransitions
  <2>2. MethodConsistent(p)'
    BY <1>5, <1>0 DEF CheckOut, ProcsTyped, ValidateTransition, allowedTransitions
  <2> QED BY <1>5, <1>0, <2>1, <2>2, OneMethodMoves DEF CheckOut, ProcsTyped, ValidateTransition, allowedTransitions
<1>6. ASSUME NEW r \in Reservations, CompleteBegin(p, r)
      PROVE  ProcsTyped' /\ MethodsConsistent'
  <2>1. ProcsTyped'
    BY <1>6, <1>0 DEF CompleteBegin, ProcsTyped
  <2>2. MethodConsistent(p)'
    BY <1>6, <1>0 DEF CompleteBegin, ProcsTyped
  <2> QED BY <1>6, <1>0, <2>1, <2>2, OneMethodMoves DEF CompleteBegin, ProcsTyped
<1>7. ASSUME NEW r \in Reservations, ExpireCall(p, r)
      PROVE  ProcsTyped' /\ MethodsConsistent'
  <2>1. ExpireReservation(p, r) /\ tasks' \subseteq Task
    BY <1>7, <1>0 DEF ExpireCall, ProcsTyped, TablesTyped
  <2> QED BY <2>1, ExpirePreserves
<1> QED BY <1>1, <1>2, <1>3, <1>4, <1>5, <1>6, <1>7 DEF Call

\* A worker frees the spot and goes on to publish it.
LEMMA RunTaskPreserves ==
    ASSUME IInv, RowsPersist, NEW p \in Procs, NEW r \in Reservations, RunTask(p, r)
    PROVE  ProcsTyped' /\ MethodsConsistent'
<1> USE NoneAssumption
    DEF At, Goto, MethodConsistent, PC, CreatePC, ConfirmPC, SessionPC, RowsPersist
<1>0. ProcsTyped /\ MethodConsistent(p) /\ RowsComplete /\ TablesTyped
  BY DEF IInv, TypeOK, ProcsTyped, TablesTyped, MethodsConsistent
<1>1. CASE ExpiryTask(p, r)
  <2>1. ExpireReservation(p, r) /\ tasks' \subseteq Task
    BY <1>1, <1>0 DEF ExpiryTask, Acked, ProcsTyped, TablesTyped
  <2> QED BY <2>1, ExpirePreserves
<1>2. CASE FailReservation(p, r)
  <2>1. ProcsTyped'
    BY <1>2, <1>0 DEF FailReservation, ProcsTyped, ThenPublish, SpotStatus, Acked, TablesTyped
  <2>2. MethodConsistent(p)'
    BY <1>2, <1>0 DEF FailReservation, ProcsTyped, ThenPublish, SpotStatus, Acked
  <2> QED BY <1>2, <1>0, <2>1, <2>2, OneMethodMoves DEF FailReservation, ProcsTyped, ThenPublish, SpotStatus, Acked
<1> QED BY <1>1, <1>2 DEF RunTask

------------------------------------------------------------------------------
(* The theorems                                                            *)

LEMMA InitEstablishes == Init => IInv
<1> SUFFICES ASSUME Init PROVE IInv
  OBVIOUS
<1> USE NoneAssumption DEF Init
<1>1. TypeOK
  BY DEF TypeOK, SpotStatus, PC, RowStatus
<1>2. RowsComplete /\ OneActivePerDriver /\ SpotMatchesReservations
  BY DEF RowsComplete, OneActivePerDriver, SpotMatchesReservations, Live,
         ActiveStatus, HoldingStatus, ReservingStatus, OccupyingStatus
<1>3. MethodsConsistent
  BY DEF MethodsConsistent, MethodConsistent, CreatePC, ConfirmPC, SessionPC
<1>4. SameKeySameReservation
  BY DEF SameKeySameReservation, At
<1> QED BY <1>1, <1>2, <1>3, <1>4 DEF IInv

LEMMA NextPreserves == IInv /\ [Next]_vars => IInv'
<1> SUFFICES ASSUME IInv, [Next]_vars PROVE IInv'
  OBVIOUS
<1>1. TablesTyped' /\ RowsPersist
  BY DatabaseStep, TypesPreserved
<1>2. RowsComplete' /\ OneRowPerKey' /\ OneActivePerDriver' /\ SpotMatchesReservations'
  BY DatabaseStep, RowsPreserved, SpotsPreserved
<1>3. ProcsTyped' /\ MethodsConsistent'
  <2>0. ProcsTyped /\ MethodsConsistent
    BY DEF IInv, TypeOK, ProcsTyped
  <2>1. CASE UNCHANGED vars
    BY <2>0, <2>1 DEF vars, dbVars, procVars, ProcsTyped, MethodsConsistent, MethodConsistent
  <2>2. ASSUME NEW p \in Handlers, Call(p)
        PROVE  ProcsTyped' /\ MethodsConsistent'
    BY <1>1, <2>2, CallPreserves DEF Procs
  <2>3. ASSUME NEW p \in Workers, NEW r \in Reservations, RunTask(p, r)
        PROVE  ProcsTyped' /\ MethodsConsistent'
    BY <1>1, <2>3, RunTaskPreserves DEF Procs
  <2>4. ASSUME NEW p \in Procs, CreateStep(p) \/ ConfirmStep(p) \/ SessionStep(p)
        PROVE  ProcsTyped' /\ MethodsConsistent'
    BY <1>1, <2>4, CreateStepPreserves, ConfirmStepPreserves, SessionStepPreserves
  <2>5. ASSUME NEW p \in Procs, Publish(p) \/ Abandon(p)
        PROVE  ProcsTyped' /\ MethodsConsistent'
    BY <1>1, <2>0, <2>5, ReturnPreserves DEF Publish, Abandon, ProcsTyped
  <2>6. ASSUME NEW t \in Task, ArchiveTask(t)
        PROVE  ProcsTyped' /\ MethodsConsistent'
    BY <2>0, <2>6 DEF ArchiveTask, procVars, dbVars, ProcsTyped, MethodsConsistent,
                      MethodConsistent
  <2>7. ASSUME NEW s \in Spots, LockTTL(s)
        PROVE  ProcsTyped' /\ MethodsConsistent'
    BY <2>0, <2>7 DEF LockTTL, procVars, dbVars, ProcsTyped, MethodsConsistent,
                      MethodConsistent
  <2> QED BY <2>1, <2>2, <2>3, <2>4, <2>5, <2>6, <2>7 DEF Next, Continue
<1>4. TypeOK'
  BY <1>1, <1>3 DEF TypeOK, TablesTyped, ProcsTyped
<1>5. SameKeySameReservation'
  BY <1>2, <1>3 DEF SameKeySameReservation, OneRowPerKey, MethodsConsistent,
                    MethodConsistent, At, CreatePC
<1> QED BY <1>2, <1>3, <1>4, <1>5 DEF IInv

\* The inductive invariant: the shape of every variable, complete rows, methods
\* that work on existing rows of their own request, and the table properties.
THEOREM Invariance == Spec => []IInv
BY InitEstablishes, NextPreserves, PTL DEF Spec

\* Rows, locks, tasks and the local variables of every goroutine keep their types,
\* through crashes, expired locks and tasks that run twice.
THEOREM TypesHold == Spec => []TypeOK
<1>1. IInv => TypeOK
  BY DEF IInv
<1> QED BY <1>1, Invariance, PTL

\* No spot is ever held by two reservations and parking_spots.status always
\* tells the truth, for any number of handlers, crashes and expired locks.
THEOREM SpotsAreTruthful == Spec => []SpotMatchesReservations
<1>1. IInv => SpotMatchesReservations
  BY DEF IInv
<1> QED BY <1>1, Invariance, PTL

\* A driver never has two reservations between creation and check-out.
THEOREM DriversHaveOneReservation == Spec => []OneActivePerDriver
<1>1. IInv => OneActivePerDriver
  BY DEF IInv
<1> QED BY <1>1, Invariance, PTL

\* A key never creates two reservations, nor is answered with another key's.
THEOREM CreationIsIdempotent == Spec => []SameKeySameReservation
<1>1. IInv => SameKeySameReservation
  BY DEF IInv
<1> QED BY <1>1, Invariance, PTL

\* No step of any method takes a reservation along a forbidden transition.
THEOREM LifecycleIsFollowed == Spec => LifecycleFollowed
<1>1. IInv /\ [Next]_vars => [LifecycleStep]_vars
  <2> SUFFICES ASSUME IInv, [Next]_vars PROVE LifecycleStep
    OBVIOUS
  <2>0. TablesTyped
    BY DEF IInv, TypeOK, TablesTyped
  <2>1. CASE UNCHANGED dbVars
    BY <2>1 DEF dbVars, LifecycleStep
  <2>2. ASSUME NEW r \in Reservations, NEW s \in Spots, NEW d \in Drivers, NEW k \in Keys,
               Inserted(r, s, d, k)
        PROVE  LifecycleStep
    BY <2>0, <2>2 DEF Inserted, LifecycleStep, TablesTyped
  <2>3. ASSUME NEW r \in Reservations, NEW to \in RowStatus,
               Confirmed(r) \/ CheckedIn(r) \/ CheckedOut(r) \/ Freed(r, to)
        PROVE  LifecycleStep
    BY <2>0, <2>3, Transitions
       DEF Confirmed, CheckedIn, CheckedOut, Freed, LifecycleStep, TablesTyped
  <2> QED BY <2>1, <2>2, <2>3, DatabaseStep DEF DatabaseMoves, RowStatus
<1> QED BY <1>1, Invariance, PTL DEF Spec, LifecycleFollowed

------------------------------------------------------------------------------
(* Refinement of SpotInventory                                             *)

HeldBy(s)  == {r \in Reservations : Live(r) /\ spotOf[r] = s}
HeldMap    == [s \in Spots |-> HeldBy(s)]
UsedSet    == {r \in Reservations : status[r] # "absent"}

\* An insert takes the spot, a check-in occupies it, a release frees it, and
\* nothing else can be seen from the car park.
LEMMA InventoryStep ==
    ASSUME IInv, [Next]_vars
    PROVE  [Inventory!Next]_(Inventory!vars)
<1> USE DEF Inventory!vars, Inventory!Next, Live, HoldingStatus, ReservingStatus, OccupyingStatus
<1>0. TablesTyped /\ RowsComplete /\ SpotMatchesReservations
  BY DEF IInv, TypeOK, TablesTyped
<1> USE NoneAssumption DEF TablesTyped
<1>1. CASE UNCHANGED dbVars
  BY <1>1 DEF dbVars
<1>2. ASSUME NEW r \in Reservations, NEW s \in Spots, NEW d \in Drivers, NEW k \in Keys,
             Inserted(r, s, d, k)
      PROVE  Inventory!Take(s, r)
  <2>1. HeldBy(s) = {}
    BY <1>0, <1>2 DEF Inserted, SpotMatchesReservations, HeldBy
  <2>2. HeldMap' = [HeldMap EXCEPT ![s] = {r}]
    <3>1. \A x \in Spots : HeldBy(x)' = IF x = s THEN {r} ELSE HeldBy(x)
      BY <1>0, <1>2, <2>1 DEF Inserted, RowsComplete, HeldBy
    <3> QED BY <3>1 DEF HeldMap
  <2>3. UsedSet' = UsedSet \cup {r} /\ r \notin UsedSet
    BY <1>0, <1>2 DEF Inserted, UsedSet
  <2> QED BY <1>2, <2>1, <2>2, <2>3 DEF Inserted, Inventory!Take, HeldMap, HeldBy, UsedSet
<1>3. ASSUME NEW r \in Reservations, NEW to \in RowStatus,
             Confirmed(r) \/ CheckedIn(r) \/ CheckedOut(r) \/ Freed(r, to)
      PROVE  UsedSet' = UsedSet /\ Live(r) /\ spotOf[r] \in Spots
  BY <1>0, <1>3, Transitions
     DEF Confirmed, CheckedIn, CheckedOut, Freed, RowStatus, UsedSet, RowsComplete
<1>4. ASSUME NEW r \in Reservations, Confirmed(r) \/ CheckedIn(r) \/ CheckedOut(r)
      PROVE  HeldMap' = HeldMap
  <2>1. \A x \in Spots : HeldBy(x)' = HeldBy(x)
    BY <1>0, <1>4 DEF Confirmed, CheckedIn, CheckedOut, RowUnchanged, HeldBy
  <2> QED BY <2>1 DEF HeldMap
<1>5. ASSUME NEW r \in Reservations, Confirmed(r) \/ CheckedOut(r)
      PROVE  UNCHANGED Inventory!vars
  BY <1>3, <1>4, <1>5 DEF Confirmed, CheckedOut, HeldMap, HeldBy, UsedSet, RowStatus
<1>6. ASSUME NEW r \in Reservations, NEW s \in Spots, s = spotOf[r], CheckedIn(r)
      PROVE  Inventory!Occupy(s)
  <2>1. HeldBy(s) # {} /\ spot[s] = "reserved"
    BY <1>0, <1>6 DEF CheckedIn, HeldBy, SpotMatchesReservations, RowsComplete
  <2> QED BY <1>3, <1>4, <1>6, <2>1
          DEF CheckedIn, SetSpot, Inventory!Occupy, HeldMap, HeldBy, UsedSet, RowStatus
<1>7. ASSUME NEW r \in Reservations, NEW to \in RowStatus,
             NEW s \in Spots, s = spotOf[r], Freed(r, to)
      PROVE  Inventory!Release(s)
  <2>1. HeldBy(s) = {r}
    BY <1>0, <1>3, <1>7 DEF HeldBy, SpotMatchesReservations
  <2>2. HeldMap' = [HeldMap EXCEPT ![s] = {}]
    <3>1. \A x \in Spots : HeldBy(x)' = IF x = s THEN {} ELSE HeldBy(x)
      BY <1>0, <1>7, <2>1 DEF Freed, RowUnchanged, HeldBy
    <3> QED BY <3>1 DEF HeldMap
  <2> QED BY <1>3, <1>7, <2>1, <2>2
          DEF Freed, SetSpot, Inventory!Release, HeldMap, HeldBy, UsedSet
<1>8. CASE \E r \in Reservations, to \in RowStatus :
             Confirmed(r) \/ CheckedIn(r) \/ CheckedOut(r) \/ Freed(r, to)
  <2>1. PICK r \in Reservations, to \in RowStatus :
             Confirmed(r) \/ CheckedIn(r) \/ CheckedOut(r) \/ Freed(r, to)
    BY <1>8
  <2>2. PICK s \in Spots : s = spotOf[r]
    BY <1>3, <2>1
  <2>3. CASE Confirmed(r) \/ CheckedOut(r)
    BY <1>5, <2>3
  <2>4. CASE CheckedIn(r)
    BY <1>6, <2>2, <2>4
  <2>5. CASE Freed(r, to)
    BY <1>7, <2>2, <2>5
  <2> QED BY <2>1, <2>3, <2>4, <2>5
<1>9. CASE \E r \in Reservations, s \in Spots, d \in Drivers, k \in Keys :
             Inserted(r, s, d, k)
  BY <1>2, <1>9
<1>10. DatabaseMoves
  BY DatabaseStep
<1>11. {"confirmed", "checked_in"} \subseteq RowStatus
  BY DEF RowStatus
<1> QED
  <2> HIDE DEF Inventory!Next, Inventory!vars
  <2> QED BY <1>1, <1>8, <1>9, <1>10, <1>11 DEF DatabaseMoves

\* The service implements the abstract car park.
THEOREM ImplementsInventory == Spec => InventorySpec
<1>1. Init => Inventory!Init
  BY DEF Init, Inventory!Init, Live, HoldingStatus, ReservingStatus, OccupyingStatus
<1>2. IInv /\ [Next]_vars => [Inventory!Next]_(Inventory!vars)
  BY InventoryStep
<1> QED BY <1>1, <1>2, Invariance, PTL DEF Spec, InventorySpec, Inventory!Spec

==============================================================================

---------------------------- MODULE Billing_proofs ---------------------------
(***************************************************************************)
(* Proofs about Billing for any number of reservations and handlers and any*)
(* fees.                                                                   *)
(***************************************************************************)
EXTENDS Billing, TLAPS

ProcsTyped == /\ pc    \in [Handlers -> PC]
              /\ res   \in [Handlers -> Reservations \cup {None}]
              /\ copy  \in [Handlers -> Record \cup {None}]
              /\ DOMAIN fee = Handlers
              /\ \A p \in Handlers : /\ At(p, "insert") => fee[p] \in [booking : BookingFees]
                                     /\ At(p, "calculate") => fee[p] \in SessionFees
              /\ tries \in [Handlers -> 0..MaxRetries]

\* A row is inserted, or replaced by one with the next version.
Inserts(r, new)  == /\ record[r] = None
                    /\ new \in Record
                    /\ record' = [record EXCEPT ![r] = new]
Replaces(r, new) == /\ record[r] # None
                    /\ new \in Record
                    /\ new.version = record[r].version + 1
                    /\ record' = [record EXCEPT ![r] = new]
RecordMoves == \/ UNCHANGED record
               \/ \E r \in Reservations, new \in Record : Inserts(r, new) \/ Replaces(r, new)

OnlyMoves(p) == \A q \in Handlers \ {p} : pc'[q] = pc[q] /\ res'[q] = res[q] /\ copy'[q] = copy[q]

\* The rows the writers build have the shape of a row.
LEMMA NewRecordTyped ==
    ASSUME NEW f \in BookingFees
    PROVE  NewRecord(f) \in Record /\ NewRecord(f) # None
<1>1. f \in Nat /\ CalculateTotal(f, 0, 0) \in Nat
  BY BookingFeesAssumption DEF CalculateTotal
<1>2. NewRecord(f) \in Record
  BY <1>1 DEF NewRecord, Record, BillingStatus
<1> QED BY <1>2, NoneAssumption

NextVersion(rec) == [rec EXCEPT !.version = @ + 1]

LEMMA NextVersionTyped ==
    ASSUME NEW rec \in Record
    PROVE  /\ NextVersion(rec) \in Record
           /\ NextVersion(rec).version = rec.version + 1
           /\ NextVersion(rec).status = rec.status
           /\ NextVersion(rec).booking = rec.booking
<1>1. rec.version + 1 \in Nat
  BY DEF Record
<1>2. PICK v \in Nat : v = rec.version + 1
  BY <1>1
<1>3. [rec EXCEPT !.version = v] \in Record
  BY DEF Record
<1>4. NextVersion(rec) = [rec EXCEPT !.version = v]
  BY <1>2 DEF NextVersion
<1>5. /\ [rec EXCEPT !.version = v].version = v
      /\ [rec EXCEPT !.version = v].status = rec.status
      /\ [rec EXCEPT !.version = v].booking = rec.booking
  BY DEF Record
<1> QED BY <1>2, <1>3, <1>4, <1>5

LEMMA CalculatedTyped ==
    ASSUME NEW rec \in Record, NEW f \in SessionFees
    PROVE  /\ Calculated(rec, f) \in Record
           /\ Calculated(rec, f).version = rec.version
           /\ Calculated(rec, f).status = "calculated"
           /\ Calculated(rec, f).booking = rec.booking
<1>0. PICK n \in BOOLEAN : n = (f.overnight > 0)
  <2>1. (f.overnight > 0) \in BOOLEAN
    OBVIOUS
  <2> QED BY <2>1, Zenon
<1>1. PICK a \in Nat, b \in Nat, c \in Nat :
         /\ a = f.parking /\ b = f.overnight
         /\ c = CalculateTotal(rec.booking, f.parking, f.overnight)
  <2>1. f.parking \in Nat /\ f.overnight \in Nat /\ rec.booking \in Nat
    BY SessionFeesAssumption DEF Record
  <2>2. CalculateTotal(rec.booking, f.parking, f.overnight) \in Nat
    BY <2>1 DEF CalculateTotal
  <2> QED BY <2>1, <2>2
<1> DEFINE new == [rec EXCEPT !.status = "calculated", !.parking = a,
                              !.overnight = b, !.night = n, !.total = c]
<1>2. new \in Record
  BY DEF Record, BillingStatus
<1>3. new.version = rec.version /\ new.status = "calculated" /\ new.booking = rec.booking
  BY DEF Record
<1>4. Calculated(rec, f) = new
  BY <1>0, <1>1, Zenon DEF Calculated
<1> QED BY <1>2, <1>3, <1>4

LEMMA InvoicedTyped ==
    ASSUME NEW rec \in Record
    PROVE  /\ Invoiced(rec) \in Record
           /\ Invoiced(rec).version = rec.version
           /\ Invoiced(rec).status = "invoiced"
           /\ Invoiced(rec).booking = rec.booking
BY DEF Record, Invoiced, BillingStatus

LEMMA WithOvernightTyped ==
    ASSUME NEW rec \in Record
    PROVE  /\ WithOvernight(rec) \in Record
           /\ WithOvernight(rec).version = rec.version
           /\ WithOvernight(rec).status = rec.status
           /\ WithOvernight(rec).booking = rec.booking
<1>1. PICK b \in Nat, c \in Nat :
         /\ b = OvernightPerNight
         /\ c = CalculateTotal(rec.booking, rec.parking, OvernightPerNight)
  <2>1. rec.booking \in Nat /\ rec.parking \in Nat
    BY DEF Record
  <2>2. CalculateTotal(rec.booking, rec.parking, OvernightPerNight) \in Nat
    BY <2>1, OvernightAssumption DEF CalculateTotal
  <2> QED BY <2>2, OvernightAssumption
<1> DEFINE new == [rec EXCEPT !.overnight = b, !.night = TRUE, !.total = c]
<1>2. new \in Record
  BY DEF Record
<1>3. new.version = rec.version /\ new.status = rec.status /\ new.booking = rec.booking
  BY DEF Record
<1>4. WithOvernight(rec) = new
  BY <1>1, Zenon DEF WithOvernight
<1> QED BY <1>2, <1>3, <1>4

\* What one handler does to the table leaves the copies of the others versions.
LEMMA Undisturbed ==
    ASSUME IInv, RecordMoves, NEW p \in Handlers, OnlyMoves(p), CopyIsVersion(p)'
    PROVE  CopiesAreVersions'
<1>1. ASSUME NEW q \in Handlers \ {p}
      PROVE  CopyIsVersion(q)'
  <2>0. /\ CopyIsVersion(q) /\ TypeOK
        /\ pc'[q] = pc[q] /\ res'[q] = res[q] /\ copy'[q] = copy[q]
    BY DEF IInv, CopiesAreVersions, OnlyMoves
  <2>1. CASE UNCHANGED record
    BY <2>0, <2>1 DEF CopyIsVersion, Current, At
  <2>2. ASSUME NEW r \in Reservations, NEW new \in Record, Inserts(r, new)
        PROVE  CopyIsVersion(q)'
    BY <2>0, <2>2, NoneAssumption DEF Inserts, CopyIsVersion, Current, At, TypeOK
  <2>3. ASSUME NEW r \in Reservations, NEW new \in Record, Replaces(r, new)
        PROVE  CopyIsVersion(q)'
    <3>1. record[r] \in Record /\ (copy[q] # None => copy[q] \in Record)
      BY <2>0, <2>3 DEF TypeOK, Replaces
    <3>2. record[r].version \in Nat /\ (copy[q] # None => copy[q].version \in Nat)
      BY <3>1 DEF Record
    <3> QED BY <2>0, <2>3, <3>2, NoneAssumption DEF Replaces, CopyIsVersion, Current, At, TypeOK
  <2> QED BY <2>1, <2>2, <2>3 DEF RecordMoves
<1> QED BY <1>1 DEF CopiesAreVersions

LEMMA Returns ==
    ASSUME IInv, NEW p \in Handlers, Return(p)
    PROVE  ProcsTyped' /\ OnlyMoves(p) /\ CopyIsVersion(p)' /\ pc'[p] = "idle"
BY NoneAssumption
   DEF IInv, TypeOK, Return, Goto, ProcsTyped, OnlyMoves, CopyIsVersion, At, PC, MaxRetries


\* What handler p may make of an existing row.
Legal(p, old, new) ==
    /\ new # None
    /\ new.booking = old.booking
    /\ \/ new.status = old.status
       \/ old.status = "pending" /\ new.status = "calculated"
       \/ old.status = "calculated" /\ new.status = "invoiced"
    /\ old.status = "invoiced" =>
          ~old.night /\ At(p, "overnight") /\ new = NextVersion(WithOvernight(old))

\* One step of handler p: it types, moves the table legally and only ever
\* replaces the row p has read.
Good(p) ==
    /\ ProcsTyped' /\ OnlyMoves(p) /\ CopyIsVersion(p)' /\ RecordMoves
    /\ \A r \in Reservations :
          record[r] # None /\ record'[r] # record[r] =>
              /\ res[p] = r /\ copy[p] = record[r]
              /\ Legal(p, record[r], record'[r])

LEMMA Writes ==
    ASSUME IInv, NEW p \in Handlers, copy[p] # None, Return(p), NEW new \in Record,
           UpdateBillingRecord(p, new), new.version = copy[p].version,
           Legal(p, copy[p], NextVersion(new))
    PROVE  Good(p)
<1>1. /\ res[p] \in Reservations /\ record[res[p]] # None /\ copy[p] = record[res[p]]
      /\ record' = [record EXCEPT ![res[p]] = NextVersion(new)]
  BY DEF IInv, CopiesAreVersions, CopyIsVersion, UpdateBillingRecord, NextVersion
<1>2. NextVersion(new) \in Record /\ NextVersion(new).version = record[res[p]].version + 1
  BY <1>1, NextVersionTyped
<1>3. RecordMoves
  BY <1>1, <1>2 DEF RecordMoves, Replaces
<1>4. record \in [Reservations -> Record \cup {None}]
  BY DEF IInv, TypeOK
<1>5. \A r \in Reservations :
          record[r] # None /\ record'[r] # record[r] =>
              r = res[p] /\ record'[r] = NextVersion(new)
  BY <1>1, <1>4
<1> QED BY <1>1, <1>3, <1>5, Returns DEF Good

LEMMA Keeps ==
    ASSUME IInv, NEW p \in Handlers, UNCHANGED record,
           ProcsTyped', OnlyMoves(p), CopyIsVersion(p)'
    PROVE  Good(p)
BY DEF Good, RecordMoves

LEMMA ReturnsUnchanged ==
    ASSUME IInv, NEW p \in Handlers, Return(p), UNCHANGED record
    PROVE  Good(p)
BY Returns, Keeps

LEMMA Reads ==
    ASSUME IInv, NEW p \in Handlers, NEW r \in Reservations, NEW f,
           NEW l \in {"calculate", "invoice", "overnight"}, Read(p, r, f, l),
           l = "calculate" => f \in SessionFees /\ record[r].status = "pending",
           l = "invoice" => record[r].status = "calculated",
           l = "overnight" => ~record[r].night
    PROVE  Good(p)
<1>1. record[r] \in Record /\ record[r].version \in Nat
  BY DEF IInv, TypeOK, Read, Record
<1>2. ProcsTyped' /\ OnlyMoves(p)
  BY <1>1 DEF IInv, TypeOK, Read, Goto, ProcsTyped, OnlyMoves, At, PC
<1>3. pc'[p] = l /\ res'[p] = r /\ copy'[p] = record[r] /\ record' = record
  BY DEF IInv, TypeOK, Read, Goto
<1>4. CopyIsVersion(p)'
  BY <1>1, <1>3, NoneAssumption DEF CopyIsVersion, Current, At, PC, Read
<1> QED BY <1>2, <1>3, <1>4, Keeps

LEMMA Retries ==
    ASSUME IInv, NEW p \in Handlers, NEW may \in BOOLEAN, RetryOrReturn(p, may),
           pc[p] \in {"calculate", "overnight"},
           may /\ At(p, "calculate") => record[res[p]].status = "pending",
           may /\ At(p, "overnight") => ~record[res[p]].night
    PROVE  Good(p)
<1>1. CASE Return(p)
  BY <1>1, ReturnsUnchanged DEF RetryOrReturn
<1>2. CASE /\ tries[p] < MaxRetries /\ may
           /\ copy'  = [copy EXCEPT ![p] = record[res[p]]]
           /\ tries' = [tries EXCEPT ![p] = @ + 1]
           /\ UNCHANGED <<pc, res, fee>>
  <2>1. /\ res[p] \in Reservations /\ copy[p] # None /\ record[res[p]] # None
        /\ record' = record /\ record[res[p]] \in Record
    BY DEF IInv, TypeOK, CopiesAreVersions, CopyIsVersion, PC, RetryOrReturn
  <2>2. record[res[p]].version \in Nat
    BY <2>1 DEF Record
  <2>3. ProcsTyped' /\ OnlyMoves(p)
    BY <1>2, <2>1 DEF IInv, TypeOK, ProcsTyped, OnlyMoves, At, MaxRetries
  <2>4. pc'[p] = pc[p] /\ res'[p] = res[p] /\ copy'[p] = record[res[p]]
    BY <1>2 DEF IInv, TypeOK
  <2>5. CopyIsVersion(p)'
    BY <1>2, <2>1, <2>2, <2>4 DEF IInv, CopiesAreVersions, CopyIsVersion, Current, At, PC
  <2> QED BY <2>1, <2>3, <2>5, Keeps
<1> QED BY <1>1, <1>2 DEF RetryOrReturn

LEMMA StartBillingIsGood ==
    ASSUME IInv, NEW p \in Handlers, NEW r \in Reservations, NEW f \in BookingFees,
           StartBilling(p, r, f)
    PROVE  Good(p)
<1>1. ProcsTyped' /\ OnlyMoves(p) /\ UNCHANGED record
  BY DEF IInv, TypeOK, StartBilling, Goto, ProcsTyped, OnlyMoves, At, PC
<1>2. pc'[p] = "insert" /\ res'[p] = r /\ copy' = copy /\ pc[p] = "idle"
  BY DEF IInv, TypeOK, StartBilling, Goto, At
<1>3. record[r] = None /\ (copy[p] # None => res[p] \in Reservations)
  BY DEF StartBilling, IInv, CopiesAreVersions, CopyIsVersion
<1>4. copy[p] = None
  BY <1>2 DEF IInv, CopiesAreVersions, CopyIsVersion, At
<1>5. CopyIsVersion(p)'
  BY <1>1, <1>2, <1>4 DEF CopyIsVersion, At
<1> QED BY <1>1, <1>5, Keeps

LEMMA CreateIsGood ==
    ASSUME IInv, NEW p \in Handlers, CreateBillingRecord(p)
    PROVE  Good(p)
<1>1. /\ res[p] \in Reservations /\ fee[p] \in [booking : BookingFees] /\ record[res[p]] = None
      /\ record' = [record EXCEPT ![res[p]] = NewRecord(fee[p].booking)]
      /\ record \in [Reservations -> Record \cup {None}]
  BY DEF IInv, TypeOK, CreateBillingRecord, CopiesAreVersions, CopyIsVersion, At
<1>2. NewRecord(fee[p].booking) \in Record
  BY <1>1, NewRecordTyped
<1>3. RecordMoves
  BY <1>1, <1>2 DEF RecordMoves, Inserts
<1>4. \A r \in Reservations : record[r] # None => record'[r] = record[r]
  BY <1>1
<1> QED BY <1>3, <1>4, Returns DEF Good, CreateBillingRecord

\* Every step of a handler is good.
LEMMA StepsAreGood ==
    ASSUME IInv, NEW p \in Handlers, Call(p) \/ Continue(p) \/ Abandon(p)
    PROVE  Good(p)
<1>1. ASSUME NEW r \in Reservations, NEW f \in BookingFees, StartBilling(p, r, f)
      PROVE  Good(p)
  BY <1>1, StartBillingIsGood
<1>2. ASSUME NEW r \in Reservations, NEW f \in SessionFees, CalculateFee(p, r, f)
      PROVE  Good(p)
  BY <1>2, Reads DEF CalculateFee, CanCalculate
<1>3. ASSUME NEW r \in Reservations, GenerateInvoice(p, r)
      PROVE  Good(p)
  BY <1>3, Reads DEF GenerateInvoice
<1>4. ASSUME NEW r \in Reservations, ApplyOvernightFee(p, r)
      PROVE  Good(p)
  BY <1>4, Reads DEF ApplyOvernightFee
<1>5. ASSUME CreateBillingRecord(p)
      PROVE  Good(p)
  BY <1>5, CreateIsGood
<1>6. ASSUME copy[p] # None
      PROVE  /\ copy[p] \in Record /\ copy[p].version \in Nat
             /\ NextVersion(copy[p]) \in Record
  BY <1>6, NextVersionTyped DEF IInv, TypeOK, Record
<1>7. ASSUME CalculateWrite(p)
      PROVE  Good(p)
  <2>1. copy[p] # None /\ copy[p].status = "pending" /\ fee[p] \in SessionFees
    BY <1>7 DEF CalculateWrite, IInv, TypeOK, CopiesAreVersions, CopyIsVersion, At, PC
  <2> DEFINE new == Calculated(copy[p], fee[p])
  <2>2. /\ new \in Record /\ new.version = copy[p].version
        /\ new.status = "calculated" /\ new.booking = copy[p].booking
    BY <1>6, <2>1, CalculatedTyped
  <2>3. /\ NextVersion(new) \in Record
        /\ NextVersion(new).status = "calculated" /\ NextVersion(new).booking = copy[p].booking
    BY <2>2, NextVersionTyped
  <2>4. Legal(p, copy[p], NextVersion(new))
    BY <2>1, <2>3, NoneAssumption DEF Legal
  <2> QED BY <1>7, <2>1, <2>2, <2>4, Writes DEF CalculateWrite
<1>8. ASSUME InvoiceWrite(p)
      PROVE  Good(p)
  <2>1. copy[p] # None /\ copy[p].status = "calculated"
    BY <1>8 DEF InvoiceWrite, IInv, CopiesAreVersions, CopyIsVersion, At, PC
  <2> DEFINE new == Invoiced(copy[p])
  <2>2. /\ new \in Record /\ new.version = copy[p].version
        /\ new.status = "invoiced" /\ new.booking = copy[p].booking
    BY <1>6, <2>1, InvoicedTyped
  <2>3. /\ NextVersion(new) \in Record
        /\ NextVersion(new).status = "invoiced" /\ NextVersion(new).booking = copy[p].booking
    BY <2>2, NextVersionTyped
  <2>4. Legal(p, copy[p], NextVersion(new))
    BY <2>1, <2>3, NoneAssumption DEF Legal
  <2> QED BY <1>8, <2>1, <2>2, <2>4, Writes DEF InvoiceWrite
<1>9. ASSUME OvernightWrite(p)
      PROVE  Good(p)
  <2>1. copy[p] # None /\ ~copy[p].night /\ At(p, "overnight")
    BY <1>9 DEF OvernightWrite, IInv, CopiesAreVersions, CopyIsVersion, At, PC
  <2> DEFINE new == WithOvernight(copy[p])
  <2>2. /\ new \in Record /\ new.version = copy[p].version
        /\ new.status = copy[p].status /\ new.booking = copy[p].booking
    BY <1>6, <2>1, WithOvernightTyped
  <2>3. /\ NextVersion(new) \in Record
        /\ NextVersion(new).status = copy[p].status /\ NextVersion(new).booking = copy[p].booking
        /\ NextVersion(new) = NextVersion(WithOvernight(copy[p]))
    BY <2>2, NextVersionTyped
  <2>4. Legal(p, copy[p], NextVersion(new))
    BY <2>1, <2>3, NoneAssumption DEF Legal
  <2> QED BY <1>9, <2>1, <2>2, <2>4, Writes DEF OvernightWrite
<1>10. ASSUME CalculateRetry(p)
       PROVE  Good(p)
  <2>1. /\ pc[p] = "calculate" /\ RetryOrReturn(p, record[res[p]].status = "pending")
        /\ ~At(p, "overnight")
    BY <1>10 DEF CalculateRetry, CanCalculate, At
  <2> QED BY <2>1, Retries
<1>11. ASSUME OvernightRetry(p)
       PROVE  Good(p)
  <2>1. /\ pc[p] = "overnight" /\ RetryOrReturn(p, ~record[res[p]].night)
        /\ ~At(p, "calculate")
    BY <1>11 DEF OvernightRetry, At
  <2>2. (~record[res[p]].night) \in BOOLEAN
    OBVIOUS
  <2> QED BY <2>1, <2>2, Retries
<1>12. ASSUME CreateConflict(p) \/ InvoiceConflict(p) \/ Abandon(p)
       PROVE  Good(p)
  BY <1>12, ReturnsUnchanged DEF CreateConflict, InvoiceConflict, Abandon
<1> QED BY <1>1, <1>2, <1>3, <1>4, <1>5, <1>7, <1>8, <1>9, <1>10, <1>11, <1>12
        DEF Call, Continue, Write

\* Every state has typed rows and copies, and a version names one content of a
\* row: the guarantee of the WHERE ... AND version = ? of UpdateBillingRecord.
THEOREM Invariance == Spec => []IInv
<1>1. Init => IInv
  BY NoneAssumption DEF Init, IInv, TypeOK, CopiesAreVersions, CopyIsVersion, At, PC, MaxRetries
<1>2. ASSUME IInv, NEW p \in Handlers, Good(p)
      PROVE  IInv'
  <2>1. CopiesAreVersions'
    BY <1>2, Undisturbed DEF Good
  <2>2. record' \in [Reservations -> Record \cup {None}]
    BY <1>2 DEF Good, RecordMoves, Inserts, Replaces, IInv, TypeOK
  <2>3. TypeOK'
    BY <1>2, <2>2 DEF Good, ProcsTyped, TypeOK
  <2> QED BY <2>1, <2>3 DEF IInv
<1>3. IInv /\ UNCHANGED vars => IInv'
  BY DEF vars, procVars, IInv, TypeOK, CopiesAreVersions, CopyIsVersion, Current, At
<1>4. IInv /\ [Next]_vars => IInv'
  BY <1>2, <1>3, StepsAreGood DEF Next
<1> QED BY <1>1, <1>4, PTL DEF Spec

LEMMA NextIsGood ==
    ASSUME IInv, Next
    PROVE  \E p \in Handlers : Good(p)
BY StepsAreGood DEF Next

\* Records keep their types, so amounts stay natural numbers, and no call meets more
\* than MaxRetries conflicts.
THEOREM TypesHold == Spec => []TypeOK
<1>1. IInv => TypeOK
  BY DEF IInv
<1> QED BY <1>1, Invariance, PTL

\* No write of a concurrent call is ever lost.
THEOREM NoWriteIsLost == Spec => NoLostUpdate
<1>1. IInv /\ [Next]_vars => [NoLostUpdateStep]_vars
  BY NextIsGood DEF Good, NoLostUpdateStep
<1> QED BY <1>1, Invariance, PTL DEF Spec, NoLostUpdate

\* Whatever the order of the calls, a record follows its lifecycle and keeps the
\* booking fee it was created with.
THEOREM LifecycleHolds == Spec => LifecycleFollowed
<1>1. IInv /\ [Next]_vars => [LifecycleStep]_vars
  BY NextIsGood DEF Good, LifecycleStep, Legal
<1> QED BY <1>1, Invariance, PTL DEF Spec, LifecycleFollowed

\* What was invoiced is changed by nothing but an ApplyOvernightFee that found no
\* overnight fee in it, for any number of slow calls.
THEOREM InvoicesAreFinal == Spec => InvoiceIsFinal
<1>1. IInv /\ [Next]_vars => [InvoiceIsFinalStep]_vars
  BY NextIsGood DEF Good, InvoiceIsFinalStep, Legal, NextVersion
<1> QED BY <1>1, Invariance, PTL DEF Spec, InvoiceIsFinal

------------------------------------------------------------------------------
(* What callers rely on                                                    *)

\* Records stay, with their fee, and stay invoiced.
RecordsStay ==
    \A r \in Reservations :
        record[r] # None => /\ record'[r] # None
                            /\ record'[r].booking = record[r].booking
                            /\ record[r].status = "invoiced" => record'[r].status = "invoiced"

\* A new record bills the fee of the call that inserted it.
InsertsOwnFee(p) ==
    \A r \in Reservations :
        record[r] = None /\ record'[r] # None =>
            At(p, "insert") /\ record'[r].booking = fee[p].booking

OthersStay(p) == \A q \in Handlers \ {p} : /\ pc'[q] = pc[q] /\ res'[q] = res[q]
                                           /\ fee'[q] = fee[q]

LEMMA HandlerServes ==
    ASSUME IInv, NEW p \in Handlers, Continue(p) \/ Abandon(p)
    PROVE  /\ RecordsStay /\ InsertsOwnFee(p) /\ OthersStay(p)
           /\ pc'[p] = "idle" \/ (pc'[p] = pc[p] /\ res'[p] = res[p] /\ pc[p] # "insert")
<1>1. Good(p)
  BY StepsAreGood
<1>2. RecordsStay
  BY <1>1 DEF Good, Legal, RecordsStay
<1> USE DEF At, Goto
<1>0. /\ pc \in [Handlers -> PC] /\ DOMAIN fee = Handlers /\ res[p] \in Reservations
      /\ record \in [Reservations -> Record \cup {None}]
      /\ res \in [Handlers -> Reservations \cup {None}]
      /\ pc[p] = "insert" => fee[p] \in [booking : BookingFees]
  BY DEF IInv, TypeOK, CopiesAreVersions, CopyIsVersion, Abandon, Continue, Write,
         CreateBillingRecord, CalculateWrite, InvoiceWrite, OvernightWrite, CreateConflict,
         CalculateRetry, OvernightRetry, InvoiceConflict
<1>3. OthersStay(p)
  <2>1. CASE Return(p)
    BY <1>0, <2>1 DEF Return, OthersStay
  <2>2. CASE UNCHANGED <<pc, res, fee>>
    BY <2>2 DEF OthersStay
  <2> QED BY <2>1, <2>2
       DEF Abandon, Continue, Write, CreateBillingRecord, CalculateWrite, InvoiceWrite,
           OvernightWrite, CreateConflict, CalculateRetry, OvernightRetry, InvoiceConflict,
           RetryOrReturn
<1>4. pc'[p] = "idle" \/ (pc'[p] = pc[p] /\ res'[p] = res[p] /\ pc[p] # "insert")
  <2>1. CASE Return(p)
    BY <1>0, <2>1 DEF Return
  <2>2. CASE UNCHANGED <<pc, res, fee>> /\ (CalculateRetry(p) \/ OvernightRetry(p))
    BY <2>2 DEF CalculateRetry, OvernightRetry
  <2> QED BY <2>1, <2>2
       DEF Abandon, Continue, Write, CreateBillingRecord, CalculateWrite, InvoiceWrite,
           OvernightWrite, CreateConflict, CalculateRetry, OvernightRetry, InvoiceConflict,
           RetryOrReturn
<1>5. InsertsOwnFee(p)
  <2>1. CASE CreateBillingRecord(p)
    <3>1. PICK new : new = NewRecord(fee[p].booking)
      OBVIOUS
    <3>2. new.booking = fee[p].booking
      BY <3>1 DEF NewRecord
    <3> QED BY <1>0, <2>1, <3>1, <3>2 DEF CreateBillingRecord, InsertsOwnFee
  <2>2. CASE \E new : UpdateBillingRecord(p, new) /\ pc[p] \in {"calculate", "invoice", "overnight"}
    <3>1. record[res[p]] # None
      BY <2>2 DEF IInv, CopiesAreVersions, CopyIsVersion, PC
    <3> QED BY <1>0, <2>2, <3>1 DEF UpdateBillingRecord, InsertsOwnFee
  <2>3. CASE UNCHANGED record
    BY <2>3 DEF InsertsOwnFee
  <2> QED BY <2>1, <2>2, <2>3
       DEF Abandon, Continue, Write, CalculateWrite, InvoiceWrite, OvernightWrite,
           CreateConflict, CalculateRetry, OvernightRetry, InvoiceConflict, RetryOrReturn
<1> QED BY <1>2, <1>3, <1>4, <1>5

\* After a write there is a record, and an invoice if that was asked for.
LEMMA WriteAnswers ==
    ASSUME IInv, NEW p \in Handlers, Write(p)
    PROVE  /\ record'[res[p]] # None
           /\ At(p, "invoice") => record'[res[p]].status = "invoiced"
<1> USE DEF At
<1>0. /\ res[p] \in Reservations /\ record \in [Reservations -> Record \cup {None}]
      /\ pc[p] \in {"calculate", "invoice", "overnight"} =>
            copy[p] # None /\ copy[p] \in Record /\ record[res[p]] # None
      /\ pc[p] = "insert" => fee[p].booking \in BookingFees
  BY DEF IInv, TypeOK, CopiesAreVersions, CopyIsVersion, PC, Write, CreateBillingRecord,
         CalculateWrite, InvoiceWrite, OvernightWrite
<1>1. CASE CreateBillingRecord(p)
  <2>1. PICK new \in Record : new = NewRecord(fee[p].booking) /\ new # None
    BY <1>0, <1>1, NewRecordTyped DEF CreateBillingRecord
  <2> QED BY <1>0, <1>1, <2>1 DEF CreateBillingRecord
<1>2. CASE pc[p] \in {"calculate", "invoice", "overnight"}
  <2>1. record'[res[p]] # None
    BY <1>0, <1>2, StepsAreGood DEF Good, Legal, Continue
  <2>2. ASSUME At(p, "invoice")
        PROVE  record'[res[p]].status = "invoiced"
    <3>1. PICK new \in Record : new = NextVersion(Invoiced(copy[p])) /\ new.status = "invoiced"
      BY <1>0, <2>2, InvoicedTyped, NextVersionTyped
    <3>2. record' = [record EXCEPT ![res[p]] = new]
      BY <2>2, <3>1 DEF Write, CreateBillingRecord, CalculateWrite, InvoiceWrite, OvernightWrite,
                        UpdateBillingRecord, NextVersion
    <3> QED BY <1>0, <3>1, <3>2
  <2> QED BY <2>1, <2>2
<1> QED BY <1>1, <1>2 DEF Write, CalculateWrite, InvoiceWrite, OvernightWrite

LEMMA CallServes ==
    ASSUME IInv, NEW p \in Handlers, NEW r \in Reservations, NEW f,
           StartBilling(p, r, f) \/ CalculateFee(p, r, f) \/ GenerateInvoice(p, r)
    PROVE  /\ UNCHANGED record /\ OthersStay(p) /\ res'[p] = r
           /\ StartBilling(p, r, f) => pc'[p] = "insert" /\ record[r] = None /\ fee'[p].booking = f
           /\ CalculateFee(p, r, f) => pc'[p] = "calculate"
           /\ GenerateInvoice(p, r) => pc'[p] = "invoice"
BY DEF IInv, TypeOK, StartBilling, CalculateFee, GenerateInvoice, Read, Goto, At, OthersStay

=============================================================================

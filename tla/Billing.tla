------------------------------- MODULE Billing -------------------------------
(***************************************************************************)
(* The billing service (internal/billing): the billing_records table and   *)
(* the handler goroutines that read a record, change the copy and write it *)
(* back under the optimistic version check of UpdateBillingRecord.         *)
(*                                                                         *)
(* Each SQL statement is a step.  After a conflict the code reads the      *)
(* record again; as versions only grow, the failed UPDATE and that read are*)
(* one step here.  Timestamps and the duration columns are left out.       *)
(***************************************************************************)
EXTENDS Naturals

CONSTANTS
    Reservations,      \* a reservation has at most one record
    Handlers,          \* goroutines serving gRPC calls
    BookingFees,       \* fees StartBilling is called with: at creation and
                       \* confirmation the booking fee, at check-in zero
    SessionFees,       \* results of pricing.CalculateSessionFee
    OvernightPerNight,
    OvernightCalls,    \* whether anybody calls ApplyOvernightFee
    None

MaxRetries == 2        \* of CalculateFee and ApplyOvernightFee

ASSUME BookingFeesAssumption == BookingFees \subseteq Nat
ASSUME SessionFeesAssumption == \A f \in SessionFees : f.parking \in Nat /\ f.overnight \in Nat
ASSUME OvernightAssumption == OvernightPerNight \in Nat /\ OvernightCalls \in BOOLEAN

BillingStatus == {"pending", "calculated", "invoiced"}  \* "paid" is never written

Record == [status : BillingStatus, booking : Nat, parking : Nat, overnight : Nat,
           night : BOOLEAN, total : Nat, version : Nat]

ASSUME NoneAssumption == /\ None \notin Record /\ None \notin Reservations
                         /\ None \notin SessionFees

PC == {"idle", "insert", "calculate", "invoice", "overnight"}

VARIABLES
    record,   \* record[r]: the row of reservation r, or None
    pc,
    res,      \* the reservation a handler works on
    copy,     \* the row as it read it
    fee,      \* the fee it was called with
    tries     \* conflicts this call has met

procVars == <<pc, res, copy, fee, tries>>
vars     == <<record, procVars>>

Init ==
    /\ record = [r \in Reservations |-> None]
    /\ pc     = [p \in Handlers |-> "idle"]
    /\ res    = [p \in Handlers |-> None]
    /\ copy   = [p \in Handlers |-> None]
    /\ fee    = [p \in Handlers |-> None]
    /\ tries  = [p \in Handlers |-> 0]

At(p, l)   == pc[p] = l
Goto(p, l) == pc' = [pc EXCEPT ![p] = l]
Return(p)  == /\ Goto(p, "idle")
              /\ res'   = [res EXCEPT ![p] = None]
              /\ copy'  = [copy EXCEPT ![p] = None]
              /\ fee'   = [fee EXCEPT ![p] = None]
              /\ tries' = [tries EXCEPT ![p] = 0]

CalculateTotal(booking, parking, overnight) == booking + parking + overnight

\* GetByReservationID, then the method goes on at l.
Read(p, r, f, l) ==
    /\ record[r] # None
    /\ Goto(p, l)
    /\ res'  = [res EXCEPT ![p] = r]
    /\ copy' = [copy EXCEPT ![p] = record[r]]
    /\ fee'  = [fee EXCEPT ![p] = f]
    /\ UNCHANGED <<record, tries>>

Current(p) == record[res[p]].version = copy[p].version

\* Mutant: the WHERE clause compares the id only.
UpdateByIdOnly(p, new) ==
    record' = [record EXCEPT ![res[p]] = [new EXCEPT !.version = @ + 1]]

\* UpdateBillingRecord: the row is replaced if it still has the version read.
UpdateBillingRecord(p, new) ==
    /\ Current(p)
    /\ record' = [record EXCEPT ![res[p]] = [new EXCEPT !.version = @ + 1]]

------------------------------------------------------------------------------
(* StartBilling                                                            *)

\* Neither the key nor the reservation has a record yet; if one does, it is
\* returned as it is.  The keys name the reservation, so the second lookup
\* decides.
StartBilling(p, r, f) ==
    /\ At(p, "idle")
    /\ record[r] = None
    /\ Goto(p, "insert")
    /\ res' = [res EXCEPT ![p] = r]
    /\ fee' = [fee EXCEPT ![p] = [booking |-> f]]
    /\ UNCHANGED <<record, copy, tries>>

NewRecord(f) == [status |-> "pending", booking |-> f, parking |-> 0, overnight |-> 0,
                 night |-> FALSE, total |-> CalculateTotal(f, 0, 0), version |-> 0]

\* Mutant: the last caller wins (INSERT ... ON CONFLICT DO UPDATE).
CreateOrReplaceRecord(p) ==
    /\ At(p, "insert")
    /\ record' = [record EXCEPT ![res[p]] = NewRecord(fee[p].booking)]
    /\ Return(p)

CreateBillingRecord(p) ==
    /\ At(p, "insert")
    /\ record[res[p]] = None
    /\ record' = [record EXCEPT ![res[p]] = NewRecord(fee[p].booking)]
    /\ Return(p)

\* The unique index on reservation_id refuses the row: the existing record is
\* returned as it is.
CreateConflict(p) ==
    /\ At(p, "insert")
    /\ record[res[p]] # None
    /\ Return(p)
    /\ UNCHANGED record

------------------------------------------------------------------------------
(* CalculateFee                                                            *)

\* Mutant: a calculated record may be calculated again.
CanRecalculate(rec) == TRUE

CanCalculate(rec) == rec.status = "pending"

Calculated(rec, f) ==
    [rec EXCEPT !.status = "calculated", !.parking = f.parking,
                !.overnight = f.overnight, !.night = f.overnight > 0,
                !.total = CalculateTotal(rec.booking, f.parking, f.overnight)]

CalculateFee(p, r, f) ==
    /\ At(p, "idle")
    /\ Read(p, r, f, "calculate")
    /\ CanCalculate(record[r])

CalculateWrite(p) ==
    /\ At(p, "calculate")
    /\ UpdateBillingRecord(p, Calculated(copy[p], fee[p]))
    /\ Return(p)

\* ErrConcurrentModification: the loop reads the record again, or gives up
\* after the last attempt or because it may no longer be changed.
RetryOrReturn(p, may) ==
    /\ ~Current(p)
    /\ IF tries[p] < MaxRetries /\ may
       THEN /\ copy'  = [copy EXCEPT ![p] = record[res[p]]]
            /\ tries' = [tries EXCEPT ![p] = @ + 1]
            /\ UNCHANGED <<pc, res, fee>>
       ELSE Return(p)
    /\ UNCHANGED record

CalculateRetry(p) ==
    /\ At(p, "calculate")
    /\ RetryOrReturn(p, CanCalculate(record[res[p]]))

------------------------------------------------------------------------------
(* GenerateInvoice: no retry.  An invoiced record is returned as it is.    *)

\* Mutant: the status nobody may write.
InvoicedAsPaid(rec) == [rec EXCEPT !.status = "paid"]

Invoiced(rec) == [rec EXCEPT !.status = "invoiced"]

GenerateInvoice(p, r) ==
    /\ At(p, "idle")
    /\ Read(p, r, None, "invoice")
    /\ record[r].status = "calculated"

InvoiceWrite(p) ==
    /\ At(p, "invoice")
    /\ UpdateBillingRecord(p, Invoiced(copy[p]))
    /\ Return(p)

\* The call fails with ErrConcurrentModification, even if it was another
\* GenerateInvoice that came first.
InvoiceConflict(p) ==
    /\ At(p, "invoice")
    /\ ~Current(p)
    /\ Return(p)
    /\ UNCHANGED record

------------------------------------------------------------------------------
(* ApplyOvernightFee: the RPC passes no amount, the default applies.       *)

WithOvernight(rec) ==
    [rec EXCEPT !.overnight = OvernightPerNight, !.night = TRUE,
                !.total = CalculateTotal(rec.booking, rec.parking, OvernightPerNight)]

ApplyOvernightFee(p, r) ==
    /\ OvernightCalls
    /\ At(p, "idle")
    /\ Read(p, r, None, "overnight")
    /\ ~record[r].night

OvernightWrite(p) ==
    /\ At(p, "overnight")
    /\ UpdateBillingRecord(p, WithOvernight(copy[p]))
    /\ Return(p)

OvernightRetry(p) ==
    /\ At(p, "overnight")
    /\ RetryOrReturn(p, ~record[res[p]].night)

\* The process dies, or a statement fails and the call returns that error.
Abandon(p) ==
    /\ pc[p] # "idle"
    /\ Return(p)
    /\ UNCHANGED record

------------------------------------------------------------------------------
Call(p) == \E r \in Reservations : \/ \E f \in BookingFees : StartBilling(p, r, f)
                                   \/ \E f \in SessionFees : CalculateFee(p, r, f)
                                   \/ GenerateInvoice(p, r)
                                   \/ ApplyOvernightFee(p, r)

Write(p) == \/ CreateBillingRecord(p) \/ CalculateWrite(p)
            \/ InvoiceWrite(p) \/ OvernightWrite(p)

Continue(p) == \/ Write(p)
               \/ CreateConflict(p) \/ CalculateRetry(p) \/ OvernightRetry(p)
               \/ InvoiceConflict(p)

Next == \E p \in Handlers : Call(p) \/ Continue(p) \/ Abandon(p)

Spec == Init /\ [][Next]_vars

------------------------------------------------------------------------------
(* Properties                                                              *)

TypeOK ==
    /\ record \in [Reservations -> Record \cup {None}]
    /\ pc     \in [Handlers -> PC]
    /\ res    \in [Handlers -> Reservations \cup {None}]
    /\ copy   \in [Handlers -> Record \cup {None}]
    /\ DOMAIN fee = Handlers
    /\ \A p \in Handlers : /\ At(p, "insert") => fee[p] \in [booking : BookingFees]
                           /\ At(p, "calculate") => fee[p] \in SessionFees
    /\ tries  \in [Handlers -> 0..MaxRetries]

\* A write replaces the very row its handler has read, never one that another
\* call has changed since.
NoLostUpdateStep ==
    \A r \in Reservations :
        record[r] # None /\ record'[r] # record[r] =>
            \E p \in Handlers : res[p] = r /\ copy[p] = record[r]
NoLostUpdate == [][NoLostUpdateStep]_vars

\* A record goes from pending to calculated to invoiced and never back, and
\* keeps the booking fee it was created with, whichever of creation,
\* confirmation and check-in came first.
LifecycleStep ==
    \A r \in Reservations :
        record[r] # None /\ record'[r] # record[r] =>
            /\ record'[r] # None
            /\ record'[r].booking = record[r].booking
            /\ \/ record'[r].status = record[r].status
               \/ <<record[r].status, record'[r].status>>
                     \in {<<"pending", "calculated">>, <<"calculated", "invoiced">>}
LifecycleFollowed == [][LifecycleStep]_vars

\* The amount that was invoiced, which the driver pays, is changed by nothing
\* but an ApplyOvernightFee that found no overnight fee in it: no slow
\* CalculateFee or GenerateInvoice comes back to an invoice.
InvoiceIsFinalStep ==
    \A r \in Reservations :
        /\ record[r] # None
        /\ record[r].status = "invoiced"
        /\ record'[r] # record[r]
        => /\ ~record[r].night
           /\ \E p \in Handlers : /\ At(p, "overnight")
                                  /\ res[p] = r
                                  /\ record'[r] = [WithOvernight(record[r]) EXCEPT !.version = @ + 1]
InvoiceIsFinal == [][InvoiceIsFinalStep]_vars

\* A version names one content of a row: the copy a handler holds is the row
\* itself or is older, and has a status its method may change.
CopyIsVersion(p) ==
    /\ pc[p] # "idle" => res[p] \in Reservations
    /\ At(p, "idle") => copy[p] = None
    /\ pc[p] \in PC \ {"idle", "insert"} => copy[p] # None
    /\ copy[p] # None =>
          /\ res[p] \in Reservations
          /\ record[res[p]] # None
          /\ copy[p].version <= record[res[p]].version
          /\ Current(p) => copy[p] = record[res[p]]
    /\ At(p, "calculate") => copy[p].status = "pending"
    /\ At(p, "invoice") => copy[p].status = "calculated"
    /\ At(p, "overnight") => ~copy[p].night

CopiesAreVersions == \A p \in Handlers : CopyIsVersion(p)

IInv == TypeOK /\ CopiesAreVersions

=============================================================================

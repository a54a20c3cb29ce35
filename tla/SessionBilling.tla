---------------------------- MODULE SessionBilling ----------------------------
(***************************************************************************)
(* The billing service with the sessions it is asked to charge: the fees of*)
(* CalculateFee are those the pricing package computes from the two        *)
(* instants of the request. A history variable notes the session a record  *)
(* was calculated for; the steps are those of Billing.                     *)
(***************************************************************************)
EXTENDS Billing, Pricing

CONSTANT Instants      \* at which sessions begin and end, in seconds

ASSUME InstantsAssumption == Instants \subseteq Nat

\* A session, with what pricing.CalculateSessionFee makes of it.
Session(in, out) ==
    LET f == CalculateSessionFee(in, out)
    IN  [parking |-> f.parking, overnight |-> f.overnight, in |-> in, out |-> out]

ASSUME SessionsAssumption == SessionFees \subseteq {Session(in, out) : in, out \in Instants}

VARIABLE billed        \* billed[r]: the session r was calculated for, or None

SessionInit == Init /\ billed = [r \in Reservations |-> None]

\* In this step p writes the fee of its session to r.
Charges(p, r) == At(p, "calculate") /\ pc'[p] = "idle" /\ res[p] = r /\ record'[r] # record[r]

SessionNext ==
    /\ Next
    /\ billed' = [r \in Reservations |->
                     IF \E p \in Handlers : Charges(p, r)
                     THEN fee[CHOOSE p \in Handlers : Charges(p, r)]
                     ELSE billed[r]]

SessionSpec == SessionInit /\ [][SessionNext]_<<vars, billed>>

\* A record that has been calculated charges one session, the one it was asked for:
\* every started hour of it, every midnight in Jakarta, however close to the full
\* hour or to midnight it began and ended, and nothing for a session of no length.
\* Only a session with no midnight may be charged one night by ApplyOvernightFee
\* instead. No two concurrent calls mix their fees, no retry charges a part of one.
FeesFollowTariff ==
    \A r \in Reservations :
        record[r] # None /\ record[r].status # "pending" =>
            LET t == Tariff(billed[r].in, billed[r].out) IN
            /\ record[r].parking = t.parking
            /\ \/ record[r].overnight = t.overnight
               \/ t.overnight = 0 /\ record[r].night /\ record[r].overnight = OvernightPerNight
            /\ record[r].total = record[r].booking + record[r].parking + record[r].overnight
=============================================================================

------------------------- MODULE SessionBilling_proofs -------------------------
(***************************************************************************)
(* The fee of every session, of any length, beginning at any second, and   *)
(* what a record charges for it, for any number of concurrent calls.       *)
(***************************************************************************)
EXTENDS SessionBilling, Billing_proofs, FiniteSetTheorems

\* The quotient of a division, by the inequalities that define it.
LEMMA HourQuotient ==
    ASSUME NEW n \in Int
    PROVE  n \div Hour \in Int /\ (n \div Hour) * 3600 <= n /\ n < (n \div Hour) * 3600 + 3600
BY DEF Hour

LEMMA DayQuotient ==
    ASSUME NEW n \in Int
    PROVE  n \div Day \in Int /\ (n \div Day) * 86400 <= n /\ n < (n \div Day) * 86400 + 86400
BY DEF Day, Hour

\* BilledHours rounds up, and charges one hour at least.
LEMMA BilledHoursRoundUp ==
    ASSUME NEW d \in Nat, d > 0
    PROVE  /\ BilledHours(d) \in Nat \ {0}
           /\ (BilledHours(d) - 1) * 3600 < d
           /\ d <= BilledHours(d) * 3600
BY HourQuotient DEF BilledHours, Hour

LEMMA BilledHoursAreStartedHours ==
    ASSUME NEW in \in Nat, NEW out \in Nat, in < out
    PROVE  StartedHours(in, out) = BilledHours(out - in)
<1> DEFINE d == out - in
           b == BilledHours(d)
<1>1. d \in Nat /\ d > 0
    OBVIOUS
<1>2. b \in Nat \ {0} /\ (b - 1) * 3600 < d /\ d <= b * 3600
    BY <1>1, BilledHoursRoundUp
<1>3. d \div Hour \in Int /\ (d \div Hour) * 3600 <= d /\ d < (d \div Hour) * 3600 + 3600
    BY <1>1, HourQuotient
<1> HIDE DEF b
<1>4. ASSUME NEW h \in Int
      PROVE  h \in 0..(d \div Hour) /\ in + h * 3600 < out <=> h \in 0..(b - 1)
  <2> DEFINE q == d \div Hour
  <2>1. q \in Int /\ q * 3600 <= d /\ d < q * 3600 + 3600
      BY <1>3
  <2>2. in + h * 3600 < out <=> h * 3600 < d
      OBVIOUS
  <2> HIDE DEF q, d
  <2>3. h * 3600 < d => h <= b - 1 /\ h <= q
      BY <1>1, <1>2, <2>1
  <2>4. h <= b - 1 => h * 3600 < d
      BY <1>1, <1>2
  <2> QED BY <1>2, <2>1, <2>2, <2>3, <2>4 DEF q
<1> DEFINE S == {h \in 0..(d \div Hour) : in + h * 3600 < out}
<1>5. S = 0..(b - 1)
    BY <1>4
<1>6. Cardinality(0..(b - 1)) = b
    BY <1>2, FS_Interval
<1>7. StartedHours(in, out) = Cardinality(S)
    BY DEF StartedHours, Hour
<1>8. b = BilledHours(out - in)
    BY Zenon DEF b
<1> HIDE DEF S, d
<1> QED BY <1>5, <1>6, <1>7, <1>8

LEMMA MidnightsAreCounted ==
    ASSUME NEW in \in Nat, NEW out \in Nat, in <= out
    PROVE  Midnights(in, out) = CountMidnightsCrossed(in, out)
<1> DEFINE i == (in + WIB) \div Day
           o == (out + WIB) \div Day
           u == out \div Day
<1>1. /\ i \in Int /\ i * 86400 <= in + 25200 /\ in + 25200 < i * 86400 + 86400
      /\ o \in Int /\ o * 86400 <= out + 25200 /\ out + 25200 < o * 86400 + 86400
      /\ u \in Int /\ u * 86400 <= out /\ out < u * 86400 + 86400
  <2>1. WIB = 25200
      BY DEF WIB, Hour
  <2> QED BY <2>1, DayQuotient
<1> HIDE DEF i, o, u
<1> DEFINE Crossed(d) == in < d * Day - WIB /\ d * Day - WIB <= out
           M == {d \in 0..(u + 1) : Crossed(d)}
           R == (i + 1)..o
<1>2. \A d \in Int : d \in 0..(u + 1) /\ Crossed(d) <=> d \in R
  <2>1. Day = 86400 /\ WIB = 25200
      BY DEF Day, Hour, WIB
  <2>2. \A d \in Int : Crossed(d) <=> in < d * 86400 - 25200 /\ d * 86400 - 25200 <= out
      BY <2>1
  <2> QED BY <1>1, <2>2
<1>3. M \subseteq Int /\ R \subseteq Int
    BY <1>1
<1>4. i <= o /\ Cardinality(R) = o - i
  <2>1. i <= o /\ i + 1 \in Int /\ o \in Int
      BY <1>1
  <2>2. Cardinality(R) = IF i + 1 > o THEN 0 ELSE o - (i + 1) + 1
      BY <2>1, FS_Interval, Zenon
  <2> QED BY <2>1, <2>2, <1>1
<1>5. Midnights(in, out) = o - i
  <2>1. \A d : d \in M <=> d \in R
      BY <1>2, <1>3
  <2>2. M = R
      BY <2>1, Zenon
  <2>3. Midnights(in, out) = Cardinality(M)
      BY Zenon DEF Midnights, u
  <2> HIDE DEF M, R
  <2> QED BY <1>4, <2>2, <2>3
<1>6. CountMidnightsCrossed(in, out) = o - i
    BY <1>1, <1>4 DEF CountMidnightsCrossed, i, o
<1> QED BY <1>5, <1>6

\* The fee computed by integer division and by subtraction of dates is the tariff of
\* the documentation, counted hour by hour and midnight by midnight, for every two
\* instants: also at exact hours, at midnight, and when check-out is not after check-in.
THEOREM FeeIsTariff ==
    \A in, out \in Nat : CalculateSessionFee(in, out) = Tariff(in, out)
<1> SUFFICES ASSUME NEW in \in Nat, NEW out \in Nat
             PROVE  CalculateSessionFee(in, out) = Tariff(in, out)
    OBVIOUS
<1>1. CASE in < out
  <2>1. in <= out /\ ~(out <= in)
      BY <1>1
  <2>2. StartedHours(in, out) = BilledHours(out - in)
      BY <1>1, BilledHoursAreStartedHours, Zenon
  <2>3. Midnights(in, out) = CountMidnightsCrossed(in, out)
      BY <2>1, MidnightsAreCounted, Zenon
  <2>4. BilledHours(out - in) \in Nat
      BY <1>1, BilledHoursRoundUp
  <2>5. BilledHours(out - in) * HourlyRate = HourlyRate * BilledHours(out - in)
      BY <2>4 DEF HourlyRate
  <2> QED BY <2>1, <2>2, <2>3, <2>5, Zenon DEF CalculateSessionFee, Tariff
<1>2. CASE out <= in
  <2>1. {h \in 0..((out - in) \div Hour) : in + h * Hour < out} = {}
      BY <1>2 DEF Hour
  <2>2. {d \in 0..(out \div Day + 1) : in < d * Day - WIB /\ d * Day - WIB <= out} = {}
      BY <1>2, DayQuotient DEF WIB, Day, Hour
  <2>3. StartedHours(in, out) = 0 /\ Midnights(in, out) = 0
      BY <2>1, <2>2, FS_EmptySet DEF StartedHours, Midnights
  <2> QED BY <1>2, <2>3 DEF CalculateSessionFee, Tariff, HourlyRate, FeePerNight
<1> QED BY <1>1, <1>2

------------------------------------------------------------------------------
\* The two parts of the fee of a session that has a length.
SessionParts(in, out) ==
    /\ CalculateSessionFee(in, out).parking = BilledHours(out - in) * 5000
    /\ CalculateSessionFee(in, out).overnight
           = 20000 * ((out + WIB) \div Day - (in + WIB) \div Day)
    /\ (in + WIB) \div Day \in Int /\ (out + WIB) \div Day \in Int
    /\ (in + WIB) \div Day <= (out + WIB) \div Day

LEMMA SessionFeeParts ==
    ASSUME NEW in \in Nat, NEW out \in Nat, in < out
    PROVE  SessionParts(in, out)
<1>1. WIB = 25200
    BY DEF WIB, Hour
<1>2. /\ (in + WIB) \div Day \in Int /\ (out + WIB) \div Day \in Int
      /\ (in + WIB) \div Day <= (out + WIB) \div Day
    BY <1>1, DayQuotient
<1>3. ~(out <= in)
    OBVIOUS
<1>4. CountMidnightsCrossed(in, out) = (out + WIB) \div Day - (in + WIB) \div Day
    BY <1>2 DEF CountMidnightsCrossed
<1> QED BY <1>2, <1>3, <1>4 DEF CalculateSessionFee, HourlyRate, FeePerNight, SessionParts

\* A driver who stays longer never pays less.
THEOREM FeeGrowsWithTime ==
    \A in, out, later \in Nat :
        in < out /\ out <= later =>
            /\ CalculateSessionFee(in, out).parking <= CalculateSessionFee(in, later).parking
            /\ CalculateSessionFee(in, out).overnight <= CalculateSessionFee(in, later).overnight
<1> SUFFICES ASSUME NEW in \in Nat, NEW out \in Nat, NEW later \in Nat, in < out, out <= later
             PROVE  /\ CalculateSessionFee(in, out).parking <= CalculateSessionFee(in, later).parking
                    /\ CalculateSessionFee(in, out).overnight <= CalculateSessionFee(in, later).overnight
    OBVIOUS
<1>1. in < later /\ out - in \in Nat /\ later - in \in Nat
    OBVIOUS
<1>2. BilledHours(out - in) <= BilledHours(later - in)
      /\ BilledHours(out - in) \in Nat /\ BilledHours(later - in) \in Nat
    BY <1>1, BilledHoursRoundUp
<1>3. (out + WIB) \div Day <= (later + WIB) \div Day
  <2>1. WIB = 25200
      BY DEF WIB, Hour
  <2> QED BY <2>1, DayQuotient
<1>4. SessionParts(in, out) /\ SessionParts(in, later)
    BY <1>1, SessionFeeParts
<1> DEFINE i == (in + WIB) \div Day
           o == (out + WIB) \div Day
           l == (later + WIB) \div Day
<1>5. i \in Int /\ o \in Int /\ l \in Int /\ o <= l
    BY <1>3, <1>4 DEF SessionParts
<1>6. /\ CalculateSessionFee(in, out).overnight = 20000 * (o - i)
      /\ CalculateSessionFee(in, later).overnight = 20000 * (l - i)
    BY <1>4 DEF SessionParts
<1> HIDE DEF i, o, l
<1>7. CalculateSessionFee(in, out).overnight <= CalculateSessionFee(in, later).overnight
    BY <1>5, <1>6
<1>8. CalculateSessionFee(in, out).parking <= CalculateSessionFee(in, later).parking
    BY <1>2, <1>4 DEF SessionParts
<1> QED BY <1>7, <1>8

\* Leaving and coming back at once never costs less than staying: hours that have
\* begun are charged twice, midnights once.
THEOREM SplittingNeverPays ==
    \A in, mid, out \in Nat :
        in < mid /\ mid < out =>
            /\ CalculateSessionFee(in, out).parking
                  <= CalculateSessionFee(in, mid).parking + CalculateSessionFee(mid, out).parking
            /\ CalculateSessionFee(in, out).overnight
                  = CalculateSessionFee(in, mid).overnight + CalculateSessionFee(mid, out).overnight
<1> SUFFICES ASSUME NEW in \in Nat, NEW mid \in Nat, NEW out \in Nat, in < mid, mid < out
             PROVE  /\ CalculateSessionFee(in, out).parking
                         <= CalculateSessionFee(in, mid).parking + CalculateSessionFee(mid, out).parking
                    /\ CalculateSessionFee(in, out).overnight
                         = CalculateSessionFee(in, mid).overnight + CalculateSessionFee(mid, out).overnight
    OBVIOUS
<1>1. in < out /\ out - in \in Nat /\ mid - in \in Nat /\ out - mid \in Nat
      /\ out - in > 0 /\ mid - in > 0 /\ out - mid > 0
    OBVIOUS
<1>2. BilledHours(out - in) <= BilledHours(mid - in) + BilledHours(out - mid)
      /\ BilledHours(out - in) \in Nat /\ BilledHours(mid - in) \in Nat /\ BilledHours(out - mid) \in Nat
    BY <1>1, BilledHoursRoundUp
<1>3. SessionParts(in, out) /\ SessionParts(in, mid) /\ SessionParts(mid, out)
    BY <1>1, SessionFeeParts
<1> DEFINE i == (in + WIB) \div Day
           m == (mid + WIB) \div Day
           o == (out + WIB) \div Day
<1>4. /\ i \in Int /\ m \in Int /\ o \in Int
      /\ CalculateSessionFee(in, out).overnight = 20000 * (o - i)
      /\ CalculateSessionFee(in, mid).overnight = 20000 * (m - i)
      /\ CalculateSessionFee(mid, out).overnight = 20000 * (o - m)
    BY <1>3 DEF SessionParts
<1> HIDE DEF i, m, o
<1>5. CalculateSessionFee(in, out).overnight
          = CalculateSessionFee(in, mid).overnight + CalculateSessionFee(mid, out).overnight
    BY <1>4
<1>6. CalculateSessionFee(in, out).parking
          <= CalculateSessionFee(in, mid).parking + CalculateSessionFee(mid, out).parking
    BY <1>2, <1>3 DEF SessionParts
<1> QED BY <1>5, <1>6

------------------------------------------------------------------------------
(* What a record charges                                                   *)

\* The steps of SessionBilling are those of Billing: what holds of Billing holds of it.
THEOREM SessionsAreCalls == SessionSpec => Spec
<1>1. SessionInit => Init
    BY DEF SessionInit
<1>2. [SessionNext]_<<vars, billed>> => [Next]_vars
    BY DEF SessionNext
<1> QED BY <1>1, <1>2, PTL DEF SessionSpec, Spec

\* A record charges a session, or that session and one night of ApplyOvernightFee.
ChargesFor(rec, s) ==
    /\ rec.parking = s.parking
    /\ \/ rec.overnight = s.overnight /\ rec.night = (s.overnight > 0)
       \/ s.overnight = 0 /\ rec.night /\ rec.overnight = OvernightPerNight
    /\ rec.total = rec.booking + rec.parking + rec.overnight

ChargedInv ==
    \A r \in Reservations :
        record[r] # None /\ record[r].status # "pending" =>
            billed[r] \in SessionFees /\ ChargesFor(record[r], billed[r])

\* A row, told by its columns.
SameAmounts(new, old) ==
    /\ new.parking = old.parking /\ new.overnight = old.overnight /\ new.night = old.night
    /\ new.booking = old.booking /\ new.total = old.total

LEMMA NextVersionAmounts ==
    ASSUME NEW rec \in Record
    PROVE  SameAmounts(NextVersion(rec), rec)
<1>1. PICK v \in Nat : v = rec.version + 1
    BY DEF Record
<1>2. NextVersion(rec) = [rec EXCEPT !.version = v]
    BY <1>1 DEF NextVersion
<1>3. SameAmounts([rec EXCEPT !.version = v], rec)
    BY DEF Record, SameAmounts
<1> QED BY <1>2, <1>3

LEMMA InvoicedAmounts ==
    ASSUME NEW rec \in Record
    PROVE  SameAmounts(Invoiced(rec), rec)
BY DEF Record, Invoiced, SameAmounts

LEMMA CalculatedCharges ==
    ASSUME NEW rec \in Record, NEW s \in SessionFees
    PROVE  ChargesFor(Calculated(rec, s), s)
<1>1. PICK n \in BOOLEAN : n = (s.overnight > 0)
  <2>1. (s.overnight > 0) \in BOOLEAN
      OBVIOUS
  <2> QED BY <2>1, Zenon
<1>2. PICK a \in Nat, b \in Nat, k \in Nat, c \in Nat :
         /\ a = s.parking /\ b = s.overnight /\ k = rec.booking
         /\ c = CalculateTotal(rec.booking, s.parking, s.overnight) /\ c = k + a + b
  <2>1. s.parking \in Nat /\ s.overnight \in Nat /\ rec.booking \in Nat
      BY SessionFeesAssumption DEF Record
  <2>2. /\ CalculateTotal(rec.booking, s.parking, s.overnight) \in Nat
        /\ CalculateTotal(rec.booking, s.parking, s.overnight)
               = rec.booking + s.parking + s.overnight
      BY <2>1 DEF CalculateTotal
  <2> QED BY <2>1, <2>2
<1> DEFINE new == [rec EXCEPT !.status = "calculated", !.parking = a,
                              !.overnight = b, !.night = n, !.total = c]
<1>3. new.parking = a /\ new.overnight = b /\ new.night = n /\ new.total = c /\ new.booking = k
    BY <1>2 DEF Record
<1>4. Calculated(rec, s) = new
    BY <1>1, <1>2, Zenon DEF Calculated
<1> HIDE DEF new
<1>5. Calculated(rec, s).night = (s.overnight > 0)
    BY <1>1, <1>3, <1>4, Zenon
<1>6. /\ Calculated(rec, s).parking = s.parking /\ Calculated(rec, s).overnight = s.overnight
      /\ Calculated(rec, s).total = Calculated(rec, s).booking + Calculated(rec, s).parking
                                        + Calculated(rec, s).overnight
    BY <1>2, <1>3, <1>4
<1> QED BY <1>5, <1>6, Zenon DEF ChargesFor

LEMMA WithOvernightCharges ==
    ASSUME NEW rec \in Record, NEW s \in SessionFees, ChargesFor(rec, s), ~rec.night
    PROVE  ChargesFor(WithOvernight(rec), s)
<1>1. s.overnight = 0 /\ rec.parking = s.parking
  <2>1. s.overnight \in Nat /\ ~(s.overnight > 0)
      BY SessionFeesAssumption, Zenon DEF ChargesFor
  <2> QED BY <2>1 DEF ChargesFor
<1>2. PICK b \in Nat, c \in Nat :
         /\ b = OvernightPerNight
         /\ c = CalculateTotal(rec.booking, rec.parking, OvernightPerNight)
         /\ c = rec.booking + rec.parking + b
  <2>1. rec.booking \in Nat /\ rec.parking \in Nat
      BY DEF Record
  <2>2. CalculateTotal(rec.booking, rec.parking, OvernightPerNight) \in Nat
      BY <2>1, OvernightAssumption DEF CalculateTotal
  <2> QED BY <2>1, <2>2, OvernightAssumption DEF CalculateTotal
<1> DEFINE new == [rec EXCEPT !.overnight = b, !.night = TRUE, !.total = c]
<1>3. /\ new.parking = rec.parking /\ new.overnight = b /\ new.night = TRUE
      /\ new.total = c /\ new.booking = rec.booking
    BY DEF Record
<1>4. WithOvernight(rec) = new
    BY <1>2, Zenon DEF WithOvernight
<1> HIDE DEF new
<1> QED BY <1>1, <1>2, <1>3, <1>4 DEF ChargesFor

LEMMA SameAmountsCharge ==
    ASSUME NEW old \in Record, NEW new \in Record, NEW s, SameAmounts(new, old), ChargesFor(old, s)
    PROVE  ChargesFor(new, s)
BY Zenon DEF SameAmounts, ChargesFor

\* Nobody charges r unless the step is a CalculateWrite for r.
LEMMA OneCharges ==
    ASSUME IInv, NEW p \in Handlers, Call(p) \/ Continue(p) \/ Abandon(p),
           NEW r \in Reservations, NEW q \in Handlers, Charges(q, r)
    PROVE  q = p /\ CalculateWrite(p)
<1>1. OnlyMoves(p) /\ At(q, "calculate") /\ pc'[q] # "calculate" /\ record' # record
    BY StepsAreGood DEF Good, Charges, At
<1>2. q = p
    BY <1>1 DEF OnlyMoves, At
<1> QED BY <1>1, <1>2
        DEF Call, Continue, Write, Abandon, StartBilling, CalculateFee, GenerateInvoice, ApplyOvernightFee,
            Read, CreateBillingRecord, CreateConflict, CalculateRetry, OvernightRetry, RetryOrReturn,
            InvoiceWrite, InvoiceConflict, OvernightWrite, At
\* What UpdateBillingRecord does to the table.
LEMMA UpdateReplacesCopy ==
    ASSUME IInv, NEW p \in Handlers, pc[p] \in {"calculate", "invoice", "overnight"},
           NEW new, UpdateBillingRecord(p, new)
    PROVE  /\ res[p] \in Reservations /\ copy[p] \in Record /\ copy[p] = record[res[p]]
           /\ record[res[p]] # None
           /\ record'[res[p]] = NextVersion(new)
           /\ \A r \in Reservations \ {res[p]} : record'[r] = record[r]
<1>1. /\ res[p] \in Reservations /\ copy[p] # None /\ record[res[p]] # None
      /\ copy[p] = record[res[p]]
    BY DEF IInv, CopiesAreVersions, CopyIsVersion, PC, UpdateBillingRecord
<1>2. record \in [Reservations -> Record \cup {None}]
    BY DEF IInv, TypeOK
<1>3. record' = [record EXCEPT ![res[p]] = NextVersion(new)]
    BY DEF UpdateBillingRecord, NextVersion
<1> QED BY <1>1, <1>2, <1>3

LEMMA ChargedKept ==
    ASSUME IInv, ChargedInv, SessionNext
    PROVE  ChargedInv'
<1>1. PICK p \in Handlers : Call(p) \/ Continue(p) \/ Abandon(p)
    BY DEF SessionNext, Next
<1> SUFFICES ASSUME NEW r \in Reservations, record'[r] # None, record'[r].status # "pending"
             PROVE  billed'[r] \in SessionFees /\ ChargesFor(record'[r], billed'[r])
    BY DEF ChargedInv
<1>2. billed'[r] = IF \E q \in Handlers : Charges(q, r)
                   THEN fee[CHOOSE q \in Handlers : Charges(q, r)] ELSE billed[r]
    BY DEF SessionNext
<1>3. CASE record'[r] = record[r]
  <2>1. ~\E q \in Handlers : Charges(q, r)
      BY <1>3 DEF Charges
  <2> QED BY <1>2, <1>3, <2>1 DEF ChargedInv
<1>4. CASE CreateBillingRecord(p)
  <2>1. /\ fee[p].booking \in BookingFees /\ record \in [Reservations -> Record \cup {None}]
        /\ record' = [record EXCEPT ![res[p]] = NewRecord(fee[p].booking)]
      BY <1>4 DEF CreateBillingRecord, IInv, TypeOK, At
  <2>2. NewRecord(fee[p].booking).status = "pending"
      BY DEF NewRecord
  <2> QED BY <1>3, <2>1, <2>2
<1>5. CASE CalculateWrite(p)
  <2>1. /\ pc[p] = "calculate" /\ pc'[p] = "idle" /\ fee[p] \in SessionFees
        /\ UpdateBillingRecord(p, Calculated(copy[p], fee[p]))
      BY <1>5 DEF CalculateWrite, Return, Goto, At, IInv, TypeOK
  <2>2. /\ res[p] \in Reservations /\ copy[p] \in Record
        /\ record'[res[p]] = NextVersion(Calculated(copy[p], fee[p]))
        /\ \A q \in Reservations \ {res[p]} : record'[q] = record[q]
      BY <2>1, UpdateReplacesCopy
  <2>3. CASE r = res[p] /\ record'[r] # record[r]
    <3>1. Charges(p, r)
        BY <2>1, <2>3 DEF Charges, At
    <3>2. \A q \in Handlers : Charges(q, r) => q = p
        BY <1>1, OneCharges
    <3>3. billed'[r] = fee[p]
        BY <1>2, <3>1, <3>2
    <3>4. PICK new \in Record : new = Calculated(copy[p], fee[p]) /\ ChargesFor(new, fee[p])
        BY <2>1, <2>2, CalculatedTyped, CalculatedCharges
    <3>5. /\ record'[r] = NextVersion(new) /\ NextVersion(new) \in Record
          /\ SameAmounts(NextVersion(new), new)
        BY <2>2, <2>3, <3>4, NextVersionTyped, NextVersionAmounts
    <3> QED BY <2>1, <3>3, <3>4, <3>5, SameAmountsCharge
  <2> QED BY <1>3, <2>2, <2>3
<1>6. ASSUME InvoiceWrite(p) \/ OvernightWrite(p)
      PROVE  billed'[r] = billed[r]
  <2>1. ~CalculateWrite(p)
      BY <1>6 DEF InvoiceWrite, OvernightWrite, CalculateWrite, At
  <2> QED BY <1>1, <1>2, <2>1, OneCharges
<1>7. CASE InvoiceWrite(p)
  <2>1. pc[p] = "invoice" /\ copy[p].status = "calculated" /\ UpdateBillingRecord(p, Invoiced(copy[p]))
      BY <1>7 DEF InvoiceWrite, At, IInv, CopiesAreVersions, CopyIsVersion
  <2>2. /\ res[p] \in Reservations /\ copy[p] \in Record
        /\ copy[p] = record[res[p]] /\ record[res[p]] # None
        /\ record'[res[p]] = NextVersion(Invoiced(copy[p]))
        /\ \A q \in Reservations \ {res[p]} : record'[q] = record[q]
      BY <2>1, UpdateReplacesCopy
  <2>3. CASE r = res[p]
    <3>1. billed[r] \in SessionFees /\ ChargesFor(copy[p], billed[r])
        BY <2>1, <2>2, <2>3 DEF ChargedInv
    <3>2. PICK new \in Record : new = Invoiced(copy[p]) /\ SameAmounts(new, copy[p])
        BY <2>2, InvoicedTyped, InvoicedAmounts
    <3>3. /\ record'[r] = NextVersion(new) /\ NextVersion(new) \in Record
          /\ SameAmounts(NextVersion(new), new)
        BY <2>2, <2>3, <3>2, NextVersionTyped, NextVersionAmounts
    <3> QED BY <1>6, <1>7, <2>2, <3>1, <3>2, <3>3, SameAmountsCharge
  <2> QED BY <1>3, <2>2, <2>3
<1>8. CASE OvernightWrite(p)
  <2>1. pc[p] = "overnight" /\ ~copy[p].night /\ UpdateBillingRecord(p, WithOvernight(copy[p]))
      BY <1>8 DEF OvernightWrite, At, IInv, CopiesAreVersions, CopyIsVersion
  <2>2. /\ res[p] \in Reservations /\ copy[p] \in Record
        /\ copy[p] = record[res[p]] /\ record[res[p]] # None
        /\ record'[res[p]] = NextVersion(WithOvernight(copy[p]))
        /\ \A q \in Reservations \ {res[p]} : record'[q] = record[q]
      BY <2>1, UpdateReplacesCopy
  <2>3. CASE r = res[p]
    <3>1. PICK new \in Record : new = WithOvernight(copy[p]) /\ new.status = copy[p].status
        BY <2>2, WithOvernightTyped
    <3>2. /\ record'[r] = NextVersion(new) /\ NextVersion(new) \in Record
          /\ NextVersion(new).status = new.status /\ SameAmounts(NextVersion(new), new)
        BY <2>2, <2>3, <3>1, NextVersionTyped, NextVersionAmounts
    <3>3. billed[r] \in SessionFees /\ ChargesFor(copy[p], billed[r])
        BY <2>2, <2>3, <3>1, <3>2 DEF ChargedInv
    <3>4. ChargesFor(new, billed[r])
        BY <2>1, <2>2, <3>1, <3>3, WithOvernightCharges
    <3> QED BY <1>6, <1>8, <3>1, <3>2, <3>3, <3>4, SameAmountsCharge
  <2> QED BY <1>3, <2>2, <2>3
<1>9. CASE UNCHANGED record
    BY <1>3, <1>9
<1> QED BY <1>1, <1>4, <1>5, <1>7, <1>8, <1>9
        DEF Call, Continue, Write, Abandon, StartBilling, CalculateFee, GenerateInvoice, ApplyOvernightFee,
            Read, CreateConflict, CalculateRetry, OvernightRetry, RetryOrReturn, InvoiceConflict

\* However many calls change a record at once, whichever of them are retried, repeated or
\* die, and whichever the sessions: what it charges is the tariff of one session, its own.
THEOREM FeesAreTheTariff == SessionSpec => []FeesFollowTariff
<1>1. SessionInit => ChargedInv
    BY NoneAssumption DEF SessionInit, Init, ChargedInv
<1>2. IInv /\ ChargedInv /\ [SessionNext]_<<vars, billed>> => ChargedInv'
  <2>1. ASSUME ChargedInv, UNCHANGED <<vars, billed>>
        PROVE  ChargedInv'
      BY <2>1 DEF ChargedInv, vars
  <2> QED BY <2>1, ChargedKept
<1>3. ChargedInv => FeesFollowTariff
  <2> SUFFICES ASSUME NEW r \in Reservations, NEW s \in SessionFees, s = billed[r],
                      ChargesFor(record[r], s)
               PROVE  LET t == Tariff(s.in, s.out) IN
                      /\ record[r].parking = t.parking
                      /\ \/ record[r].overnight = t.overnight
                         \/ t.overnight = 0 /\ record[r].night /\ record[r].overnight = OvernightPerNight
                      /\ record[r].total = record[r].booking + record[r].parking + record[r].overnight
      BY DEF ChargedInv, FeesFollowTariff
  <2>1. PICK in \in Instants, out \in Instants : s = Session(in, out)
      BY SessionsAssumption
  <2>2. PICK f : f = CalculateSessionFee(in, out)
      OBVIOUS
  <2>3. s = [parking |-> f.parking, overnight |-> f.overnight, in |-> in, out |-> out]
      BY <2>1, <2>2, Zenon DEF Session
  <2>4. s.in = in /\ s.out = out /\ s.parking = f.parking /\ s.overnight = f.overnight
      BY <2>3
  <2>5. f = Tariff(s.in, s.out)
      BY <2>2, <2>4, InstantsAssumption, FeeIsTariff
  <2> QED BY <2>4, <2>5 DEF ChargesFor
<1>4. SessionSpec => []IInv
    BY SessionsAreCalls, Invariance, PTL
<1> QED BY <1>1, <1>2, <1>3, <1>4, PTL DEF SessionSpec
=============================================================================

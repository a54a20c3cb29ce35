------------------------------- MODULE Pricing -------------------------------
(***************************************************************************)
(* The fee of a parking session (internal/billing/pricing): pure functions *)
(* of two instants, in seconds from a midnight UTC, and amounts in IDR.    *)
(***************************************************************************)
EXTENDS Integers, FiniteSets

Hour == 3600
Day  == 24 * Hour
WIB  == 7 * Hour              \* Jakarta is seven hours ahead of UTC

HourlyRate  == 5000
FeePerNight == 20000   \* OvernightPerNight

\* Mutant: the hour that has begun is not charged.
FullHours(duration) == duration \div Hour

BilledHours(duration) ==
    LET full   == duration \div Hour
        billed == IF duration > full * Hour THEN full + 1 ELSE full
    IN  IF billed < 1 THEN 1 ELSE billed

\* Mutant: midnights of UTC.
CountMidnightsUTC(start, end) == end \div Day - start \div Day

CountMidnightsCrossed(start, end) ==
    LET days == (end + WIB) \div Day - (start + WIB) \div Day
    IN  IF days < 0 THEN 0 ELSE days

CalculateSessionFee(checkIn, checkOut) ==
    IF checkOut <= checkIn
    THEN [parking |-> 0, overnight |-> 0]
    ELSE [parking   |-> BilledHours(checkOut - checkIn) * HourlyRate,
          overnight |-> FeePerNight * CountMidnightsCrossed(checkIn, checkOut)]

------------------------------------------------------------------------------
(* The tariff of docs/services/billing.md, counted instead of computed.    *)

StartedHours(checkIn, checkOut) ==
    Cardinality({h \in 0..((checkOut - checkIn) \div Hour) : checkIn + h * Hour < checkOut})

Midnights(checkIn, checkOut) ==
    Cardinality({d \in 0..(checkOut \div Day + 1) :
                    checkIn < d * Day - WIB /\ d * Day - WIB <= checkOut})

Tariff(checkIn, checkOut) ==
    [parking   |-> HourlyRate * StartedHours(checkIn, checkOut),
     overnight |-> FeePerNight * Midnights(checkIn, checkOut)]
=============================================================================

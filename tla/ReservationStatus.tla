-------------------------- MODULE ReservationStatus --------------------------
(***************************************************************************)
(* The reservation lifecycle of internal/reservation: the status values,   *)
(* the transition table and the classes of statuses that the partial       *)
(* unique indexes of the schema talk about.  It has no state of its own.   *)
(***************************************************************************)

\* Statuses a reservation row may hold (the CHECK of the reservations table).
RowStatus == {"waiting_payment", "confirmed", "checked_in", "checked_out",
              "completed", "cancelled", "expired", "failed"}

SpotStatus == {"available", "reserved", "occupied"}

\* "pending" is a key of the table although no row can hold it.
allowedTransitions ==
    {<<"pending", "confirmed">>,
     <<"waiting_payment", "confirmed">>,
     <<"waiting_payment", "failed">>,
     <<"waiting_payment", "cancelled">>,
     <<"confirmed", "checked_in">>,
     <<"confirmed", "expired">>,
     <<"confirmed", "cancelled">>,
     <<"checked_in", "checked_out">>,
     <<"checked_out", "completed">>}

ValidateTransition(from, to) == <<from, to>> \in allowedTransitions

\* The predicate of idx_reservations_active_spot and of
\* idx_reservations_one_active_per_driver.  A checked_out reservation is not
\* in it although its car is still on the spot.
ActiveStatus == {"waiting_payment", "confirmed", "checked_in"}

\* The reservation holds its spot: reserved before check-in, occupied after.
ReservingStatus == {"waiting_payment", "confirmed"}
OccupyingStatus == {"checked_in", "checked_out"}
HoldingStatus   == ReservingStatus \cup OccupyingStatus

\* Final statuses: no transition leaves them and the spot has been given back.
TerminalStatus == RowStatus \ HoldingStatus

=============================================================================

---------------------------- MODULE MCReservation ----------------------------
(***************************************************************************)
(* Small instances of Reservation for TLC.                                 *)
(***************************************************************************)
EXTENDS Reservation, TLC

CONSTANTS d1, d2, k1, k2, s1, car

MCSpotType == [s \in Spots |-> car]

UserPicks(d, k, s)  == [driver |-> d, key |-> k, vtype |-> car,
                        mode |-> "user_selected", spot |-> s]
SystemPicks(d, k)   == [driver |-> d, key |-> k, vtype |-> car,
                        mode |-> "system_assigned", spot |-> None]

\* Two drivers who want the same spot.
ContendedRequests == {UserPicks(d1, k1, s1), UserPicks(d2, k2, s1)}

\* One driver who books under two keys, once a given spot and once wherever
\* there is a place.
RetryRequests == {SystemPicks(d1, k1), UserPicks(d1, k2, s1)}

\* Goroutines and generated ids are interchangeable.
IdSymmetry == Permutations(Handlers) \cup Permutations(Reservations)

\* Where no worker runs nobody reads the tasks; they are then left out by letting
\* every enqueue fail.
NothingScheduled == tasks = {}

=============================================================================

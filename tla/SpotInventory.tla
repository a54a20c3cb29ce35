---------------------------- MODULE SpotInventory ----------------------------
(***************************************************************************)
(* What the reservation service promises about the car park, without any   *)
(* request handler, lock, table or queue: a spot is free or held by exactly*)
(* one reservation, a reservation takes one spot once, and a spot is       *)
(* occupied only while the reservation that reserved it still holds it.    *)
(* Reservation implements it (Reservation!Inventory).                      *)
(***************************************************************************)
CONSTANTS Spots, Reservations

VARIABLES
    held,    \* held[s]: the reservations holding spot s (at most one)
    shown,   \* shown[s]: the status the spot is listed with
    used     \* reservations that have ever taken a spot

vars == <<held, shown, used>>

Init == /\ held  = [s \in Spots |-> {}]
        /\ shown = [s \in Spots |-> "available"]
        /\ used  = {}

\* A new reservation takes a spot nobody holds.
Take(s, r) == /\ held[s] = {}
              /\ shown[s] = "available"
              /\ r \notin used
              /\ held'  = [held EXCEPT ![s] = {r}]
              /\ shown' = [shown EXCEPT ![s] = "reserved"]
              /\ used'  = used \cup {r}

\* The car of the holder drives onto the spot.
Occupy(s) == /\ held[s] # {}
             /\ shown[s] = "reserved"
             /\ shown' = [shown EXCEPT ![s] = "occupied"]
             /\ UNCHANGED <<held, used>>

\* The holder gives the spot back: both views of the spot change together.
Release(s) == /\ held[s] # {}
              /\ held'  = [held EXCEPT ![s] = {}]
              /\ shown' = [shown EXCEPT ![s] = "available"]
              /\ UNCHANGED used

Next == \E s \in Spots : \/ \E r \in Reservations : Take(s, r)
                         \/ Occupy(s)
                         \/ Release(s)

Spec == Init /\ [][Next]_vars

=============================================================================

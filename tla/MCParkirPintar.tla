---------------------------- MODULE MCParkirPintar ----------------------------
(***************************************************************************)
(* Small instances of ParkirPintar for TLC: one driver and one spot, whose *)
(* calls, timeouts and remote calls overlap.                               *)
(***************************************************************************)
EXTENDS ParkirPintar, TLC

CONSTANTS d1, k1, s1, car

MCSpotType    == [s \in Spots |-> car]
MCRequests    == {[driver |-> d1, key |-> k1, vtype |-> car,
                   mode |-> "user_selected", spot |-> s1]}
MCSessionFees == {[parking |-> 5, overnight |-> 0]}

\* The CHECK of payment.payments.status in 000001_init.up.sql.
MigrationStatus == {"pending", "success", "failed", "refunded"}

\* Bound: a caller has one goroutine in the services at a time; its next call to
\* the other service waits for the one it has left.
OneGoroutinePerCaller == \A p \in Procs : bpc[p] = "idle" \/ ppc[p] = "idle"

IdSymmetry == Permutations(Procs)

=============================================================================

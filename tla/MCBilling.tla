------------------------------ MODULE MCBilling ------------------------------
(***************************************************************************)
(* Small instances of SessionBilling for TLC, with sessions that begin and *)
(* end around full hours and midnights.                                    *)
(***************************************************************************)
EXTENDS SessionBilling, TLC

\* 17:00 UTC is midnight in Jakarta, and 41:00 the next.
MCInstants == {16 * Hour, 16 * Hour + 1, 17 * Hour, 41 * Hour + 1}

\* None, one and two midnights, full hours and a second more, and no length.
MCSessionFees == {Session(in, out) : in \in MCInstants, out \in MCInstants}

IdSymmetry == Permutations(Handlers) \cup Permutations(Reservations)
=============================================================================

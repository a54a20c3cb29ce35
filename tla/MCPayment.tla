------------------------------ MODULE MCPayment ------------------------------
(***************************************************************************)
(* Small instances of Payment for TLC.                                     *)
(***************************************************************************)
EXTENDS Payment, TLC

\* The statuses that the code and docs/services/payment.md expect in the table. The
\* CHECK of payment.payments.status in 000001_init.up.sql lets in all but "refunding".
DocumentedStatus == PaymentStatus

\* Everything but an answer of the gateway that is lost.
AnsweredFaults == {"crash", "database", "cancel", "gateway"}

IdSymmetry == Permutations(Handlers) \cup Permutations(Keys)

=============================================================================

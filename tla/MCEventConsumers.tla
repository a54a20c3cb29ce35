-------------------------- MODULE MCEventConsumers --------------------------
(***************************************************************************)
(* The processes and their consumers for TLC.                              *)
(***************************************************************************)
EXTENDS EventConsumers

\* Bound: another replica has at most one message in hand, and only in analytics,
\* where handling one changes a row, and while every event parses. It cuts steps of
\* the other replicas alone, of which no fairness condition speaks.
OthersHoldOne ==
    \A c \in Others :
        \/ buffer[c] = <<>> /\ handling[c] = Idle
        \/ /\ svc = "analytics" /\ \A m \in Messages : payload[m] = "good"
           /\ Len(buffer[c]) + (IF handling[c] = Idle THEN 0 ELSE 1) = 1
=============================================================================

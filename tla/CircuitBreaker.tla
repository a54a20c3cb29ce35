--------------------------- MODULE CircuitBreaker ---------------------------
(***************************************************************************)
(* The circuit breakers the reservation service keeps in front of billing  *)
(* and payment: pkg/circuitbreaker over gobreaker. Answers count only in   *)
(* the generation that admitted the call; any error counts as a failure.   *)
(***************************************************************************)
EXTENDS Integers

CONSTANTS Requests,
          FailureThreshold      \* 5

ASSUME BreakerAssumption == FailureThreshold \in Nat \ {0}

VARIABLES breaker,      \* the state of each breaker
          failures,     \* consecutive failures in this generation
          admitted      \* the calls under way that this generation admitted

breakerVars == <<breaker, failures, admitted>>

Remotes == {"billing", "payment"}

BreakerTypeOK ==
    /\ breaker \in [Remotes -> {"closed", "open", "half-open"}]
    /\ failures \in [Remotes -> 0..(FailureThreshold - 1)]
    /\ admitted \in [Remotes -> SUBSET Requests]

BreakerInit ==
    /\ breaker = [b \in Remotes |-> "closed"]
    /\ failures = [b \in Remotes |-> 0]
    /\ admitted = [b \in Remotes |-> {}]

\* toNewGeneration and the new state.
Enters(b, state) ==
    /\ breaker' = [breaker EXCEPT ![b] = state]
    /\ failures' = [failures EXCEPT ![b] = 0]
    /\ admitted' = [admitted EXCEPT ![b] = {}]

Admits(b) ==
    \/ breaker[b] = "closed"
    \/ breaker[b] = "half-open" /\ admitted[b] = {}      \* HalfOpenMaxProbes is 1

Admit(b, r) ==
    /\ Admits(b)
    /\ admitted' = [admitted EXCEPT ![b] = @ \cup {r}]
    /\ UNCHANGED <<breaker, failures>>

\* Mutant: one failure more.
TripsLate(n) == n > FailureThreshold

\* ReadyToTrip
Trips(n) == n >= FailureThreshold

Counted(b, r, ok) ==
    \/ /\ r \in admitted[b] /\ breaker[b] = "half-open"
       /\ Enters(b, IF ok THEN "closed" ELSE "open")
    \/ /\ r \in admitted[b] /\ breaker[b] = "closed"
       /\ IF ~ok /\ Trips(failures[b] + 1) THEN Enters(b, "open")
          ELSE /\ failures' = [failures EXCEPT ![b] = IF ok THEN 0 ELSE @ + 1]
               /\ admitted' = [admitted EXCEPT ![b] = @ \ {r}]
               /\ UNCHANGED breaker

\* Mutant: a call that its caller cancelled is not reported to the breaker.
AfterCallUnlessCanceled(b, r, code) ==
    \/ r \notin admitted[b] /\ UNCHANGED breakerVars
    \/ r \in admitted[b] /\ code = "Canceled" /\ UNCHANGED breakerVars
    \/ code # "Canceled" /\ Counted(b, r, code = "OK")

\* An answer comes back: one of an earlier generation is not counted.
AfterCall(b, r, code) ==
    \/ r \notin admitted[b] /\ UNCHANGED breakerVars
    \/ Counted(b, r, code = "OK")

\* OpenTimeout has passed; in the closed state, Interval has.
Expire(b) ==
    \/ breaker[b] = "open" /\ Enters(b, "half-open")
    \/ breaker[b] = "closed" /\ Enters(b, "closed")

------------------------------------------------------------------------------
\* A breaker that has let a probe through does not stay half-open: however the
\* probe ends, its outcome closes or opens the breaker, and nobody is refused for
\* want of a verdict. It needs that every call ends.
HalfOpenIsLeft ==
    \A b \in Remotes :
        (breaker[b] = "half-open" /\ admitted[b] # {}) ~> breaker[b] # "half-open"
=============================================================================

----------------------------- MODULE RateLimiter -----------------------------
(***************************************************************************)
(* The rate limiter of a service (pkg/ratelimit): a token bucket per key,  *)
(* the host of the caller. Time is counted in ticks. A bucket nobody has   *)
(* asked for is as good as a full one, so a bucket that is deleted is one  *)
(* that is filled up: "tokens" has all keys, known to the store or not.    *)
(***************************************************************************)
EXTENDS Integers

CONSTANTS Keys,
          Burst,        \* BurstSize
          Rate,         \* the tokens that come back in a tick
          Interval      \* CleanupInterval, in ticks

\* 200 tokens, 100 a second and five minutes: a bucket has long been full
\* before it counts as idle.
ASSUME LimiterAssumption ==
    /\ Burst \in Nat \ {0} /\ Rate \in Nat \ {0} /\ Interval \in Nat \ {0}
    /\ 2 * Interval * Rate >= Burst

VARIABLES tokens,       \* the tokens of each key's limiter
          idle,         \* the ticks since lastSeen
          ideal         \* history: the tokens of one bucket that is never deleted

limiterVars == <<tokens, idle, ideal>>

\* More than this many ticks are not told apart.
Forgotten == 2 * Interval + 1

LimiterTypeOK ==
    /\ tokens \in [Keys -> 0..Burst]
    /\ ideal \in [Keys -> 0..Burst]
    /\ idle \in [Keys -> 0..Forgotten]

LimiterInit ==
    /\ tokens = [k \in Keys |-> Burst]
    /\ ideal = [k \in Keys |-> Burst]
    /\ idle = [k \in Keys |-> Forgotten]

AtMost(n, bound) == IF n < bound THEN n ELSE bound

Tick ==
    /\ tokens' = [k \in Keys |-> AtMost(tokens[k] + Rate, Burst)]
    /\ ideal' = [k \in Keys |-> AtMost(ideal[k] + Rate, Burst)]
    /\ idle' = [k \in Keys |-> AtMost(idle[k] + 1, Forgotten)]

\* Mutant: lastSeen is written when the entry is made only.
AllowUnseen(k, ok) ==
    /\ ok <=> tokens[k] > 0
    /\ tokens' = IF ok THEN [tokens EXCEPT ![k] = @ - 1] ELSE tokens
    /\ ideal' = IF ok THEN [ideal EXCEPT ![k] = @ - 1] ELSE ideal
    /\ idle' = [idle EXCEPT ![k] = IF @ = Forgotten THEN 0 ELSE @]

\* Store.Allow: a refused request, too, has been seen. (The entry is read under the
\* mutex and used after it; it has just been seen, so no cleanup comes between.)
Allow(k, ok) ==
    /\ ok <=> tokens[k] > 0
    /\ tokens' = IF ok THEN [tokens EXCEPT ![k] = @ - 1] ELSE tokens
    /\ ideal' = IF ok THEN [ideal EXCEPT ![k] = @ - 1] ELSE ideal
    /\ idle' = [idle EXCEPT ![k] = 0]

\* The goroutine of the store deletes what has been idle for two intervals.
Cleanup ==
    /\ tokens' = [k \in Keys |-> IF idle[k] > 2 * Interval THEN Burst ELSE tokens[k]]
    /\ UNCHANGED <<idle, ideal>>

------------------------------------------------------------------------------
\* Deleting idle limiters gives nobody tokens: a caller is never let through
\* where one bucket that is kept for ever would refuse.
BucketsAreHonest == \A k \in Keys : tokens[k] <= ideal[k]
=============================================================================

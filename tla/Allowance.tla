----------------------------- MODULE Allowance -----------------------------
(***************************************************************************)
(* How the rate limiter's allowances are counted.  Time passes in ticks,   *)
(* Minute of them to a minute.  Tokens are counted in units of which a     *)
(* tick refills PerMinute and a request takes Minute, so that              *)
(* per_minute / 60 tokens per second is a whole number of units.           *)
(***************************************************************************)
EXTENDS Integers, FiniteSets

CONSTANTS
    Peers,        \* the peers requests come from
    PerMinute,      \* settings.rate_limit_per_minute
    Minute,         \* ticks of the clock in a minute
    MaxBuckets      \* how many callers the limiter remembers (max_buckets)

ASSUME PeersAssumption == IsFiniteSet(Peers)
ASSUME RateAssumption == PerMinute \in Nat \ {0} /\ Minute \in Nat \ {0}
ASSUME MaxBucketsAssumption == MaxBuckets \in Nat \ {0}

Capacity == PerMinute * Minute
Cost == Minute
AtMost(bound, n) == IF n <= bound THEN n ELSE bound
=============================================================================

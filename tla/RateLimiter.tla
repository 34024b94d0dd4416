---------------------------- MODULE RateLimiter ----------------------------
(***************************************************************************)
(* api/app.py, TokenBucket and RateLimiter: a bucket per caller, created   *)
(* on its first request, refilled only when it is looked at, and evicted   *)
(* when there are too many.  allow() runs to its end without an await.     *)
(***************************************************************************)
EXTENDS Allowance

CONSTANT MaxTime        \* bound on the clock

ASSUME MaxTimeAssumption == MaxTime \in Nat

VARIABLES
    now,        \* the monotonic clock
    buckets,    \* caller -> tokens and when they were counted (_buckets)
    answer      \* what allow() returned last

limiterVars == <<now, buckets, answer>>

----------------------------------------------------------------------------

Earned(bucket) == (now - bucket.at) * PerMinute

\* Mutant: what was earned is added without the cap.
Uncapped(bucket) == bucket.tokens + Earned(bucket)

Refilled(bucket) == AtMost(Capacity, bucket.tokens + Earned(bucket))

Full(bucket) == bucket.tokens + Earned(bucket) >= Capacity

\* Drop the buckets that have refilled; if that frees none, drop them all.
NotFull == [k \in {j \in DOMAIN buckets : ~Full(buckets[j])} |-> buckets[k]]
Evicted == IF Cardinality(DOMAIN NotFull) >= MaxBuckets THEN <<>> ELSE NotFull

\* Mutant: one bucket too many before any is evicted.
RoomForOneMore(k) == k \in DOMAIN buckets \/ Cardinality(DOMAIN buckets) <= MaxBuckets

Room(k) == k \in DOMAIN buckets \/ Cardinality(DOMAIN buckets) < MaxBuckets

\* The buckets allow(k) goes on with, and k's among them.
Kept(k) == IF Room(k) THEN buckets ELSE Evicted
BucketOf(k) == IF k \in DOMAIN Kept(k) THEN Kept(k)[k] ELSE [tokens |-> Capacity, at |-> now]

\* A request: TokenBucket.take on the caller's bucket.
Allow(k) ==
    LET had == Refilled(BucketOf(k))
        left == IF had >= Cost THEN had - Cost ELSE had
    IN  /\ buckets' = [j \in DOMAIN Kept(k) \cup {k} |->
                           IF j = k THEN [tokens |-> left, at |-> now] ELSE Kept(k)[j]]
        /\ answer' = (had >= Cost)
        /\ UNCHANGED now

Tick == now < MaxTime /\ now' = now + 1 /\ UNCHANGED <<buckets, answer>>

LimiterInit == now = 0 /\ buckets = <<>> /\ answer = TRUE

LimiterNext == Tick \/ \E k \in Peers : Allow(k)

LimiterSpec == LimiterInit /\ [][LimiterNext]_limiterVars

----------------------------------------------------------------------------

\* A bucket never holds more than the capacity nor less than nothing, was counted in
\* the past, and there are at most max_buckets of them (app.py:121-126).
LimiterTypeOK ==
    /\ now \in Nat
    /\ DOMAIN buckets \subseteq Peers
    /\ \A k \in DOMAIN buckets : /\ buckets[k] \in [tokens : 0..Capacity, at : Nat]
                                 /\ buckets[k].at <= now
    /\ Cardinality(DOMAIN buckets) <= MaxBuckets
    /\ answer \in BOOLEAN

\* A caller's allowance: a caller without a bucket has all of it.
Level(k) == IF k \in DOMAIN buckets THEN Refilled(buckets[k]) ELSE Capacity

Limiter == INSTANCE TokenLimiter WITH level <- [k \in Peers |-> Level(k)]

\* A request for which buckets are dropped that have not refilled.
Forgets == \E j \in DOMAIN buckets : ~Full(buckets[j]) /\ j \notin DOMAIN buckets'
\* As many callers as there may be buckets are below a full allowance.
Crowded == Cardinality({j \in Peers : Level(j) < Capacity}) >= MaxBuckets

\* Buckets that are created late, refilled late and evicted answer every request as
\* if each caller's allowance had been refilled at every tick from the start, and no
\* caller is refused early (app.py:85-97, 116-136) -- but for the requests that forget
\* callers below a full allowance, and the limiter comes to that only when max_buckets
\* of them are.  LimitedStayLimited is about those requests.
ImplementsLimiter ==
    Limiter!Init /\ [][IF Forgets THEN Crowded ELSE Limiter!Next]_(Limiter!vars)

\* Evicting buckets "keeps the callers who are actually being limited" (app.py:122-123):
\* a caller who has not a request's worth left is still known after any step.
LimitedStayLimited ==
    [][\A j \in DOMAIN buckets :
           Refilled(buckets[j]) < Cost => j \in DOMAIN buckets']_limiterVars
=============================================================================

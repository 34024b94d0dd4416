-------------------------- MODULE ApplicationProofs --------------------------
(***************************************************************************)
(* The HTTP application, whose parts share no state: the rate limiter and  *)
(* the streamed queries beside the ingestion jobs.                         *)
(*                                                                         *)
(* For every set of peers, rate and number of buckets: the buckets stay    *)
(* well formed and few, and a limiter that creates them late, refills them *)
(* late and evicts them answers as the promise does, whose allowances are  *)
(* refilled at every tick, as long as it forgets nobody, and it forgets    *)
(* callers only when MaxBuckets of them are below a full allowance.  The   *)
(* refinement maps a peer to what its bucket would hold if it were looked  *)
(* at now.  A tick commutes with the cap of the refill, and an evicted     *)
(* bucket that was full maps to the same level as no bucket.               *)
(*                                                                         *)
(* For every set of jobs and searches and every length of an answer: until *)
(* the shutdown nobody uses a pool that is not open, a job's status is the *)
(* truth about it, and the stream under heartbeats, errors and timeouts    *)
(* gives its client what EventStream promises.  Why the pool is usable is  *)
(* a matter of who has opened one already: a caller that still may (it has *)
(* not asked, or it has and is opening) has no pool that is ready, and     *)
(* none that the store hands out.  Once the startup has one, no other      *)
(* caller finds NoPool, so it stays the only one.                          *)
(***************************************************************************)
EXTENDS Serving, RateLimiter, FiniteSetTheorems, TLAPS

USE PeersAssumption, RateAssumption, MaxBucketsAssumption, MaxTimeAssumption,
    CallersAssumption, LengthsAssumption

----------------------------------------------------------------------------
\* The rate limiter.

\* The capacity is a number of units, and a request costs one at least.
LEMMA Units == Capacity \in Nat /\ Cost \in Nat \ {0} /\ Cost <= Capacity
<1>1. PerMinute >= 1 /\ Minute >= 1 /\ PerMinute \in Nat /\ Minute \in Nat
  OBVIOUS
<1>2. PerMinute * Minute \in Nat /\ Minute <= PerMinute * Minute
  BY <1>1
<1>3. QED  BY <1>1, <1>2 DEF Capacity, Cost

Bucket == [tokens : 0..Capacity, at : Nat]

\* What a bucket counted in the past has earned, and what it holds refilled.
LEMMA RefilledType ==
    ASSUME now \in Nat, NEW b \in Bucket, b.at <= now
    PROVE  /\ Earned(b) \in Nat
           /\ Refilled(b) \in 0..Capacity
           /\ Full(b) <=> Refilled(b) = Capacity
<1>1. b.tokens \in 0..Capacity /\ b.at \in Nat
  BY DEF Bucket
<1>2. now - b.at \in Nat
  BY <1>1
<1>3. Earned(b) \in Nat
  BY <1>2 DEF Earned
<1>4. QED  BY <1>1, <1>3, Units DEF Refilled, Full, AtMost

\* The buckets are finitely many, because the callers are.
LEMMA BucketsFinite ==
    ASSUME NEW S \in SUBSET Peers
    PROVE  IsFiniteSet(S) /\ Cardinality(S) \in Nat
BY FS_Subset, FS_CardinalityType

\* What allow(k) goes on with: at most one bucket fewer than it may have, unless k
\* has one already.
LEMMA KeptType ==
    ASSUME LimiterTypeOK, NEW k \in Peers
    PROVE  /\ DOMAIN Kept(k) \subseteq DOMAIN buckets
           /\ \A j \in DOMAIN Kept(k) : Kept(k)[j] = buckets[j]
           /\ Cardinality(DOMAIN Kept(k) \cup {k}) <= MaxBuckets
<1>1. DOMAIN buckets \subseteq Peers /\ IsFiniteSet(DOMAIN buckets)
      /\ Cardinality(DOMAIN buckets) \in Nat /\ Cardinality(DOMAIN buckets) <= MaxBuckets
  BY BucketsFinite DEF LimiterTypeOK
<1>2. CASE k \in DOMAIN buckets
  <2>1. Kept(k) = buckets /\ DOMAIN buckets \cup {k} = DOMAIN buckets
    BY <1>2 DEF Kept, Room
  <2>2. QED  BY <1>1, <2>1
<1>3. CASE k \notin DOMAIN buckets /\ Cardinality(DOMAIN buckets) < MaxBuckets
  <2>1. Kept(k) = buckets
    BY <1>3 DEF Kept, Room
  <2>2. Cardinality(DOMAIN buckets \cup {k}) = Cardinality(DOMAIN buckets) + 1
    BY <1>1, <1>3, FS_AddElement
  <2>3. QED  BY <1>1, <1>3, <2>1, <2>2
<1>4. CASE ~Room(k)
  <2>1. Kept(k) = Evicted
    BY <1>4 DEF Kept
  <2>2. DOMAIN NotFull \subseteq DOMAIN buckets /\ \A j \in DOMAIN NotFull : NotFull[j] = buckets[j]
    BY DEF NotFull
  <2>3. IsFiniteSet(DOMAIN NotFull) /\ Cardinality(DOMAIN NotFull) \in Nat
    BY <1>1, <2>2, BucketsFinite
  <2>4. CASE Cardinality(DOMAIN NotFull) >= MaxBuckets
    <3>1. Evicted = <<>>
      BY <2>4 DEF Evicted
    <3>2. DOMAIN <<>> = {} /\ {} \cup {k} = {k}
      OBVIOUS
    <3>3. Cardinality({k}) = 1
      BY FS_Singleton
    <3>4. QED  BY <2>1, <3>1, <3>2, <3>3
  <2>5. CASE ~(Cardinality(DOMAIN NotFull) >= MaxBuckets)
    <3>1. Evicted = NotFull
      BY <2>5 DEF Evicted
    <3>2. k \notin DOMAIN NotFull
      BY <1>4, <2>2 DEF Room
    <3>3. Cardinality(DOMAIN NotFull \cup {k}) = Cardinality(DOMAIN NotFull) + 1
      BY <2>3, <3>2, FS_AddElement
    <3>4. QED  BY <2>1, <2>2, <2>3, <2>5, <3>1, <3>3
  <2>6. QED  BY <2>4, <2>5
<1>5. QED  BY <1>2, <1>3, <1>4 DEF Room

\* The bucket a request is taken from is well formed.
LEMMA BucketOfType ==
    ASSUME LimiterTypeOK, NEW k \in Peers
    PROVE  /\ BucketOf(k) \in Bucket /\ BucketOf(k).at <= now
           /\ Refilled(BucketOf(k)) = Level(k)
           /\ Level(k) \in 0..Capacity
<1>1. now \in Nat
  BY DEF LimiterTypeOK
<1>2. CASE k \in DOMAIN buckets
  <2>1. Kept(k) = buckets
    BY <1>2 DEF Kept, Room
  <2>2. BucketOf(k) = buckets[k]
    BY <1>2, <2>1 DEF BucketOf
  <2>3. buckets[k] \in Bucket /\ buckets[k].at <= now
    BY <1>2 DEF LimiterTypeOK, Bucket
  <2>4. QED  BY <1>1, <1>2, <2>2, <2>3, RefilledType DEF Level
<1>3. CASE k \notin DOMAIN buckets
  <2> DEFINE new == [tokens |-> Capacity, at |-> now]
  <2>1. BucketOf(k) = new
    BY <1>3, KeptType DEF BucketOf
  <2>2. new \in Bucket /\ new.at <= now /\ new.tokens = Capacity /\ new.at = now
    BY <1>1, Units DEF Bucket
  <2> HIDE DEF new
  <2>3. Earned(new) = 0
    BY <1>1, <2>2 DEF Earned
  <2>4. Refilled(new) = Capacity
    BY <2>2, <2>3, Units DEF Refilled, AtMost
  <2>5. QED  BY <1>3, <2>1, <2>2, <2>4, Units DEF Level
<1>4. QED  BY <1>2, <1>3

\* The types hold at the start.
LEMMA LimiterInitially == LimiterInit => LimiterTypeOK
<1> SUFFICES ASSUME LimiterInit PROVE LimiterTypeOK
  OBVIOUS
<1>1. DOMAIN buckets = {}
  BY DEF LimiterInit
<1>2. Cardinality(DOMAIN buckets) = 0
  BY <1>1, FS_EmptySet
<1>3. QED  BY <1>1, <1>2 DEF LimiterInit, LimiterTypeOK

\* A tick of the clock keeps the types.
LEMMA TickTypeOK == LimiterTypeOK /\ Tick => LimiterTypeOK'
<1> SUFFICES ASSUME LimiterTypeOK, Tick PROVE LimiterTypeOK'
  OBVIOUS
<1>1. now' \in Nat /\ buckets' = buckets /\ answer' = answer
  BY DEF Tick, LimiterTypeOK
<1>2. \A k \in DOMAIN buckets : buckets[k].at <= now'
  BY DEF Tick, LimiterTypeOK
<1>3. QED  BY <1>1, <1>2 DEF LimiterTypeOK

\* What a request leaves in the caller's bucket.
Left(k) == IF Level(k) >= Cost THEN Level(k) - Cost ELSE Level(k)

\* A request changes the bucket of its caller, and drops what was not kept.
LEMMA AllowStep ==
    ASSUME LimiterTypeOK, NEW k \in Peers, Allow(k)
    PROVE  /\ DOMAIN buckets' = DOMAIN Kept(k) \cup {k}
           /\ buckets'[k] = [tokens |-> Left(k), at |-> now]
           /\ \A j \in DOMAIN Kept(k) \ {k} : buckets'[j] = buckets[j]
           /\ Left(k) \in 0..Capacity
           /\ answer' = (Level(k) >= Cost) /\ now' = now
<1>1. Refilled(BucketOf(k)) = Level(k) /\ Level(k) \in 0..Capacity
  BY BucketOfType
<1>2. /\ buckets' = [j \in DOMAIN Kept(k) \cup {k} |->
                        IF j = k THEN [tokens |-> Left(k), at |-> now] ELSE Kept(k)[j]]
      /\ answer' = (Level(k) >= Cost) /\ now' = now
  BY <1>1 DEF Allow, Left
<1>3. Left(k) \in 0..Capacity
  BY <1>1, Units DEF Left
<1>4. \A j \in DOMAIN Kept(k) : Kept(k)[j] = buckets[j]
  BY KeptType
<1>5. QED  BY <1>2, <1>3, <1>4

\* A request keeps the types.
LEMMA AllowTypeOK == ASSUME LimiterTypeOK, NEW k \in Peers, Allow(k) PROVE LimiterTypeOK'
<1>1. /\ DOMAIN buckets' = DOMAIN Kept(k) \cup {k}
      /\ buckets'[k] = [tokens |-> Left(k), at |-> now]
      /\ \A j \in DOMAIN Kept(k) \ {k} : buckets'[j] = buckets[j]
      /\ Left(k) \in 0..Capacity
      /\ answer' = (Level(k) >= Cost) /\ now' = now
  BY AllowStep
<1>2. DOMAIN Kept(k) \subseteq DOMAIN buckets /\ Cardinality(DOMAIN Kept(k) \cup {k}) <= MaxBuckets
  BY KeptType
<1>3. ASSUME NEW j \in DOMAIN buckets'
      PROVE  buckets'[j] \in [tokens : 0..Capacity, at : Nat] /\ buckets'[j].at <= now
  <2>1. CASE j = k
    BY <2>1, <1>1 DEF LimiterTypeOK
  <2>2. CASE j # k
    BY <2>2, <1>1, <1>2 DEF LimiterTypeOK
  <2>3. QED  BY <2>1, <2>2
<1>4. answer' \in BOOLEAN
  BY <1>1
<1>5. QED  BY <1>1, <1>2, <1>3, <1>4 DEF LimiterTypeOK

\* The type invariant is inductive.
LEMMA LimiterTypeKept == LimiterTypeOK /\ [LimiterNext]_limiterVars => LimiterTypeOK'
<1>1. ASSUME LimiterTypeOK, UNCHANGED limiterVars PROVE LimiterTypeOK'
  BY <1>1 DEF LimiterTypeOK, limiterVars
<1>2. QED  BY <1>1, TickTypeOK, AllowTypeOK DEF LimiterNext

\* The variables keep their types: a bucket holds between nothing and the capacity,
\* and there are never more than max_buckets of them (app.py:121-126).
THEOREM LimiterTypeCorrect == LimiterSpec => []LimiterTypeOK
BY LimiterInitially, LimiterTypeKept, PTL DEF LimiterSpec

----------------------------------------------------------------------------

Levels == [j \in Peers |-> Level(j)]
Below == {j \in Peers : Levels[j] < Capacity}

\* A tick refills every level, a full one excepted.
LEMMA TickLevel ==
    ASSUME LimiterTypeOK, Tick, NEW k \in Peers
    PROVE  Level(k)' = AtMost(Capacity, Level(k) + PerMinute)
<1>1. now' = now + 1 /\ buckets' = buckets /\ now \in Nat
  BY DEF Tick, LimiterTypeOK
<1>2. CASE k \in DOMAIN buckets
  <2> DEFINE t == buckets[k].tokens
             a == buckets[k].at
             e == (now - a) * PerMinute
  <2>1. t \in 0..Capacity /\ a \in Nat /\ a <= now
    BY <1>2 DEF LimiterTypeOK
  <2>2. now - a \in Nat /\ now + 1 - a = (now - a) + 1
    BY <1>1, <2>1
  <2>3. e \in Nat /\ ((now - a) + 1) * PerMinute = e + PerMinute
    BY <2>2
  <2>4. Level(k) = AtMost(Capacity, t + e)
    BY <1>2 DEF Level, Refilled, Earned
  <2>5. Level(k)' = AtMost(Capacity, t + (now + 1 - a) * PerMinute)
    <3>1. Level(k)' = Refilled(buckets[k])'
      BY <1>1, <1>2 DEF Level
    <3>2. Earned(buckets[k])' = (now' - a) * PerMinute
      BY <1>1 DEF Earned
    <3>3. QED  BY <1>1, <2>1, <3>1, <3>2 DEF Refilled, AtMost
  <2>6. Level(k)' = AtMost(Capacity, t + (e + PerMinute))
    BY <2>2, <2>3, <2>5
  <2> HIDE DEF t, a, e
  <2>7. QED  BY <2>1, <2>3, <2>4, <2>6, Units DEF AtMost
<1>3. CASE k \notin DOMAIN buckets
  <2>1. Level(k) = Capacity /\ Level(k)' = Capacity
    BY <1>1, <1>3 DEF Level
  <2>2. QED  BY <2>1, Units DEF AtMost
<1>4. QED  BY <1>2, <1>3

\* Only callers with a bucket are below a full allowance.
LEMMA BelowHaveBuckets ==
    ASSUME LimiterTypeOK
    PROVE  /\ Below \subseteq DOMAIN buckets
           /\ Below = DOMAIN NotFull
<1>1. \A j \in DOMAIN buckets : j \in Peers /\ buckets[j] \in Bucket /\ buckets[j].at <= now
  BY DEF LimiterTypeOK, Bucket
<1>2. \A j \in DOMAIN buckets : /\ Level(j) = Refilled(buckets[j])
                                /\ Refilled(buckets[j]) \in 0..Capacity
                                /\ Full(buckets[j]) <=> Refilled(buckets[j]) = Capacity
  BY <1>1, RefilledType DEF Level, LimiterTypeOK
<1>3. \A j \in Peers \ DOMAIN buckets : Level(j) = Capacity
  BY DEF Level
<1>4. \A j \in Peers : Levels[j] = Level(j)
  BY DEF Levels
<1>5. Below \subseteq DOMAIN buckets
  BY <1>3, <1>4, Units DEF Below
<1>6. \A j \in DOMAIN buckets : j \in Below <=> ~Full(buckets[j])
  BY <1>1, <1>2, <1>4, Units DEF Below
<1>7. DOMAIN NotFull = {j \in DOMAIN buckets : ~Full(buckets[j])}
  BY DEF NotFull
<1>8. QED  BY <1>5, <1>6, <1>7

\* After a request, the caller's level is what it left.
LEMMA CallerLevel == ASSUME LimiterTypeOK, NEW k \in Peers, Allow(k) PROVE Level(k)' = Left(k)
<1>1. /\ DOMAIN buckets' = DOMAIN Kept(k) \cup {k}
      /\ buckets'[k] = [tokens |-> Left(k), at |-> now]
      /\ Left(k) \in 0..Capacity /\ now' = now /\ now \in Nat
  BY AllowStep DEF LimiterTypeOK
<1>2. k \in DOMAIN buckets' /\ buckets'[k].tokens = Left(k) /\ buckets'[k].at = now
  BY <1>1
<1>3. Level(k)' = AtMost(Capacity, Left(k) + (now' - now) * PerMinute)
  BY <1>2 DEF Level, Refilled, Earned
<1>4. (now' - now) * PerMinute = 0
  BY <1>1
<1>5. QED  BY <1>1, <1>3, <1>4, Units DEF AtMost

\* The other callers' levels are those of the buckets that were kept.
LEMMA OtherLevels ==
    ASSUME LimiterTypeOK, NEW k \in Peers, Allow(k), NEW j \in Peers, j # k
    PROVE  Level(j)' = IF j \in DOMAIN Kept(k) THEN Level(j) ELSE Capacity
<1>1. /\ DOMAIN buckets' = DOMAIN Kept(k) \cup {k}
      /\ \A x \in DOMAIN Kept(k) \ {k} : buckets'[x] = buckets[x]
      /\ now' = now
  BY AllowStep
<1>2. DOMAIN Kept(k) \subseteq DOMAIN buckets
  BY KeptType
<1>3. CASE j \in DOMAIN Kept(k)
  <2>1. j \in DOMAIN buckets /\ j \in DOMAIN buckets' /\ buckets'[j] = buckets[j]
    BY <1>1, <1>2, <1>3
  <2>2. QED  BY <1>1, <1>3, <2>1 DEF Level, Refilled, Earned
<1>4. CASE j \notin DOMAIN Kept(k)
  BY <1>1, <1>4 DEF Level
<1>5. QED  BY <1>3, <1>4

\* Unless the callers are too many, nobody else's level changes.
LEMMA UncrowdedAllow ==
    ASSUME LimiterTypeOK, NEW k \in Peers, Allow(k), Room(k) \/ Cardinality(Below) < MaxBuckets
    PROVE  \A j \in Peers \ {k} : Level(j)' = Level(j)
<1>1. Below \subseteq DOMAIN buckets /\ Below = DOMAIN NotFull
  BY BelowHaveBuckets
<1>2. /\ DOMAIN buckets \subseteq Peers /\ IsFiniteSet(DOMAIN buckets)
      /\ Cardinality(DOMAIN buckets) \in Nat /\ Cardinality(DOMAIN buckets) <= MaxBuckets
  BY BucketsFinite DEF LimiterTypeOK
<1>3. Cardinality(Below) \in Nat
  BY BucketsFinite DEF Below
<1>4. \A j \in Peers : Level(j) \in 0..Capacity /\ (j \in Below <=> Level(j) # Capacity)
  BY BucketOfType, Units DEF Below, Levels
<1>5. CASE Room(k)
  <2>1. Kept(k) = buckets
    BY <1>5 DEF Kept
  <2>2. QED  BY <2>1, OtherLevels DEF Level
<1>6. CASE ~Room(k) /\ Cardinality(Below) < MaxBuckets
  <2>1. Kept(k) = NotFull
    BY <1>1, <1>3, <1>6 DEF Kept, Evicted
  <2>2. QED  BY <1>1, <1>4, <2>1, OtherLevels
<1>7. QED  BY <1>5, <1>6

\* Without room, and with so many callers below a full allowance, a bucket that has
\* not refilled is dropped.
LEMMA CrowdedForgets ==
    ASSUME LimiterTypeOK, NEW k \in Peers, Allow(k), ~Room(k), Cardinality(Below) >= MaxBuckets
    PROVE  Forgets
<1>1. Below \subseteq DOMAIN buckets /\ Below = DOMAIN NotFull
  BY BelowHaveBuckets
<1>2. DOMAIN buckets' = {k}
  <2>1. Kept(k) = <<>>
    BY <1>1 DEF Kept, Evicted
  <2>2. DOMAIN Kept(k) = {}
    BY <2>1
  <2>3. DOMAIN buckets' = DOMAIN Kept(k) \cup {k}
    BY AllowStep
  <2>4. QED  BY <2>2, <2>3
<1>3. PICK j \in Below : TRUE
  <2>1. Cardinality({}) = 0 /\ 1 <= MaxBuckets
    BY FS_EmptySet
  <2>2. Below # {}
    BY <2>1
  <2>3. QED  BY <2>2
<1>4. j \in DOMAIN buckets /\ j # k /\ ~Full(buckets[j])
  BY <1>1, <1>3 DEF NotFull, Room
<1>5. QED  BY <1>2, <1>4 DEF Forgets

\* A request that changes nobody else's level forgets nobody.
LEMMA KnownStayKnown ==
    ASSUME LimiterTypeOK, NEW k \in Peers, Allow(k),
           \A j \in Peers \ {k} : Level(j)' = Level(j)
    PROVE  ~Forgets
<1> SUFFICES ASSUME NEW j \in DOMAIN buckets, ~Full(buckets[j]), j \notin DOMAIN buckets'
             PROVE  FALSE
  BY DEF Forgets
<1>1. j \in Peers /\ buckets[j] \in Bucket /\ buckets[j].at <= now
  BY DEF LimiterTypeOK, Bucket
<1>2. Level(j) # Capacity
  BY <1>1, RefilledType DEF Level, LimiterTypeOK
<1>3. j # k /\ Level(j)' = Capacity
  <2>1. DOMAIN buckets' = DOMAIN Kept(k) \cup {k}
    BY AllowStep
  <2>2. QED  BY <2>1 DEF Level
<1>4. Level(j)' = Level(j)
  BY <1>1, <1>3
<1>5. QED  BY <1>2, <1>3, <1>4

\* Unless it forgets anybody, a request is let through or refused as promised; and it
\* forgets nobody unless the limiter is crowded.
LEMMA AllowRefines ==
    ASSUME LimiterTypeOK, NEW k \in Peers, Allow(k)
    PROVE  IF Forgets THEN Crowded ELSE Limiter!Pass(k) \/ Limiter!Refuse(k)
<1> USE DEF Limiter!Capacity, Limiter!Cost, Capacity, Cost
<1>1. Level(k)' = Left(k) /\ answer' = (Level(k) >= Cost)
  BY CallerLevel, AllowStep
<1>2. Level(k) \in 0..Capacity
  BY BucketOfType
<1>3. Crowded <=> Cardinality(Below) >= MaxBuckets
  <2>1. Below = {j \in Peers : Level(j) < Capacity}
    BY DEF Below, Levels
  <2>2. QED  BY <2>1 DEF Crowded
<1>4. CASE Room(k) \/ Cardinality(Below) < MaxBuckets
  <2>1. \A j \in Peers \ {k} : Level(j)' = Level(j)
    BY <1>4, UncrowdedAllow
  <2>2. ~Forgets
    BY <2>1, KnownStayKnown
  <2>3. CASE Level(k) >= Cost
    <3>1. Levels' = [Levels EXCEPT ![k] = @ - Cost]
      BY <1>1, <2>1, <2>3 DEF Levels, Left
    <3>2. QED  BY <1>1, <2>2, <2>3, <3>1 DEF Limiter!Pass, Levels
  <2>4. CASE ~(Level(k) >= Cost)
    <3>1. Levels' = Levels
      BY <1>1, <2>1, <2>4 DEF Levels, Left
    <3>2. Level(k) < Cost
      BY <1>2, <2>4
    <3>3. answer' = FALSE
      <4>1. (Level(k) >= Cost) = FALSE
        BY <2>4
      <4>2. QED  BY <1>1, <4>1
    <3>4. QED  BY <2>2, <3>1, <3>2, <3>3 DEF Limiter!Refuse, Levels
  <2>5. QED  BY <2>3, <2>4
<1>5. CASE ~Room(k) /\ Cardinality(Below) >= MaxBuckets
  BY <1>3, <1>5, CrowdedForgets
<1>6. Cardinality(Below) \in Nat
  BY BucketsFinite DEF Below
<1>7. QED  BY <1>4, <1>5, <1>6

\* A tick refills every allowance as promised.
LEMMA TickRefines == LimiterTypeOK /\ Tick => Limiter!Tick
<1> SUFFICES ASSUME LimiterTypeOK, Tick PROVE Limiter!Tick
  OBVIOUS
<1>1. \A k \in Peers : Level(k)' = AtMost(Capacity, Level(k) + PerMinute)
  BY TickLevel
<1>2. Levels' = [k \in Peers |-> AtMost(Capacity, Levels[k] + PerMinute)]
  BY <1>1 DEF Levels
<1>3. QED  BY <1>2 DEF Limiter!Tick, Tick, Levels, Limiter!Capacity, Limiter!AtMost, Capacity, AtMost

\* The limiter implements its promise but for the requests that forget callers: it
\* answers every other request as allowances refilled at every tick would
\* (app.py:85-97, 116-136), and forgets nobody unless max_buckets are below a full one.
THEOREM LimiterImplementsPromise == LimiterSpec => ImplementsLimiter
<1>1. LimiterInit => Limiter!Init
  <2> SUFFICES ASSUME LimiterInit PROVE Limiter!Init
    OBVIOUS
  <2>1. \A k \in Peers : Level(k) = Capacity
    BY DEF LimiterInit, Level
  <2>2. QED  BY <2>1 DEF LimiterInit, Limiter!Init, Limiter!Capacity, Capacity
<1>2. LimiterTypeOK /\ [LimiterNext]_limiterVars
        => [IF Forgets THEN Crowded ELSE Limiter!Next]_(Limiter!vars)
  <2> SUFFICES ASSUME LimiterTypeOK, [LimiterNext]_limiterVars
               PROVE  [IF Forgets THEN Crowded ELSE Limiter!Next]_(Limiter!vars)
    OBVIOUS
  <2>1. CASE UNCHANGED limiterVars
    BY <2>1 DEF limiterVars, Limiter!vars, Level, Refilled, Earned
  <2>2. CASE Tick
    <3>1. ~Forgets
      BY <2>2 DEF Tick, Forgets
    <3>2. QED  BY <2>2, <3>1, TickRefines DEF Limiter!Next
  <2>3. ASSUME NEW k \in Peers, Allow(k)
        PROVE  IF Forgets THEN Crowded ELSE Limiter!Next
    BY <2>3, AllowRefines DEF Limiter!Next
  <2>4. QED  BY <2>1, <2>2, <2>3 DEF LimiterNext
<1>3. QED  BY <1>1, <1>2, LimiterTypeCorrect, PTL DEF LimiterSpec, ImplementsLimiter

----------------------------------------------------------------------------
\* The inductive invariant.

\* c has no pool yet.
Fresh(c) == c \notin ready /\ pool # c

\* Callers that have opened no pool, but may.
FreshCallers ==
    /\ \A c \in Callers : call[c] \in {"asked", "opening"} => Fresh(c)
    /\ \A c \in Callers : call[c] = "opening" => c \in open
    /\ \A j \in Jobs : job[j] \in {"absent", "queued"} => call[j] = "none" /\ Fresh(j)
    /\ made = 0 /\ pending = "none" => \A s \in Searches : call[s] = "none" /\ Fresh(s)

\* At startup there is one caller.
StartupAlone ==
    phase = "starting" =>
        /\ \A c \in Callers \ {Startup} : call[c] = "none"
        /\ \A j \in Jobs : job[j] = "absent"
        /\ call[Startup] \in {"asked", "opening"} => pool = NoPool
        /\ call[Startup] = "asked" => open = {}
        /\ call[Startup] \in {"opening", "using", "done"} => open = {Startup}

\* What PoolUsable says of the moment, and that the startup's pool is the one handed out.
PoolOpen ==
    phase \in {"starting", "serving"} =>
        /\ pool # NoPool => pool \in ready
        /\ \A c \in Callers : call[c] = "using" => using[c] \in ready
        /\ call[Startup] \in {"using", "done"} => pool = Startup /\ open = {Startup}
        /\ phase = "serving" => call[Startup] \in {"done", "unavailable"}

\* The tasks that the services refer to are of jobs without an outcome.
TasksUnfinished == \A j \in tasks : job[j] \in {"queued", "running"}

\* Every event but the one that the task holds has been delivered.
EventsInOrder ==
    /\ Len(delivered) = IF pending = "event" THEN made - 1 ELSE made
    /\ pending = "event" => made > 0
    /\ pending = "end" => made = length
    /\ pending \in {"error", "timeout"} => made = 0

LengthOK == length \in Lengths

IInv == /\ TypeOK /\ LengthOK
        /\ FreshCallers /\ StartupAlone /\ PoolOpen
        /\ StatusTrue /\ TasksUnfinished
        /\ EventsInOrder

----------------------------------------------------------------------------
\* The two halves of the invariant: what the service graph is in, and the stream.

ServiceInv == ServicesTypeOK /\ StartupAlone /\ PoolOpen /\ StatusTrue /\ TasksUnfinished

StreamInv ==
    /\ LengthOK /\ EventsInOrder
    /\ made \in 0..length
    /\ pending \in {"none", "running", "event", "end", "error", "timeout"}
    /\ delivered \in Seq(1..length) /\ beat \in 0..1
    /\ outcome \in {"open", "complete", "broken", "left"}

\* The answer waits for its searches.
SearchedFirst == made > 0 => \A s \in Searches : call[s] = "done"

LEMMA Parts == IInv <=> ServiceInv /\ FreshCallers /\ StreamInv /\ SearchedFirst
BY DEF IInv, TypeOK, ServiceInv, StreamInv, SearchedFirst

LEMMA Initially == Init => IInv
<1> SUFFICES ASSUME Init PROVE IInv
  OBVIOUS
<1> USE DEF Init, StreamInit, ServicesInit
<1>1. ServicesTypeOK
  BY DEF ServicesTypeOK, Callers
<1>2. StartupAlone /\ PoolOpen
  BY DEF StartupAlone, PoolOpen, Callers
<1>3. StatusTrue /\ TasksUnfinished
  BY DEF StatusTrue, TasksUnfinished, Unfinished
<1>4. FreshCallers
  BY DEF FreshCallers, Fresh, Callers
<1>5. StreamInv /\ SearchedFirst
  BY DEF StreamInv, EventsInOrder, LengthOK, SearchedFirst
<1>6. QED  BY <1>1, <1>2, <1>3, <1>4, <1>5, Parts DEF ServiceInv

----------------------------------------------------------------------------
\* A step of the stream.

\* One of the actions of AnswerStream.
StreamStep ==
    \/ Pull \/ Yield \/ Exhaust
    \/ \E kind \in {"error", "timeout"} : RaiseError(kind)
    \/ Heartbeat \/ Take \/ Finish \/ Disconnect

LEMMA StreamKept == StreamInv /\ StreamStep => StreamInv'
<1> SUFFICES ASSUME StreamInv, StreamStep PROVE StreamInv'
  OBVIOUS
<1> USE DEF StreamInv, EventsInOrder, LengthOK
<1>0. length \in Nat \ {0} /\ made \in Nat /\ Len(delivered) \in Nat
  OBVIOUS
<1>1. CASE Pull
  BY <1>1 DEF Pull
<1>2. CASE Yield
  BY <1>0, <1>2 DEF Yield
<1>3. CASE Exhaust
  BY <1>3 DEF Exhaust
<1>4. CASE \E kind \in {"error", "timeout"} : RaiseError(kind)
  BY <1>4 DEF RaiseError
<1>5. CASE Heartbeat
  BY <1>5 DEF Heartbeat, Shielded
<1>6. CASE Take
  <2>1. made \in 1..length /\ Len(delivered) = made - 1
    BY <1>0, <1>6 DEF Take
  <2>2. delivered' \in Seq(1..length) /\ Len(delivered') = made
    BY <2>1, <1>6 DEF Take
  <2>3. QED  BY <1>6, <2>2 DEF Take
<1>7. CASE Finish
  BY <1>7 DEF Finish, EndOrError
<1>8. CASE Disconnect
  BY <1>8 DEF Disconnect
<1>9. QED  BY <1>1, <1>2, <1>3, <1>4, <1>5, <1>6, <1>7, <1>8 DEF StreamStep

\* A step of the stream is one that the client was promised, or none for the client.
LEMMA StreamStepPromised == StreamInv /\ StreamStep => [EventStream!Next]_(EventStream!vars)
<1> SUFFICES ASSUME StreamInv, StreamStep PROVE [EventStream!Next]_(EventStream!vars)
  OBVIOUS
<1> USE DEF StreamInv, EventsInOrder, EventStream!vars, EventStream!Next
<1>0. Len(delivered) \in Nat /\ (Len(delivered) = 0 => delivered = <<>>)
  OBVIOUS
<1>1. CASE UNCHANGED EventStream!vars
  BY <1>1
<1>2. CASE Take
  <2>1. made \in 1..length /\ Len(delivered) = made - 1 /\ outcome = "open"
    BY <1>0, <1>2 DEF Take, Ended, LengthOK
  <2>2. EventStream!Deliver
    BY <2>1, <1>2 DEF Take, EventStream!Deliver, LengthOK
  <2>3. QED  BY <2>2
<1>3. CASE Finish
  <2>1. CASE pending = "end"
    BY <2>1, <1>3 DEF Finish, EventStream!Complete, Ended
  <2>2. CASE pending = "error"
    BY <2>2, <1>0, <1>3 DEF Finish, EventStream!Break, Ended
  <2>3. QED  BY <2>1, <2>2, <1>3 DEF Finish, EndOrError
<1>4. CASE Disconnect
  BY <1>4 DEF Disconnect, EventStream!Leave, Ended
<1>5. CASE Pull \/ Yield \/ Exhaust \/ (\E kind \in {"error", "timeout"} : RaiseError(kind)) \/ Heartbeat
  BY <1>1, <1>5 DEF Pull, Yield, Exhaust, RaiseError, Heartbeat
<1>6. QED  BY <1>2, <1>3, <1>4, <1>5 DEF StreamStep

\* Every step is one of the stream or leaves the stream alone.
LEMMA StreamPart == [Next]_vars => StreamStep \/ UNCHANGED streamVars
BY DEF Next, vars, Search, Answer, AnswerFails, BackendFails, Respond, Stop, Background, StreamStep

----------------------------------------------------------------------------
\* A step of the service graph.

CallInv == ServiceInv /\ FreshCallers /\ SearchedFirst

\* The searches ask, and one that raises asks no more; whatever else a step of the
\* stream does, the callers are where they were.
LEMMA CallsKeptByStream ==
    ASSUME CallInv, StreamInv, Next, StreamStep,
           UNCHANGED serviceVars \/ Search \/ \E kind \in {"error", "timeout"} : BackendFails(kind)
    PROVE  CallInv'
<1> USE DEF CallInv, Callers
<1>1. CASE Search
  <2> USE <1>1 DEF Search, Pull, poolVars, jobVars
  <2>1. ServicesTypeOK'
    BY DEF ServiceInv, ServicesTypeOK
  <2>2. StartupAlone' /\ TasksUnfinished'
    BY DEF ServiceInv, StartupAlone, TasksUnfinished
  <2>3. PoolOpen'
    BY DEF ServiceInv, ServicesTypeOK, PoolOpen
  <2>4. StatusTrue'
    BY DEF ServiceInv, ServicesTypeOK, StatusTrue, Unfinished
  <2>5. FreshCallers'
    BY DEF FreshCallers, Fresh, ServiceInv, ServicesTypeOK
  <2>6. SearchedFirst'
    BY DEF SearchedFirst, StreamInv, LengthOK
  <2>7. QED  BY <2>1, <2>2, <2>3, <2>4, <2>5, <2>6 DEF ServiceInv
<1>2. CASE UNCHANGED serviceVars
  <2> USE <1>2 DEF serviceVars
  <2>1. ServiceInv'
    BY DEF ServiceInv, ServicesTypeOK, StartupAlone, PoolOpen, StatusTrue, TasksUnfinished, Unfinished
  <2>2. pending \in {"none", "running", "event", "end", "error", "timeout"}
        /\ made \in Nat /\ (pending = "event" => made > 0)
    BY DEF StreamInv, EventsInOrder, LengthOK
  <2>3. (made' = 0 /\ pending' = "none" => made = 0 /\ pending = "none")
        /\ (made' > 0 => made > 0 \/ Yield)
    BY <2>2 DEF StreamStep, Pull, Yield, Exhaust, RaiseError, Heartbeat, Shielded, Take, Finish, Disconnect
  <2>4. Yield => Searched
    <3>1. Yield => made' = made + 1
      BY DEF Yield
    <3>2. Yield => ~Search /\ ~(\E kind \in {"error", "timeout"} : AnswerFails(kind) \/ BackendFails(kind))
                       /\ ~Respond /\ ~Stop /\ ~Background
      BY <3>1, <2>2 DEF Search, Pull, AnswerFails, BackendFails, RaiseError, Respond, Heartbeat, Take, Finish,
                        Disconnect, Stop, Background, streamVars
    <3>3. QED  BY <3>2 DEF Next, Answer
  <2>5. FreshCallers'
    BY <2>3 DEF FreshCallers, Fresh
  <2>6. SearchedFirst'
    BY <2>3, <2>4 DEF SearchedFirst, Searched
  <2>7. QED  BY <2>1, <2>5, <2>6
<1>3. CASE \E kind \in {"error", "timeout"} : BackendFails(kind)
  <2> PICK kind \in {"error", "timeout"} : BackendFails(kind)
    BY <1>3
  <2> USE DEF BackendFails, RaiseError, jobVars
  <2>1. ServicesTypeOK'
    BY DEF ServiceInv, ServicesTypeOK
  <2>2. StartupAlone' /\ TasksUnfinished'
    <3>1. \A c \in Callers : call'[c] = call[c] \/ (c \in Searches /\ call'[c] = "none")
      BY DEF ServiceInv, ServicesTypeOK
    <3>2. Startup \notin Searches
      BY CallersAssumption
    <3>3. StartupAlone'
      BY <3>1, <3>2 DEF ServiceInv, StartupAlone
    <3>4. TasksUnfinished'
      BY DEF ServiceInv, TasksUnfinished
    <3>5. QED  BY <3>3, <3>4
  <2>3. PoolOpen'
    BY DEF ServiceInv, ServicesTypeOK, PoolOpen
  <2>4. StatusTrue'
    BY DEF ServiceInv, ServicesTypeOK, StatusTrue, Unfinished
  <2>5. FreshCallers'
    BY DEF FreshCallers, Fresh, ServiceInv, ServicesTypeOK
  <2>6. SearchedFirst'
    BY DEF SearchedFirst
  <2>7. QED  BY <2>1, <2>2, <2>3, <2>4, <2>5, <2>6 DEF ServiceInv
<1>4. QED  BY <1>1, <1>2, <1>3

\* A pool that is there is open until the shutdown.
LEMMA FindPoolKept ==
    ASSUME CallInv, NEW c \in Callers, FindPool(c), UNCHANGED <<made, pending>>
    PROVE  CallInv'
<1> USE DEF CallInv, ServiceInv, FindPool, jobVars, Callers
<1>1. ServicesTypeOK'
  BY DEF ServicesTypeOK
<1>2. StartupAlone'
  BY DEF StartupAlone
<1>3. PoolOpen'
  BY DEF PoolOpen, ServicesTypeOK, StartupAlone
<1>4. StatusTrue'
  BY DEF StatusTrue, Unfinished
<1>5. TasksUnfinished'
  BY DEF TasksUnfinished
<1>6. FreshCallers'
  BY DEF FreshCallers, Fresh
<1>7. SearchedFirst'
  BY DEF SearchedFirst
<1>8. QED  BY <1>1, <1>2, <1>3, <1>4, <1>5, <1>6, <1>7

\* No pool is made while one is handed out.
LEMMA MakePoolKept ==
    ASSUME CallInv, NEW c \in Callers, MakePool(c), UNCHANGED <<made, pending>>
    PROVE  CallInv'
<1> USE DEF CallInv, ServiceInv, MakePool, AssignLater, jobVars, Callers
<1>1. ServicesTypeOK'
  BY DEF ServicesTypeOK
<1>2. StartupAlone'
  BY DEF StartupAlone, ServicesTypeOK
<1>3. PoolOpen'
  BY DEF PoolOpen
<1>4. StatusTrue'
  BY DEF StatusTrue, Unfinished
<1>5. TasksUnfinished'
  BY DEF TasksUnfinished
<1>6. FreshCallers'
  BY DEF FreshCallers, Fresh
<1>7. SearchedFirst'
  BY DEF SearchedFirst
<1>8. QED  BY <1>1, <1>2, <1>3, <1>4, <1>5, <1>6, <1>7

\* The caller that opened a pool is fresh no more.
LEMMA PoolOpensKept ==
    ASSUME CallInv, NEW c \in Callers, PoolOpens(c), UNCHANGED <<made, pending>>
    PROVE  CallInv'
<1> USE DEF CallInv, ServiceInv, PoolOpens, jobVars, Callers
<1>1. ServicesTypeOK'
  BY DEF ServicesTypeOK, FreshCallers
<1>2. StartupAlone'
  BY DEF StartupAlone, ServicesTypeOK
<1>3. PoolOpen'
  BY DEF PoolOpen, ServicesTypeOK, FreshCallers, StartupAlone
<1>4. StatusTrue'
  BY DEF StatusTrue, Unfinished
<1>5. TasksUnfinished'
  BY DEF TasksUnfinished
<1>6. FreshCallers'
  BY DEF FreshCallers, Fresh, ServicesTypeOK
<1>7. SearchedFirst'
  BY DEF SearchedFirst
<1>8. QED  BY <1>1, <1>2, <1>3, <1>4, <1>5, <1>6, <1>7

\* A pool that could not be opened was never handed out.
LEMMA PoolUnavailableKept ==
    ASSUME CallInv, NEW c \in Callers, PoolUnavailable(c), UNCHANGED <<made, pending>>
    PROVE  CallInv'
<1> USE DEF CallInv, ServiceInv, PoolUnavailable, jobVars, Callers
<1>1. ServicesTypeOK'
  BY DEF ServicesTypeOK, FreshCallers, Fresh
<1>2. StartupAlone'
  BY DEF StartupAlone, ServicesTypeOK
<1>3. PoolOpen'
  BY DEF PoolOpen
<1>4. StatusTrue'
  BY DEF StatusTrue, Unfinished
<1>5. TasksUnfinished'
  BY DEF TasksUnfinished
<1>6. FreshCallers'
  BY DEF FreshCallers, Fresh, ServicesTypeOK
<1>7. SearchedFirst'
  BY DEF SearchedFirst
<1>8. QED  BY <1>1, <1>2, <1>3, <1>4, <1>5, <1>6, <1>7

\* A statement runs on a pool and leaves the pools alone.
LEMMA ExecuteKept ==
    ASSUME CallInv, NEW c \in Callers, Execute(c), UNCHANGED <<made, pending>>
    PROVE  CallInv'
<1> USE DEF CallInv, ServiceInv, Execute, jobVars, Callers
<1>1. ServicesTypeOK'
  BY DEF ServicesTypeOK
<1>2. StartupAlone'
  BY DEF StartupAlone, ServicesTypeOK
<1>3. PoolOpen'
  BY DEF PoolOpen, ServicesTypeOK
<1>4. StatusTrue'
  BY DEF StatusTrue, Unfinished, ServicesTypeOK
<1>5. TasksUnfinished'
  BY DEF TasksUnfinished
<1>6. FreshCallers'
  BY DEF FreshCallers, Fresh, ServicesTypeOK
<1>7. SearchedFirst'
  BY DEF SearchedFirst, ServicesTypeOK
<1>8. QED  BY <1>1, <1>2, <1>3, <1>4, <1>5, <1>6, <1>7

\* The application serves or gives up.
LEMMA StartedKept ==
    ASSUME CallInv, Started, UNCHANGED <<made, pending>>
    PROVE  CallInv'
<1> USE DEF CallInv, ServiceInv, Started, poolVars, jobVars, Callers
<1>1. ServicesTypeOK'
  BY DEF ServicesTypeOK
<1>2. StartupAlone'
  BY DEF StartupAlone
<1>3. PoolOpen'
  BY DEF PoolOpen
<1>4. StatusTrue'
  BY DEF StatusTrue, Unfinished
<1>5. TasksUnfinished'
  BY DEF TasksUnfinished
<1>6. FreshCallers'
  BY DEF FreshCallers, Fresh
<1>7. SearchedFirst'
  BY DEF SearchedFirst
<1>8. QED  BY <1>1, <1>2, <1>3, <1>4, <1>5, <1>6, <1>7

\* A job that was accepted has a task.
LEMMA StartJobKept ==
    ASSUME CallInv, NEW j \in Jobs, StartJob(j), UNCHANGED <<made, pending>>
    PROVE  CallInv'
<1> USE DEF CallInv, ServiceInv, StartJob, Hold, poolVars, Callers
<1>1. ServicesTypeOK'
  BY DEF ServicesTypeOK
<1>2. StartupAlone'
  BY DEF StartupAlone
<1>3. PoolOpen'
  BY DEF PoolOpen
<1>4. StatusTrue'
  BY DEF StatusTrue, Unfinished
<1>5. TasksUnfinished'
  BY DEF TasksUnfinished, ServicesTypeOK
<1>6. FreshCallers'
  BY DEF FreshCallers, Fresh
<1>7. SearchedFirst'
  BY DEF SearchedFirst
<1>8. QED  BY <1>1, <1>2, <1>3, <1>4, <1>5, <1>6, <1>7

\* A job that runs is the first to ask for its pool.
LEMMA RunJobKept ==
    ASSUME CallInv, NEW j \in Jobs, RunJob(j), UNCHANGED <<made, pending>>
    PROVE  CallInv'
<1> USE DEF CallInv, ServiceInv, RunJob, Ask, Unfinished, Callers
<1>1. ServicesTypeOK'
  BY DEF ServicesTypeOK
<1>2. StartupAlone'
  BY DEF StartupAlone
<1>3. PoolOpen'
  BY DEF PoolOpen
<1>4. StatusTrue'
  BY DEF StatusTrue
<1>5. TasksUnfinished'
  BY DEF TasksUnfinished
<1>6. FreshCallers'
  BY DEF FreshCallers, Fresh, ServicesTypeOK
<1>7. SearchedFirst'
  BY DEF SearchedFirst
<1>8. QED  BY <1>1, <1>2, <1>3, <1>4, <1>5, <1>6, <1>7

\* A job has its outcome when its task ends.
LEMMA FinishJobKept ==
    ASSUME CallInv, NEW j \in Jobs, FinishJob(j), UNCHANGED <<made, pending>>
    PROVE  CallInv'
<1> USE DEF CallInv, ServiceInv, FinishJob, Recorded, poolVars, Unfinished, Callers
<1>1. ServicesTypeOK'
  BY DEF ServicesTypeOK
<1>2. StartupAlone'
  BY DEF StartupAlone
<1>3. PoolOpen'
  BY DEF PoolOpen
<1>4. StatusTrue'
  BY DEF StatusTrue, ServicesTypeOK
<1>5. TasksUnfinished'
  BY DEF TasksUnfinished
<1>6. FreshCallers'
  BY DEF FreshCallers, Fresh
<1>7. SearchedFirst'
  BY DEF SearchedFirst
<1>8. QED  BY <1>1, <1>2, <1>3, <1>4, <1>5, <1>6, <1>7

\* A job that was cancelled keeps its status.
LEMMA CancelJobKept ==
    ASSUME CallInv, NEW j \in Jobs, CancelJob(j), UNCHANGED <<made, pending>>
    PROVE  CallInv'
<1> USE DEF CallInv, ServiceInv, CancelJob, Callers
<1>1. ServicesTypeOK'
  BY DEF ServicesTypeOK
<1>2. StartupAlone'
  BY DEF StartupAlone
<1>3. PoolOpen'
  BY DEF PoolOpen
<1>4. StatusTrue'
  BY DEF StatusTrue, Unfinished, TasksUnfinished
<1>5. TasksUnfinished'
  BY DEF TasksUnfinished
<1>6. FreshCallers'
  BY DEF FreshCallers, Fresh
<1>7. SearchedFirst'
  BY DEF SearchedFirst
<1>8. QED  BY <1>1, <1>2, <1>3, <1>4, <1>5, <1>6, <1>7

\* The tasks are cancelled in the shutdown only.
LEMMA ShutdownKept ==
    ASSUME CallInv, Shutdown, UNCHANGED <<made, pending>>
    PROVE  CallInv'
<1> USE DEF CallInv, ServiceInv, Shutdown, poolVars, Callers
<1>1. ServicesTypeOK'
  BY DEF ServicesTypeOK
<1>2. StartupAlone'
  BY DEF StartupAlone
<1>3. PoolOpen'
  BY DEF PoolOpen
<1>4. StatusTrue'
  BY DEF StatusTrue, Unfinished
<1>5. TasksUnfinished'
  BY DEF TasksUnfinished
<1>6. FreshCallers'
  BY DEF FreshCallers, Fresh
<1>7. SearchedFirst'
  BY DEF SearchedFirst
<1>8. QED  BY <1>1, <1>2, <1>3, <1>4, <1>5, <1>6, <1>7

\* The pool that was handed out is closed after everything was served.
LEMMA ClosePoolKept ==
    ASSUME CallInv, ClosePool, UNCHANGED <<made, pending>>
    PROVE  CallInv'
<1> USE DEF CallInv, ServiceInv, ClosePool, jobVars, Callers
<1>1. ServicesTypeOK'
  BY DEF ServicesTypeOK
<1>2. StartupAlone'
  BY DEF StartupAlone
<1>3. PoolOpen'
  BY DEF PoolOpen
<1>4. StatusTrue'
  BY DEF StatusTrue, Unfinished
<1>5. TasksUnfinished'
  BY DEF TasksUnfinished
<1>6. FreshCallers'
  BY DEF FreshCallers, Fresh
<1>7. SearchedFirst'
  BY DEF SearchedFirst
<1>8. QED  BY <1>1, <1>2, <1>3, <1>4, <1>5, <1>6, <1>7

\* The store forgets a pool.
LEMMA ForgetPoolKept ==
    ASSUME CallInv, ForgetPool, UNCHANGED <<made, pending>>
    PROVE  CallInv'
<1> USE DEF CallInv, ServiceInv, ForgetPool, jobVars, Callers
<1>1. ServicesTypeOK'
  BY DEF ServicesTypeOK
<1>2. StartupAlone'
  BY DEF StartupAlone
<1>3. PoolOpen'
  BY DEF PoolOpen
<1>4. StatusTrue'
  BY DEF StatusTrue, Unfinished
<1>5. TasksUnfinished'
  BY DEF TasksUnfinished
<1>6. FreshCallers'
  BY DEF FreshCallers, Fresh
<1>7. SearchedFirst'
  BY DEF SearchedFirst
<1>8. QED  BY <1>1, <1>2, <1>3, <1>4, <1>5, <1>6, <1>7

\* The pool of any caller.
LEMMA UseStoreKept ==
    ASSUME CallInv, NEW c \in Callers, UseStore(c), UNCHANGED <<made, pending>>
    PROVE  CallInv'
BY FindPoolKept, MakePoolKept, PoolOpensKept, PoolUnavailableKept, ExecuteKept DEF UseStore

LEMMA CallsKept == CallInv /\ StreamInv /\ [Next]_vars => CallInv'
<1> SUFFICES ASSUME CallInv, StreamInv, [Next]_vars PROVE CallInv'
  OBVIOUS
<1>1. CASE UNCHANGED vars
  BY <1>1 DEF vars, streamVars, serviceVars, CallInv, ServiceInv, FreshCallers, Fresh, SearchedFirst,
              ServicesTypeOK, StartupAlone, PoolOpen, StatusTrue, TasksUnfinished, Unfinished
<1>2. CASE /\ Next /\ StreamStep
           /\ \/ UNCHANGED serviceVars
              \/ Search
              \/ \E kind \in {"error", "timeout"} : BackendFails(kind)
  BY <1>2, CallsKeptByStream
<1>3. CASE Stop
  BY <1>3, ShutdownKept DEF Stop, streamVars
<1>4. CASE Background
  <2>1. UNCHANGED <<made, pending>>
    BY <1>4 DEF Background, streamVars
  <2>2. CASE \E c \in Callers : UseStore(c)
    BY <2>1, <2>2, UseStoreKept
  <2>3. CASE Started
    BY <2>1, <2>3, StartedKept
  <2>4. CASE \E j \in Jobs : StartJob(j) \/ RunJob(j) \/ FinishJob(j) \/ CancelJob(j)
    BY <2>1, <2>4, StartJobKept, RunJobKept, FinishJobKept, CancelJobKept
  <2>5. CASE ClosePool \/ ForgetPool
    BY <2>1, <2>5, ClosePoolKept, ForgetPoolKept
  <2>6. QED  BY <1>4, <2>2, <2>3, <2>4, <2>5 DEF Background
<1>5. QED
  BY <1>1, <1>2, <1>3, <1>4 DEF Next, Search, Answer, AnswerFails, BackendFails, Respond, StreamStep

----------------------------------------------------------------------------
\* The theorems.

LEMMA Preserved == IInv /\ [Next]_vars => IInv'
<1> SUFFICES ASSUME IInv, [Next]_vars PROVE IInv'
  OBVIOUS
<1>1. CallInv /\ StreamInv
  BY Parts DEF CallInv
<1>2. CallInv'
  BY <1>1, CallsKept
<1>3. StreamInv'
  <2>1. CASE StreamStep
    BY <1>1, <2>1, StreamKept
  <2>2. CASE UNCHANGED streamVars
    BY <1>1, <2>2 DEF streamVars, StreamInv, LengthOK, EventsInOrder
  <2>3. QED  BY <2>1, <2>2, StreamPart
<1>4. QED
  BY <1>2, <1>3 DEF CallInv, ServiceInv, StreamInv, SearchedFirst, IInv, TypeOK

LEMMA Invariant == Spec => []IInv
BY Initially, Preserved, PTL DEF Spec

\* The state of the stream, the pool and the jobs is well formed, and nothing is
\* answered before every search is done.
THEOREM TypeCorrect == Spec => []TypeOK
<1>1. IInv => TypeOK
  BY DEF IInv
<1>2. QED  BY <1>1, Invariant, PTL

\* Until the shutdown nobody uses a pool that is not open, and when the startup
\* opened one no other is ever opened (pgvector.py:110-130).
THEOREM PoolIsUsable == Spec => []PoolUsable
<1>1. IInv => PoolUsable
  BY DEF IInv, PoolOpen, PoolUsable
<1>2. QED  BY <1>1, Invariant, PTL

\* A job's status is the truth about it (routes_ingest.py:77-103).
THEOREM StatusIsTrue == Spec => []StatusTrue
<1>1. IInv => StatusTrue
  BY DEF IInv
<1>2. QED  BY <1>1, Invariant, PTL

\* The heartbeat's loop gives a client what EventStream promises, for every length
\* of an answer and whatever times out, fails or leaves (routes_query.py:92-114).
THEOREM StreamImplements == Spec => ImplementsEventStream
<1>1. Init => EventStream!Init
  BY DEF Init, StreamInit, EventStream!Init
<1>2. IInv /\ [Next]_vars => [EventStream!Next]_(EventStream!vars)
  <2>1. UNCHANGED streamVars => UNCHANGED EventStream!vars
    BY DEF streamVars, EventStream!vars
  <2>2. IInv => StreamInv
    BY Parts
  <2>3. QED  BY <2>1, <2>2, StreamPart, StreamStepPromised
<1>3. QED
  BY <1>1, <1>2, Invariant, PTL DEF Spec, ImplementsEventStream, EventStream!Spec
=============================================================================

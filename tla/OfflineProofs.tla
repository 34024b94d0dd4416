---------------------------- MODULE OfflineProofs ----------------------------
(***************************************************************************)
(* The tools beside the service, for every golden set, file, list of       *)
(* migrations and harvest: an evaluation's rows are complete and its       *)
(* metrics mean what they say, spans land exactly on the text laid out,    *)
(* chunks leave nothing out, no migration is committed twice, however many *)
(* migrators run and whenever they are killed, and a killed download loses *)
(* at most one paper.                                                      *)
(***************************************************************************)
EXTENDS Offline, ListLemmas

----------------------------------------------------------------------------
\* Metrics.

Deepest == Len(Discount)

LEMMA DiscountType ==
    /\ Deepest \in Nat /\ DOMAIN Discount = 1..Deepest /\ K \in 1..Deepest
    /\ \A n \in 1..Deepest : Discount[n] \in Int /\ Discount[n] > 0
<1>1. Discount \in Seq(Int) /\ (\A n \in DOMAIN Discount : Discount[n] > 0) /\ K \in 1..Len(Discount)
  BY MetricsAssumption, EvaluationAssumption
<1>2. Deepest \in Nat /\ DOMAIN Discount = 1..Deepest /\ \A n \in 1..Deepest : Discount[n] \in Int
  BY <1>1 DEF Deepest
<1>3. QED  BY <1>1, <1>2 DEF Deepest

\* The discounts go down.
LEMMA DiscountsDecrease ==
    \A i, j \in 1..Deepest : i < j => Discount[j] < Discount[i]
<1> SUFFICES ASSUME NEW i \in 1..Deepest PROVE \A j \in 1..Deepest : i < j => Discount[j] < Discount[i]
  OBVIOUS
<1> DEFINE T == {j \in 0..Deepest : i < j => Discount[j] < Discount[i]}
<1>1. Deepest \in Nat /\ \A n \in 1..Deepest : Discount[n] \in Int
  BY DiscountType
<1>2. \A n \in 1..Deepest : n > 1 => Discount[n] < Discount[n - 1]
  BY DiscountType, MetricsAssumption
<1>3. 0 \in T
  BY <1>1
<1>4. ASSUME NEW j \in 1..Deepest, j - 1 \in T, i < j PROVE Discount[j] < Discount[i]
  <2>1. Discount[j] < Discount[j - 1] /\ j - 1 \in 1..Deepest
    BY <1>1, <1>2, <1>4
  <2>2. CASE i = j - 1
    BY <2>1, <2>2
  <2>3. CASE i < j - 1
    <3>1. Discount[j - 1] < Discount[i]
      BY <1>4, <2>3
    <3>2. Discount[j] \in Int /\ Discount[j - 1] \in Int /\ Discount[i] \in Int
      BY <1>1, <2>1
    <3>3. QED  BY <2>1, <3>1, <3>2
  <2>4. QED  BY <1>1, <1>4, <2>2, <2>3
<1>5. \A j \in 1..Deepest : j - 1 \in T => j \in T
  BY <1>1, <1>4
<1> HIDE DEF T
<1>6. \A j \in 0..Deepest : j \in T
  BY <1>1, <1>3, <1>5, UpTo
<1>7. QED  BY <1>1, <1>6 DEF T

\* S[m] is the gain of the first m positions.
IsLadder(S) ==
    /\ S \in [0..Deepest -> Int] /\ S[0] = 0
    /\ \A n \in 1..Deepest : S[n] = S[n - 1] + Discount[n]

\* More positions gain more.
LEMMA LadderClimbs ==
    ASSUME NEW S, IsLadder(S)
    PROVE  \A i, j \in 0..Deepest : i < j => S[i] < S[j]
<1> SUFFICES ASSUME NEW i \in 0..Deepest PROVE \A j \in 0..Deepest : i < j => S[i] < S[j]
  OBVIOUS
<1> DEFINE T == {j \in 0..Deepest : i < j => S[i] < S[j]}
<1>1. Deepest \in Nat /\ \A n \in 1..Deepest : Discount[n] \in Int /\ Discount[n] > 0
  BY DiscountType
<1>2. ASSUME NEW j \in 1..Deepest, j - 1 \in T, i < j PROVE S[i] < S[j]
  <2>1. /\ S[j] = S[j - 1] + Discount[j] /\ j - 1 \in 0..Deepest /\ Discount[j] > 0
        /\ S[i] \in Int /\ S[j - 1] \in Int /\ Discount[j] \in Int
    BY <1>1 DEF IsLadder
  <2>2. S[j - 1] < S[j]
    BY <2>1
  <2>3. CASE i = j - 1
    BY <2>2, <2>3
  <2>4. CASE i < j - 1
    <3>1. S[i] < S[j - 1]
      BY <1>2, <2>4
    <3>2. S[j] \in Int
      BY <2>1
    <3>3. QED  BY <2>1, <2>2, <3>1, <3>2
  <2>5. QED  BY <1>1, <1>2, <2>3, <2>4
<1>3. 0 \in T /\ \A j \in 1..Deepest : j - 1 \in T => j \in T
  BY <1>1, <1>2
<1> HIDE DEF T
<1>4. \A j \in 0..Deepest : j \in T
  BY <1>1, <1>3, UpTo
<1>5. QED  BY <1>4 DEF T

\* What is summed for a set of positions.
Worth(P) == [n \in DOMAIN Discount |-> IF n \in P THEN Discount[n] ELSE 0]

LEMMA GainSum ==
    ASSUME NEW P
    PROVE  \E f \in [0..Deepest -> Int] :
              /\ f[0] = 0 /\ Gain(P) = f[Deepest]
              /\ \A n \in 1..Deepest : f[n] = IF n \in P THEN f[n - 1] + Discount[n] ELSE f[n - 1]
<1>1. /\ Deepest \in Nat /\ DOMAIN Discount = 1..Deepest
      /\ \A n \in 1..Deepest : Discount[n] \in Int
  BY DiscountType
<1>2. /\ Worth(P) \in [1..Deepest -> Int]
      /\ \A n \in 1..Deepest : Worth(P)[n] = IF n \in P THEN Discount[n] ELSE 0
  BY <1>1 DEF Worth
<1>3. Worth(P) \in Seq(Int) /\ Len(Worth(P)) = Deepest
  BY <1>1, <1>2
<1>4. PICK f \in [0..Deepest -> Int] : /\ f[0] = 0
                                       /\ \A n \in 1..Deepest : f[n] = f[n - 1] + Worth(P)[n]
                                       /\ Total(Worth(P)) = f[Deepest]
  <2>1. PICK f \in [0..Len(Worth(P)) -> Int] : /\ f[0] = 0
                                       /\ \A n \in 1..Len(Worth(P)) : f[n] = f[n - 1] + Worth(P)[n]
                                       /\ Total(Worth(P)) = f[Len(Worth(P))]
    BY <1>3, TotalDefined
  <2>2. 0..Len(Worth(P)) = 0..Deepest /\ 1..Len(Worth(P)) = 1..Deepest
    BY <1>3
  <2>3. f \in [0..Deepest -> Int] /\ Total(Worth(P)) = f[Deepest]
    BY <1>3, <2>1, <2>2
  <2>4. \A n \in 1..Deepest : f[n] = f[n - 1] + Worth(P)[n]
    BY <2>1, <2>2
  <2>5. QED  BY <2>1, <2>3, <2>4
<1>5. Gain(P) = f[Deepest]
  BY <1>4 DEF Gain, Worth
<1>6. ASSUME NEW n \in 1..Deepest PROVE f[n] = IF n \in P THEN f[n - 1] + Discount[n] ELSE f[n - 1]
  <2>1. f[n] = f[n - 1] + Worth(P)[n] /\ n - 1 \in 0..Deepest /\ f[n - 1] \in Int
    BY <1>1, <1>4
  <2>2. QED  BY <1>2, <2>1
<1>7. QED  BY <1>4, <1>5, <1>6

\* The first m positions gain what the ladder says.
LEMMA LadderGain ==
    ASSUME NEW S, IsLadder(S), NEW m \in 0..Deepest
    PROVE  Gain(1..m) = S[m]
<1>1. Deepest \in Nat /\ \A n \in 1..Deepest : Discount[n] \in Int
  BY DiscountType
<1>2. PICK f \in [0..Deepest -> Int] :
              /\ f[0] = 0 /\ Gain(1..m) = f[Deepest]
              /\ \A n \in 1..Deepest : f[n] = IF n \in 1..m THEN f[n - 1] + Discount[n] ELSE f[n - 1]
  BY GainSum, ZenonT(60)
<1> DEFINE T == {n \in 0..Deepest : f[n] = IF n <= m THEN S[n] ELSE S[m]}
<1>3. 0 \in T
  BY <1>1, <1>2 DEF IsLadder
<1>4. ASSUME NEW n \in 1..Deepest, n - 1 \in T PROVE n \in T
  <2>1. f[n] = IF n \in 1..m THEN f[n - 1] + Discount[n] ELSE f[n - 1]
    BY <1>2
  <2>2. f[n - 1] = IF n - 1 <= m THEN S[n - 1] ELSE S[m]
    BY <1>4
  <2>3. S[n] = S[n - 1] + Discount[n]
    BY DEF IsLadder
  <2>4. CASE n <= m
    BY <1>1, <2>1, <2>2, <2>3, <2>4
  <2>5. CASE n > m
    <3>1. n - 1 <= m => n - 1 = m
      BY <1>1, <2>5
    <3>2. f[n] = S[m]
      BY <1>1, <2>1, <2>2, <2>5, <3>1
    <3>3. QED  BY <1>1, <2>5, <3>2
  <2>6. QED  BY <1>1, <2>4, <2>5
<1>5. Deepest \in T
  <2> HIDE DEF T
  <2>1. \A n \in 0..Deepest : n \in T
    BY <1>1, <1>3, <1>4, UpTo
  <2>2. QED  BY <1>1, <2>1
<1>6. f[Deepest] = S[m]
  BY <1>1, <1>5
<1>7. QED  BY <1>2, <1>6

\* No positions gain more than the first ones, and only these gain as much.
LEMMA BestGain ==
    ASSUME NEW S, IsLadder(S), NEW P \in SUBSET (1..Deepest)
    PROVE  /\ Cardinality(P) \in 0..Deepest /\ Gain(P) \in Int /\ 0 <= Gain(P)
           /\ Gain(P) <= S[Cardinality(P)]
           /\ Gain(P) = S[Cardinality(P)] => P = 1..Cardinality(P)
<1> DEFINE Upto(n) == P \cap (1..n)
           c(n) == Cardinality(Upto(n))
<1>1. Deepest \in Nat /\ \A n \in 1..Deepest : Discount[n] \in Int /\ Discount[n] > 0
  BY DiscountType
<1>2. PICK f \in [0..Deepest -> Int] :
              /\ f[0] = 0 /\ Gain(P) = f[Deepest]
              /\ \A n \in 1..Deepest : f[n] = IF n \in P THEN f[n - 1] + Discount[n] ELSE f[n - 1]
  BY GainSum, ZenonT(60)
<1> DEFINE Good(n) == /\ IsFiniteSet(Upto(n)) /\ c(n) \in 0..n /\ 0 <= f[n] /\ f[n] <= S[c(n)]
                      /\ f[n] = S[c(n)] => Upto(n) = 1..c(n)
           T == {n \in 0..Deepest : Good(n)}
<1>3. 0 \in T
  <2>1. Upto(0) = {} /\ 1..0 = {}
    OBVIOUS
  <2>2. IsFiniteSet(Upto(0)) /\ c(0) = 0
    BY <2>1, FS_EmptySet
  <2>3. 0 <= f[0] /\ f[0] <= S[c(0)]
    BY <1>2, <2>2 DEF IsLadder
  <2>4. QED  BY <1>1, <2>1, <2>2, <2>3
<1>4. ASSUME NEW n \in 1..Deepest, n - 1 \in T PROVE n \in T
  <2> DEFINE k == c(n - 1)
  <2>1. /\ IsFiniteSet(Upto(n - 1)) /\ k \in 0..(n - 1) /\ 0 <= f[n - 1] /\ f[n - 1] <= S[k]
        /\ f[n - 1] = S[k] => Upto(n - 1) = 1..k
    BY <1>4
  <2>2. f[n] = IF n \in P THEN f[n - 1] + Discount[n] ELSE f[n - 1]
    BY <1>2
  <2>3. CASE n \notin P
    <3>1. Upto(n) = Upto(n - 1)
      BY <1>1, <2>3
    <3>2. f[n] = f[n - 1]
      BY <2>2, <2>3
    <3>3. c(n) = k
      BY <3>1
    <3> HIDE DEF k, c, Upto
    <3>4. k \in 0..n /\ IsFiniteSet(Upto(n))
      BY <1>1, <2>1, <3>1
    <3>5. QED  BY <1>1, <2>1, <3>1, <3>2, <3>3, <3>4
  <2>4. CASE n \in P
    <3>1. Upto(n) = Upto(n - 1) \cup {n} /\ n \notin Upto(n - 1)
      BY <1>1, <2>4
    <3>2. IsFiniteSet(Upto(n)) /\ c(n) = k + 1
      <4>1. IsFiniteSet(Upto(n - 1))
        BY <2>1
      <4> HIDE DEF Upto
      <4>2. /\ IsFiniteSet(Upto(n - 1) \cup {n})
            /\ Cardinality(Upto(n - 1) \cup {n}) = Cardinality(Upto(n - 1)) + 1
        BY <3>1, <4>1, FS_AddElement
      <4>3. QED  BY <3>1, <4>2
    <3> HIDE DEF k, c, Upto
    <3>3. /\ k + 1 \in 1..Deepest /\ k + 1 <= n /\ k + 1 \in 0..n /\ k \in 0..Deepest /\ n - 1 \in 0..Deepest
      BY <1>1, <2>1
    <3>4. /\ S[k + 1] = S[k] + Discount[k + 1] /\ S[k] \in Int /\ f[n - 1] \in Int
          /\ Discount[k + 1] \in Int /\ Discount[n] \in Int /\ Discount[n] > 0
      <4>1. (k + 1) - 1 = k
        BY <3>3
      <4>2. QED  BY <1>1, <3>3, <4>1 DEF IsLadder
    <3>5. Discount[n] <= Discount[k + 1] /\ (Discount[n] = Discount[k + 1] => n = k + 1)
      <4>1. k + 1 < n => Discount[n] < Discount[k + 1]
        BY <3>3, DiscountsDecrease
      <4>2. k + 1 = n \/ k + 1 < n
        BY <3>3
      <4>3. QED  BY <3>4, <4>1, <4>2
    <3>6. f[n] = f[n - 1] + Discount[n]
      BY <2>2, <2>4
    <3>7. 0 <= f[n] /\ f[n] <= S[k + 1]
      BY <2>1, <3>4, <3>5, <3>6
    <3>8. ASSUME f[n] = S[k + 1] PROVE Upto(n) = 1..(k + 1)
      <4>1. f[n - 1] = S[k] /\ Discount[n] = Discount[k + 1]
        BY <2>1, <3>4, <3>5, <3>6, <3>8
      <4>2. n = k + 1 /\ Upto(n - 1) = 1..k
        BY <2>1, <3>5, <4>1
      <4>3. 1..(k + 1) = (1..k) \cup {k + 1}
        BY <3>3
      <4>4. QED  BY <3>1, <4>2, <4>3
    <3>9. QED  BY <3>2, <3>3, <3>7, <3>8
  <2>5. QED  BY <2>3, <2>4
<1>5. Deepest \in T
  <2> HIDE DEF T
  <2>1. \A n \in 0..Deepest : n \in T
    BY <1>1, <1>3, <1>4, UpTo
  <2>2. QED  BY <1>1, <2>1
<1>6. Upto(Deepest) = P
  OBVIOUS
<1>7. Good(Deepest)
  BY <1>5
<1>8. f[Deepest] \in Int
  BY <1>1, <1>2
<1> HIDE DEF Upto
<1>9. QED  BY <1>2, <1>6, <1>7, <1>8

LEMMA OfPair ==
    \A a, b \in Int : /\ Min({a, b}) = IF a <= b THEN a ELSE b
                      /\ Max({a, b}) = IF a >= b THEN a ELSE b
<1>1. TAKE a, b \in Int
<1>2. Min({a, b}) \in {a, b} /\ Min({a, b}) <= a /\ Min({a, b}) <= b
  <2>1. \E x \in {a, b} : \A y \in {a, b} : x <= y
    OBVIOUS
  <2>2. QED  BY <2>1 DEF Min
<1>3. Max({a, b}) \in {a, b} /\ Max({a, b}) >= a /\ Max({a, b}) >= b
  <2>1. \E x \in {a, b} : \A y \in {a, b} : x >= y
    OBVIOUS
  <2>2. QED  BY <2>1 DEF Max
<1>4. QED  BY <1>2, <1>3

\* The positions of the relevant chunks.
Hits(flags) == {n \in DOMAIN flags : flags[n]}

\* An answer has no more sources than the metrics look at, so they all look at the
\* same positions.
LEMMA HitsType ==
    ASSUME work \in Workloads, NEW s \in DOMAIN IndexOf, NEW ranking \in work.rankings[s], NEW entry
    PROVE  LET flags == RelevanceFlags(ranking, entry)
           IN  /\ DOMAIN flags = DOMAIN ranking /\ DOMAIN flags = 1..Len(flags) /\ Len(flags) \in 0..K
               /\ \A n \in DOMAIN flags : flags[n] = MatchesGolden(ranking[n], entry)
               /\ Hits(flags) \in SUBSET (1..K) /\ Hits(flags) \in SUBSET (1..Deepest)
               /\ IsFiniteSet(Hits(flags)) /\ Cardinality(Hits(flags)) \in 0..K
               /\ Found(flags, K) = Cardinality(Hits(flags))
               /\ Found(flags, Len(flags)) = Cardinality(Hits(flags))
               /\ DCG(flags, K) = Gain(Hits(flags))
<1> DEFINE flags == RelevanceFlags(ranking, entry)
           L == Len(ranking)
<1>1. ranking \in Seq(IndexOf[s]) /\ L <= K
  BY EvaluationAssumption
<1>2. L \in Nat /\ DOMAIN ranking = 1..L
  BY <1>1
<1>3. K \in Nat /\ Deepest \in Nat /\ K \in 1..Deepest
  BY DiscountType
<1>4. DOMAIN flags = 1..L /\ \A n \in 1..L : flags[n] = MatchesGolden(ranking[n], entry)
  BY <1>2 DEF RelevanceFlags
<1>5. Len(flags) = L
  <2>1. flags = [n \in 1..L |-> MatchesGolden(ranking[n], entry)]
    BY <1>2 DEF RelevanceFlags
  <2>2. \A n \in 1..L : MatchesGolden(ranking[n], entry) \in BOOLEAN
    BY DEF MatchesGolden
  <2>3. flags \in [1..L -> BOOLEAN]
    BY <2>1, <2>2
  <2> HIDE DEF flags, L
  <2>4. flags \in Seq(BOOLEAN) /\ Len(flags) = L
    BY <1>2, <2>3
  <2>5. QED  BY <2>4
<1> HIDE DEF flags, L
<1>6. Min({K, L}) = L /\ Min({L, L}) = L
  BY <1>1, <1>2, <1>3, OfPair DEF L
<1>7. Top(flags, K) = 1..L /\ Top(flags, Len(flags)) = 1..L
  BY <1>5, <1>6 DEF Top
<1>8. /\ Found(flags, K) = Cardinality(Hits(flags)) /\ Found(flags, Len(flags)) = Cardinality(Hits(flags))
      /\ DCG(flags, K) = Gain(Hits(flags))
  BY <1>4, <1>7 DEF Found, DCG, Hits
<1>9. Hits(flags) \in SUBSET (1..L) /\ 1..L \subseteq 1..K /\ 1..K \subseteq 1..Deepest
  BY <1>1, <1>2, <1>3, <1>4 DEF Hits, L
<1>10. IsFiniteSet(1..K) /\ Cardinality(1..K) = K
  BY <1>3, FS_Interval
<1>11. IsFiniteSet(Hits(flags)) /\ Cardinality(Hits(flags)) <= K
  <2>1. Hits(flags) \in SUBSET (1..K)
    BY <1>9
  <2>2. QED  BY <1>10, <2>1, FS_Subset
<1>12. Cardinality(Hits(flags)) \in 0..K
  BY <1>3, <1>11, FS_CardinalityType
<1>13. Len(flags) \in 0..K
  BY <1>1, <1>2, <1>3, <1>5 DEF L
<1>14. DOMAIN flags = DOMAIN ranking /\ DOMAIN flags = 1..Len(flags)
  BY <1>2, <1>4, <1>5
<1>15. QED  BY <1>4, <1>8, <1>9, <1>11, <1>12, <1>13, <1>14 DEF flags

Best(p, total) == Min({K, Max({p, total})})

\* The numbers of a row, by how many relevant chunks are shown and known.
LEMMA RowNumbers ==
    ASSUME work \in Workloads, NEW s \in DOMAIN IndexOf, NEW ranking \in work.rankings[s], NEW entry,
           NEW refused, NEW total \in Nat
    PROVE  LET r == EvalRow(entry, ranking, refused, total)
               flags == RelevanceFlags(ranking, entry)
               p == Cardinality(Hits(flags))
           IN  /\ r.ranking = ranking /\ r.flags = flags /\ r.total = total
               /\ r.recall = IF total = 0 THEN <<0, 1>> ELSE <<IF p <= total THEN p ELSE total, total>>
               /\ r.precision = <<p, K>> /\ r.hit = <<IF p > 0 THEN 1 ELSE 0, 1>>
               /\ r.rr = IF Hits(flags) = {} THEN <<0, 1>> ELSE <<1, Min(Hits(flags))>>
               /\ r.ndcg = IF Gain(1..Best(p, total)) = 0 THEN <<0, 1>>
                           ELSE <<Gain(Hits(flags)), Gain(1..Best(p, total))>>
<1> DEFINE r == EvalRow(entry, ranking, refused, total)
           flags == RelevanceFlags(ranking, entry)
           p == Cardinality(Hits(flags))
<1>1. /\ r.ranking = ranking /\ r.flags = flags /\ r.total = total
      /\ r.recall = Recall(flags, total, K) /\ r.precision = Precision(flags, K)
      /\ r.hit = HitRate(flags, K) /\ r.rr = ReciprocalRank(flags) /\ r.ndcg = NDCG(flags, total, K)
  BY DEF EvalRow
<1>2. /\ p \in 0..K /\ Found(flags, K) = p /\ Found(flags, Len(flags)) = p
      /\ DCG(flags, K) = Gain(Hits(flags)) /\ K \in Nat
  BY HitsType, DiscountType
<1> HIDE DEF r, flags
<1>3. Recall(flags, total, K) = IF total = 0 THEN <<0, 1>> ELSE <<IF p <= total THEN p ELSE total, total>>
  <2>1. Min({p, total}) = IF p <= total THEN p ELSE total
    BY <1>2, OfPair
  <2>2. QED  BY <1>2, <2>1 DEF Recall
<1>4. Precision(flags, K) = <<p, K>> /\ HitRate(flags, K) = <<IF p > 0 THEN 1 ELSE 0, 1>>
  BY <1>2 DEF Precision, HitRate
<1>5. ReciprocalRank(flags) = IF Hits(flags) = {} THEN <<0, 1>> ELSE <<1, Min(Hits(flags))>>
  BY DEF ReciprocalRank, Hits
<1>6. NDCG(flags, total, K) = IF Gain(1..Best(p, total)) = 0 THEN <<0, 1>>
                              ELSE <<Gain(Hits(flags)), Gain(1..Best(p, total))>>
  BY <1>2 DEF NDCG, Best, IdealLength
<1>7. QED  BY <1>1, <1>3, <1>4, <1>5, <1>6 DEF r, flags

LEMMA LadderExists == \E S : IsLadder(S)
<1>1. Discount \in Seq(Int)
  BY MetricsAssumption
<1>2. PICK f \in [0..Len(Discount) -> Int] : f[0] = 0 /\ \A n \in 1..Len(Discount) : f[n] = f[n - 1] + Discount[n]
  BY <1>1, TotalDefined
<1>3. IsLadder(f)
  BY <1>2 DEF IsLadder, Deepest
<1>4. QED  BY <1>3

\* What an ideal ordering gains is no less than what these positions do, and as much
\* only if they are the ideal ones.
LEMMA IdealGain ==
    ASSUME NEW P \in SUBSET (1..K), NEW total \in Nat
    PROVE  LET p == Cardinality(P)
               m == Best(p, total)
           IN  /\ p \in Nat /\ m \in 0..K /\ p <= m /\ (total > 0 => m > 0)
               /\ p <= total => m = Min({K, total})
               /\ Gain(P) \in Int /\ Gain(1..m) \in Int /\ 0 <= Gain(P) /\ Gain(P) <= Gain(1..m)
               /\ m > 0 => Gain(1..m) > 0
               /\ Gain(P) = Gain(1..m) => P = 1..m
<1> DEFINE p == Cardinality(P)
           m == Best(p, total)
<1>1. K \in Nat /\ K > 0 /\ Deepest \in Nat /\ K <= Deepest
  BY DiscountType
<1>2. P \in SUBSET (1..Deepest)
  BY <1>1
<1>3. PICK S : IsLadder(S)
  BY LadderExists
<1>4. p \in 0..Deepest /\ Gain(P) \in Int /\ 0 <= Gain(P) /\ Gain(P) <= S[p] /\ (Gain(P) = S[p] => P = 1..p)
  BY <1>2, <1>3, BestGain
<1>5. p <= K
  <2>1. IsFiniteSet(1..K) /\ Cardinality(1..K) = K
    BY <1>1, FS_Interval
  <2>2. QED  BY <2>1, FS_Subset
<1> HIDE DEF p
<1>6. Max({p, total}) = (IF p >= total THEN p ELSE total) /\ Max({p, total}) \in Int
  <2>1. p \in Int /\ total \in Int
    BY <1>1, <1>4
  <2>2. Max({p, total}) = (IF p >= total THEN p ELSE total)
    BY <2>1, OfPair
  <2>3. QED  BY <2>1, <2>2
<1>7. m = IF K <= Max({p, total}) THEN K ELSE Max({p, total})
  BY <1>1, <1>6, OfPair DEF Best
<1>8. m \in 0..K /\ p <= m /\ (total > 0 => m > 0)
  BY <1>1, <1>4, <1>5, <1>6, <1>7
<1>9. p <= total => m = Min({K, total})
  <2>1. p <= total => Max({p, total}) = total
    BY <1>4, <1>6
  <2>2. QED  BY <2>1 DEF Best
<1> HIDE DEF m
<1>10. S[0] = 0 /\ m \in 0..Deepest /\ Gain(1..m) = S[m] /\ S[m] \in Int /\ S[p] \in Int
  <2>1. m \in 0..Deepest
    BY <1>1, <1>8
  <2>2. QED  BY <1>3, <1>4, <2>1, LadderGain DEF IsLadder
<1>11. (p < m => S[p] < S[m]) /\ (m > 0 => S[m] > 0)
  <2>1. \A i, j \in 0..Deepest : i < j => S[i] < S[j]
    BY <1>3, LadderClimbs
  <2>2. 0 \in 0..Deepest
    BY <1>1
  <2>3. QED  BY <1>4, <1>10, <2>1, <2>2
<1>12. Gain(P) <= Gain(1..m) /\ (Gain(P) = Gain(1..m) => P = 1..m)
  <2>1. CASE p = m
    BY <1>4, <1>10, <2>1
  <2>2. CASE p < m
    BY <1>4, <1>10, <1>11, <2>2
  <2>3. QED  BY <1>4, <1>8, <2>1, <2>2
<1>13. QED  BY <1>4, <1>8, <1>9, <1>10, <1>11, <1>12 DEF p, m

\* No metric leaves 0..1; a hit, a reciprocal rank and a precision agree.
LEMMA RowBounded ==
    ASSUME work \in Workloads, NEW s \in DOMAIN IndexOf, NEW ranking \in work.rankings[s], NEW entry,
           NEW refused, NEW total \in Nat
    PROVE  LET r == EvalRow(entry, ranking, refused, total)
           IN  /\ \A m \in {r.recall, r.precision, r.hit, r.rr, r.ndcg} : 0 <= m[1] /\ m[1] <= m[2]
               /\ (r.hit[1] = 1) = (r.rr[1] = 1) /\ (r.hit[1] = 1) = (r.precision[1] > 0)
<1> DEFINE r == EvalRow(entry, ranking, refused, total)
           P == Hits(RelevanceFlags(ranking, entry))
           p == Cardinality(P)
           m == Best(p, total)
<1>1. /\ r.recall = IF total = 0 THEN <<0, 1>> ELSE <<IF p <= total THEN p ELSE total, total>>
      /\ r.precision = <<p, K>> /\ r.hit = <<IF p > 0 THEN 1 ELSE 0, 1>>
      /\ r.rr = IF P = {} THEN <<0, 1>> ELSE <<1, Min(P)>>
      /\ r.ndcg = IF Gain(1..m) = 0 THEN <<0, 1>> ELSE <<Gain(P), Gain(1..m)>>
  BY RowNumbers
<1>2. P \in SUBSET (1..K) /\ IsFiniteSet(P) /\ p \in 0..K /\ K \in Nat
  BY HitsType, DiscountType
<1>3. Gain(P) \in Int /\ Gain(1..m) \in Int /\ 0 <= Gain(P) /\ Gain(P) <= Gain(1..m)
  BY <1>2, IdealGain
<1> HIDE DEF r, P, m
<1>4. p > 0 <=> P # {}
  <2>1. p = 0 <=> P = {}
    BY <1>2, FS_EmptySet
  <2>2. QED  BY <1>2, <2>1
<1> HIDE DEF p
<1>5. 0 <= r.recall[1] /\ r.recall[1] <= r.recall[2]
  BY <1>1, <1>2
<1>6. 0 <= r.precision[1] /\ r.precision[1] <= r.precision[2] /\ 0 <= r.hit[1] /\ r.hit[1] <= r.hit[2]
  BY <1>1, <1>2
<1>7. 0 <= r.rr[1] /\ r.rr[1] <= r.rr[2]
  <2>1. P # {} => Min(P) \in P
    <3>1. ASSUME P # {} PROVE \E x \in P : \A y \in P : x <= y
      <4>1. P \in SUBSET Nat
        BY <1>2
      <4>2. QED  BY <3>1, <4>1, LeastNatural
    <3>2. QED  BY <3>1 DEF Min
  <2>2. P # {} => Min(P) \in Nat /\ 1 <= Min(P)
    <3>1. P # {} => Min(P) \in 1..K
      BY <1>2, <2>1
    <3> DEFINE first == Min(P)
    <3> HIDE DEF first
    <3>2. first \in 1..K => first \in Nat /\ 1 <= first
      BY <1>2
    <3>3. QED  BY <3>1, <3>2 DEF first
  <2>3. QED  BY <1>1, <2>2
<1>8. 0 <= r.ndcg[1] /\ r.ndcg[1] <= r.ndcg[2]
  BY <1>1, <1>3
<1>9. (r.hit[1] = 1) = (r.rr[1] = 1) /\ (r.hit[1] = 1) = (r.precision[1] > 0)
  <2>1. r.precision[1] = p
    BY <1>1
  <2>2. CASE p > 0
    <3>1. r.hit[1] = 1 /\ r.rr[1] = 1
      BY <1>1, <1>4, <2>2
    <3>2. QED  BY <2>1, <2>2, <3>1
  <2>3. CASE ~(p > 0)
    <3>1. r.hit[1] = 0 /\ r.rr[1] = 0
      BY <1>1, <1>4, <2>3
    <3>2. r.hit[1] # 1 /\ r.rr[1] # 1
      BY <3>1
    <3>3. QED  BY <2>1, <2>3, <3>2
  <2>4. QED  BY <2>2, <2>3
<1>10. QED  BY <1>5, <1>6, <1>7, <1>8, <1>9 DEF r

\* With the relevant chunks of the index counted, recall is perfect when all are shown.
LEMMA RecallWhole ==
    ASSUME work \in Workloads, NEW s \in DOMAIN IndexOf, NEW ranking \in work.rankings[s], NEW entry,
           NEW refused, NEW total \in Nat
    PROVE  LET r == EvalRow(entry, ranking, refused, total)
               p == Cardinality(Hits(RelevanceFlags(ranking, entry)))
           IN  RelevantIn(s, entry) # {} /\ total = Cardinality(RelevantIn(s, entry)) =>
               /\ total > 0 /\ p <= total
               /\ Whole(r.recall) <=> RelevantIn(s, entry) \subseteq {ranking[n] : n \in DOMAIN ranking}
<1> DEFINE r == EvalRow(entry, ranking, refused, total)
           flags == RelevanceFlags(ranking, entry)
           P == Hits(flags)
           p == Cardinality(P)
           m == Best(p, total)
           R == RelevantIn(s, entry)
           shown == {ranking[n] : n \in DOMAIN ranking}
           f == [n \in P |-> ranking[n]]
<1>1. /\ r.flags = flags
      /\ r.recall = IF total = 0 THEN <<0, 1>> ELSE <<IF p <= total THEN p ELSE total, total>>
      /\ r.precision = <<p, K>> /\ r.hit = <<IF p > 0 THEN 1 ELSE 0, 1>>
      /\ r.rr = IF P = {} THEN <<0, 1>> ELSE <<1, Min(P)>>
      /\ r.ndcg = IF Gain(1..m) = 0 THEN <<0, 1>> ELSE <<Gain(P), Gain(1..m)>>
  BY RowNumbers
<1>2. /\ P \in SUBSET (1..K) /\ IsFiniteSet(P) /\ p \in 0..K
      /\ DOMAIN flags = DOMAIN ranking /\ \A n \in DOMAIN flags : flags[n] = MatchesGolden(ranking[n], entry)
  BY HitsType
<1> SUFFICES ASSUME R # {}, total = Cardinality(R)
             PROVE  total > 0 /\ p <= total /\ (Whole(r.recall) <=> R \subseteq shown)
  OBVIOUS
<1>3. IsFiniteSet(R)
  <2>1. IsFiniteSet(IndexOf[s]) /\ R \in SUBSET IndexOf[s]
    BY EvaluationAssumption DEF RelevantIn
  <2>2. QED  BY <2>1, FS_Subset
<1>4. total > 0
  BY <1>3, FS_EmptySet
<1>5. ranking \in Seq(IndexOf[s]) /\ IsInjective(ranking)
  BY EvaluationAssumption
<1>6. \A n \in DOMAIN ranking : ranking[n] \in IndexOf[s]
  BY <1>5
<1>7. P = {n \in DOMAIN ranking : MatchesGolden(ranking[n], entry)}
  BY <1>2 DEF Hits
<1>8. f \in Surjection(P, R \cap shown) /\ f \in Injection(P, R \cap shown)
  <2>1. f \in [P -> R \cap shown]
    BY <1>6, <1>7 DEF RelevantIn
  <2>2. \A x \in R \cap shown : \E n \in P : f[n] = x
    BY <1>7 DEF RelevantIn
  <2>3. \A i, j \in P : f[i] = f[j] => i = j
    BY <1>5, <1>7 DEF IsInjective
  <2>4. QED  BY <2>1, <2>2, <2>3 DEF Surjection, Injection, IsInjective
<1> HIDE DEF r, P, R, shown, f, flags
<1>9. Cardinality(R \cap shown) = p
  BY <1>2, <1>8, FS_Surjection
<1>10. p <= total /\ (p = total => R = R \cap shown)
  <2>1. R \cap shown \in SUBSET R
    OBVIOUS
  <2>2. QED  BY <1>3, <1>9, <2>1, FS_Subset DEF R
<1>11. R \subseteq shown => p = total
  <2>1. R \subseteq shown => R \cap shown = R
    OBVIOUS
  <2>2. QED  BY <1>9, <2>1 DEF R
<1> HIDE DEF p
<1>12. Whole(r.recall) <=> p = total
  BY <1>1, <1>2, <1>4, <1>10 DEF Whole
<1>13. QED  BY <1>4, <1>10, <1>11, <1>12 DEF r, p

\* Then nDCG is perfect when nothing irrelevant is ranked before a relevant chunk.
LEMMA NdcgWhole ==
    ASSUME work \in Workloads, NEW s \in DOMAIN IndexOf, NEW ranking \in work.rankings[s], NEW entry,
           NEW refused, NEW total \in Nat
    PROVE  LET r == EvalRow(entry, ranking, refused, total)
           IN  RelevantIn(s, entry) # {} /\ total = Cardinality(RelevantIn(s, entry)) =>
               (Whole(r.ndcg) <=> \A n \in 1..Min({K, total}) : n \in DOMAIN r.flags /\ r.flags[n])
<1> DEFINE r == EvalRow(entry, ranking, refused, total)
           flags == RelevanceFlags(ranking, entry)
           P == Hits(flags)
           p == Cardinality(P)
           m == Best(p, total)
<1>1. /\ r.flags = flags
      /\ r.recall = IF total = 0 THEN <<0, 1>> ELSE <<IF p <= total THEN p ELSE total, total>>
      /\ r.precision = <<p, K>> /\ r.hit = <<IF p > 0 THEN 1 ELSE 0, 1>>
      /\ r.rr = IF P = {} THEN <<0, 1>> ELSE <<1, Min(P)>>
      /\ r.ndcg = IF Gain(1..m) = 0 THEN <<0, 1>> ELSE <<Gain(P), Gain(1..m)>>
  BY RowNumbers
<1>2. P \in SUBSET (1..K) /\ IsFiniteSet(P) /\ p \in 0..K
  BY HitsType
<1> SUFFICES ASSUME RelevantIn(s, entry) # {}, total = Cardinality(RelevantIn(s, entry))
             PROVE  Whole(r.ndcg) <=> \A n \in 1..Min({K, total}) : n \in DOMAIN r.flags /\ r.flags[n]
  OBVIOUS
<1>3. total > 0 /\ p <= total
  BY RecallWhole
<1>4. /\ m \in 0..K /\ p <= m /\ m > 0 /\ m = Min({K, total})
      /\ Gain(P) \in Int /\ Gain(1..m) \in Int /\ Gain(1..m) > 0
      /\ Gain(P) = Gain(1..m) => P = 1..m
  BY <1>2, <1>3, IdealGain
<1> HIDE DEF r, P, m, flags
<1>5. Whole(r.ndcg) <=> Gain(P) = Gain(1..m)
  BY <1>1, <1>4 DEF Whole
<1>6. 1..m \subseteq P => P = 1..m
  <2>1. IsFiniteSet(P) /\ Cardinality(1..m) = m
    <3>1. m \in Nat
      BY <1>4
    <3>2. QED  BY <1>2, <3>1, FS_Interval
  <2>2. ASSUME 1..m \subseteq P PROVE P = 1..m
    <3>1. 1..m \in SUBSET P
      BY <2>2
    <3>2. Cardinality(1..m) <= p /\ (p = Cardinality(1..m) => P = 1..m)
      BY <2>1, <3>1, FS_Subset
    <3>3. p = m
      BY <1>2, <1>4, <2>1, <3>2
    <3>4. QED  BY <2>1, <3>2, <3>3
  <2>3. QED  BY <2>2
<1>7. Gain(P) = Gain(1..m) <=> 1..m \subseteq P
  BY <1>4, <1>6
<1>8. 1..m \subseteq P <=> \A n \in 1..m : n \in DOMAIN flags /\ flags[n]
  BY DEF P, Hits
<1>9. QED  BY <1>1, <1>4, <1>5, <1>7, <1>8 DEF r

\* Each cut over the middle of a long span has enough of it.
LEMMA SpanFound ==
    ASSUME work \in Workloads, NEW s \in DOMAIN IndexOf, NEW q \in Questions, Findable(s, work.golden[q])
    PROVE  \E c \in NamedChunks(s, work.golden[q]) : MatchesGolden(c, work.golden[q])
<1> DEFINE entry == work.golden[q]
           M == MinOverlap
<1>1. PICK span \in entry.spans, doc \in entry.docs \cap DOMAIN Corpus :
          Len(span) >= 2 * M - 1 /\ Within(span, Corpus[doc]) /\ WellCut(s, doc)
  BY DEF Findable
<1> DEFINE T == Corpus[doc]
           S == Len(span)
           L == Len(T)
<1>2. M \in Nat \ {0}
  BY MetricsAssumption
<1>3. span \in Seq(ToSet(span)) /\ T \in Seq(ToSet(T))
  <2>1. entry \in ToSet(work.golden)
    BY DEF Questions, ToSet
  <2>2. QED  BY <2>1, EvaluationAssumption
<1>4. S \in Nat /\ L \in Nat
  <2>1. \A X, list : list \in Seq(X) => Len(list) \in Nat
    OBVIOUS
  <2>2. QED  BY <1>3, <2>1
<1>5. PICK at \in 0..(L - S) : SubSeq(T, at + 1, at + S) = span
  BY <1>1 DEF Within
<1> DEFINE middle == at + M - 1
<1>6. middle \in 0..(L - 1) /\ at + S <= L /\ at \in Nat
  BY <1>1, <1>2, <1>4, <1>5
<1>7. PICK c \in IndexOf[s] : /\ c.doc = doc /\ c.start <= middle /\ middle < c.start + Len(c.text)
                              /\ c.start \in 0..(L - Len(c.text)) /\ Len(c.text) >= M
                              /\ c.text = SubSeq(T, c.start + 1, c.start + Len(c.text))
  BY <1>1, <1>6 DEF WellCut
<1> DEFINE b == c.start
           n == Len(c.text)
<1>8. c.text \in Seq(ToSet(c.text))
  BY EvaluationAssumption
<1>9. n \in Nat /\ b \in 0..(L - n)
  <2>1. \A X, list : list \in Seq(X) => Len(list) \in Nat
    OBVIOUS
  <2>2. QED  BY <1>7, <1>8, <2>1
<1> DEFINE i == IF at >= b THEN 0 ELSE b - at
           j == IF at >= b THEN at - b ELSE 0
<1>10. i \in 0..(S - M) /\ j \in 0..(n - M) /\ at + i = b + j
  <2> HIDE DEF M, S, L, n, b
  <2>1. at \in Nat /\ b \in Nat
    BY <1>4, <1>6, <1>9
  <2>2. b <= at + M - 1 /\ at + M - 1 < b + n /\ n >= M /\ S >= 2 * M - 1
    BY <1>1, <1>7 DEF S, M, b, n
  <2>3. QED  BY <1>2, <1>4, <1>9, <2>1, <2>2
<1> HIDE DEF i, j
<1>11. \A k \in 1..S : span[k] = T[at + k]
  <2>1. SubSeq(T, at + 1, at + S) = [k \in 1..S |-> T[at + k]]
    <3> DEFINE X == ToSet(T)
    <3>1. T \in Seq(X)
      BY <1>3
    <3> HIDE DEF X, T, S
    <3>2. QED  BY <1>4, <1>5, <3>1, Window DEF L
  <2>2. QED  BY <1>5, <2>1
<1>12. \A k \in 1..n : c.text[k] = T[b + k]
  <2>1. SubSeq(T, b + 1, b + n) = [k \in 1..n |-> T[b + k]]
    <3> DEFINE X == ToSet(T)
    <3>1. T \in Seq(X)
      BY <1>3
    <3> HIDE DEF X, T, n, b
    <3>2. QED  BY <1>4, <1>9, <3>1, Window DEF L
  <2>2. QED  BY <1>7, <2>1
<1> DEFINE needle == SubSeq(span, i + 1, i + M)
<1>13. /\ needle = [k \in 1..M |-> span[i + k]] /\ Len(needle) = M
       /\ SubSeq(c.text, j + 1, j + M) = [k \in 1..M |-> c.text[j + k]]
  <2> DEFINE X == ToSet(span)
             Y == ToSet(c.text)
  <2>1. span \in Seq(X) /\ c.text \in Seq(Y)
    BY <1>3, <1>8
  <2> HIDE DEF X, Y, M
  <2>2. needle = [k \in 1..M |-> span[i + k]] /\ Len(needle) = M
    BY <1>2, <1>10, <2>1, Window
  <2>3. SubSeq(c.text, j + 1, j + M) = [k \in 1..M |-> c.text[j + k]]
    BY <1>2, <1>10, <2>1, Window
  <2>4. QED  BY <2>2, <2>3
<1>14. \A k \in 1..M : span[i + k] = c.text[j + k]
  <2> HIDE DEF M, S, n, b, T
  <2>1. TAKE k \in 1..M
  <2>2. i + k \in 1..S /\ j + k \in 1..n /\ at + (i + k) = b + (j + k)
    BY <1>2, <1>4, <1>6, <1>9, <1>10
  <2>3. span[i + k] = T[at + (i + k)] /\ c.text[j + k] = T[b + (j + k)]
    BY <1>11, <1>12, <2>2
  <2>4. QED  BY <2>2, <2>3
<1>15. SubSeq(c.text, j + 1, j + M) = needle
  BY <1>13, <1>14
<1>16. Within(needle, c.text)
  BY <1>10, <1>13, <1>15 DEF Within
<1>17. c.text # <<>> /\ span # <<>>
  <2>1. n > 0 /\ S > 0
    BY <1>1, <1>2, <1>4, <1>7, <1>9
  <2>2. QED  BY <2>1
<1>18. OverlapsSpan(c.text, span)
  BY <1>10, <1>16, <1>17 DEF OverlapsSpan
<1>19. MatchesGolden(c, entry) /\ c \in NamedChunks(s, entry)
  BY <1>1, <1>7, <1>18 DEF MatchesGolden, NamedChunks
<1>20. QED  BY <1>19

----------------------------------------------------------------------------
\* Evaluations.

TaskStates == {"queued", "answering", "embedding", "done", "failed"}
Over == {"done", "failed"}
Rating == {"evaluating", "saving"}

EvalTypeOK ==
    /\ work \in Workloads
    /\ task \in [Questions -> TaskStates] /\ row = [q \in Questions |-> row[q]]
    /\ counts = [s \in DOMAIN IndexOf |-> counts[s]]
    /\ completed \in Seq(Questions) /\ Injective(completed) /\ collected \in 0..Len(completed)
    /\ saved \in Seq(ToSet(saved))
    /\ phase \in Rating \cup {"indexing", "reporting", "rewriting", "closing", "last rewriting", "ended"}

\* The tasks that ended are those completed, each once; what the main loop has seen of
\* them was no failure; the semaphore holds.
TasksOK ==
    /\ Range(completed) = {q \in Questions : task[q] \in Over}
    /\ phase \in Rating => \A n \in 1..collected : task[completed[n]] = "done"
    /\ phase = "saving" => collected = Len(work.golden)
    /\ Cardinality(Inside) <= Concurrency

RightCount(s, q) == CountRelevant(NamedChunks(s, work.golden[q]), work.golden[q])

\* A count in a cache is of some question of its id, so with unique ids of the right one.
CountsOK ==
    \A s \in DOMAIN IndexOf :
        /\ \A id \in DOMAIN counts[s] : counts[s][id] \in Nat
        /\ UniqueIds => \A q \in Questions :
              work.golden[q].qid \in DOMAIN counts[s] => counts[s][work.golden[q].qid] = RightCount(s, q)

\* A row is a question's own, for a ranking of the strategy's index.
RowOK(q) ==
    \E ranking \in work.rankings[Strategy], refused \in BOOLEAN, total \in Nat :
        /\ row[q] = EvalRow(work.golden[q], ranking, refused, total)
        /\ UniqueIds => total = RightCount(Strategy, q)

RowsOK ==
    phase \in Rating => \A q \in Questions :
        /\ row[q] = NoRow \/ RowOK(q)
        /\ task[q] \in {"embedding", "done"} => RowOK(q)

\* What is on disk of a run.
RunRight(run, p) ==
    /\ run.strategy = work.plan[p]
    /\ Len(run.rows) = Len(work.golden)
    /\ Len(run.aggregate.recall) = Cardinality({q \in Questions : ~work.golden[q].negative})
    /\ UniqueIds => \A q \in Questions :
          /\ run.rows[q].qid = work.golden[q].qid
          /\ run.rows[q].total = RightCount(run.strategy, q)

SavedOK ==
    /\ \A p \in DOMAIN saved : RunRight(saved[p], p)
    /\ phase # "ended" => Len(saved) <= Len(work.plan)
    /\ phase \in Rating \cup {"indexing"} => Len(saved) < Len(work.plan)

\* The report is of all runs but the one just saved.
ReportOK ==
    /\ phase \in Rating \cup {"indexing", "closing"} => report = Len(saved)
    /\ phase = "reporting" => report = Len(saved) - 1 /\ Len(saved) > 0
    /\ phase \in {"rewriting", "last rewriting"} => report = Torn
    /\ phase = "ended" /\ report # Torn => report \in Nat /\ report <= Len(saved) /\ Len(saved) <= report + 1

EvalInv == EvalTypeOK /\ TasksOK /\ CountsOK /\ RowsOK /\ SavedOK /\ ReportOK

\* The questions of a workload are its places, and its plan is of strategies.
LEMMA WorkType ==
    ASSUME work \in Workloads
    PROVE  /\ Len(work.golden) \in Nat /\ Questions = 1..Len(work.golden) /\ IsFiniteSet(Questions)
           /\ Cardinality(Questions) = Len(work.golden)
           /\ \A q \in Questions : work.golden[q].negative \in BOOLEAN
           /\ Len(work.plan) \in Nat /\ Len(work.plan) > 0
           /\ \A p \in 1..Len(work.plan) : work.plan[p] \in DOMAIN IndexOf
<1> DEFINE G == ToSet(work.golden)
<1>1. /\ work.golden \in Seq(G) /\ work.plan \in Seq(DOMAIN IndexOf) /\ work.plan # <<>>
      /\ \A entry \in G : entry.negative \in BOOLEAN
  BY EvaluationAssumption
<1>2. /\ Len(work.golden) \in Nat /\ Questions = 1..Len(work.golden)
      /\ \A q \in Questions : work.golden[q] \in G
  BY <1>1 DEF Questions, ToSet
<1>3. /\ Len(work.plan) \in Nat /\ Len(work.plan) > 0
      /\ \A p \in 1..Len(work.plan) : work.plan[p] \in DOMAIN IndexOf
  BY <1>1
<1>4. IsFiniteSet(Questions) /\ Cardinality(Questions) = Len(work.golden)
  BY <1>2, FS_Interval
<1>5. QED  BY <1>1, <1>2, <1>3, <1>4

LEMMA SavedLength ==
    ASSUME EvalInv
    PROVE  Len(saved) \in Nat /\ work \in Workloads
<1>1. saved \in Seq(ToSet(saved)) /\ work \in Workloads
  BY DEF EvalInv, EvalTypeOK
<1> DEFINE X == ToSet(saved)
<1> HIDE DEF X
<1>2. saved \in Seq(X)
  BY <1>1 DEF X
<1>3. QED  BY <1>1, <1>2

LEMMA EvalInitially == \A w \in Workloads : EvalStart(w) => EvalInv
<1> SUFFICES ASSUME NEW w \in Workloads, EvalStart(w) PROVE EvalInv
  OBVIOUS
<1>1. /\ work = w /\ task = [q \in Questions |-> "queued"] /\ row = [q \in Questions |-> NoRow]
      /\ counts = [s \in DOMAIN IndexOf |-> <<>>] /\ completed = <<>> /\ collected = 0
      /\ saved = <<>> /\ report = 0 /\ phase = "indexing"
  BY DEF EvalStart, NoTasks, Questions
<1>2. Len(work.plan) \in Nat /\ Len(work.plan) > 0
  BY <1>1, WorkType
<1>3. EvalTypeOK
  <2>1. completed \in Seq(Questions) /\ Injective(completed) /\ collected \in 0..Len(completed)
    BY <1>1 DEF Injective
  <2>2. saved \in Seq(ToSet(saved))
    BY <1>1
  <2>3. task \in [Questions -> TaskStates] /\ row = [q \in Questions |-> row[q]]
    BY <1>1 DEF TaskStates
  <2>4. QED  BY <1>1, <2>1, <2>2, <2>3 DEF EvalTypeOK, Rating
<1>4. TasksOK
  <2>1. Range(completed) = {} /\ {q \in Questions : task[q] \in Over} = {}
    BY <1>1 DEF Range, Over
  <2>2. Inside = {}
    BY <1>1 DEF Inside
  <2>3. Cardinality(Inside) = 0
    BY <2>2, FS_EmptySet
  <2>4. QED  BY <1>1, <2>1, <2>3, EvaluationAssumption DEF TasksOK, Rating
<1>5. CountsOK /\ RowsOK /\ SavedOK /\ ReportOK
  BY <1>1, <1>2 DEF CountsOK, RowsOK, SavedOK, ReportOK, Rating
<1>6. QED  BY <1>3, <1>4, <1>5 DEF EvalInv

\* Where neither the questions nor what was found out changes, what is on disk stays
\* right.
LEMMA SavedStays ==
    ASSUME SavedOK, UNCHANGED <<work, saved>>, phase' = "ended" \/ phase # "ended",
           phase' \in Rating \cup {"indexing"} => phase \in Rating \cup {"indexing"}
    PROVE  SavedOK'
<1>1. Questions' = Questions /\ UniqueIds' = UniqueIds
  BY DEF Questions, UniqueIds
<1>2. \A run, p : RunRight(run, p)' = RunRight(run, p)
  BY <1>1 DEF RunRight, RightCount
<1>3. QED  BY <1>2 DEF SavedOK

LEMMA CountsStay ==
    ASSUME CountsOK, UNCHANGED <<work, counts>>
    PROVE  CountsOK'
BY DEF CountsOK, UniqueIds, Questions, RightCount

\* A row stays right while its run goes on.
LEMMA RowStays ==
    ASSUME NEW q, RowOK(q), UNCHANGED <<work, saved>>, row'[q] = row[q]
    PROVE  RowOK(q)'
BY DEF RowOK, UniqueIds, Questions, RightCount, Strategy, Position

LEMMA BuildIndexKept == EvalInv /\ BuildIndex => EvalInv'
<1> SUFFICES ASSUME EvalInv, BuildIndex PROVE EvalInv'
  OBVIOUS
<1>1. /\ phase = "indexing" /\ UNCHANGED <<work, counts, saved, report>>
      /\ task' = [q \in Questions |-> "queued"] /\ row' = [q \in Questions |-> NoRow]
      /\ completed' = <<>> /\ collected' = 0
      /\ phase' = IF Questions = {} THEN "saving" ELSE "evaluating"
  BY DEF BuildIndex, NoTasks, Questions
<1>2. Questions' = Questions /\ work \in Workloads
  BY <1>1 DEF Questions, EvalInv, EvalTypeOK
<1>3. Questions = 1..Len(work.golden) /\ Len(work.golden) \in Nat
  BY <1>2, WorkType
<1>4. EvalTypeOK'
  <2>1. completed' \in Seq(Questions) /\ Injective(completed') /\ collected' \in 0..Len(completed')
    BY <1>1 DEF Injective
  <2>2. task' \in [Questions -> TaskStates] /\ row' = [q \in Questions |-> row'[q]]
    BY <1>1 DEF TaskStates
  <2>3. phase' \in Rating
    BY <1>1 DEF Rating
  <2>4. QED  BY <1>1, <1>2, <2>1, <2>2, <2>3 DEF EvalInv, EvalTypeOK
<1>5. TasksOK'
  <2>1. Range(completed') = {} /\ {q \in Questions : task'[q] \in Over} = {}
    BY <1>1 DEF Range, Over
  <2>2. Inside' = {}
    BY <1>1, <1>2 DEF Inside
  <2>3. Cardinality(Inside') = 0
    BY <2>2, FS_EmptySet
  <2>4. phase' = "saving" => collected' = Len(work'.golden)
    BY <1>1, <1>3
  <2>5. QED  BY <1>1, <1>2, <2>1, <2>3, <2>4, EvaluationAssumption DEF TasksOK
<1>6. RowsOK'
  BY <1>1, <1>2 DEF RowsOK
<1>7. CountsOK' /\ SavedOK'
  BY <1>1, CountsStay, SavedStays DEF EvalInv, Rating
<1>8. ReportOK'
  BY <1>1 DEF EvalInv, ReportOK, Rating
<1>9. QED  BY <1>4, <1>5, <1>6, <1>7, <1>8 DEF EvalInv

LEMMA KillKept == EvalInv /\ Kill => EvalInv'
<1> SUFFICES ASSUME EvalInv, Kill PROVE EvalInv'
  OBVIOUS
<1>1. /\ phase # "ended" /\ phase' = "ended"
      /\ UNCHANGED <<work, indexes, counts, task, row, completed, collected, saved, report>>
  BY DEF Kill
<1>2. Questions' = Questions /\ Inside' = Inside
  BY <1>1 DEF Questions, Inside
<1>3. EvalTypeOK' /\ TasksOK' /\ RowsOK'
  BY <1>1, <1>2 DEF EvalInv, EvalTypeOK, TasksOK, RowsOK, Rating
<1>4. CountsOK' /\ SavedOK'
  BY <1>1, CountsStay, SavedStays DEF EvalInv, Rating
<1>5. Len(saved) \in Nat
  BY SavedLength
<1>6. ReportOK'
  <2>1. phase \in Rating \cup {"indexing", "closing", "reporting", "rewriting", "last rewriting"}
    BY <1>1 DEF EvalInv, EvalTypeOK
  <2>2. report = Torn \/ (report \in Nat /\ report <= Len(saved) /\ Len(saved) <= report + 1)
    <3>1. CASE phase \in Rating \cup {"indexing", "closing"}
      <4>1. report = Len(saved)
        BY <3>1 DEF EvalInv, ReportOK
      <4>2. QED  BY <1>5, <4>1
    <3>2. CASE phase = "reporting"
      BY <1>5, <3>2 DEF EvalInv, ReportOK
    <3>3. CASE phase \in {"rewriting", "last rewriting"}
      BY <3>3 DEF EvalInv, ReportOK
    <3>4. QED  BY <2>1, <3>1, <3>2, <3>3
  <2>3. QED  BY <1>1, <2>2 DEF ReportOK, Rating
<1>7. QED  BY <1>3, <1>4, <1>6 DEF EvalInv

LEMMA ReportKept == EvalInv /\ (OpenReport \/ WriteReport) => EvalInv'
<1> SUFFICES ASSUME EvalInv, OpenReport \/ WriteReport PROVE EvalInv'
  OBVIOUS
<1>1. /\ UNCHANGED <<work, indexes, counts, task, row, completed, collected, saved>>
      /\ \/ phase = "reporting" /\ phase' = "rewriting" /\ report' = Torn
         \/ phase = "closing" /\ phase' = "last rewriting" /\ report' = Torn
         \/ phase = "last rewriting" /\ phase' = "ended" /\ report' = Len(saved)
         \/ phase = "rewriting" /\ phase' = "closing" /\ report' = Len(saved) /\ Len(saved) = Len(work.plan)
         \/ phase = "rewriting" /\ phase' = "indexing" /\ report' = Len(saved) /\ Len(saved) # Len(work.plan)
  BY DEF OpenReport, WriteReport
<1>2. Questions' = Questions /\ Inside' = Inside
  BY <1>1 DEF Questions, Inside
<1>3. EvalTypeOK' /\ TasksOK' /\ RowsOK'
  BY <1>1, <1>2 DEF EvalInv, EvalTypeOK, TasksOK, RowsOK, Rating
<1>4. CountsOK'
  BY <1>1, CountsStay DEF EvalInv
<1>5. Len(saved) \in Nat /\ Len(work.plan) \in Nat
  BY SavedLength, WorkType
<1>6. SavedOK'
  <2>1. CASE phase' = "indexing"
    <3>1. Questions' = Questions /\ UniqueIds' = UniqueIds
      BY <1>1 DEF Questions, UniqueIds
    <3>2. \A run, p : RunRight(run, p)' = RunRight(run, p)
      BY <1>1, <3>1 DEF RunRight, RightCount
    <3>3. QED  BY <1>1, <1>5, <2>1, <3>2 DEF EvalInv, SavedOK
  <2>2. CASE phase' # "indexing"
    BY <1>1, <2>2, SavedStays DEF EvalInv, Rating
  <2>3. QED  BY <2>1, <2>2
<1>7. ReportOK'
  <2>1. CASE phase' \in {"rewriting", "last rewriting"}
    BY <1>1, <2>1 DEF ReportOK, Rating
  <2>2. CASE phase' \in {"ended", "closing", "indexing"}
    <3>1. report' = Len(saved) /\ saved' = saved
      BY <1>1, <2>2
    <3>2. report' \in Nat /\ report' <= Len(saved') /\ Len(saved') <= report' + 1
      BY <1>5, <3>1
    <3>3. QED  BY <2>2, <3>1, <3>2 DEF ReportOK, Rating
  <2>3. QED  BY <1>1, <2>1, <2>2
<1>8. QED  BY <1>3, <1>4, <1>6, <1>7 DEF EvalInv

\* A task that gets in keeps the bound of the semaphore.
LEMMA InsideBound ==
    ASSUME EvalInv, NEW q \in Questions, NEW state \in TaskStates,
           task' = [task EXCEPT ![q] = state], UNCHANGED work,
           q \notin Inside => state \notin {"answering", "embedding"} \/ Cardinality(Inside) < Concurrency
    PROVE  Cardinality(Inside') <= Concurrency
<1>1. /\ IsFiniteSet(Questions) /\ Questions' = Questions /\ Cardinality(Inside) <= Concurrency
      /\ task \in [Questions -> TaskStates] /\ Concurrency \in Nat
  BY SavedLength, WorkType, EvaluationAssumption DEF EvalInv, EvalTypeOK, TasksOK, Questions
<1>2. Inside \subseteq Questions /\ IsFiniteSet(Inside)
  BY <1>1, FS_Subset DEF Inside
<1>3. Inside' \subseteq Inside \cup {q} /\ (state \notin {"answering", "embedding"} => Inside' \subseteq Inside)
  BY <1>1 DEF Inside
<1>4. Cardinality(Inside) \in Nat
  BY <1>2, FS_CardinalityType
<1>5. CASE q \in Inside \/ state \notin {"answering", "embedding"}
  <2>1. Inside' \subseteq Inside
    BY <1>3, <1>5
  <2>2. Cardinality(Inside') \in Nat /\ Cardinality(Inside') <= Cardinality(Inside)
    BY <1>2, <2>1, FS_Subset, FS_CardinalityType
  <2>3. QED  BY <1>1, <1>4, <2>2
<1>6. CASE q \notin Inside /\ state \in {"answering", "embedding"}
  <2>1. Cardinality(Inside) < Concurrency
    BY <1>6
  <2>2. IsFiniteSet(Inside \cup {q}) /\ Cardinality(Inside \cup {q}) = Cardinality(Inside) + 1
    BY <1>2, <1>6, FS_AddElement
  <2>3. Cardinality(Inside') \in Nat /\ Cardinality(Inside') <= Cardinality(Inside \cup {q})
    BY <1>3, <2>2, FS_Subset, FS_CardinalityType
  <2>4. QED  BY <1>1, <1>4, <2>1, <2>2, <2>3
<1>7. QED  BY <1>5, <1>6

LEMMA EnterKept == ASSUME EvalInv, NEW q \in Questions, Enter(q) PROVE EvalInv'
<1>1. /\ phase = "evaluating" /\ task[q] = "queued" /\ Cardinality(Inside) < Concurrency
      /\ task' = [task EXCEPT ![q] = "answering"]
      /\ UNCHANGED <<work, indexes, counts, row, completed, collected, saved, report, phase>>
  BY DEF Enter
<1>2. /\ Questions' = Questions /\ task \in [Questions -> TaskStates]
      /\ completed \in Seq(Questions) /\ collected \in 0..Len(completed)
  BY <1>1 DEF Questions, EvalInv, EvalTypeOK
<1>3. EvalTypeOK'
  <2>1. task' \in [Questions -> TaskStates]
    BY <1>1, <1>2 DEF TaskStates
  <2>2. QED  BY <1>1, <1>2, <2>1 DEF EvalInv, EvalTypeOK
<1>4. TasksOK'
  <2>1. Cardinality(Inside') <= Concurrency
    BY <1>1, InsideBound DEF TaskStates
  <2>2. {k \in Questions : task'[k] \in Over} = {k \in Questions : task[k] \in Over}
    BY <1>1, <1>2 DEF Over
  <2>3. \A n \in 1..collected : task'[completed[n]] = "done"
    <3>1. \A n \in 1..collected : completed[n] \in Questions /\ task[completed[n]] = "done"
      BY <1>1, <1>2 DEF EvalInv, TasksOK, Rating
    <3>2. QED  BY <1>1, <1>2, <3>1
  <2>4. QED  BY <1>1, <1>2, <2>1, <2>2, <2>3 DEF EvalInv, TasksOK
<1>5. RowsOK'
  <2>1. \A k \in Questions : RowOK(k) => RowOK(k)'
    BY <1>1, RowStays
  <2>2. \A k \in Questions : task'[k] \in {"embedding", "done"} => task[k] \in {"embedding", "done"}
    BY <1>1, <1>2
  <2>3. NoRow' = NoRow
    BY DEF NoRow
  <2>4. QED  BY <1>1, <1>2, <2>1, <2>2, <2>3 DEF EvalInv, RowsOK, Rating
<1>6. CountsOK' /\ SavedOK' /\ ReportOK'
  BY <1>1, CountsStay, SavedStays DEF EvalInv, ReportOK
<1>7. QED  BY <1>3, <1>4, <1>5, <1>6 DEF EvalInv

LEMMA EndKept == ASSUME EvalInv, NEW q \in Questions, End(q) PROVE EvalInv'
<1>1. PICK state \in Over :
      /\ phase = "evaluating" /\ q \in Inside /\ task' = [task EXCEPT ![q] = state]
      /\ (state = "done" => task[q] = "embedding") /\ completed' = Append(completed, q)
      /\ UNCHANGED <<work, indexes, counts, row, collected, saved, report, phase>>
  BY DEF End, Over, Inside
<1>2. /\ Questions' = Questions /\ task \in [Questions -> TaskStates]
      /\ completed \in Seq(Questions) /\ Injective(completed) /\ collected \in 0..Len(completed)
      /\ Range(completed) = {k \in Questions : task[k] \in Over}
  BY <1>1 DEF Questions, EvalInv, EvalTypeOK, TasksOK
<1>3. task[q] \notin Over /\ Over \subseteq TaskStates
  BY <1>1 DEF Inside, Over, TaskStates
<1>4. /\ completed' \in Seq(Questions) /\ Len(completed') = Len(completed) + 1
      /\ completed'[Len(completed) + 1] = q /\ \A n \in 1..Len(completed) : completed'[n] = completed[n]
      /\ Len(completed) \in Nat
  BY <1>1, <1>2
<1>5. \A n \in 1..Len(completed) : completed[n] \in Questions /\ task[completed[n]] \in Over /\ completed[n] # q
  BY <1>2, <1>3 DEF Range
<1>6. EvalTypeOK'
  <2>1. task' \in [Questions -> TaskStates]
    BY <1>1, <1>2, <1>3
  <2>2. Injective(completed')
    BY <1>2, <1>4, <1>5 DEF Injective
  <2>3. collected' \in 0..Len(completed')
    BY <1>1, <1>2, <1>4
  <2>4. QED  BY <1>1, <1>2, <1>4, <2>1, <2>2, <2>3 DEF EvalInv, EvalTypeOK
<1>7. TasksOK'
  <2>1. Cardinality(Inside') <= Concurrency
    BY <1>1, <1>3, InsideBound
  <2>2. Range(completed') = Range(completed) \cup {q}
    <3>1. DOMAIN completed' = 1..(Len(completed) + 1) /\ DOMAIN completed = 1..Len(completed)
      BY <1>2, <1>4
    <3>2. QED  BY <1>4, <3>1 DEF Range
  <2>3. {k \in Questions : task'[k] \in Over} = {k \in Questions : task[k] \in Over} \cup {q}
    BY <1>1, <1>2
  <2>4. \A n \in 1..collected : task'[completed'[n]] = "done"
    <3>1. \A n \in 1..collected : n \in 1..Len(completed) /\ task[completed[n]] = "done"
      BY <1>1, <1>2, <1>4 DEF EvalInv, TasksOK, Rating
    <3>2. QED  BY <1>1, <1>2, <1>4, <1>5, <3>1
  <2>5. QED  BY <1>1, <1>2, <2>1, <2>2, <2>3, <2>4 DEF EvalInv, TasksOK
<1>8. RowsOK'
  <2>1. \A k \in Questions : RowOK(k) => RowOK(k)'
    BY <1>1, RowStays
  <2>2. \A k \in Questions : task'[k] \in {"embedding", "done"} => task[k] \in {"embedding", "done"}
    BY <1>1, <1>2 DEF Over
  <2>3. NoRow' = NoRow
    BY DEF NoRow
  <2>4. QED  BY <1>1, <1>2, <2>1, <2>2, <2>3 DEF EvalInv, RowsOK, Rating
<1>9. CountsOK' /\ SavedOK' /\ ReportOK'
  BY <1>1, CountsStay, SavedStays DEF EvalInv, ReportOK
<1>10. QED  BY <1>6, <1>7, <1>8, <1>9 DEF EvalInv

LEMMA CollectKept == EvalInv /\ Collect => EvalInv'
<1> SUFFICES ASSUME EvalInv, Collect PROVE EvalInv'
  OBVIOUS
<1>1. /\ phase = "evaluating" /\ collected < Len(completed) /\ collected' = collected + 1
      /\ phase' = IF task[completed[collected + 1]] = "failed" THEN "ended"
                  ELSE IF collected' = Len(work.golden) THEN "saving" ELSE phase
      /\ UNCHANGED <<work, indexes, counts, task, row, completed, saved, report>>
  BY DEF Collect
<1>2. /\ Questions' = Questions /\ Inside' = Inside /\ task \in [Questions -> TaskStates]
      /\ completed \in Seq(Questions) /\ collected \in 0..Len(completed) /\ Len(completed) \in Nat
  BY <1>1 DEF Questions, Inside, EvalInv, EvalTypeOK
<1>3. phase' \in {"ended", "saving", "evaluating"}
  BY <1>1
<1>4. EvalTypeOK'
  <2>1. collected' \in 0..Len(completed)
    BY <1>1, <1>2
  <2>2. QED  BY <1>1, <1>2, <1>3, <2>1 DEF EvalInv, EvalTypeOK, Rating
<1>5. TasksOK'
  <2>1. ASSUME phase' \in Rating, NEW n \in 1..collected' PROVE task[completed[n]] = "done"
    <3>1. task[completed[collected + 1]] # "failed"
      BY <1>1, <2>1 DEF Rating
    <3>2. collected + 1 \in 1..Len(completed)
      BY <1>1, <1>2
    <3>3. task[completed[collected + 1]] \in Over
      <4>1. completed[collected + 1] \in Range(completed)
        BY <1>2, <3>2 DEF Range
      <4>2. QED  BY <4>1 DEF EvalInv, TasksOK
    <3>4. CASE n = collected + 1
      BY <3>1, <3>3, <3>4 DEF Over
    <3>5. CASE n # collected + 1
      <4>1. n \in 1..collected
        BY <1>1, <1>2, <2>1, <3>5
      <4>2. QED  BY <1>1, <4>1 DEF EvalInv, TasksOK, Rating
    <3>6. QED  BY <3>4, <3>5
  <2>2. phase' = "saving" => collected' = Len(work.golden)
    BY <1>1
  <2>3. QED  BY <1>1, <1>2, <2>1, <2>2 DEF EvalInv, TasksOK
<1>6. RowsOK'
  <2>1. \A k \in Questions : RowOK(k) => RowOK(k)'
    BY <1>1, RowStays
  <2>2. NoRow' = NoRow
    BY DEF NoRow
  <2>3. QED  BY <1>1, <1>2, <2>1, <2>2 DEF EvalInv, RowsOK, Rating
<1>7. CountsOK' /\ SavedOK'
  BY <1>1, <1>3, CountsStay, SavedStays DEF EvalInv, Rating
<1>8. ReportOK'
  <2>1. report = Len(saved) /\ Len(saved) \in Nat
    BY <1>1, SavedLength DEF EvalInv, ReportOK, Rating
  <2>2. report' = Len(saved') /\ report' \in Nat /\ report' <= Len(saved') /\ Len(saved') <= report' + 1
    BY <1>1, <2>1
  <2>3. QED  BY <1>3, <2>2 DEF ReportOK, Rating
<1>9. QED  BY <1>4, <1>5, <1>6, <1>7, <1>8 DEF EvalInv

\* A count, from the cache or not.
LEMMA CountType ==
    ASSUME EvalInv, NEW q \in Questions, NEW s \in DOMAIN IndexOf, NEW count,
           count = RelevantCount(s, work.golden[q])
    PROVE  count \in Nat /\ (UniqueIds => count = RightCount(s, q))
<1> DEFINE entry == work.golden[q]
           relevant == {c \in NamedChunks(s, entry) : MatchesGolden(c, entry)}
<1>1. RightCount(s, q) = Cardinality(relevant)
  BY DEF RightCount, CountRelevant
<1>2. IsFiniteSet(IndexOf[s]) /\ relevant \subseteq IndexOf[s]
  BY EvaluationAssumption DEF NamedChunks
<1>3. RightCount(s, q) \in Nat
  BY <1>1, <1>2, FS_Subset, FS_CardinalityType
<1>4. CASE entry.qid \in DOMAIN counts[s]
  <2>1. count = counts[s][entry.qid]
    BY <1>4 DEF RelevantCount, CountsOf
  <2>2. QED  BY <1>4, <2>1 DEF EvalInv, CountsOK
<1>5. CASE entry.qid \notin DOMAIN counts[s]
  <2>1. count = RightCount(s, q)
    BY <1>5 DEF RelevantCount, CountsOf, RightCount
  <2>2. QED  BY <1>3, <2>1
<1>6. QED  BY <1>4, <1>5

\* While questions are rated there is an index they are rated in.
LEMMA StrategyType == EvalInv /\ phase \in Rating => Strategy \in DOMAIN IndexOf
<1> SUFFICES ASSUME EvalInv, phase \in Rating PROVE Strategy \in DOMAIN IndexOf
  OBVIOUS
<1>1. Len(saved) \in Nat /\ Len(work.plan) \in Nat /\ Len(saved) < Len(work.plan)
  BY SavedLength, WorkType DEF EvalInv, SavedOK
<1>2. Position \in 1..Len(work.plan)
  BY <1>1 DEF Position
<1>3. QED  BY <1>2, SavedLength, WorkType DEF Strategy

LEMMA AnsweredKept == ASSUME EvalInv, NEW q \in Questions, Answered(q) PROVE EvalInv'
<1>1. PICK ranking \in work.rankings[Strategy], refused \in BOOLEAN :
      /\ phase = "evaluating" /\ task[q] = "answering" /\ ScoreEntry(q, ranking, refused)
      /\ task' = [task EXCEPT ![q] = "embedding"]
      /\ UNCHANGED <<work, indexes, completed, collected, saved, report, phase>>
  BY DEF Answered
<1> DEFINE entry == work.golden[q]
           total == RelevantCount(Strategy, entry)
<1>2. /\ counts' = [counts EXCEPT ![Strategy] = Counted(counts[Strategy], entry.qid, total)]
      /\ row' = [row EXCEPT ![q] = EvalRow(entry, ranking, refused, total)]
  BY <1>1 DEF ScoreEntry
<1>3. /\ Questions' = Questions /\ UniqueIds' = UniqueIds /\ Strategy' = Strategy
      /\ task \in [Questions -> TaskStates] /\ row = [k \in Questions |-> row[k]]
      /\ counts = [s \in DOMAIN IndexOf |-> counts[s]]
      /\ completed \in Seq(Questions) /\ collected \in 0..Len(completed)
  BY <1>1 DEF Questions, UniqueIds, Strategy, Position, EvalInv, EvalTypeOK
<1>4. Strategy \in DOMAIN IndexOf
  BY <1>1, StrategyType DEF Rating
<1>5. total \in Nat /\ (UniqueIds => total = RightCount(Strategy, q))
  BY <1>4, CountType
<1> HIDE DEF total
<1>6. EvalTypeOK'
  <2>1. task' \in [Questions -> TaskStates]
    BY <1>1, <1>3 DEF TaskStates
  <2>2. row' = [k \in Questions |-> row'[k]] /\ counts' = [s \in DOMAIN IndexOf |-> counts'[s]]
    BY <1>2, <1>3
  <2>3. QED  BY <1>1, <1>3, <2>1, <2>2 DEF EvalInv, EvalTypeOK
<1>7. TasksOK'
  <2>1. Cardinality(Inside') <= Concurrency
    BY <1>1, InsideBound DEF TaskStates, Inside
  <2>2. {k \in Questions : task'[k] \in Over} = {k \in Questions : task[k] \in Over}
    BY <1>1, <1>3 DEF Over
  <2>3. \A n \in 1..collected : task'[completed[n]] = "done"
    <3>1. \A n \in 1..collected : completed[n] \in Questions /\ task[completed[n]] = "done"
      BY <1>1, <1>3 DEF EvalInv, TasksOK, Rating
    <3>2. QED  BY <1>1, <1>3, <3>1
  <2>4. QED  BY <1>1, <1>3, <2>1, <2>2, <2>3 DEF EvalInv, TasksOK
<1>8. CountsOK'
  <2>1. ASSUME NEW s \in DOMAIN IndexOf, NEW id \in DOMAIN counts'[s] PROVE counts'[s][id] \in Nat
    BY <1>2, <1>3, <1>5, <2>1 DEF EvalInv, CountsOK, Counted
  <2>2. ASSUME NEW s \in DOMAIN IndexOf, UniqueIds, NEW k \in Questions,
               work.golden[k].qid \in DOMAIN counts'[s]
        PROVE  counts'[s][work.golden[k].qid] = RightCount(s, k)
    <3>1. k # q => work.golden[k].qid # entry.qid
      BY <2>2 DEF UniqueIds, IsInjective
    <3>2. CASE s = Strategy /\ k = q
      BY <1>2, <1>3, <1>4, <1>5, <2>2, <3>2 DEF Counted
    <3>3. CASE s # Strategy \/ k # q
      <4>1. /\ work.golden[k].qid \in DOMAIN counts[s]
            /\ counts'[s][work.golden[k].qid] = counts[s][work.golden[k].qid]
        BY <1>2, <1>3, <1>4, <2>2, <3>1, <3>3 DEF Counted
      <4>2. QED  BY <2>2, <4>1 DEF EvalInv, CountsOK
    <3>4. QED  BY <3>2, <3>3
  <2>3. \A s, k : RightCount(s, k)' = RightCount(s, k)
    BY <1>1 DEF RightCount
  <2>4. QED  BY <1>1, <1>3, <2>1, <2>2, <2>3 DEF CountsOK
<1>9. RowsOK'
  <2>1. \A k \in Questions \ {q} : RowOK(k) => RowOK(k)'
    <3>1. \A k \in Questions \ {q} : row'[k] = row[k]
      BY <1>2, <1>3
    <3>2. QED  BY <1>1, <3>1, RowStays
  <2>2. RowOK(q)'
    <3>1. row'[q] = EvalRow(entry, ranking, refused, total)
      BY <1>2, <1>3
    <3>2. RightCount(Strategy, q)' = RightCount(Strategy, q)
      BY <1>1, <1>3 DEF RightCount
    <3>3. QED  BY <1>1, <1>3, <1>5, <3>1, <3>2 DEF RowOK
  <2>3. \A k \in Questions \ {q} : task'[k] = task[k] /\ row'[k] = row[k]
    BY <1>1, <1>2, <1>3
  <2>4. NoRow' = NoRow
    BY DEF NoRow
  <2>5. QED  BY <1>1, <1>3, <2>1, <2>2, <2>3, <2>4 DEF EvalInv, RowsOK, Rating
<1>10. SavedOK' /\ ReportOK'
  BY <1>1, SavedStays DEF EvalInv, ReportOK
<1>11. QED  BY <1>6, <1>7, <1>8, <1>9, <1>10 DEF EvalInv

\* The place of an id that some question has is one of a question with that id.
LEMMA OrderType ==
    ASSUME work \in Workloads, NEW q \in Questions
    PROVE  LET qid == work.golden[q].qid
           IN  /\ Order(qid) \in Questions /\ Order(qid) \in Int /\ work.golden[Order(qid)].qid = qid
               /\ UniqueIds => Order(qid) = q
<1> DEFINE qid == work.golden[q].qid
           same == {k \in Questions : work.golden[k].qid = qid}
           N == Len(work.golden)
<1>1. N \in Nat /\ Questions = 1..N
  BY WorkType
<1> HIDE DEF N
<1>2. same \in SUBSET (0..N) /\ q \in same
  BY <1>1
<1> HIDE DEF same
<1>3. \E m \in same : \A k \in same : m >= k
  BY <1>1, <1>2, GreatestNatural
<1>4. Order(qid) = Max(same)
  BY DEF Order, same
<1>5. Max(same) \in same
  BY <1>3 DEF Max
<1>6. Order(qid) \in Questions /\ work.golden[Order(qid)].qid = qid
  BY <1>4, <1>5 DEF same
<1>7. UniqueIds => Order(qid) = q
  BY <1>6 DEF UniqueIds, IsInjective
<1>8. QED  BY <1>1, <1>6, <1>7

\* Sorting moves the rows to other places, in the order of their ids.
LEMMA Sorted ==
    ASSUME NEW N \in Nat, NEW rows, DOMAIN rows = 1..N, \A n \in 1..N : Order(rows[n].qid) \in Int
    PROVE  \E moved \in Seq(1..N) :
              /\ Len(moved) = N /\ Injective(moved) /\ Range(moved) = 1..N
              /\ GoldenOrder(rows) = [i \in 1..N |-> rows[moved[i]]]
              /\ \A i, j \in 1..N : i < j => Order(rows[moved[i]].qid) <= Order(rows[moved[j]].qid)
<1> DEFINE Before(m, n) == \/ Order(rows[m].qid) < Order(rows[n].qid)
                           \/ Order(rows[m].qid) = Order(rows[n].qid) /\ m < n
           S == 1..N
           R == {p \in S \X S : Before(p[1], p[2])}
           At(i) == CHOOSE n \in S : Cardinality({m \in S : Before(m, n)}) = i - 1
           moved == [i \in 1..Cardinality(S) |-> CHOOSE n \in S : Cardinality(Below(S, R, n)) = i - 1]
<1>1. IsFiniteSet(S) /\ Cardinality(S) = N
  BY FS_Interval
<1>2. \A a, b \in S : <<a, b>> \in R <=> Before(a, b)
  OBVIOUS
<1>3. StrictOrder(S, R)
  <2> HIDE DEF R
  <2>1. \A a \in S : <<a, a>> \notin R
    BY <1>2
  <2>2. \A a, b \in S : a # b => <<a, b>> \in R \/ <<b, a>> \in R
    BY <1>2
  <2>3. \A a, b, c \in S : <<a, b>> \in R /\ <<b, c>> \in R => <<a, c>> \in R
    BY <1>2
  <2>4. QED  BY <2>1, <2>2, <2>3 DEF StrictOrder
<1>4. GoldenOrder(rows) = [i \in S |-> rows[At(i)]]
  BY DEF GoldenOrder
<1>5. \A n \in S : {m \in S : Before(m, n)} = Below(S, R, n)
  BY <1>2 DEF Below
<1>6. IsListing(moved, S, R)
  BY DEF IsListing
<1>7. \A i \in S : moved[i] = At(i)
  <2> HIDE DEF Before, R
  <2>1. QED  BY <1>1, <1>5
<1> HIDE DEF R, At, moved, S, Before
<1>8. /\ moved \in Seq(S) /\ Len(moved) = N /\ DOMAIN moved = 1..N
      /\ Range(moved) = S /\ Injective(moved)
      /\ \A i, j \in DOMAIN moved : i < j <=> <<moved[i], moved[j]>> \in R
  BY <1>1, <1>3, <1>6, Listing
<1>9. GoldenOrder(rows) = [i \in 1..N |-> rows[moved[i]]]
  BY <1>4, <1>7 DEF S
<1>10. ASSUME NEW i \in 1..N, NEW j \in 1..N, i < j
       PROVE  Order(rows[moved[i]].qid) <= Order(rows[moved[j]].qid)
  <2>1. moved[i] \in S /\ moved[j] \in S
    BY <1>8
  <2>2. Before(moved[i], moved[j])
    BY <1>2, <1>8, <1>10, <2>1
  <2>3. Order(rows[moved[i]].qid) \in Int /\ Order(rows[moved[j]].qid) \in Int
    BY <2>1 DEF S
  <2>4. QED  BY <2>2, <2>3 DEF Before
<1>11. QED  BY <1>8, <1>9, <1>10 DEF S

\* All questions are over when a run is saved, none of them failed.
LEMMA AllDone ==
    ASSUME EvalInv, phase = "saving"
    PROVE  /\ Len(completed) = Len(work.golden) /\ Range(completed) = Questions
           /\ \A q \in Questions : task[q] = "done" /\ RowOK(q)
<1> DEFINE N == Len(work.golden)
<1>1. /\ completed \in Seq(Questions) /\ Injective(completed) /\ collected \in 0..Len(completed)
      /\ work \in Workloads /\ collected = N /\ \A n \in 1..collected : task[completed[n]] = "done"
  BY DEF EvalInv, EvalTypeOK, TasksOK, Rating
<1>2. N \in Nat /\ IsFiniteSet(Questions) /\ Cardinality(Questions) = N
  BY <1>1, WorkType
<1>3. Cardinality(Range(completed)) = Len(completed) /\ Len(completed) \in Nat
  BY <1>1, InjectiveCardinality
<1>4. Range(completed) \in SUBSET Questions
  BY <1>1, RangeFinite
<1> HIDE DEF N
<1>5. Cardinality(Range(completed)) <= N /\ (Cardinality(Range(completed)) = N => Range(completed) = Questions)
  BY <1>2, <1>4, FS_Subset
<1>6. Len(completed) = N /\ Range(completed) = Questions
  BY <1>1, <1>2, <1>3, <1>5
<1>7. \A q \in Questions : task[q] = "done"
  BY <1>1, <1>6 DEF Range
<1>8. \A q \in Questions : RowOK(q)
  BY <1>7 DEF EvalInv, RowsOK, Rating
<1>9. QED  BY <1>6, <1>7, <1>8 DEF N

\* The list of rows that is sorted and written.
Scored == [n \in DOMAIN completed |-> row[completed[n]]]

\* The run that is saved is right.
LEMMA SavedRunRight ==
    ASSUME EvalInv, phase = "saving"
    PROVE  LET rows == GoldenOrder(Scored)
           IN  RunRight([strategy |-> Strategy, rows |-> rows, aggregate |-> Aggregate(rows)], Position)
<1> DEFINE N == Len(work.golden)
           rows == GoldenOrder(Scored)
           golden(q) == work.golden[q]
<1>1. /\ work \in Workloads /\ completed \in Seq(Questions) /\ Injective(completed)
      /\ Len(completed) = N /\ Range(completed) = Questions
  BY AllDone DEF EvalInv, EvalTypeOK
<1>2. N \in Nat /\ Questions = 1..N /\ IsFiniteSet(Questions)
      /\ \A q \in Questions : golden(q).negative \in BOOLEAN
  BY <1>1, WorkType
<1>3. \A q \in Questions : /\ row[q].qid = golden(q).qid /\ row[q].negative = golden(q).negative
                           /\ UniqueIds => row[q].total = RightCount(Strategy, q)
  <2>1. TAKE q \in Questions
  <2>2. PICK ranking \in work.rankings[Strategy], refused \in BOOLEAN, total \in Nat :
            /\ row[q] = EvalRow(golden(q), ranking, refused, total)
            /\ UniqueIds => total = RightCount(Strategy, q)
    BY AllDone DEF RowOK
  <2>3. row[q].qid = golden(q).qid /\ row[q].negative = golden(q).negative /\ row[q].total = total
    BY <2>2 DEF EvalRow
  <2>4. QED  BY <2>2, <2>3
<1> HIDE DEF N
<1>4. DOMAIN completed = 1..N /\ \A n \in 1..N : completed[n] \in Questions
  BY <1>1
<1>5. DOMAIN Scored = 1..N /\ \A n \in 1..N : Scored[n] = row[completed[n]]
  BY <1>4 DEF Scored
<1>6. \A n \in 1..N : Order(Scored[n].qid) \in Int /\ (UniqueIds => Order(Scored[n].qid) = completed[n])
  <2>1. \A q \in Questions : Order(golden(q).qid) \in Int /\ (UniqueIds => Order(golden(q).qid) = q)
    BY <1>1, OrderType
  <2>2. \A n \in 1..N : Scored[n].qid = golden(completed[n]).qid
    BY <1>3, <1>4, <1>5
  <2>3. QED  BY <1>4, <2>1, <2>2
<1>7. PICK moved \in Seq(1..N) :
              /\ Len(moved) = N /\ Injective(moved) /\ Range(moved) = 1..N
              /\ rows = [i \in 1..N |-> Scored[moved[i]]]
              /\ \A i, j \in 1..N : i < j => Order(Scored[moved[i]].qid) <= Order(Scored[moved[j]].qid)
  BY <1>2, <1>5, <1>6, Sorted
<1> HIDE DEF rows
<1> DEFINE place == [i \in 1..N |-> completed[moved[i]]]
<1>8. DOMAIN moved = 1..N /\ \A i \in 1..N : moved[i] \in 1..N
  BY <1>2, <1>7
<1>9. /\ place \in [1..N -> Questions] /\ DOMAIN place = 1..N
      /\ \A i \in 1..N : place[i] = completed[moved[i]] /\ rows[i] = row[place[i]] /\ place[i] \in Questions
  BY <1>4, <1>5, <1>7, <1>8
<1>10. Injective(place) /\ Range(place) = Questions
  <2>1. \A i, j \in 1..N : place[i] = place[j] => i = j
    BY <1>1, <1>4, <1>7, <1>8, <1>9 DEF Injective
  <2>2. ASSUME NEW q \in Questions PROVE \E i \in 1..N : place[i] = q
    <3>1. PICK n \in 1..N : completed[n] = q
      BY <1>1, <1>4 DEF Range
    <3>2. PICK i \in 1..N : moved[i] = n
      BY <1>7, <1>8 DEF Range
    <3>3. QED  BY <1>9, <3>1, <3>2
  <2>3. QED  BY <1>9, <2>1, <2>2 DEF Injective, Range
<1> HIDE DEF place
<1>11. DOMAIN rows = 1..N /\ Len(rows) = N
  <2>1. rows \in [1..N -> ToSet(rows)] /\ DOMAIN rows = 1..N
    BY <1>7 DEF ToSet
  <2>2. QED  BY <1>2, <2>1
<1>12. Len(Aggregate(rows).recall) = Cardinality({q \in Questions : ~golden(q).negative})
  <2> DEFINE X == ToSet(rows)
             S == {r \in X : r.negative}
             A == {q \in Questions : ~golden(q).negative}
  <2>1. rows \in Seq(X) /\ \A i \in 1..N : rows[i] \in X
    <3>1. rows = [i \in 1..N |-> rows[i]] /\ \A i \in 1..N : rows[i] \in X
      BY <1>7, <1>11 DEF ToSet
    <3> HIDE DEF X
    <3>2. rows \in [1..N -> X]
      BY <3>1
    <3>3. rows \in Seq(X)
      BY <1>2, <3>2
    <3>4. QED  BY <3>1, <3>3
  <2>2. {i \in DOMAIN rows : rows[i] \notin S} = {i \in DOMAIN place : place[i] \in A}
    <3>1. \A i \in 1..N : rows[i] \notin S <=> place[i] \in A
      <4>1. ASSUME NEW i \in 1..N PROVE rows[i].negative = golden(place[i]).negative
        BY <1>3, <1>9
      <4> HIDE DEF X
      <4>2. QED  BY <1>9, <2>1, <4>1
    <3>2. QED  BY <1>9, <1>11, <3>1
  <2> HIDE DEF X, S, A
  <2>3. /\ Len(Filtered(rows, S)) \in Nat
        /\ Len(Filtered(rows, S)) = Cardinality({i \in DOMAIN rows : rows[i] \notin S})
        /\ Filtered(rows, S) \in Seq(X)
    BY <2>1, FilteredLength, FilteredProperties
  <2>4. Cardinality({i \in DOMAIN place : place[i] \in A}) = Cardinality(A)
    <3>1. A \in SUBSET Questions
      BY DEF A
    <3>2. place \in Seq(Questions)
      BY <1>2, <1>9
    <3>3. IsFiniteSet(Questions) /\ Injective(place) /\ Range(place) = Questions
      BY <1>2, <1>10
    <3> HIDE DEF golden
    <3>4. QED  BY <3>1, <3>2, <3>3, PlacesOf
  <2>5. Len(Aggregate(rows).recall) = Len(Filtered(rows, S))
    <3> DEFINE answerable == Filtered(rows, S)
    <3>1. Aggregate(rows).recall = [n \in DOMAIN answerable |-> answerable[n].recall]
      BY DEF Aggregate, S, X
    <3> HIDE DEF answerable
    <3>2. DOMAIN answerable = 1..Len(answerable) /\ Len(answerable) \in Nat
      BY <2>3 DEF answerable
    <3>3. Len([n \in DOMAIN answerable |-> answerable[n].recall]) = Len(answerable)
      BY <3>2
    <3>4. QED  BY <3>1, <3>3 DEF answerable
  <2>6. QED  BY <2>2, <2>3, <2>4, <2>5 DEF A
<1>13. ASSUME UniqueIds, NEW q \in Questions
       PROVE  rows[q].qid = golden(q).qid /\ rows[q].total = RightCount(Strategy, q)
  <2>1. \A i \in 1..N : Order(Scored[moved[i]].qid) = place[i]
    BY <1>6, <1>8, <1>9, <1>13
  <2>2. \A i, j \in 1..N : i < j => place[i] < place[j]
    <3>1. SUFFICES ASSUME NEW i \in 1..N, NEW j \in 1..N, i < j PROVE place[i] < place[j]
      OBVIOUS
    <3>2. place[i] <= place[j]
      BY <1>7, <2>1, <3>1
    <3>3. place[i] # place[j]
      BY <1>9, <1>10, <3>1 DEF Injective
    <3>4. place[i] \in Int /\ place[j] \in Int
      BY <1>2, <1>9
    <3>5. QED  BY <3>2, <3>3, <3>4
  <2>3. place[q] = q
    <3>1. place \in [1..N -> 1..N]
      BY <1>2, <1>9
    <3>2. QED  BY <1>2, <2>2, <3>1, InPlace
  <2>4. QED  BY <1>2, <1>3, <1>9, <1>13, <2>3
<1>14. Strategy = work.plan[Position]
  BY DEF Strategy
<1>15. QED  BY <1>11, <1>12, <1>13, <1>14 DEF RunRight, rows, N

LEMMA SaveRunKept == EvalInv /\ SaveRun => EvalInv'
<1> SUFFICES ASSUME EvalInv, SaveRun PROVE EvalInv'
  OBVIOUS
<1> DEFINE rows == GoldenOrder(Scored)
           run == [strategy |-> Strategy, rows |-> rows, aggregate |-> Aggregate(rows)]
<1>1. /\ phase = "saving" /\ phase' = "reporting" /\ saved' = Append(saved, run)
      /\ UNCHANGED <<work, indexes, counts, task, row, completed, collected, report>>
  BY DEF SaveRun, Scored
<1>2. RunRight(run, Position)
  BY <1>1, SavedRunRight
<1> HIDE DEF run
<1>3. /\ Questions' = Questions /\ UniqueIds' = UniqueIds /\ Inside' = Inside
      /\ Len(saved) \in Nat /\ Len(work.plan) \in Nat
  BY <1>1, SavedLength, WorkType DEF Questions, UniqueIds, Inside
<1>4. /\ Len(saved') = Len(saved) + 1 /\ DOMAIN saved' = 1..(Len(saved) + 1) /\ DOMAIN saved = 1..Len(saved)
      /\ saved'[Len(saved) + 1] = run /\ \A p \in 1..Len(saved) : saved'[p] = saved[p]
      /\ saved' \in Seq(ToSet(saved'))
  <2> DEFINE X == ToSet(saved) \cup {run}
             Y == ToSet(saved')
  <2>1. saved \in Seq(X) /\ run \in X
    <3> DEFINE Z == ToSet(saved)
    <3>1. saved \in Seq(Z)
      BY DEF EvalInv, EvalTypeOK
    <3> HIDE DEF Z
    <3>2. saved \in Seq(Z \cup {run})
      BY <3>1
    <3>3. QED  BY <3>2 DEF Z
  <2> HIDE DEF X
  <2>2. /\ Len(saved') = Len(saved) + 1 /\ saved' \in Seq(X)
        /\ saved'[Len(saved) + 1] = run /\ \A p \in 1..Len(saved) : saved'[p] = saved[p]
    BY <1>1, <2>1
  <2>3. DOMAIN saved' = 1..(Len(saved) + 1) /\ DOMAIN saved = 1..Len(saved)
    BY <2>1, <2>2
  <2>4. saved' = [p \in 1..(Len(saved) + 1) |-> saved'[p]]
    BY <2>2, <2>3
  <2>5. \A p \in 1..(Len(saved) + 1) : saved'[p] \in Y
    BY <2>3 DEF ToSet
  <2> HIDE DEF Y
  <2>6. saved' \in Seq(Y)
    BY <1>3, <2>4, <2>5
  <2>7. QED  BY <2>2, <2>3, <2>6 DEF Y
<1>5. EvalTypeOK'
  BY <1>1, <1>3, <1>4 DEF EvalInv, EvalTypeOK
<1>6. TasksOK' /\ RowsOK'
  BY <1>1, <1>3 DEF EvalInv, TasksOK, RowsOK, Rating
<1>7. CountsOK'
  BY <1>1, CountsStay DEF EvalInv
<1>8. SavedOK'
  <2>1. \A any, p : RunRight(any, p)' = RunRight(any, p)
    BY <1>1, <1>3 DEF RunRight, RightCount
  <2>2. \A p \in 1..(Len(saved) + 1) : RunRight(saved'[p], p)
    <3>1. TAKE p \in 1..(Len(saved) + 1)
    <3>2. CASE p = Len(saved) + 1
      BY <1>2, <1>4, <3>2 DEF Position
    <3>3. CASE p # Len(saved) + 1
      <4>1. p \in 1..Len(saved)
        BY <1>3, <3>3
      <4>2. QED  BY <1>4, <4>1 DEF EvalInv, SavedOK
    <3>4. QED  BY <3>2, <3>3
  <2>3. Len(saved') <= Len(work.plan)
    <3>1. Len(saved) < Len(work.plan)
      BY <1>1 DEF EvalInv, SavedOK, Rating
    <3>2. QED  BY <1>3, <1>4, <3>1
  <2>4. QED  BY <1>1, <1>4, <2>1, <2>2, <2>3 DEF SavedOK, Rating
<1>9. ReportOK'
  <2>1. report = Len(saved)
    BY <1>1 DEF EvalInv, ReportOK, Rating
  <2>2. report' = Len(saved') - 1 /\ Len(saved') > 0
    BY <1>1, <1>3, <1>4, <2>1
  <2>3. QED  BY <1>1, <2>2 DEF ReportOK, Rating
<1>10. QED  BY <1>5, <1>6, <1>7, <1>8, <1>9 DEF EvalInv

LEMMA EvalKept == EvalInv /\ [EvalNext]_evalVars => EvalInv'
<1> SUFFICES ASSUME EvalInv, [EvalNext]_evalVars PROVE EvalInv'
  OBVIOUS
<1>1. CASE UNCHANGED evalVars
  <2>1. /\ UNCHANGED <<work, indexes, counts, task, row, completed, collected, saved, report, phase>>
        /\ Questions' = Questions /\ Inside' = Inside
    BY <1>1 DEF evalVars, Questions, Inside
  <2>2. EvalTypeOK' /\ TasksOK'
    BY <2>1 DEF EvalInv, EvalTypeOK, TasksOK
  <2>3. RowsOK'
    <3>1. \A q \in Questions : RowOK(q) => RowOK(q)'
      BY <2>1, RowStays
    <3>2. NoRow' = NoRow
      BY DEF NoRow
    <3>3. QED  BY <2>1, <3>1, <3>2 DEF EvalInv, RowsOK
  <2>4. CountsOK' /\ SavedOK' /\ ReportOK'
    BY <2>1, CountsStay, SavedStays DEF EvalInv, ReportOK
  <2>5. QED  BY <2>2, <2>3, <2>4 DEF EvalInv
<1>2. CASE BuildIndex
  BY <1>2, BuildIndexKept
<1>3. CASE Collect
  BY <1>3, CollectKept
<1>4. CASE SaveRun
  BY <1>4, SaveRunKept
<1>5. CASE OpenReport \/ WriteReport
  BY <1>5, ReportKept
<1>6. CASE Kill
  BY <1>6, KillKept
<1>7. CASE \E q \in Questions : Enter(q) \/ Answered(q) \/ End(q)
  BY <1>7, EnterKept, AnsweredKept, EndKept
<1>8. QED  BY <1>1, <1>2, <1>3, <1>4, <1>5, <1>6, <1>7 DEF EvalNext

\* What a reader of the runs and the report on disk finds.
LEMMA RunsRight == EvalInv => RunComplete
<1> SUFFICES ASSUME EvalInv PROVE RunComplete
  OBVIOUS
<1>1. \A p \in DOMAIN saved : RunRight(saved[p], p)
  BY DEF EvalInv, SavedOK
<1>2. Cardinality(Inside) <= Concurrency
  BY DEF EvalInv, TasksOK
<1>3. Len(saved) \in Nat /\ Torn \notin Nat
  BY SavedLength, EvaluationAssumption
<1>4. phase \in Rating \cup {"indexing", "reporting", "rewriting", "closing", "last rewriting", "ended"}
  BY DEF EvalInv, EvalTypeOK
<1>5. /\ report # Torn => Len(saved) - report <= 1
      /\ report = Torn => phase \in {"rewriting", "last rewriting", "ended"}
  <2>1. CASE phase \in Rating \cup {"indexing", "closing"}
    <3>1. report = Len(saved)
      BY <2>1 DEF EvalInv, ReportOK
    <3>2. report # Torn /\ Len(saved) - report <= 1
      BY <1>3, <3>1
    <3>3. QED  BY <3>2
  <2>2. CASE phase = "reporting"
    <3>1. report = Len(saved) - 1 /\ Len(saved) > 0
      BY <2>2 DEF EvalInv, ReportOK
    <3>2. report \in Nat /\ Len(saved) - report <= 1
      BY <1>3, <3>1
    <3>3. QED  BY <1>3, <3>2
  <2>3. CASE phase \in {"rewriting", "last rewriting"}
    BY <2>3 DEF EvalInv, ReportOK
  <2>4. CASE phase = "ended"
    <3>1. report # Torn => report \in Nat /\ Len(saved) <= report + 1
      BY <2>4 DEF EvalInv, ReportOK
    <3>2. QED  BY <1>3, <2>4, <3>1
  <2>5. QED  BY <1>4, <2>1, <2>2, <2>3, <2>4
<1>6. QED  BY <1>1, <1>2, <1>5 DEF RunComplete, RunRight, RightCount

\* A row that was scored has sound numbers.
LEMMA MetricsRight == EvalInv => MetricsSound
<1> SUFFICES ASSUME EvalInv, NEW q \in Questions, phase \in Rating, row[q] # NoRow
             PROVE  LET r == row[q]
                        entry == work.golden[q]
                        relevant == RelevantIn(Strategy, entry)
                        named == UniqueIds /\ relevant \subseteq NamedChunks(Strategy, entry)
                        shown == {r.ranking[n] : n \in DOMAIN r.ranking}
                    IN  /\ \A m \in {r.recall, r.precision, r.hit, r.rr, r.ndcg} : 0 <= m[1] /\ m[1] <= m[2]
                        /\ named /\ relevant # {} => (Whole(r.recall) <=> relevant \subseteq shown)
                        /\ named /\ relevant # {} =>
                              (Whole(r.ndcg) <=> \A n \in 1..Min({K, Cardinality(relevant)}) :
                                                      n \in DOMAIN r.flags /\ r.flags[n])
                        /\ (r.hit[1] = 1) = (r.rr[1] = 1) /\ (r.hit[1] = 1) = (r.precision[1] > 0)
                        /\ UniqueIds /\ Findable(Strategy, entry) => r.total > 0
  BY DEF MetricsSound, Rating
<1> DEFINE r == row[q]
           entry == work.golden[q]
           relevant == RelevantIn(Strategy, entry)
           named == UniqueIds /\ relevant \subseteq NamedChunks(Strategy, entry)
           shown == {r.ranking[n] : n \in DOMAIN r.ranking}
<1>1. work \in Workloads /\ Strategy \in DOMAIN IndexOf
  BY SavedLength, StrategyType
<1>2. PICK ranking \in work.rankings[Strategy], refused \in BOOLEAN, total \in Nat :
          /\ r = EvalRow(entry, ranking, refused, total)
          /\ UniqueIds => total = RightCount(Strategy, q)
  BY DEF EvalInv, RowsOK, RowOK
<1>3. r.ranking = ranking /\ r.total = total
  BY <1>2 DEF EvalRow
<1>4. named => total = Cardinality(relevant)
  <2>1. named => relevant = {c \in NamedChunks(Strategy, entry) : MatchesGolden(c, entry)}
    BY DEF RelevantIn, NamedChunks
  <2>2. QED  BY <1>2, <2>1 DEF RightCount, CountRelevant
<1>5. /\ \A m \in {r.recall, r.precision, r.hit, r.rr, r.ndcg} : 0 <= m[1] /\ m[1] <= m[2]
      /\ (r.hit[1] = 1) = (r.rr[1] = 1) /\ (r.hit[1] = 1) = (r.precision[1] > 0)
  BY <1>1, <1>2, RowBounded
<1>6. ASSUME named, relevant # {} PROVE Whole(r.recall) <=> relevant \subseteq shown
  BY <1>1, <1>2, <1>3, <1>4, <1>6, RecallWhole
<1>7. ASSUME named, relevant # {}
      PROVE  Whole(r.ndcg) <=> \A n \in 1..Min({K, Cardinality(relevant)}) : n \in DOMAIN r.flags /\ r.flags[n]
  BY <1>1, <1>2, <1>4, <1>7, NdcgWhole
<1>8. ASSUME UniqueIds, Findable(Strategy, entry) PROVE r.total > 0
  <2> DEFINE matching == {c \in NamedChunks(Strategy, entry) : MatchesGolden(c, entry)}
  <2>1. matching # {}
    BY <1>1, <1>8, SpanFound
  <2>2. IsFiniteSet(matching)
    <3>1. IsFiniteSet(IndexOf[Strategy]) /\ matching \in SUBSET IndexOf[Strategy]
      BY <1>1, EvaluationAssumption DEF NamedChunks
    <3>2. QED  BY <3>1, FS_Subset
  <2>3. total = Cardinality(matching)
    BY <1>2, <1>8 DEF RightCount, CountRelevant
  <2>4. total # 0
    BY <2>1, <2>2, <2>3, FS_EmptySet
  <2>5. QED  BY <1>2, <1>3, <2>4
<1>9. QED  BY <1>5, <1>6, <1>7, <1>8

----------------------------------------------------------------------------
\* Loading.

Text(blocks, n) == blocks[n].text

\* The cursor that StartOf moves, and the body that Joined builds, after each block.
IsCursor(f, blocks) ==
    /\ f \in [0..Len(blocks) -> Nat] /\ f[0] = 0
    /\ \A n \in 1..Len(blocks) : f[n] = f[n - 1] + Len(Text(blocks, n)) + Len(Separator)
    /\ \A n \in 1..Len(blocks) : StartOf(blocks, n) = f[n - 1]

IsBody(f, blocks) ==
    /\ f \in [0..Len(blocks) -> Seq(Characters)] /\ f[0] = <<>>
    /\ \A n \in 1..Len(blocks) :
          f[n] = IF n = 1 THEN Text(blocks, n) ELSE f[n - 1] \o Separator \o Text(blocks, n)
    /\ Joined(blocks) = f[Len(blocks)]

LEMMA BlockType ==
    ASSUME NEW blocks \in Seq(FileBlocks)
    PROVE  /\ Len(blocks) \in Nat /\ DOMAIN blocks = 1..Len(blocks)
           /\ Separator \in Seq(Characters) /\ Len(Separator) \in Nat
           /\ \A n \in 1..Len(blocks) : /\ blocks[n] \in FileBlocks
                                        /\ Text(blocks, n) \in Seq(Characters)
                                        /\ Len(Text(blocks, n)) \in Nat
<1>1. Len(blocks) \in Nat /\ DOMAIN blocks = 1..Len(blocks)
      /\ \A n \in 1..Len(blocks) : blocks[n] \in FileBlocks
  OBVIOUS
<1>2. \A b \in FileBlocks : b.text \in Seq(Characters)
  BY DEF FileBlocks
<1>3. Separator \in Seq(Characters)
  BY LoadingAssumption
<1>4. \A t \in Seq(Characters) : Len(t) \in Nat
  OBVIOUS
<1>5. QED  BY <1>1, <1>2, <1>3, <1>4 DEF Text

LEMMA CursorMoves == \A blocks \in Seq(FileBlocks) : \E f : IsCursor(f, blocks)
<1> SUFFICES ASSUME NEW blocks \in Seq(FileBlocks) PROVE \E f : IsCursor(f, blocks)
  OBVIOUS
<1> DEFINE N == Len(blocks)
           Is(g) == g = [n \in 0..N |-> IF n = 0 THEN 0
                                        ELSE g[n - 1] + Len(blocks[n].text) + Len(Separator)]
           step == [x \in Nat \X (1..N) |-> x[1] + Len(blocks[x[2]].text) + Len(Separator)]
           cursor == CHOOSE g : Is(g)
<1>1. N \in Nat /\ Len(Separator) \in Nat /\ \A n \in 1..N : Len(blocks[n].text) \in Nat
  BY BlockType DEF Text
<1>2. step \in [Nat \X (1..N) -> Nat]
  BY <1>1
<1>3. PICK f \in [0..N -> Nat] : IsFold(f, 0, step, N)
  <2> HIDE DEF step, N
  <2>1. 0 \in Nat
    OBVIOUS
  <2>2. QED  BY <1>1, <1>2, <2>1, FoldDefined
<1>4. f[0] = 0 /\ \A n \in 1..N : f[n] = f[n - 1] + Len(blocks[n].text) + Len(Separator)
  <2>1. ASSUME NEW n \in 1..N PROVE f[n] = f[n - 1] + Len(blocks[n].text) + Len(Separator)
    <3>1. n - 1 \in 0..N
      BY <1>1
    <3>2. f[n - 1] \in Nat /\ f[n] = step[<<f[n - 1], n>>]
      <4> HIDE DEF step
      <4>1. QED  BY <1>3, <3>1 DEF IsFold
    <3>3. <<f[n - 1], n>> \in Nat \X (1..N)
      BY <3>2
    <3>4. QED  BY <3>2, <3>3
  <2>2. QED  BY <1>3, <2>1 DEF IsFold
<1>5. Is(f)
  BY <1>1, <1>3, <1>4
<1>6. Is(cursor)
  BY <1>5
<1>7. \A n \in 1..N : StartOf(blocks, n) = cursor[n - 1]
  BY DEF StartOf
<1> HIDE DEF cursor
<1>8. DOMAIN cursor = 0..N /\ cursor[0] = 0
      /\ \A n \in 1..N : cursor[n] = cursor[n - 1] + Len(blocks[n].text) + Len(Separator)
  BY <1>1, <1>6
<1>9. \A n \in 0..N : cursor[n] \in Nat
  <2>1. \A n \in 1..N : cursor[n - 1] \in Nat => cursor[n] \in Nat
    BY <1>1, <1>8
  <2>2. cursor[0] \in Nat
    BY <1>8
  <2> HIDE DEF N
  <2>3. QED  BY <1>1, <2>1, <2>2, FoldType
<1>10. cursor \in [0..N -> Nat]
  BY <1>6, <1>9
<1>11. QED  BY <1>7, <1>8, <1>10 DEF IsCursor, Text

LEMMA BodyGrows == \A blocks \in Seq(FileBlocks) : \E f : IsBody(f, blocks)
<1> SUFFICES ASSUME NEW blocks \in Seq(FileBlocks) PROVE \E f : IsBody(f, blocks)
  OBVIOUS
<1> DEFINE N == Len(blocks)
           S == Seq(Characters)
           Is(g) == g = [n \in 0..N |-> IF n = 0 THEN <<>>
                                        ELSE IF n = 1 THEN blocks[1].text
                                        ELSE g[n - 1] \o Separator \o blocks[n].text]
           step == [x \in S \X (1..N) |-> IF x[2] = 1 THEN blocks[1].text
                                          ELSE x[1] \o Separator \o blocks[x[2]].text]
           built == CHOOSE g : Is(g)
<1>1. N \in Nat /\ Separator \in S /\ \A n \in 1..N : blocks[n].text \in S
  BY BlockType DEF Text
<1>2. step \in [S \X (1..N) -> S] /\ <<>> \in S
  BY <1>1
<1>3. PICK f \in [0..N -> S] : IsFold(f, <<>>, step, N)
  <2> HIDE DEF step, N, S
  <2>1. QED  BY <1>1, <1>2, FoldDefined
<1>4. f[0] = <<>> /\ \A n \in 1..N : f[n] = IF n = 1 THEN blocks[1].text
                                            ELSE f[n - 1] \o Separator \o blocks[n].text
  <2>1. ASSUME NEW n \in 1..N PROVE f[n] = IF n = 1 THEN blocks[1].text
                                           ELSE f[n - 1] \o Separator \o blocks[n].text
    <3>1. n - 1 \in 0..N
      BY <1>1
    <3>2. f[n - 1] \in S /\ f[n] = step[<<f[n - 1], n>>]
      BY <1>3, <3>1 DEF IsFold
    <3> HIDE DEF S
    <3>3. <<f[n - 1], n>> \in S \X (1..N)
      BY <3>2
    <3>4. QED  BY <3>2, <3>3
  <2>2. QED  BY <1>3, <2>1 DEF IsFold
<1>5. Is(f)
  <2> HIDE DEF S
  <2>1. ASSUME NEW n \in 0..N
        PROVE  f[n] = IF n = 0 THEN <<>>
                      ELSE IF n = 1 THEN blocks[1].text
                      ELSE f[n - 1] \o Separator \o blocks[n].text
    <3>1. CASE n = 0
      BY <1>4, <3>1
    <3>2. CASE n # 0
      <4>1. n \in 1..N
        BY <1>1, <3>2
      <4>2. QED  BY <1>4, <3>2, <4>1
    <3>3. QED  BY <3>1, <3>2
  <2>2. f = [n \in 0..N |-> f[n]]
    BY <1>3
  <2>3. QED  BY <2>1, <2>2
<1>6. Is(built)
  BY <1>5
<1>7. Joined(blocks) = built[N]
  BY DEF Joined
<1> HIDE DEF built
<1>8. DOMAIN built = 0..N /\ built[0] = <<>>
      /\ \A n \in 1..N : built[n] = IF n = 1 THEN blocks[n].text
                                   ELSE built[n - 1] \o Separator \o blocks[n].text
  <2> HIDE DEF S
  <2>1. 0 \in 0..N /\ \A n \in 1..N : n \in 0..N /\ n # 0
    BY <1>1
  <2>2. QED  BY <1>6, <2>1
<1>9. \A n \in 0..N : built[n] \in S
  <2>1. ASSUME NEW n \in 1..N, built[n - 1] \in S PROVE built[n] \in S
    <3>1. blocks[n].text \in S /\ built[n - 1] \o Separator \o blocks[n].text \in S
      BY <1>1, <2>1
    <3> HIDE DEF S
    <3>2. QED  BY <1>8, <3>1
  <2>2. built[0] \in S
    BY <1>8
  <2> HIDE DEF N, S
  <2>3. QED  BY <1>1, <2>1, <2>2, FoldType
<1>10. built \in [0..N -> S]
  <2> HIDE DEF S
  <2>1. QED  BY <1>6, <1>9
<1>11. QED  BY <1>7, <1>8, <1>10 DEF IsBody, Text

\* The cursor is at the end of the body and of the separator that may follow, and what
\* a block adds to the body is a separator and its text.
LEMMA BodyByBlock ==
    ASSUME NEW blocks \in Seq(FileBlocks), NEW c, IsCursor(c, blocks), NEW f, IsBody(f, blocks)
    PROVE  \A n \in 1..Len(blocks) :
              /\ f[n] \in Seq(Characters) /\ f[n - 1] \in Seq(Characters)
              /\ c[n] \in Nat /\ c[n - 1] \in Nat
              /\ Len(f[n]) = c[n - 1] + Len(Text(blocks, n)) /\ c[n] = Len(f[n]) + Len(Separator)
              /\ Len(f[n - 1]) <= c[n - 1]
              /\ \A k \in 1..Len(f[n - 1]) : f[n][k] = f[n - 1][k]
              /\ \A k \in 1..Len(Text(blocks, n)) : f[n][c[n - 1] + k] = Text(blocks, n)[k]
              /\ n > 1 => /\ c[n - 1] = Len(f[n - 1]) + Len(Separator)
                          /\ \A k \in 1..Len(Separator) : f[n][Len(f[n - 1]) + k] = Separator[k]
<1> DEFINE N == Len(blocks)
           S == Seq(Characters)
           T(n) == Text(blocks, n)
           Good(n) == c[n] = Len(f[n]) + Len(Separator)
           G == {n \in 0..N : n = 0 \/ Good(n)}
<1>1. N \in Nat /\ Separator \in S /\ Len(Separator) \in Nat
      /\ \A n \in 1..N : T(n) \in S /\ Len(T(n)) \in Nat
  BY BlockType
<1>2. /\ c[0] = 0 /\ \A n \in 0..N : c[n] \in Nat
      /\ \A n \in 1..N : c[n] = c[n - 1] + Len(T(n)) + Len(Separator)
  BY DEF IsCursor
<1>3. /\ f[0] = <<>> /\ \A n \in 0..N : f[n] \in S
      /\ \A n \in 1..N : f[n] = IF n = 1 THEN T(n) ELSE f[n - 1] \o Separator \o T(n)
  BY DEF IsBody
<1>31. \A n \in 1..N : n - 1 \in 0..N /\ n \in 0..N
  BY <1>1
<1> HIDE DEF N, T
<1>4. ASSUME NEW n \in 1..N, n # 1
      PROVE  /\ Len(f[n]) = Len(f[n - 1]) + Len(Separator) + Len(T(n))
             /\ \A k \in 1..Len(f[n - 1]) : f[n][k] = f[n - 1][k]
             /\ \A k \in 1..Len(Separator) : f[n][Len(f[n - 1]) + k] = Separator[k]
             /\ \A k \in 1..Len(T(n)) : f[n][Len(f[n - 1]) + Len(Separator) + k] = T(n)[k]
  <2> DEFINE a == f[n - 1]
             t == T(n)
  <2>1. a \in S /\ Separator \in S /\ t \in S /\ f[n] = a \o Separator \o t
    <3> HIDE DEF S
    <3>1. QED  BY <1>1, <1>3, <1>31, <1>4
  <2> HIDE DEF a, t
  <2> DEFINE h == a \o Separator
  <2>2. /\ h \in S /\ Len(h) = Len(a) + Len(Separator)
        /\ \A k \in 1..Len(a) : h[k] = a[k]
        /\ \A k \in 1..Len(Separator) : h[Len(a) + k] = Separator[k]
    BY <2>1
  <2>3. f[n] = h \o t
    BY <2>1
  <2> HIDE DEF h
  <2>4. /\ Len(f[n]) = Len(h) + Len(t)
        /\ \A k \in 1..Len(h) : f[n][k] = h[k]
        /\ \A k \in 1..Len(t) : f[n][Len(h) + k] = t[k]
    <3> DEFINE b == h \o t
    <3>1. /\ Len(b) = Len(h) + Len(t)
          /\ \A k \in 1..Len(h) : b[k] = h[k]
          /\ \A k \in 1..Len(t) : b[Len(h) + k] = t[k]
      <4>1. h \in Seq(Characters) /\ t \in Seq(Characters)
        BY <2>1, <2>2
      <4>2. QED  BY <4>1, Concatenated
    <3>2. f[n] = b
      BY <2>3
    <3> HIDE DEF b
    <3>3. QED  BY <3>1, <3>2
  <2>5. Len(a) \in Nat /\ Len(Separator) \in Nat
    BY <2>1
  <2>6. /\ \A k \in 1..Len(a) : k \in 1..Len(h)
        /\ \A k \in 1..Len(Separator) : Len(a) + k \in 1..Len(h)
    BY <2>2, <2>5
  <2>7. /\ Len(f[n]) = Len(a) + Len(Separator) + Len(t)
        /\ \A k \in 1..Len(a) : f[n][k] = a[k]
        /\ \A k \in 1..Len(Separator) : f[n][Len(a) + k] = Separator[k]
        /\ \A k \in 1..Len(t) : f[n][Len(a) + Len(Separator) + k] = t[k]
    BY <2>2, <2>4, <2>6
  <2>8. QED  BY <2>7 DEF a, t
<1>5. ASSUME NEW n \in 1..N, n = 1
      PROVE  f[n] = T(n) /\ f[n - 1] = <<>> /\ c[n - 1] = 0 /\ c[n] = Len(T(n)) + Len(Separator)
  <2>1. n - 1 = 0
    BY <1>5
  <2>2. f[n] = T(n) /\ f[n - 1] = <<>> /\ c[n - 1] = 0
    BY <1>2, <1>3, <1>5, <2>1
  <2>3. QED  BY <1>1, <1>2, <2>2
<1>6. \A n \in 0..N : \A s \in {f[n]} : Len(s) \in Nat
  <2>1. \A s \in S : Len(s) \in Nat
    OBVIOUS
  <2> HIDE DEF S
  <2>2. QED  BY <1>3, <2>1
<1> HIDE DEF S
<1>7. ASSUME NEW n \in 1..N, n - 1 \in G PROVE Good(n)
  <2>1. CASE n = 1
    BY <1>5, <2>1
  <2>2. CASE n # 1
    <3>1. n - 1 # 0 /\ c[n - 1] = Len(f[n - 1]) + Len(Separator)
      BY <1>1, <1>7, <2>2
    <3>2. Len(f[n]) = Len(f[n - 1]) + Len(Separator) + Len(T(n))
      BY <1>4, <2>2
    <3>3. c[n] = c[n - 1] + Len(T(n)) + Len(Separator)
      BY <1>2
    <3>4. Len(f[n - 1]) \in Nat /\ Len(f[n]) \in Nat /\ Len(T(n)) \in Nat /\ Len(Separator) \in Nat
      BY <1>1, <1>6, <1>31
    <3>5. QED  BY <3>1, <3>2, <3>3, <3>4
  <2>3. QED  BY <2>1, <2>2
<1>8. \A n \in 0..N : n \in G
  <2>1. 0 \in G /\ \A n \in 1..N : n - 1 \in G => n \in G
    BY <1>1, <1>7, <1>31
  <2> HIDE DEF G
  <2>2. QED  BY <1>1, <2>1, UpTo
<1>9. \A n \in 1..N : Good(n)
  BY <1>1, <1>8, <1>31
<1>10. ASSUME NEW n \in 1..N
       PROVE  /\ f[n] \in S /\ f[n - 1] \in S
              /\ c[n] \in Nat /\ c[n - 1] \in Nat
              /\ Len(f[n]) = c[n - 1] + Len(T(n)) /\ c[n] = Len(f[n]) + Len(Separator)
              /\ Len(f[n - 1]) <= c[n - 1]
              /\ \A k \in 1..Len(f[n - 1]) : f[n][k] = f[n - 1][k]
              /\ \A k \in 1..Len(T(n)) : f[n][c[n - 1] + k] = T(n)[k]
              /\ n > 1 => /\ c[n - 1] = Len(f[n - 1]) + Len(Separator)
                          /\ \A k \in 1..Len(Separator) : f[n][Len(f[n - 1]) + k] = Separator[k]
  <2>1. f[n] \in S /\ f[n - 1] \in S /\ c[n] \in Nat /\ c[n - 1] \in Nat
        /\ Len(f[n - 1]) \in Nat /\ Len(T(n)) \in Nat /\ Len(Separator) \in Nat
    BY <1>1, <1>2, <1>3, <1>6, <1>31
  <2>2. CASE n = 1
    <3>1. f[n] = T(n) /\ f[n - 1] = <<>> /\ c[n - 1] = 0 /\ c[n] = Len(T(n)) + Len(Separator)
      BY <1>5, <2>2
    <3>2. Len(f[n - 1]) = 0
      BY <3>1
    <3>3. \A k \in 1..Len(T(n)) : c[n - 1] + k = k
      BY <2>1, <3>1
    <3>4. QED  BY <2>1, <2>2, <3>1, <3>2, <3>3
  <2>3. CASE n # 1
    <3>1. n - 1 \in 1..N /\ n > 1
      BY <1>1, <2>3
    <3>2. c[n - 1] = Len(f[n - 1]) + Len(Separator) /\ c[n] = Len(f[n]) + Len(Separator)
      BY <1>9, <3>1
    <3>3. /\ Len(f[n]) = Len(f[n - 1]) + Len(Separator) + Len(T(n))
          /\ \A k \in 1..Len(f[n - 1]) : f[n][k] = f[n - 1][k]
          /\ \A k \in 1..Len(Separator) : f[n][Len(f[n - 1]) + k] = Separator[k]
          /\ \A k \in 1..Len(T(n)) : f[n][Len(f[n - 1]) + Len(Separator) + k] = T(n)[k]
      BY <1>4, <2>3
    <3>4. Len(f[n]) = c[n - 1] + Len(T(n)) /\ Len(f[n - 1]) <= c[n - 1]
      BY <2>1, <3>2, <3>3
    <3>5. \A k \in 1..Len(T(n)) : f[n][c[n - 1] + k] = T(n)[k]
      BY <3>2, <3>3
    <3>6. QED  BY <2>1, <3>2, <3>3, <3>4, <3>5
  <2>4. QED  BY <2>2, <2>3
<1>11. QED  BY <1>10 DEF N, S, T

\* Each block stands in the joined text where the cursor was, behind a separator
\* unless it is the first, and ends before the next starts.
LEMMA Layout ==
    ASSUME NEW blocks \in Seq(FileBlocks)
    PROVE  /\ Joined(blocks) \in Seq(Characters)
           /\ \A n \in 1..Len(blocks) :
                 /\ StartOf(blocks, n) \in Nat
                 /\ StartOf(blocks, n) + Len(Text(blocks, n)) <= Len(Joined(blocks))
                 /\ \A k \in 1..Len(Text(blocks, n)) :
                       Joined(blocks)[StartOf(blocks, n) + k] = Text(blocks, n)[k]
                 /\ StartOf(blocks, n) > 0 =>
                       /\ StartOf(blocks, n) >= Len(Separator)
                       /\ \A k \in 1..Len(Separator) :
                             Joined(blocks)[StartOf(blocks, n) - Len(Separator) + k] = Separator[k]
           /\ \A m, n \in 1..Len(blocks) :
                 m < n => StartOf(blocks, m) + Len(Text(blocks, m)) <= StartOf(blocks, n)
<1> DEFINE N == Len(blocks)
           S == Seq(Characters)
           T(n) == Text(blocks, n)
<1>1. N \in Nat /\ Separator \in S /\ Len(Separator) \in Nat
      /\ \A n \in 1..N : T(n) \in S /\ Len(T(n)) \in Nat
  BY BlockType
<1>2. PICK c : IsCursor(c, blocks)
  BY CursorMoves
<1>3. PICK f : IsBody(f, blocks)
  BY BodyGrows
<1>4. \A n \in 1..N :
              /\ f[n] \in S /\ f[n - 1] \in S
              /\ c[n] \in Nat /\ c[n - 1] \in Nat
              /\ Len(f[n]) = c[n - 1] + Len(T(n)) /\ c[n] = Len(f[n]) + Len(Separator)
              /\ Len(f[n - 1]) <= c[n - 1]
              /\ \A k \in 1..Len(f[n - 1]) : f[n][k] = f[n - 1][k]
              /\ \A k \in 1..Len(T(n)) : f[n][c[n - 1] + k] = T(n)[k]
              /\ n > 1 => /\ c[n - 1] = Len(f[n - 1]) + Len(Separator)
                          /\ \A k \in 1..Len(Separator) : f[n][Len(f[n - 1]) + k] = Separator[k]
  BY <1>2, <1>3, BodyByBlock
<1>5. /\ \A n \in 0..N : f[n] \in S
      /\ Joined(blocks) = f[N] /\ c[0] = 0 /\ \A n \in 1..N : StartOf(blocks, n) = c[n - 1]
  BY <1>2, <1>3 DEF IsCursor, IsBody
<1>6. \A n \in 0..N : Len(f[n]) \in Nat
  <2>1. \A s \in S : Len(s) \in Nat
    OBVIOUS
  <2> HIDE DEF S
  <2>2. QED  BY <1>5, <2>1
<1> HIDE DEF N, S, T
<1> DEFINE Grown(m, n) == /\ Len(f[m]) <= Len(f[n])
                          /\ \A k \in 1..Len(f[m]) : f[n][k] = f[m][k]
           G == {n \in 0..N : \A m \in 0..n : Grown(m, n)}
<1>7. 0 \in G
  <2>1. 0 \in 0..N /\ Len(f[0]) \in Nat /\ \A m \in 0..0 : m = 0
    BY <1>1, <1>6
  <2>2. Grown(0, 0)
    BY <2>1
  <2> HIDE DEF Grown
  <2>3. QED  BY <2>1, <2>2
<1>8. ASSUME NEW n \in 1..N, n - 1 \in G PROVE n \in G
  <2>1. n \in 0..N /\ n - 1 \in 0..N /\ Len(f[n]) \in Nat /\ Len(f[n - 1]) \in Nat
        /\ Len(T(n)) \in Nat /\ c[n - 1] \in Nat /\ n \in Nat
    BY <1>1, <1>4, <1>6
  <2>2. Len(f[n - 1]) <= Len(f[n]) /\ \A k \in 1..Len(f[n - 1]) : f[n][k] = f[n - 1][k]
    <3>1. /\ Len(f[n]) = c[n - 1] + Len(T(n)) /\ Len(f[n - 1]) <= c[n - 1]
          /\ \A k \in 1..Len(f[n - 1]) : f[n][k] = f[n - 1][k]
      BY <1>4
    <3>2. QED  BY <2>1, <3>1
  <2>3. ASSUME NEW m \in 0..n PROVE Grown(m, n)
    <3>1. CASE m = n
      BY <2>1, <3>1
    <3>2. CASE m # n
      <4>1. m \in 0..(n - 1) /\ m \in 0..N
        BY <1>1, <2>1, <3>2
      <4>2. Grown(m, n - 1) /\ Len(f[m]) \in Nat
        BY <1>6, <1>8, <4>1
      <4>3. \A k \in 1..Len(f[m]) : k \in 1..Len(f[n - 1])
        BY <2>1, <4>2
      <4>4. QED  BY <2>1, <2>2, <4>2, <4>3
    <3>3. QED  BY <3>1, <3>2
  <2> HIDE DEF Grown
  <2>4. QED  BY <2>1, <2>3
<1>9. \A n \in 0..N : \A m \in 0..n : Grown(m, n)
  <2>1. \A n \in 0..N : n \in G
    <3> HIDE DEF G
    <3>1. QED  BY <1>1, <1>7, <1>8, UpTo
  <2> HIDE DEF Grown
  <2>2. QED  BY <2>1
<1>10. ASSUME NEW n \in 1..N
       PROVE  /\ c[n - 1] \in Nat /\ c[n - 1] + Len(T(n)) <= Len(f[N])
              /\ \A k \in 1..Len(T(n)) : f[N][c[n - 1] + k] = T(n)[k]
              /\ c[n - 1] > 0 => /\ c[n - 1] >= Len(Separator)
                                 /\ \A k \in 1..Len(Separator) :
                                       f[N][c[n - 1] - Len(Separator) + k] = Separator[k]
  <2>1. n \in 0..N /\ N \in 0..N /\ n - 1 \in 0..N
    BY <1>1
  <2>2. /\ Len(f[n]) \in Nat /\ Len(f[n - 1]) \in Nat /\ Len(f[N]) \in Nat
        /\ Len(T(n)) \in Nat /\ Len(Separator) \in Nat
    BY <1>1, <1>6, <2>1
  <2>3. Len(f[n]) <= Len(f[N]) /\ \A k \in 1..Len(f[n]) : f[N][k] = f[n][k]
    BY <1>1, <1>9, <2>1
  <2>4. c[n - 1] \in Nat /\ Len(f[n]) = c[n - 1] + Len(T(n))
    BY <1>4
  <2>5. \A k \in 1..Len(T(n)) : f[N][c[n - 1] + k] = T(n)[k]
    <3>1. TAKE k \in 1..Len(T(n))
    <3>2. c[n - 1] + k \in 1..Len(f[n])
      BY <2>2, <2>4
    <3>3. f[n][c[n - 1] + k] = T(n)[k]
      BY <1>4
    <3>4. QED  BY <2>3, <3>2, <3>3
  <2>6. ASSUME c[n - 1] > 0
        PROVE  /\ c[n - 1] >= Len(Separator)
               /\ \A k \in 1..Len(Separator) : f[N][c[n - 1] - Len(Separator) + k] = Separator[k]
    <3>1. n > 1
      BY <1>5, <2>6
    <3>2. /\ c[n - 1] = Len(f[n - 1]) + Len(Separator)
          /\ \A k \in 1..Len(Separator) : f[n][Len(f[n - 1]) + k] = Separator[k]
      BY <1>4, <3>1
    <3>3. c[n - 1] >= Len(Separator) /\ c[n - 1] - Len(Separator) = Len(f[n - 1])
      BY <2>2, <3>2
    <3>4. \A k \in 1..Len(Separator) : Len(f[n - 1]) + k \in 1..Len(f[n])
      BY <2>2, <2>4, <3>2
    <3>5. QED  BY <2>3, <3>2, <3>3, <3>4
  <2>7. QED  BY <2>2, <2>3, <2>4, <2>5, <2>6
<1>11. ASSUME NEW m \in 1..N, NEW n \in 1..N, m < n
       PROVE  c[m - 1] + Len(T(m)) <= c[n - 1]
  <2>1. m \in 0..(n - 1) /\ n - 1 \in 0..N /\ m \in 0..N
    BY <1>1, <1>11
  <2>2. Len(f[m]) <= Len(f[n - 1])
    BY <1>9, <2>1
  <2>3. Len(f[m]) = c[m - 1] + Len(T(m)) /\ Len(f[n - 1]) <= c[n - 1]
    BY <1>4
  <2>4. Len(f[m]) \in Nat /\ Len(f[n - 1]) \in Nat /\ c[n - 1] \in Nat
    BY <1>4, <1>6, <2>1
  <2>5. QED  BY <2>2, <2>3, <2>4
<1>12. f[N] \in S
  BY <1>1, <1>5
<1>13. QED  BY <1>5, <1>10, <1>11, <1>12 DEF N, S, T

LEMMA KeptType ==
    ASSUME NEW blocks \in Seq(FileBlocks)
    PROVE  /\ WithText(blocks) \in Seq(FileBlocks) /\ DOMAIN WithText(blocks) = DOMAIN Laid(blocks)
           /\ \A i \in DOMAIN Laid(blocks) : /\ Laid(blocks)[i] \in DOMAIN blocks
                                             /\ WithText(blocks)[i] = blocks[Laid(blocks)[i]]
<1> DEFINE laid == Laid(blocks)
<1>1. /\ Len(laid) \in Nat /\ DOMAIN laid = 1..Len(laid)
      /\ \A i \in DOMAIN laid : laid[i] \in DOMAIN blocks
  BY PlacesInOrder DEF Laid
<1>2. DOMAIN blocks = 1..Len(blocks) /\ \A n \in 1..Len(blocks) : blocks[n] \in FileBlocks
  BY BlockType
<1>3. WithText(blocks) = [i \in DOMAIN laid |-> blocks[laid[i]]]
  BY DEF WithText
<1> HIDE DEF laid
<1>4. WithText(blocks) = [i \in 1..Len(laid) |-> blocks[laid[i]]]
      /\ \A i \in 1..Len(laid) : blocks[laid[i]] \in FileBlocks
  BY <1>1, <1>2, <1>3
<1>5. WithText(blocks) \in Seq(FileBlocks)
  <2>1. WithText(blocks) \in [1..Len(laid) -> FileBlocks]
    BY <1>4
  <2>2. QED  BY <1>1, <2>1
<1>6. QED  BY <1>1, <1>2, <1>3, <1>5 DEF laid

\* What is cut out of a text where another text stands in it is that text.
LEMMA CutOut ==
    ASSUME NEW s \in Seq(Characters), NEW t \in Seq(Characters), NEW i \in Nat,
           i + Len(t) <= Len(s), \A k \in 1..Len(t) : s[i + k] = t[k]
    PROVE  Cut(s, i, i + Len(t)) = t
<1>1. Len(t) \in Nat /\ Len(s) \in Nat /\ t = [k \in 1..Len(t) |-> t[k]]
  OBVIOUS
<1>2. i \in 0..(Len(s) - Len(t))
  BY <1>1
<1>3. SubSeq(s, i + 1, i + Len(t)) = [k \in 1..Len(t) |-> s[i + k]]
  BY <1>1, <1>2, Window
<1>4. [k \in 1..Len(t) |-> s[i + k]] = [k \in 1..Len(t) |-> t[k]]
  OBVIOUS
<1>5. QED  BY <1>1, <1>3, <1>4 DEF Cut

\* A page's span is its text.
LEMMA PagesRight ==
    ASSUME NEW blocks \in Seq(FileBlocks), NEW i \in DOMAIN Paged(blocks).spans
    PROVE  LET span == Paged(blocks).spans[i]
           IN  Cut(Paged(blocks).text, span.start, span.end) = blocks[span.page].text
<1> DEFINE shown == WithText(blocks)
           laid == Laid(blocks)
           t == Text(shown, i)
           span == Paged(blocks).spans[i]
<1>1. /\ shown \in Seq(FileBlocks) /\ DOMAIN shown = DOMAIN laid
      /\ \A j \in DOMAIN laid : laid[j] \in DOMAIN blocks /\ shown[j] = blocks[laid[j]]
  BY KeptType
<1>2. /\ Paged(blocks).text = Joined(shown) /\ i \in DOMAIN shown
      /\ span.page = laid[i] /\ span.start = StartOf(shown, i) /\ span.end = StartOf(shown, i) + Len(shown[i].text)
  BY DEF Paged, Span
<1> HIDE DEF shown, span, laid
<1>3. i \in 1..Len(shown)
  BY <1>1, <1>2
<1>4. t \in Seq(Characters) /\ t = shown[i].text
  BY <1>1, <1>3, BlockType DEF Text
<1>5. /\ Joined(shown) \in Seq(Characters) /\ StartOf(shown, i) \in Nat
      /\ StartOf(shown, i) + Len(t) <= Len(Joined(shown))
      /\ \A k \in 1..Len(t) : Joined(shown)[StartOf(shown, i) + k] = t[k]
  BY <1>1, <1>3, Layout
<1> HIDE DEF t
<1>6. Cut(Joined(shown), StartOf(shown, i), StartOf(shown, i) + Len(t)) = t
  BY <1>4, <1>5, CutOut
<1>7. Cut(Paged(blocks).text, span.start, span.end) = t
  BY <1>2, <1>4, <1>6
<1>8. blocks[span.page].text = t
  BY <1>1, <1>2, <1>4
<1>9. QED  BY <1>7, <1>8 DEF span

\* A heading's span begins with the heading, behind a separator unless it is the first
\* block, and ends where the next begins or with the text.
LEMMA HeadingsRight ==
    ASSUME NEW blocks \in Seq(FileBlocks), NEW i \in DOMAIN Assemble(blocks).spans
    PROVE  LET d == Assemble(blocks)
               span == d.spans[i]
               covered == Cut(d.text, span.start, span.end)
           IN  /\ SubSeq(covered, 1, Len(span.label)) = span.label
               /\ i < Len(d.spans) => span.end = d.spans[i + 1].start
               /\ i = Len(d.spans) => span.end = Len(d.text)
               /\ span.start > 0 => Cut(d.text, span.start - Len(Separator), span.start) = Separator
<1> DEFINE d == Assemble(blocks)
           span == d.spans[i]
           covered == Cut(d.text, span.start, span.end)
           headings == PlacesIn(blocks, {n \in DOMAIN blocks : blocks[n].heading})
           start(n) == StartOf(blocks, n)
           sizeOf(n) == Len(Text(blocks, n))
           joined == Joined(blocks)
           label == Text(blocks, headings[i])
<1>1. /\ Len(headings) \in Nat /\ DOMAIN headings = 1..Len(headings)
      /\ \A j \in DOMAIN headings : headings[j] \in 1..Len(blocks)
      /\ \A j, k \in DOMAIN headings : j < k => headings[j] < headings[k]
  <2>1. DOMAIN blocks = 1..Len(blocks)
    BY BlockType
  <2> DEFINE P == {n \in DOMAIN blocks : blocks[n].heading}
  <2> HIDE DEF P
  <2> DEFINE places == PlacesIn(blocks, P)
  <2>2. /\ places \in Seq(Int) /\ Len(places) \in Nat /\ DOMAIN places = 1..Len(places)
        /\ \A j \in DOMAIN places : places[j] \in DOMAIN blocks \cap P
        /\ \A p \in DOMAIN blocks \cap P : \E j \in DOMAIN places : places[j] = p
        /\ \A j, k \in DOMAIN places : j < k => places[j] < places[k]
    BY PlacesInOrder
  <2>3. headings = places
    BY DEF P
  <2> HIDE DEF places
  <2> HIDE DEF headings
  <2>4. QED  BY <2>1, <2>2, <2>3
<1>2. /\ d.text = joined
      /\ d.spans = [j \in DOMAIN headings |->
            Span(j, start(headings[j]),
                 IF j = Len(headings) THEN Len(joined) ELSE start(headings[j + 1]),
                 Text(blocks, headings[j]))]
  BY DEF Assemble, Text
<1>3. /\ joined \in Seq(Characters)
      /\ \A n \in 1..Len(blocks) :
            /\ start(n) \in Nat /\ start(n) + sizeOf(n) <= Len(joined)
            /\ \A k \in 1..sizeOf(n) : joined[start(n) + k] = Text(blocks, n)[k]
            /\ start(n) > 0 => /\ start(n) >= Len(Separator)
                               /\ \A k \in 1..Len(Separator) : joined[start(n) - Len(Separator) + k] = Separator[k]
      /\ \A m, n \in 1..Len(blocks) : m < n => start(m) + sizeOf(m) <= start(n)
  BY Layout
<1>4. /\ Separator \in Seq(Characters) /\ Len(Separator) \in Nat
      /\ \A n \in 1..Len(blocks) : Text(blocks, n) \in Seq(Characters) /\ sizeOf(n) \in Nat
  BY BlockType
<1>5. Len(joined) \in Nat
  BY <1>3
<1> HIDE DEF d, headings, start, joined
<1>6. DOMAIN d.spans = 1..Len(headings) /\ Len(d.spans) = Len(headings)
  BY <1>1, <1>2
<1>7. \A j \in 1..Len(headings) :
          /\ d.spans[j].start = start(headings[j])
          /\ d.spans[j].end = IF j = Len(headings) THEN Len(joined) ELSE start(headings[j + 1])
          /\ d.spans[j].label = Text(blocks, headings[j])
  <2>1. TAKE j \in 1..Len(headings)
  <2> DEFINE e == IF j = Len(headings) THEN Len(joined) ELSE start(headings[j + 1])
             t == Text(blocks, headings[j])
  <2>2. d.spans[j] = Span(j, start(headings[j]), e, t)
    BY <1>1, <1>2
  <2> HIDE DEF e, t
  <2>3. d.spans[j].start = start(headings[j]) /\ d.spans[j].end = e /\ d.spans[j].label = t
    BY <2>2 DEF Span
  <2>4. QED  BY <2>3 DEF e, t
<1>8. i \in 1..Len(headings)
  BY <1>6 DEF d
<1> DEFINE n == headings[i]
<1>9. n \in 1..Len(blocks)
  BY <1>1, <1>8
<1>10. span.start = start(n) /\ span.label = label
       /\ span.end = IF i = Len(headings) THEN Len(joined) ELSE start(headings[i + 1])
  BY <1>7, <1>8
<1>11. start(n) \in Nat /\ sizeOf(n) \in Nat /\ label \in Seq(Characters) /\ Len(label) = sizeOf(n)
       /\ \A k \in 1..sizeOf(n) : joined[start(n) + k] = label[k]
  BY <1>3, <1>4, <1>9
<1>12. span.end \in Nat /\ start(n) + sizeOf(n) <= span.end /\ span.end <= Len(joined)
  <2>1. CASE i = Len(headings)
    BY <1>3, <1>5, <1>9, <1>10, <2>1
  <2>2. CASE i # Len(headings)
    <3>1. i + 1 \in 1..Len(headings) /\ i < i + 1
      BY <1>1, <1>8, <2>2
    <3> DEFINE m == headings[i + 1]
    <3>2. m \in 1..Len(blocks) /\ n < m
      BY <1>1, <1>8, <3>1
    <3>3. start(m) \in Nat /\ sizeOf(m) \in Nat /\ start(m) + sizeOf(m) <= Len(joined)
          /\ start(n) + sizeOf(n) <= start(m)
      BY <1>3, <1>4, <1>9, <3>2
    <3>4. span.end = start(m)
      BY <1>10, <2>2
    <3> HIDE DEF m, n, sizeOf, span
    <3>5. QED  BY <1>5, <3>3, <3>4
  <2>3. QED  BY <2>1, <2>2
<1> HIDE DEF n, sizeOf, span, label
<1>13. SubSeq(covered, 1, Len(label)) = label
  <2> DEFINE m == span.end - start(n)
  <2>1. m \in Nat /\ start(n) \in 0..(Len(joined) - m) /\ start(n) + m = span.end /\ sizeOf(n) <= m
    BY <1>5, <1>11, <1>12
  <2> HIDE DEF m
  <2>2. SubSeq(joined, start(n) + 1, start(n) + m) = [k \in 1..m |-> joined[start(n) + k]]
        /\ Len(SubSeq(joined, start(n) + 1, start(n) + m)) = m
    BY <1>3, <2>1, Window
  <2>3. covered = SubSeq(joined, start(n) + 1, start(n) + m)
    BY <1>2, <1>10, <2>1 DEF Cut
  <2>4. covered = [k \in 1..m |-> joined[start(n) + k]] /\ Len(covered) = m
    BY <2>2, <2>3
  <2>5. covered \in Seq(Characters)
    <3>1. \A k \in 1..m : start(n) + k \in 1..Len(joined)
      BY <1>5, <1>11, <1>12, <2>1
    <3>2. \A k \in 1..m : joined[start(n) + k] \in Characters
      BY <1>3, <3>1
    <3> HIDE DEF covered
    <3>3. covered \in [1..m -> Characters]
      BY <2>4, <3>2
    <3>4. QED  BY <2>1, <3>3
  <2> HIDE DEF covered
  <2>6. 0 + Len(label) <= Len(covered) /\ \A k \in 1..Len(label) : covered[0 + k] = label[k]
    <3>1. \A k \in 1..Len(label) : k \in 1..m /\ 0 + k = k
      BY <1>11, <2>1
    <3>2. QED  BY <1>11, <2>1, <2>4, <3>1
  <2>7. Cut(covered, 0, 0 + Len(label)) = label
    <3>1. 0 \in Nat
      OBVIOUS
    <3>2. QED  BY <1>11, <2>5, <2>6, <3>1, CutOut
  <2>8. 0 + 1 = 1 /\ 0 + Len(label) = Len(label)
    BY <1>11
  <2>9. QED  BY <2>7, <2>8 DEF Cut
<1>14. i < Len(d.spans) => span.end = d.spans[i + 1].start
  <2>1. ASSUME i < Len(headings) PROVE span.end = d.spans[i + 1].start
    <3>1. i + 1 \in 1..Len(headings) /\ i # Len(headings)
      BY <1>1, <1>8, <2>1
    <3>2. QED  BY <1>7, <1>10, <3>1
  <2>2. QED  BY <1>6, <2>1
<1>15. i = Len(d.spans) => span.end = Len(d.text)
  BY <1>2, <1>6, <1>10
<1>16. span.start > 0 => Cut(d.text, span.start - Len(Separator), span.start) = Separator
  <2> SUFFICES ASSUME start(n) > 0
               PROVE  Cut(joined, start(n) - Len(Separator), start(n)) = Separator
    BY <1>2, <1>10
  <2> DEFINE m == start(n) - Len(Separator)
  <2>1. /\ start(n) >= Len(Separator)
        /\ \A k \in 1..Len(Separator) : joined[start(n) - Len(Separator) + k] = Separator[k]
    BY <1>3, <1>9
  <2>2. m \in Nat /\ m + Len(Separator) = start(n) /\ m + Len(Separator) <= Len(joined)
    BY <1>4, <1>5, <1>11, <1>12, <2>1
  <2>3. \A k \in 1..Len(Separator) : joined[m + k] = Separator[k]
    BY <2>1
  <2> HIDE DEF m
  <2>4. Cut(joined, m, m + Len(Separator)) = Separator
    BY <1>3, <1>4, <2>2, <2>3, CutOut
  <2>5. QED  BY <2>2, <2>4 DEF m
<1>17. SubSeq(covered, 1, Len(span.label)) = span.label
  BY <1>10, <1>13
<1>18. QED  BY <1>14, <1>15, <1>16, <1>17 DEF d, span

LoadInv ==
    /\ file \in Files /\ format \in Formats /\ loaded \in BOOLEAN
    /\ loaded => document = IF format = "pdf" THEN Paged(file) ELSE Assemble(WithText(file))

LEMMA LoadInitially == \A blocks \in Files, kind \in Formats : LoadStart(blocks, kind) => LoadInv
BY DEF LoadStart, LoadInv

LEMMA LoadKept == LoadInv /\ [Load]_loadVars => LoadInv'
<1>1. LoadInv /\ Load => LoadInv'
  BY DEF LoadInv, Load
<1>2. LoadInv /\ UNCHANGED loadVars => LoadInv'
  BY DEF LoadInv, loadVars
<1>3. QED  BY <1>1, <1>2

LEMMA LayoutExact == LoadInv => SpansExact
<1> SUFFICES ASSUME LoadInv, loaded, NEW i \in DOMAIN document.spans
             PROVE  LET span == document.spans[i]
                        covered == Cut(document.text, span.start, span.end)
                    IN  /\ format = "pdf" => covered = file[span.page].text
                        /\ format = "docx" =>
                              /\ SubSeq(covered, 1, Len(span.label)) = span.label
                              /\ i < Len(document.spans) => span.end = document.spans[i + 1].start
                              /\ i = Len(document.spans) => span.end = Len(document.text)
                              /\ span.start > 0 =>
                                    Cut(document.text, span.start - Len(Separator), span.start) = Separator
  BY DEF SpansExact
<1>1. file \in Seq(FileBlocks)
  BY LoadingAssumption DEF LoadInv
<1>2. WithText(file) \in Seq(FileBlocks)
  BY <1>1, KeptType
<1>3. CASE format = "pdf"
  <2>1. document = Paged(file)
    BY <1>3 DEF LoadInv
  <2>2. Cut(document.text, document.spans[i].start, document.spans[i].end) = file[document.spans[i].page].text
    BY <1>1, <2>1, PagesRight
  <2>3. QED  BY <1>3, <2>2
<1>4. CASE format # "pdf"
  <2>1. document = Assemble(WithText(file))
    BY <1>4 DEF LoadInv
  <2> DEFINE blocks == WithText(file)
  <2>2. i \in DOMAIN Assemble(blocks).spans
    BY <2>1
  <2> HIDE DEF blocks
  <2>3. LET d == Assemble(blocks)
            span == d.spans[i]
            covered == Cut(d.text, span.start, span.end)
        IN  /\ SubSeq(covered, 1, Len(span.label)) = span.label
            /\ i < Len(d.spans) => span.end = d.spans[i + 1].start
            /\ i = Len(d.spans) => span.end = Len(d.text)
            /\ span.start > 0 => Cut(d.text, span.start - Len(Separator), span.start) = Separator
    <3>1. blocks \in Seq(FileBlocks)
      BY <1>2 DEF blocks
    <3>2. QED  BY <2>2, <3>1, HeadingsRight
  <2>4. document = Assemble(blocks)
    BY <2>1 DEF blocks
  <2>5. QED  BY <1>4, <2>3, <2>4
<1>5. QED  BY <1>3, <1>4

----------------------------------------------------------------------------
\* Chunking.

Titles == {Title[kind] : kind \in Kinds}
Ranges(t) == {r \in [first : 1..Len(t), last : 1..Len(t), section : Seq(Titles)] : r.first <= r.last}
Covered(r) == r.first..r.last
Apart(list) == \A m, n \in DOMAIN list : m < n => list[m].last < list[n].first

\* Tokens are as many as pieces where each consumes characters.
LEMMA TokensCounted ==
    ASSUME NEW t \in Seq(Kinds), NEW first \in 1..Len(t), NEW last \in first..Len(t)
    PROVE  /\ CountTokens(t, first, last) \in Int
           /\ (\A p \in first..last : t[p] \in Sliceable) => CountTokens(t, first, last) = last - first + 1
<1> DEFINE N == last - first + 1
           s == [n \in 1..N |-> Tokens[t[first + n - 1]]]
<1>1. N \in Nat /\ \A n \in 1..N : first + n - 1 \in first..last /\ first + n - 1 \in 1..Len(t)
  OBVIOUS
<1>2. \A p \in 1..Len(t) : t[p] \in Kinds
  OBVIOUS
<1>3. \A kind \in Kinds : Tokens[kind] \in Int
  BY ChunkingAssumption
<1>4. CountTokens(t, first, last) = Total(s)
  BY DEF CountTokens
<1> HIDE DEF N
<1>5. s \in Seq(Int) /\ Len(s) = N
  <2>1. \A n \in 1..N : Tokens[t[first + n - 1]] \in Int
    BY <1>1, <1>2, <1>3
  <2>2. QED  BY <1>1, <2>1
<1>6. \A n \in 1..N : s[n] = Tokens[t[first + n - 1]]
  OBVIOUS
<1> HIDE DEF s
<1>7. PICK f \in [0..N -> Int] : f[0] = 0 /\ (\A n \in 1..N : f[n] = f[n - 1] + s[n]) /\ Total(s) = f[N]
  BY <1>5, TotalDefined
<1>8. Total(s) \in Int
  BY <1>1, <1>7
<1>9. ASSUME \A p \in first..last : t[p] \in Sliceable PROVE Total(s) = N
  <2> DEFINE T == {n \in 0..N : f[n] = n}
  <2>1. \A n \in 1..N : s[n] = 1
    <3>1. \A n \in 1..N : t[first + n - 1] \in Sliceable
      BY <1>1, <1>9
    <3>2. \A kind \in Sliceable : Tokens[kind] = 1
      BY ChunkingAssumption
    <3>3. QED  BY <1>6, <3>1, <3>2
  <2>2. 0 \in T /\ \A n \in 1..N : n - 1 \in T => n \in T
    <3>1. N \in Nat
      BY <1>1
    <3>2. 0 \in T
      BY <1>7, <3>1
    <3>3. ASSUME NEW n \in 1..N, n - 1 \in T PROVE n \in T
      <4>1. f[n] = f[n - 1] + s[n] /\ s[n] = 1
        BY <1>7, <2>1
      <4>2. f[n - 1] = n - 1 /\ n \in 0..N
        BY <3>1, <3>3
      <4>3. f[n] = n
        BY <3>1, <4>1, <4>2
      <4>4. QED  BY <4>2, <4>3
    <3>4. QED  BY <3>2, <3>3
  <2>3. N \in 0..N
    BY <1>1
  <2>4. N \in T
    <3>1. N \in Nat
      BY <1>1
    <3> HIDE DEF T
    <3>2. \A n \in 0..N : n \in T
      BY <2>2, <3>1, UpTo
    <3>3. QED  BY <2>3, <3>2
  <2>5. f[N] = N
    BY <2>4
  <2>6. QED  BY <1>7, <2>5
<1>10. QED  BY <1>4, <1>8, <1>9 DEF N

\* The spans that a range is cut at: all its pieces whose tokens consume characters, in
\* order, or all its pieces when none does.
LEMMA SpansOf ==
    ASSUME NEW t \in Seq(Kinds), NEW first \in 1..Len(t), NEW last \in first..Len(t)
    PROVE  LET spans == TokenSpans(t, first, last)
               usable == {p \in first..last : t[p] \in Sliceable}
           IN  /\ Len(spans) \in Nat \ {0} /\ DOMAIN spans = 1..Len(spans)
               /\ \A i \in 1..Len(spans) : spans[i] \in first..last
               /\ \A i, j \in 1..Len(spans) : i < j => spans[i] < spans[j]
               /\ \/ usable = {} /\ \A p \in first..last : \E i \in 1..Len(spans) : spans[i] = p
                  \/ /\ \A i \in 1..Len(spans) : spans[i] \in usable
                     /\ \A p \in usable : \E i \in 1..Len(spans) : spans[i] = p
<1> DEFINE usable == {p \in first..last : t[p] \in Sliceable}
           P == IF usable = {} THEN first..last ELSE usable
           spans == PlacesIn(t, P)
<1>1. /\ spans \in Seq(Int) /\ Len(spans) \in Nat /\ DOMAIN spans = 1..Len(spans)
      /\ \A i \in DOMAIN spans : spans[i] \in DOMAIN t \cap P
      /\ \A p \in DOMAIN t \cap P : \E i \in DOMAIN spans : spans[i] = p
      /\ \A i, j \in DOMAIN spans : i < j => spans[i] < spans[j]
  <2> HIDE DEF P
  <2>1. QED  BY PlacesInOrder
<1>2. TokenSpans(t, first, last) = spans
  BY DEF TokenSpans
<1>3. P # {} /\ P \subseteq first..last /\ first..last \subseteq DOMAIN t
  OBVIOUS
<1>4. (usable = {} /\ P = first..last) \/ P = usable
  OBVIOUS
<1> HIDE DEF spans, P, usable
<1>5. DOMAIN t \cap P = P
  BY <1>3
<1>6. Len(spans) # 0
  <2>1. \E i \in DOMAIN spans : TRUE
    BY <1>1, <1>3, <1>5
  <2>2. QED  BY <1>1, <2>1
<1>7. /\ Len(spans) \in Nat \ {0} /\ DOMAIN spans = 1..Len(spans)
      /\ \A i \in 1..Len(spans) : spans[i] \in first..last
      /\ \A i, j \in 1..Len(spans) : i < j => spans[i] < spans[j]
  BY <1>1, <1>3, <1>6
<1>8. \/ usable = {} /\ \A p \in first..last : \E i \in 1..Len(spans) : spans[i] = p
      \/ /\ \A i \in 1..Len(spans) : spans[i] \in usable
         /\ \A p \in usable : \E i \in 1..Len(spans) : spans[i] = p
  BY <1>1, <1>4, <1>5
<1>9. QED  BY <1>2, <1>7, <1>8 DEF usable

\* Windows have no more tokens than their width, start one after the other and leave no
\* token out; they do not overlap when the stride is the width.
LEMMA WindowsOver ==
    ASSUME NEW count \in Nat \ {0}, NEW width \in Nat \ {0}, NEW stride \in 1..width
    PROVE  LET w == TokenWindows(count, width, stride)
           IN  \E m \in 1..count :
                  /\ DOMAIN w = 1..m /\ Len(w) = m
                  /\ \A n \in 1..m : /\ w[n][1] \in 1..count /\ w[n][2] \in w[n][1]..count
                                     /\ w[n][2] - w[n][1] < width
                  /\ \A i, j \in 1..m : i < j => /\ w[i][1] < w[j][1]
                                                 /\ stride = width => w[i][2] < w[j][1]
                  /\ \A c \in 1..count : \E n \in 1..m : c \in w[n][1]..w[n][2]
<1> DEFINE at == [n \in 1..count |-> (n - 1) * stride]
           reaches == {n \in 1..count : (n - 1) * stride + width >= count}
           final == CHOOSE n \in reaches : \A m \in reaches : n <= m
           w == TokenWindows(count, width, stride)
<1>1. /\ count \in Nat /\ count >= 1 /\ width \in Nat /\ width >= 1
      /\ stride \in Nat /\ stride >= 1 /\ stride <= width
  OBVIOUS
<1>2. w = [n \in 1..final |-> <<(n - 1) * stride + 1, Min({(n - 1) * stride + width, count})>>]
  BY <1>1 DEF TokenWindows
<1>3. /\ at[1] = 0 /\ \A n \in 1..count : (n - 1) * stride \in Int /\ at[n] = (n - 1) * stride
      /\ \A n \in 2..count : at[n] = at[n - 1] + stride
  <2>1. at[1] = 0
    BY <1>1
  <2>2. \A n \in 1..count : (n - 1) * stride \in Int /\ at[n] = (n - 1) * stride
    BY <1>1
  <2>3. ASSUME NEW n \in 2..count PROVE at[n] = at[n - 1] + stride
    <3>1. at[n] = (n - 1) * stride /\ at[n - 1] = ((n - 1) - 1) * stride
      BY <1>1
    <3>2. \A k \in Int : k * stride = (k - 1) * stride + stride
      BY <1>1
    <3>3. n - 1 \in Int
      OBVIOUS
    <3>4. QED  BY <3>1, <3>2, <3>3
  <2>4. QED  BY <2>1, <2>2, <2>3
<1>4. reaches = {n \in 1..count : at[n] + width >= count}
  BY <1>3
<1> HIDE DEF at
<1>5. \A n \in 1..count : at[n] \in Nat /\ at[n] >= n - 1
  <2> DEFINE T == {n \in 0..count : n = 0 \/ (at[n] \in Nat /\ at[n] >= n - 1)}
  <2>1. 0 \in T
    BY <1>1
  <2>2. ASSUME NEW n \in 1..count, n - 1 \in T PROVE n \in T
    <3>1. CASE n = 1
      BY <1>1, <1>3, <3>1
    <3>2. CASE n # 1
      <4>1. n \in 2..count /\ n - 1 # 0
        BY <3>2
      <4>2. at[n] = at[n - 1] + stride /\ at[n - 1] \in Nat /\ at[n - 1] >= (n - 1) - 1
        BY <1>3, <2>2, <4>1
      <4>3. QED  BY <1>1, <4>2
    <3>3. QED  BY <3>1, <3>2
  <2> HIDE DEF T
  <2>3. \A n \in 0..count : n \in T
    BY <1>1, <2>1, <2>2, UpTo
  <2>4. QED  BY <1>1, <2>3 DEF T
<1>6. ASSUME NEW i \in 1..count PROVE \A j \in 1..count : i < j => at[i] + stride <= at[j]
  <2> DEFINE T == {j \in 0..count : i < j => at[i] + stride <= at[j]}
  <2>1. 0 \in T
    BY <1>1
  <2>2. ASSUME NEW j \in 1..count, j - 1 \in T, i < j PROVE at[i] + stride <= at[j]
    <3>1. j \in 2..count /\ j - 1 \in 1..count
      BY <1>1, <2>2
    <3>2. at[j] = at[j - 1] + stride /\ at[j - 1] \in Nat /\ at[i] \in Nat
      BY <1>3, <1>5, <3>1
    <3>3. CASE i = j - 1
      BY <3>2, <3>3
    <3>4. CASE i # j - 1
      <4>1. at[i] + stride <= at[j - 1]
        BY <2>2, <3>4
      <4>2. QED  BY <1>1, <3>2, <4>1
    <3>5. QED  BY <3>3, <3>4
  <2>3. \A j \in 1..count : j - 1 \in T => j \in T
    BY <2>2
  <2> HIDE DEF T
  <2>4. \A j \in 0..count : j \in T
    BY <1>1, <2>1, <2>3, UpTo
  <2>5. QED  BY <1>1, <2>4 DEF T
<1>7. final \in reaches /\ \A m \in reaches : final <= m
  <2>1. count \in reaches
    BY <1>1, <1>4, <1>5
  <2>2. reaches \in SUBSET Nat
    OBVIOUS
  <2> HIDE DEF reaches
  <2>3. \E n \in reaches : \A m \in reaches : n <= m
    BY <2>1, <2>2, LeastNatural
  <2>4. QED  BY <2>3
<1> HIDE DEF final
<1>8. /\ final \in 1..count /\ at[final] + width >= count
      /\ \A n \in 1..count : n < final => at[n] + width < count
  <2>1. final \in 1..count /\ at[final] + width >= count
    BY <1>4, <1>7
  <2>2. ASSUME NEW n \in 1..count, n < final PROVE at[n] + width < count
    <3>1. ~(final <= n)
      BY <1>1, <2>1, <2>2
    <3>2. n \notin reaches
      BY <1>7, <3>1
    <3>3. at[n] + width \in Int
      BY <1>1, <1>5
    <3>4. QED  BY <1>1, <1>4, <3>2, <3>3
  <2>3. QED  BY <2>1, <2>2
<1>9. \A n \in 1..final : /\ n \in 1..count /\ w[n][1] = at[n] + 1
                          /\ w[n][2] = IF n = final THEN count ELSE at[n] + width
  <2>1. TAKE n \in 1..final
  <2>2. n \in 1..count
    BY <1>1, <1>8
  <2>3. w[n] = <<at[n] + 1, Min({at[n] + width, count})>>
    BY <1>2, <1>3, <2>2
  <2>4. at[n] + width \in Int /\ count \in Int
    BY <1>1, <1>5, <2>2
  <2>5. Min({at[n] + width, count}) = IF at[n] + width <= count THEN at[n] + width ELSE count
    BY <2>4, OfPair
  <2>6. Min({at[n] + width, count}) = IF n = final THEN count ELSE at[n] + width
    BY <1>1, <1>8, <2>2, <2>4, <2>5
  <2> HIDE DEF w
  <2>7. QED  BY <2>2, <2>3, <2>6
<1>10. DOMAIN w = 1..final /\ Len(w) = final
  BY <1>1, <1>2, <1>8
<1> HIDE DEF w, reaches
<1>11. ASSUME NEW n \in 1..final
       PROVE  /\ w[n][1] \in 1..count /\ w[n][2] \in w[n][1]..count
              /\ w[n][2] - w[n][1] < width
  <2>1. n \in 1..count /\ at[n] \in Nat
    BY <1>5, <1>9
  <2>2. at[n] < count
    <3>1. CASE n = 1
      BY <1>1, <1>3, <3>1
    <3>2. CASE n # 1
      <4>1. n \in 2..count /\ n - 1 \in 1..count /\ n - 1 < final
        BY <1>1, <1>8, <2>1, <3>2
      <4>2. at[n] = at[n - 1] + stride /\ at[n - 1] + width < count /\ at[n - 1] \in Nat
        BY <1>3, <1>5, <1>8, <4>1
      <4>3. QED  BY <1>1, <4>2
    <3>3. QED  BY <3>1, <3>2
  <2>3. CASE n = final
    <3>1. w[n][1] = at[n] + 1 /\ w[n][2] = count /\ at[n] + width >= count
      BY <1>8, <1>9, <2>3
    <3>2. QED  BY <1>1, <2>1, <2>2, <3>1
  <2>4. CASE n # final
    <3>1. w[n][1] = at[n] + 1 /\ w[n][2] = at[n] + width /\ at[n] + width < count
      BY <1>1, <1>8, <1>9, <2>1, <2>4
    <3>2. QED  BY <1>1, <2>1, <3>1
  <2>5. QED  BY <2>3, <2>4
<1>12. ASSUME NEW i \in 1..final, NEW j \in 1..final, i < j
       PROVE  w[i][1] < w[j][1] /\ (stride = width => w[i][2] < w[j][1])
  <2>1. i \in 1..count /\ j \in 1..count /\ i # final /\ at[i] \in Nat /\ at[j] \in Nat
    BY <1>1, <1>5, <1>8, <1>9, <1>12
  <2>2. w[i][1] = at[i] + 1 /\ w[j][1] = at[j] + 1 /\ w[i][2] = at[i] + width
    BY <1>9, <2>1
  <2>3. at[i] + stride <= at[j]
    BY <1>6, <1>12, <2>1
  <2>4. QED  BY <1>1, <2>1, <2>2, <2>3
<1>13. ASSUME NEW c \in 1..count PROVE \E n \in 1..final : c \in w[n][1]..w[n][2]
  <2> DEFINE T == {n \in 1..final : at[n] < c}
  <2>1. 1 \in T
    BY <1>1, <1>3, <1>8
  <2>2. T \in SUBSET (0..count)
    BY <1>1, <1>8
  <2>3. PICK n \in T : \A k \in T : n >= k
    <3> HIDE DEF T
    <3>1. QED  BY <1>1, <2>1, <2>2, GreatestNatural
  <2>4. n \in 1..final /\ n \in 1..count /\ at[n] \in Nat /\ w[n][1] <= c
    <3>1. n \in 1..final /\ at[n] < c
      BY <2>3
    <3>2. n \in 1..count /\ at[n] \in Nat /\ w[n][1] = at[n] + 1
      BY <1>5, <1>9, <3>1
    <3>3. QED  BY <3>1, <3>2
  <2>5. CASE n = final
    <3>1. w[n][1] \in Nat /\ w[n][2] = count
      BY <1>9, <1>11, <2>4, <2>5
    <3>2. QED  BY <1>1, <2>4, <3>1
  <2>6. CASE n # final
    <3>1. n + 1 \in 1..final /\ n + 1 \in 2..count /\ n + 1 \in 1..count /\ (n + 1) - 1 = n
      BY <1>1, <1>8, <2>4, <2>6
    <3>2. n + 1 \notin T
      BY <2>3, <2>4, <3>1
    <3>3. at[n + 1] \in Nat /\ at[n + 1] >= c
      BY <1>5, <3>1, <3>2
    <3>4. at[n + 1] = at[n] + stride
      BY <1>3, <3>1
    <3>5. w[n][2] = at[n] + width /\ w[n][1] \in Nat
      BY <1>9, <1>11, <2>4, <2>6
    <3>6. QED  BY <1>1, <2>4, <3>3, <3>4, <3>5
  <2>7. QED  BY <2>5, <2>6
<1>14. QED  BY <1>8, <1>10, <1>11, <1>12, <1>13 DEF w
\* No more tokens than the cap allows, but for tokens that consume no characters.
Capped(t, r, max) ==
    \/ CountTokens(t, r.first, r.last) <= max
    \/ /\ Cardinality({p \in Covered(r) : t[p] \in Sliceable}) <= max
       /\ \E p \in Covered(r) : t[p] \notin Sliceable

\* As many spans as the cap allows make a range under the cap.
LEMMA WindowCapped ==
    ASSUME NEW t \in Seq(Kinds), NEW r \in Ranges(t), NEW max \in Nat \ {0}, NEW s, NEW N \in Nat,
           NEW a \in 1..N, NEW b \in a..N, b - a < max, s[a] = r.first, s[b] = r.last,
           \A i \in 1..N : s[i] \in 1..Len(t),
           \A i, j \in 1..N : i < j => s[i] < s[j],
           \/ \A p \in Covered(r) : t[p] \notin Sliceable
           \/ \A p \in Covered(r) : t[p] \in Sliceable => \E i \in 1..N : s[i] = p
    PROVE  Capped(t, r, max)
<1> DEFINE U == {p \in Covered(r) : t[p] \in Sliceable}
<1>1. r.first \in 1..Len(t) /\ r.last \in r.first..Len(t) /\ max \in Nat /\ max > 0
  BY DEF Ranges
<1>2. CASE \A p \in Covered(r) : t[p] \notin Sliceable
  <2>1. U = {} /\ r.first \in Covered(r)
    BY <1>1, <1>2 DEF Covered
  <2>2. Cardinality(U) = 0
    BY <2>1, FS_EmptySet
  <2>3. QED  BY <1>1, <1>2, <2>1, <2>2 DEF Capped
<1>3. CASE \A p \in Covered(r) : t[p] \in Sliceable => \E i \in 1..N : s[i] = p
  <2> DEFINE f == [i \in {j \in a..b : s[j] \in U} |-> s[i]]
             D == {j \in a..b : s[j] \in U}
  <2>1. ASSUME NEW p \in U PROVE \E i \in D : s[i] = p
    <3>1. PICK i \in 1..N : s[i] = p
      BY <1>3
    <3>2. s[a] <= s[i] /\ s[i] <= s[b] /\ s[i] \in Int /\ s[a] \in Int /\ s[b] \in Int
      BY <1>1, <3>1 DEF Covered
    <3>3. i >= a
      <4>1. i < a => s[i] < s[a]
        OBVIOUS
      <4>2. QED  BY <3>2, <4>1
    <3>4. i <= b
      <4>1. b < i => s[b] < s[i]
        OBVIOUS
      <4>2. QED  BY <3>2, <4>1
    <3>5. i \in a..b
      BY <3>3, <3>4
    <3>6. QED  BY <3>1, <3>5
  <2>2. IsFiniteSet(a..b) /\ Cardinality(a..b) = b - a + 1
    <3>1. a \in Int /\ b \in Int /\ ~(a > b)
      OBVIOUS
    <3>2. QED  BY <3>1, FS_Interval
  <2>3. IsFiniteSet(D) /\ Cardinality(D) <= Cardinality(a..b)
    <3>1. D \in SUBSET (a..b)
      OBVIOUS
    <3> HIDE DEF D
    <3>2. QED  BY <2>2, <3>1, FS_Subset
  <2>4. f \in Surjection(D, U)
    BY <2>1 DEF Surjection
  <2>5. IsFiniteSet(U) /\ Cardinality(U) <= Cardinality(D)
    <3> HIDE DEF U, D, f
    <3>1. QED  BY <2>3, <2>4, FS_Surjection
  <2>6. Cardinality(U) <= max
    <3>1. Cardinality(U) \in Nat /\ Cardinality(D) \in Nat
      BY <2>3, <2>5, FS_CardinalityType
    <3> HIDE DEF U, D
    <3>2. QED  BY <1>1, <2>2, <2>3, <2>5, <3>1
  <2>7. CASE \E p \in Covered(r) : t[p] \notin Sliceable
    BY <2>6, <2>7 DEF Capped
  <2>8. CASE \A p \in Covered(r) : t[p] \in Sliceable
    <3>1. U = r.first..r.last
      BY <2>8 DEF Covered
    <3>2. Cardinality(U) = r.last - r.first + 1
      <4>1. r.first \in Int /\ r.last \in Int /\ ~(r.first > r.last)
        BY <1>1
      <4>2. QED  BY <3>1, <4>1, FS_Interval
    <3>3. CountTokens(t, r.first, r.last) = r.last - r.first + 1
      BY <1>1, <2>8, TokensCounted DEF Covered
    <3>4. QED  BY <2>6, <3>2, <3>3 DEF Capped
  <2>9. QED  BY <2>7, <2>8
<1>4. QED  BY <1>2, <1>3

\* A range is split into ranges inside it that are under the cap, in order and apart, and
\* that leave out only pieces whose tokens consume no characters.
LEMMA SplitRight ==
    ASSUME NEW t \in Seq(Kinds), NEW r \in Ranges(t), NEW max \in Nat \ {0}
    PROVE  LET split == HardSplit(t, r, max)
           IN  /\ split \in Seq(Ranges(t)) /\ Apart(split)
               /\ \A n \in DOMAIN split : /\ Covered(split[n]) \subseteq Covered(r)
                                          /\ split[n].section = r.section /\ Capped(t, split[n], max)
               /\ \A p \in Covered(r) : t[p] \in Sliceable => \E n \in DOMAIN split : p \in Covered(split[n])
<1> DEFINE split == HardSplit(t, r, max)
           spans == TokenSpans(t, r.first, r.last)
           w == TokenWindows(Len(spans), max, max)
<1>1. r.first \in 1..Len(t) /\ r.last \in r.first..Len(t) /\ r.section \in Seq(Titles) /\ Len(t) \in Nat
  BY DEF Ranges
<1>2. CASE CountTokens(t, r.first, r.last) <= max
  <2>1. split = <<r>>
    BY <1>2 DEF HardSplit
  <2> HIDE DEF split
  <2>2. split \in Seq(Ranges(t)) /\ DOMAIN split = {1} /\ split[1] = r
    BY <2>1
  <2>3. Capped(t, r, max)
    BY <1>2 DEF Capped
  <2>4. Apart(split)
    BY <2>2 DEF Apart
  <2>5. QED  BY <2>2, <2>3, <2>4 DEF split
<1>3. CASE ~(CountTokens(t, r.first, r.last) <= max)
  <2> DEFINE usable == {p \in Covered(r) : t[p] \in Sliceable}
             N == Len(spans)
  <2>1. /\ N \in Nat \ {0} /\ DOMAIN spans = 1..N
        /\ \A i \in 1..N : spans[i] \in Covered(r)
        /\ \A i, j \in 1..N : i < j => spans[i] < spans[j]
        /\ \/ usable = {} /\ \A p \in Covered(r) : \E i \in 1..N : spans[i] = p
           \/ /\ \A i \in 1..N : spans[i] \in usable
              /\ \A p \in usable : \E i \in 1..N : spans[i] = p
    <3> DEFINE inside == {p \in r.first..r.last : t[p] \in Sliceable}
    <3>1. /\ Len(spans) \in Nat \ {0} /\ DOMAIN spans = 1..Len(spans)
          /\ \A i \in 1..Len(spans) : spans[i] \in r.first..r.last
          /\ \A i, j \in 1..Len(spans) : i < j => spans[i] < spans[j]
          /\ \/ inside = {} /\ \A p \in r.first..r.last : \E i \in 1..Len(spans) : spans[i] = p
             \/ /\ \A i \in 1..Len(spans) : spans[i] \in inside
                /\ \A p \in inside : \E i \in 1..Len(spans) : spans[i] = p
      <4> DEFINE a == r.first
                 b == r.last
      <4>1. a \in 1..Len(t) /\ b \in a..Len(t)
        BY <1>1
      <4> HIDE DEF a, b
      <4> DEFINE cut == TokenSpans(t, a, b)
                 P == {p \in a..b : t[p] \in Sliceable}
      <4>2. /\ Len(cut) \in Nat \ {0} /\ DOMAIN cut = 1..Len(cut)
            /\ \A i \in 1..Len(cut) : cut[i] \in a..b
            /\ \A i, j \in 1..Len(cut) : i < j => cut[i] < cut[j]
            /\ \/ P = {} /\ \A p \in a..b : \E i \in 1..Len(cut) : cut[i] = p
               \/ /\ \A i \in 1..Len(cut) : cut[i] \in P
                  /\ \A p \in P : \E i \in 1..Len(cut) : cut[i] = p
        BY <4>1, SpansOf
      <4>3. cut = spans /\ a..b = r.first..r.last /\ P = inside
        BY DEF a, b
      <4> HIDE DEF cut, P, inside, spans
      <4>4. QED  BY <4>2, <4>3
    <3>2. usable = inside /\ Covered(r) = r.first..r.last
      BY DEF Covered
    <3> HIDE DEF spans, usable, inside
    <3>3. QED  BY <3>1, <3>2
  <2> HIDE DEF N
  <2>2. PICK m \in 1..N :
           /\ DOMAIN w = 1..m /\ Len(w) = m
           /\ \A n \in 1..m : /\ w[n][1] \in 1..N /\ w[n][2] \in w[n][1]..N
                              /\ w[n][2] - w[n][1] < max
           /\ \A i, j \in 1..m : i < j => /\ w[i][1] < w[j][1]
                                          /\ max = max => w[i][2] < w[j][1]
           /\ \A c \in 1..N : \E n \in 1..m : c \in w[n][1]..w[n][2]
    <3>1. max \in 1..max
      OBVIOUS
    <3>2. QED  BY <2>1, <3>1, WindowsOver DEF N
  <2> DEFINE at(n) == Piece(spans[w[n][1]], spans[w[n][2]], r.section)
  <2>3. split = [n \in 1..m |-> at(n)]
    BY <1>3, <2>2 DEF HardSplit, N
  <2> HIDE DEF split, w, spans
  <2>4. m \in Nat /\ N \in Nat
    BY <2>1
  <2>5. ASSUME NEW n \in 1..m
        PROVE  /\ at(n) \in Ranges(t) /\ at(n).section = r.section
               /\ at(n).first = spans[w[n][1]] /\ at(n).last = spans[w[n][2]]
               /\ Covered(at(n)) \subseteq Covered(r) /\ Capped(t, at(n), max)
    <3> DEFINE a == w[n][1]
               b == w[n][2]
    <3>1. a \in 1..N /\ b \in a..N /\ b \in 1..N /\ b - a < max
      BY <2>2, <2>4
    <3> HIDE DEF a, b
    <3>2. spans[a] \in Covered(r) /\ spans[b] \in Covered(r) /\ (a < b => spans[a] < spans[b])
      BY <2>1, <3>1
    <3>3. spans[a] \in 1..Len(t) /\ spans[b] \in spans[a]..Len(t)
          /\ r.first <= spans[a] /\ spans[b] <= r.last
      BY <1>1, <2>4, <3>1, <3>2 DEF Covered
    <3> DEFINE q == Piece(spans[a], spans[b], r.section)
    <3>4. q.first = spans[a] /\ q.last = spans[b] /\ q.section = r.section /\ q \in Ranges(t)
      BY <1>1, <3>3 DEF Piece, Ranges
    <3> HIDE DEF q
    <3>5. Covered(q) \subseteq Covered(r)
      BY <1>1, <3>3, <3>4 DEF Covered
    <3>6. \A i \in 1..N : spans[i] \in 1..Len(t)
      BY <1>1, <2>1 DEF Covered
    <3>7. \/ \A p \in Covered(q) : t[p] \notin Sliceable
          \/ \A p \in Covered(q) : t[p] \in Sliceable => \E i \in 1..N : spans[i] = p
      BY <2>1, <3>5
    <3>8. Capped(t, q, max)
      BY <2>1, <2>4, <3>1, <3>4, <3>6, <3>7, WindowCapped
    <3>9. at(n) = q
      BY DEF q, a, b
    <3>10. spans[w[n][1]] = spans[a] /\ spans[w[n][2]] = spans[b]
      BY DEF a, b
    <3> HIDE DEF at
    <3>11. QED  BY <3>4, <3>5, <3>8, <3>9, <3>10
  <2> HIDE DEF at
  <2>6. split \in Seq(Ranges(t)) /\ DOMAIN split = 1..m /\ \A n \in 1..m : split[n] = at(n)
    <3>1. split \in [1..m -> Ranges(t)]
      BY <2>3, <2>5
    <3>2. QED  BY <2>3, <2>4, <3>1
  <2>7. Apart(split)
    <3>1. SUFFICES ASSUME NEW i \in 1..m, NEW j \in 1..m, i < j PROVE at(i).last < at(j).first
      BY <2>6 DEF Apart
    <3>2. w[i][2] \in 1..N /\ w[j][1] \in 1..N /\ w[i][2] < w[j][1]
      <4>1. w[i][2] < w[j][1]
        BY <2>2, <3>1
      <4>2. w[i][1] \in 1..N /\ w[i][2] \in w[i][1]..N /\ w[j][1] \in 1..N
        BY <2>2
      <4>3. QED  BY <2>4, <4>1, <4>2
    <3>3. spans[w[i][2]] < spans[w[j][1]]
      BY <2>1, <3>2
    <3>4. QED  BY <2>5, <3>3
  <2>8. ASSUME NEW p \in Covered(r), t[p] \in Sliceable PROVE \E n \in 1..m : p \in Covered(at(n))
    <3>1. p \in usable
      BY <2>8
    <3>2. PICK c \in 1..N : spans[c] = p
      BY <2>1, <3>1
    <3>3. PICK n \in 1..m : c \in w[n][1]..w[n][2]
      BY <2>2
    <3> DEFINE a == w[n][1]
               b == w[n][2]
    <3>4. a \in 1..N /\ b \in 1..N /\ a <= c /\ c <= b
      BY <2>2, <2>4, <3>3
    <3> HIDE DEF a, b
    <3>5. \A i \in 1..N : spans[i] \in Int
      BY <1>1, <2>1 DEF Covered
    <3>6. spans[a] <= spans[c] /\ spans[c] <= spans[b] /\ spans[a] \in Int /\ spans[b] \in Int /\ spans[c] \in Int
      <4>1. (a = c \/ a < c) /\ (c = b \/ c < b)
        BY <2>4, <3>4
      <4>2. (a < c => spans[a] < spans[c]) /\ (c < b => spans[c] < spans[b])
        BY <2>1, <3>4
      <4>3. QED  BY <3>4, <3>5, <4>1, <4>2
    <3>7. p \in spans[a]..spans[b]
      BY <3>2, <3>6
    <3>8. at(n).first = spans[a] /\ at(n).last = spans[b]
      BY <2>5 DEF a, b
    <3>9. QED  BY <3>7, <3>8 DEF Covered
  <2>9. QED  BY <2>5, <2>6, <2>7, <2>8 DEF split
<1>4. QED  BY <1>2, <1>3
\* One range starts before another; one ends before another starts.
ByStart(t) == {pair \in Ranges(t) \X Ranges(t) : pair[1].first < pair[2].first}
ByEnd(t) == {pair \in Ranges(t) \X Ranges(t) : pair[1].last < pair[2].first}

\* A list of ranges under the cap, each from a candidate and in its section, that has all
\* the pieces of the candidates whose tokens consume characters.
CutFrom(t, c, max, list) ==
    /\ list \in Seq(Ranges(t))
    /\ \A k \in 1..Len(list) :
          /\ Capped(t, list[k], max)
          /\ \E n \in 1..Len(c) : Covered(list[k]) \subseteq Covered(c[n]) /\ list[k].section = c[n].section
    /\ \A n \in 1..Len(c) : \A p \in Covered(c[n]) : t[p] \in Sliceable =>
          \E k \in 1..Len(list) : p \in Covered(list[k])

\* The finaliser labels each of them.
LEMMA FinaliseLabels ==
    ASSUME NEW t, NEW c, NEW max
    PROVE  Finalise(t, c, max) =
               [n \in DOMAIN Picked(t, c, max) |-> Labelled(t, Picked(t, c, max)[n])]
BY DEF Finalise

\* Candidates whose splits have starts that go up become pieces that are as ordered.
LEMMA Finalised ==
    ASSUME NEW t \in Seq(Kinds), NEW max \in Nat \ {0}, NEW c \in Seq(Ranges(t)), NEW R \in SUBSET ByStart(t),
           \A n \in 1..Len(c) : OrderedBy(HardSplit(t, c[n], max), R),
           \A m, n \in 1..Len(c) : m < n => BeforeAll(HardSplit(t, c[m], max), HardSplit(t, c[n], max), R)
    PROVE  LET result == Picked(t, c, max)
           IN  CutFrom(t, c, max, result) /\ OrderedBy(result, R)
<1> DEFINE N == Len(c)
           lists == [n \in DOMAIN c |-> HardSplit(t, c[n], max)]
           pieces == Flat(lists)
           fresh == {n \in DOMAIN pieces : \A m \in 1..(n - 1) : pieces[m].first # pieces[n].first}
           places == PlacesIn(pieces, fresh)
           result == [n \in DOMAIN places |-> pieces[places[n]]]
<1>1. Picked(t, c, max) = result
  BY DEF Picked
<1>2. N \in Nat /\ DOMAIN c = 1..N /\ \A n \in 1..N : c[n] \in Ranges(t)
  OBVIOUS
<1>3. /\ lists \in Seq(Seq(Ranges(t))) /\ Len(lists) = N
      /\ \A n \in 1..N : lists[n] = HardSplit(t, c[n], max)
  <2>1. ASSUME NEW n \in 1..N PROVE HardSplit(t, c[n], max) \in Seq(Ranges(t))
    <3>1. c[n] \in Ranges(t)
      BY <1>2
    <3>2. QED  BY <3>1, SplitRight
  <2>2. lists = [n \in 1..N |-> HardSplit(t, c[n], max)]
    BY <1>2
  <2>3. lists \in [1..N -> Seq(Ranges(t))]
    BY <2>1, <2>2
  <2> HIDE DEF N, lists
  <2>4. QED  BY <1>2, <2>2, <2>3
<1>4. AllOrdered(lists, R)
  BY <1>3 DEF AllOrdered
<1> HIDE DEF lists, N
<1>5. /\ pieces \in Seq(Ranges(t)) /\ OrderedBy(pieces, R)
      /\ \A k \in 1..Len(pieces) : \E n \in 1..N : \E i \in 1..Len(lists[n]) : pieces[k] = lists[n][i]
      /\ \A n \in 1..N : \A i \in 1..Len(lists[n]) : \E k \in 1..Len(pieces) : pieces[k] = lists[n][i]
  <2> DEFINE X == Ranges(t)
  <2>1. lists \in Seq(Seq(X)) /\ N = Len(lists)
    BY <1>3
  <2> HIDE DEF X
  <2>2. /\ pieces \in Seq(X)
        /\ \A k \in 1..Len(pieces) : \E n \in 1..N : \E i \in 1..Len(lists[n]) : pieces[k] = lists[n][i]
        /\ \A n \in 1..N : \A i \in 1..Len(lists[n]) : \E k \in 1..Len(pieces) : pieces[k] = lists[n][i]
        /\ OrderedBy(pieces, R)
    BY <1>4, <2>1, FlatInOrder
  <2>3. QED  BY <2>2 DEF X
<1> HIDE DEF pieces
<1> DEFINE M == Len(pieces)
<1>6. M \in Nat /\ DOMAIN pieces = 1..M /\ \A k \in 1..M : pieces[k] \in Ranges(t)
  BY <1>5
<1> HIDE DEF M
<1>7. fresh = 1..M
  <2>1. SUFFICES ASSUME NEW n \in 1..M, NEW m \in 1..(n - 1) PROVE pieces[m].first # pieces[n].first
    BY <1>6
  <2>2. m \in 1..M /\ m < n
    BY <1>6
  <2>3. <<pieces[m], pieces[n]>> \in R
    BY <1>5, <2>2 DEF OrderedBy, M
  <2>4. pieces[m].first < pieces[n].first
    BY <2>3 DEF ByStart
  <2>5. pieces[m].first \in Int /\ pieces[n].first \in Int
    BY <1>6, <2>2 DEF Ranges
  <2>6. QED  BY <2>4, <2>5
<1> HIDE DEF fresh
<1>8. /\ Len(places) \in Nat /\ DOMAIN places = 1..Len(places)
      /\ \A i \in 1..Len(places) : places[i] \in 1..M
      /\ \A p \in 1..M : \E i \in 1..Len(places) : places[i] = p
      /\ \A i, j \in 1..Len(places) : i < j => places[i] < places[j]
  <2>1. /\ places \in Seq(Int) /\ Len(places) \in Nat /\ DOMAIN places = 1..Len(places)
        /\ \A i \in DOMAIN places : places[i] \in DOMAIN pieces \cap fresh
        /\ \A p \in DOMAIN pieces \cap fresh : \E i \in DOMAIN places : places[i] = p
        /\ \A i, j \in DOMAIN places : i < j => places[i] < places[j]
    BY <1>5, PlacesInOrder
  <2> HIDE DEF places
  <2>2. QED  BY <1>6, <1>7, <2>1
<1> HIDE DEF places
<1> DEFINE L == Len(places)
<1>9. /\ L \in Nat /\ result \in Seq(Ranges(t)) /\ Len(result) = L
      /\ \A i \in 1..L : places[i] \in 1..M /\ result[i] = pieces[places[i]]
  <2>1. L \in Nat /\ \A i \in 1..L : places[i] \in 1..M
    BY <1>8
  <2>2. result = [i \in 1..L |-> pieces[places[i]]]
    BY <1>8
  <2> HIDE DEF L, result
  <2>3. result \in [1..L -> Ranges(t)]
    BY <1>6, <2>1, <2>2
  <2>4. QED  BY <2>1, <2>2, <2>3
<1>10. \A p \in 1..M : \E i \in 1..L : result[i] = pieces[p]
  <2>1. TAKE p \in 1..M
  <2>2. PICK i \in 1..L : places[i] = p
    BY <1>8
  <2>3. QED  BY <1>9, <2>2
<1>11. \A i, j \in 1..L : i < j => places[i] < places[j]
  BY <1>8
<1> HIDE DEF result, L
<1>12. OrderedBy(result, R)
  <2>1. SUFFICES ASSUME NEW i \in 1..L, NEW j \in 1..L, i < j PROVE <<result[i], result[j]>> \in R
    BY <1>9 DEF OrderedBy
  <2>2. places[i] \in 1..M /\ places[j] \in 1..M /\ places[i] < places[j]
    BY <1>9, <1>11, <2>1
  <2>3. <<pieces[places[i]], pieces[places[j]]>> \in R
    BY <1>5, <2>2 DEF OrderedBy, M
  <2>4. QED  BY <1>9, <2>3
<1> DEFINE split(n) == HardSplit(t, c[n], max)
<1>13. ASSUME NEW n \in 1..N
       PROVE  /\ DOMAIN split(n) = 1..Len(split(n))
              /\ \A i \in DOMAIN split(n) : /\ Covered(split(n)[i]) \subseteq Covered(c[n])
                                            /\ split(n)[i].section = c[n].section /\ Capped(t, split(n)[i], max)
              /\ \A p \in Covered(c[n]) : t[p] \in Sliceable => \E i \in DOMAIN split(n) : p \in Covered(split(n)[i])
  <2> DEFINE s == split(n)
             r == c[n]
  <2>1. r \in Ranges(t)
    BY <1>2
  <2>2. /\ s \in Seq(Ranges(t)) /\ Apart(s)
        /\ \A i \in DOMAIN s : /\ Covered(s[i]) \subseteq Covered(r)
                               /\ s[i].section = r.section /\ Capped(t, s[i], max)
        /\ \A p \in Covered(r) : t[p] \in Sliceable => \E i \in DOMAIN s : p \in Covered(s[i])
    BY <2>1, SplitRight
  <2>3. DOMAIN s = 1..Len(s)
    BY <2>2
  <2> HIDE DEF split
  <2>4. QED  BY <2>2, <2>3
<1>14. \A n \in 1..N : lists[n] = split(n)
  BY <1>3
<1> HIDE DEF split
<1>15. ASSUME NEW k \in 1..L
       PROVE  /\ Capped(t, result[k], max)
              /\ \E n \in 1..N : /\ Covered(result[k]) \subseteq Covered(c[n])
                                 /\ result[k].section = c[n].section
  <2>1. places[k] \in 1..M /\ result[k] = pieces[places[k]]
    BY <1>9
  <2>2. PICK n \in 1..N : \E i \in 1..Len(lists[n]) : pieces[places[k]] = lists[n][i]
    BY <1>5, <2>1 DEF M
  <2>3. PICK i \in DOMAIN split(n) : result[k] = split(n)[i]
    BY <1>13, <1>14, <2>1, <2>2
  <2>4. QED  BY <1>13, <2>3
<1>16. ASSUME NEW n \in 1..N, NEW p \in Covered(c[n]), t[p] \in Sliceable
       PROVE  \E k \in 1..L : p \in Covered(result[k])
  <2>1. PICK i \in DOMAIN split(n) : p \in Covered(split(n)[i])
    BY <1>13, <1>16
  <2>2. i \in 1..Len(lists[n]) /\ lists[n][i] = split(n)[i]
    BY <1>13, <1>14
  <2>3. PICK k \in 1..M : pieces[k] = split(n)[i]
    BY <1>5, <2>2 DEF M
  <2>4. QED  BY <1>10, <2>1, <2>3
<1>17. QED  BY <1>1, <1>9, <1>12, <1>15, <1>16 DEF N, CutFrom
\* Candidates that do not overlap become pieces that do not overlap.
LEMMA FinalisedApart ==
    ASSUME NEW t \in Seq(Kinds), NEW max \in Nat \ {0}, NEW c \in Seq(Ranges(t)), Apart(c)
    PROVE  CutFrom(t, c, max, Picked(t, c, max)) /\ Apart(Picked(t, c, max))
<1> DEFINE N == Len(c)
           R == ByEnd(t)
           split(n) == HardSplit(t, c[n], max)
           result == Picked(t, c, max)
<1>1. \A r \in Ranges(t) : r.first \in Int /\ r.last \in Int /\ r.first <= r.last
  BY DEF Ranges
<1>2. R \in SUBSET ByStart(t)
  <2>1. ASSUME NEW pair \in Ranges(t) \X Ranges(t), pair[1].last < pair[2].first
        PROVE  pair[1].first < pair[2].first
    <3>1. pair[1] \in Ranges(t) /\ pair[2] \in Ranges(t)
      OBVIOUS
    <3> DEFINE x == pair[1]
               y == pair[2]
    <3> HIDE DEF x, y
    <3>2. x.first \in Int /\ x.last \in Int /\ x.first <= x.last /\ y.first \in Int
      BY <1>1, <3>1 DEF x, y
    <3>3. x.last < y.first
      BY <2>1 DEF x, y
    <3>4. x.first < y.first
      BY <3>2, <3>3
    <3>5. QED  BY <3>4 DEF x, y
  <2>2. QED  BY <2>1 DEF ByStart, ByEnd
<1>3. N \in Nat /\ DOMAIN c = 1..N /\ \A n \in 1..N : c[n] \in Ranges(t)
  OBVIOUS
<1>4. ASSUME NEW n \in 1..N
      PROVE  /\ split(n) \in Seq(Ranges(t)) /\ Apart(split(n))
             /\ \A i \in 1..Len(split(n)) : Covered(split(n)[i]) \subseteq Covered(c[n])
  <2> DEFINE s == split(n)
             r == c[n]
  <2>1. r \in Ranges(t)
    BY <1>3
  <2>2. /\ s \in Seq(Ranges(t)) /\ Apart(s)
        /\ \A i \in DOMAIN s : /\ Covered(s[i]) \subseteq Covered(r)
                               /\ s[i].section = r.section /\ Capped(t, s[i], max)
        /\ \A p \in Covered(r) : t[p] \in Sliceable => \E i \in DOMAIN s : p \in Covered(s[i])
    BY <2>1, SplitRight
  <2>3. DOMAIN s = 1..Len(s)
    BY <2>2
  <2> HIDE DEF split
  <2>4. QED  BY <2>2, <2>3
<1> HIDE DEF split, R, N
<1>5. ASSUME NEW n \in 1..N PROVE OrderedBy(split(n), R)
  <2>1. SUFFICES ASSUME NEW i \in 1..Len(split(n)), NEW j \in 1..Len(split(n)), i < j
                 PROVE  <<split(n)[i], split(n)[j]>> \in R
    BY DEF OrderedBy
  <2>2. split(n)[i] \in Ranges(t) /\ split(n)[j] \in Ranges(t) /\ split(n)[i].last < split(n)[j].first
    BY <1>4, <2>1 DEF Apart
  <2>3. QED  BY <2>2 DEF R, ByEnd
<1>6. ASSUME NEW m \in 1..N, NEW n \in 1..N, m < n PROVE BeforeAll(split(m), split(n), R)
  <2>1. SUFFICES ASSUME NEW i \in 1..Len(split(m)), NEW j \in 1..Len(split(n))
                 PROVE  <<split(m)[i], split(n)[j]>> \in R
    BY DEF BeforeAll
  <2>2. split(m)[i] \in Ranges(t) /\ split(n)[j] \in Ranges(t)
    BY <1>4
  <2> DEFINE x == split(m)[i]
             y == split(n)[j]
             u == c[m]
             v == c[n]
  <2>3. Covered(x) \subseteq Covered(u) /\ Covered(y) \subseteq Covered(v) /\ u.last < v.first
    BY <1>3, <1>4, <1>6 DEF Apart
  <2>4. x \in Ranges(t) /\ y \in Ranges(t) /\ u \in Ranges(t) /\ v \in Ranges(t)
    BY <1>3, <2>2
  <2> HIDE DEF x, y, u, v
  <2>5. /\ x.first \in Int /\ x.last \in Int /\ x.first <= x.last
        /\ y.first \in Int /\ y.last \in Int /\ y.first <= y.last
        /\ u.first \in Int /\ u.last \in Int /\ v.first \in Int /\ v.last \in Int
    BY <1>1, <2>4
  <2>6. x.last \in Covered(u) /\ y.first \in Covered(v)
    <3>1. x.last \in Covered(x) /\ y.first \in Covered(y)
      BY <2>5 DEF Covered
    <3>2. QED  BY <2>3, <3>1
  <2>7. x.last <= u.last /\ v.first <= y.first
    BY <2>5, <2>6 DEF Covered
  <2>8. x.last < y.first
    <3>1. u.last < v.first
      BY <2>3
    <3>2. x.last \in Int /\ y.first \in Int /\ u.last \in Int /\ v.first \in Int
      BY <2>5
    <3>3. QED  BY ONLY <2>7, <3>1, <3>2
  <2>9. <<x, y>> \in R
    <3>1. <<x, y>> \in Ranges(t) \X Ranges(t) /\ <<x, y>>[1] = x /\ <<x, y>>[2] = y
      BY <2>4
    <3>2. QED  BY <2>8, <3>1 DEF R, ByEnd
  <2>10. QED  BY <2>9 DEF x, y
<1>7. /\ \A n \in 1..Len(c) : OrderedBy(HardSplit(t, c[n], max), R)
      /\ \A m, n \in 1..Len(c) : m < n => BeforeAll(HardSplit(t, c[m], max), HardSplit(t, c[n], max), R)
  BY <1>5, <1>6 DEF split, N
<1>8. CutFrom(t, c, max, result) /\ OrderedBy(result, R)
  BY <1>2, <1>7, Finalised
<1>9. DOMAIN result = 1..Len(result)
  BY <1>8 DEF CutFrom
<1> HIDE DEF result
<1>10. Apart(result)
  <2>1. SUFFICES ASSUME NEW i \in 1..Len(result), NEW j \in 1..Len(result), i < j
                 PROVE  result[i].last < result[j].first
    BY <1>9 DEF Apart
  <2>2. <<result[i], result[j]>> \in R
    BY <1>8, <2>1 DEF OrderedBy
  <2>3. QED  BY <2>2 DEF R, ByEnd
<1>11. QED  BY <1>8, <1>10 DEF result

\* As few tokens as the cap allows make one window.
LEMMA OneWindow ==
    ASSUME NEW width \in Nat, NEW count \in 1..width, NEW stride \in 1..width
    PROVE  LET w == TokenWindows(count, width, stride)
           IN  DOMAIN w = {1} /\ Len(w) = 1 /\ w[1][1] = 1 /\ w[1][2] = count
<1> DEFINE reaches == {n \in 1..count : (n - 1) * stride + width >= count}
           final == CHOOSE n \in reaches : \A m \in reaches : n <= m
           w == [n \in 1..final |-> <<(n - 1) * stride + 1, Min({(n - 1) * stride + width, count})>>]
<1>1. count \in Nat /\ count # 0 /\ stride \in Nat /\ 1 \in 1..count /\ (1 - 1) * stride = 0
  OBVIOUS
<1>2. TokenWindows(count, width, stride) = w
  BY <1>1 DEF TokenWindows
<1>3. 1 \in reaches
  BY <1>1
<1>4. \A m \in reaches : 1 <= m /\ m \in Int
  OBVIOUS
<1> HIDE DEF reaches
<1>5. final \in reaches /\ \A m \in reaches : final <= m
  BY <1>3, <1>4
<1>6. final = 1
  <2>1. final <= 1 /\ 1 <= final /\ final \in Int
    BY <1>3, <1>4, <1>5
  <2> HIDE DEF final
  <2>2. QED  BY <2>1
<1> HIDE DEF final
<1>7. w = [n \in {1} |-> <<(n - 1) * stride + 1, Min({(n - 1) * stride + width, count})>>]
  BY <1>6
<1>8. w[1] = <<1, Min({width, count})>>
  BY <1>1, <1>7
<1>9. Min({width, count}) = count
  <2>1. width \in Int /\ count \in Int /\ count <= width
    OBVIOUS
  <2>2. QED  BY <2>1, OfPair
<1>10. DOMAIN w = {1} /\ DOMAIN w = 1..1
  BY <1>7
<1> HIDE DEF w
<1>11. Len(w) = 1
  BY <1>10
<1>12. QED  BY <1>2, <1>8, <1>9, <1>10, <1>11
\* A window of the spans of a text is not split again.
LEMMA WindowStays ==
    ASSUME NEW t \in Seq(Kinds), NEW max \in Nat \ {0}, NEW s, s = TokenSpans(t, 1, Len(t)),
           NEW a \in 1..Len(s), NEW b \in a..Len(s), b - a < max,
           NEW r \in Ranges(t), r.first = s[a], r.last = s[b]
    PROVE  HardSplit(t, r, max) = <<r>>
<1> DEFINE first == r.first
           last == r.last
           cut == TokenSpans(t, first, last)
           global == {p \in 1..Len(t) : t[p] \in Sliceable}
           usable == {p \in first..last : t[p] \in Sliceable}
           N == Len(s)
           C == Len(cut)
           windows == TokenWindows(C, max, max)
<1>1. /\ Len(t) \in Nat /\ 1 \in 1..Len(t) /\ Len(t) \in 1..Len(t)
      /\ first \in 1..Len(t) /\ last \in first..Len(t)
      /\ r = Piece(first, last, r.section)
  BY DEF Ranges, Piece
<1>2. /\ N \in Nat \ {0} /\ \A i \in 1..N : s[i] \in 1..Len(t)
      /\ \A i, j \in 1..N : i < j => s[i] < s[j]
      /\ \/ global = {} /\ \A p \in 1..Len(t) : \E i \in 1..N : s[i] = p
         \/ /\ \A i \in 1..N : s[i] \in global
            /\ \A p \in global : \E i \in 1..N : s[i] = p
  <2> DEFINE from == 1
             to == Len(t)
  <2>1. from \in 1..Len(t) /\ to \in from..Len(t)
    BY <1>1
  <2> HIDE DEF from, to
  <2> DEFINE all == TokenSpans(t, from, to)
             P == {p \in from..to : t[p] \in Sliceable}
  <2>2. /\ Len(all) \in Nat \ {0} /\ \A i \in 1..Len(all) : all[i] \in from..to
        /\ \A i, j \in 1..Len(all) : i < j => all[i] < all[j]
        /\ \/ P = {} /\ \A p \in from..to : \E i \in 1..Len(all) : all[i] = p
           \/ /\ \A i \in 1..Len(all) : all[i] \in P
              /\ \A p \in P : \E i \in 1..Len(all) : all[i] = p
    BY <2>1, SpansOf
  <2>3. all = s /\ from..to = 1..Len(t) /\ P = global
    BY DEF from, to
  <2> HIDE DEF all, P, global
  <2>4. QED  BY <2>2, <2>3
<1>3. /\ C \in Nat \ {0} /\ \A i \in 1..C : cut[i] \in first..last
      /\ \A i, j \in 1..C : i < j => cut[i] < cut[j]
      /\ \/ usable = {} /\ \A p \in first..last : \E i \in 1..C : cut[i] = p
         \/ /\ \A i \in 1..C : cut[i] \in usable
            /\ \A p \in usable : \E i \in 1..C : cut[i] = p
  <2> HIDE DEF first, last
  <2>1. first \in 1..Len(t) /\ last \in first..Len(t)
    BY <1>1
  <2>2. QED  BY <2>1, SpansOf
<1>4. a \in 1..N /\ b \in 1..N /\ a <= b /\ b - a < max /\ first = s[a] /\ last = s[b] /\ max \in Nat \ {0}
  BY <1>2
<1>5. HardSplit(t, r, max) = IF CountTokens(t, first, last) <= max THEN <<r>>
                             ELSE [n \in DOMAIN windows |->
                                      Piece(cut[windows[n][1]], cut[windows[n][2]], r.section)]
  BY DEF HardSplit
<1> HIDE DEF first, last, cut, N, C, windows
<1>6. (\E i \in 1..C : cut[i] = first) /\ \E i \in 1..C : cut[i] = last
  <2>1. first \in first..last /\ last \in first..last
    BY <1>1
  <2>2. CASE global = {}
    <3>1. usable = {}
      BY <1>1, <2>2
    <3>2. \A p \in first..last : \E i \in 1..C : cut[i] = p
      BY <1>3, <3>1
    <3>3. QED  BY <2>1, <3>2
  <2>3. CASE \A i \in 1..N : s[i] \in global
    <3>1. first \in usable /\ last \in usable
      BY <1>4, <2>1, <2>3
    <3>2. QED  BY <1>3, <3>1
  <2>4. QED  BY <1>2, <2>2, <2>3
<1>7. \A i \in 1..C : \E j \in a..b : s[j] = cut[i]
  <2>1. TAKE i \in 1..C
  <2>2. cut[i] \in first..last /\ cut[i] \in 1..Len(t)
    BY <1>1, <1>3
  <2>3. \E j \in 1..N : s[j] = cut[i]
    <3>1. CASE global = {}
      BY <1>2, <2>2, <3>1
    <3>2. CASE \A k \in 1..N : s[k] \in global
      <4>1. first \in usable
        BY <1>1, <1>4, <3>2
      <4>2. cut[i] \in usable
        BY <1>3, <4>1
      <4>3. cut[i] \in global
        BY <2>2, <4>2
      <4>4. QED  BY <1>2, <4>3
    <3>3. QED  BY <1>2, <3>1, <3>2
  <2>4. PICK j \in 1..N : s[j] = cut[i]
    BY <2>3
  <2>5. s[a] <= s[j] /\ s[j] <= s[b] /\ s[a] \in Int /\ s[b] \in Int /\ s[j] \in Int
    BY <1>1, <1>4, <2>2, <2>4
  <2>6. (j < a => s[j] < s[a]) /\ (b < j => s[b] < s[j])
    BY <1>2, <1>4
  <2>7. j \in a..b
    BY <1>2, <1>4, <2>5, <2>6
  <2>8. QED  BY <2>4, <2>7
<1>8. C <= max
  <2> DEFINE at == [i \in 1..C |-> CHOOSE j \in a..b : s[j] = cut[i]]
  <2>1. \A i \in 1..C : at[i] \in a..b /\ s[at[i]] = cut[i]
    BY <1>7
  <2>2. at \in Injection(1..C, a..b)
    <3>1. at \in [1..C -> a..b]
      BY <2>1
    <3> HIDE DEF at
    <3>2. \A i, j \in 1..C : i # j => cut[i] # cut[j]
      <4>1. ASSUME NEW i \in 1..C, NEW j \in 1..C, i # j PROVE cut[i] # cut[j]
        <5>1. i \in Int /\ j \in Int /\ (i < j \/ j < i) /\ cut[i] \in Int /\ cut[j] \in Int
          BY <1>1, <1>3, <4>1
        <5>2. (i < j => cut[i] < cut[j]) /\ (j < i => cut[j] < cut[i])
          BY <1>3
        <5>3. QED  BY <5>1, <5>2
      <4>2. QED  BY <4>1
    <3>3. \A i, j \in 1..C : at[i] = at[j] => i = j
      BY <2>1, <3>2
    <3>4. QED  BY <3>1, <3>3 DEF Injection, IsInjective
  <2> HIDE DEF at
  <2>3. IsFiniteSet(a..b) /\ Cardinality(a..b) = b - a + 1
    <3>1. a \in Int /\ b \in Int /\ ~(a > b)
      BY <1>2, <1>4
    <3>2. QED  BY <3>1, FS_Interval
  <2>4. Cardinality(1..C) = C
    <3>1. 1 \in Int /\ C \in Int /\ ~(1 > C)
      BY <1>3
    <3>2. QED  BY <1>3, <3>1, FS_Interval
  <2>5. Cardinality(1..C) <= Cardinality(a..b)
    BY <2>2, <2>3, FS_Injection
  <2>6. QED  BY <1>2, <1>3, <1>4, <2>3, <2>4, <2>5
<1>9. cut[1] = first /\ cut[C] = last
  <2>1. 1 \in 1..C /\ C \in 1..C /\ first \in Int /\ last \in Int
    BY <1>1, <1>3
  <2>2. cut[1] \in first..last /\ cut[C] \in first..last
    BY <1>3, <2>1
  <2>3. PICK i \in 1..C : cut[i] = first
    BY <1>6
  <2>4. PICK j \in 1..C : cut[j] = last
    BY <1>6
  <2>5. (1 < i => cut[1] < cut[i]) /\ (j < C => cut[j] < cut[C])
    BY <1>3, <2>1
  <2>6. i = 1 /\ j = C
    BY <1>3, <2>1, <2>2, <2>3, <2>4, <2>5
  <2>7. QED  BY <2>3, <2>4, <2>6
<1>10. DOMAIN windows = {1} /\ windows[1][1] = 1 /\ windows[1][2] = C
  <2>1. max \in Nat /\ C \in 1..max /\ max \in 1..max
    BY <1>3, <1>4, <1>8
  <2>2. QED  BY <2>1, OneWindow DEF windows
<1> DEFINE split == [n \in DOMAIN windows |-> Piece(cut[windows[n][1]], cut[windows[n][2]], r.section)]
<1>11. split = <<r>>
  <2>1. split = [n \in {1} |-> Piece(cut[windows[n][1]], cut[windows[n][2]], r.section)]
    BY <1>10
  <2>2. split[1] = r /\ DOMAIN split = {1}
    <3>1. split[1] = Piece(cut[1], cut[C], r.section)
      BY <1>10, <2>1
    <3>2. QED  BY <1>1, <1>9, <2>1, <3>1
  <2>3. split = [n \in {1} |-> split[n]]
    BY <2>1
  <2> HIDE DEF split
  <2>4. split = [n \in 1..1 |-> r]
    BY <2>2, <2>3
  <2>5. QED  BY <2>4
<1> HIDE DEF split
<1>12. HardSplit(t, r, max) = IF CountTokens(t, first, last) <= max THEN <<r>> ELSE split
  BY <1>5 DEF split
<1>13. QED  BY <1>11, <1>12
\* What is cut from candidates in order, that have all pieces whose tokens consume
\* characters, is sound once it is labelled.
LEMMA SoundFrom ==
    ASSUME NEW t \in Seq(Kinds), NEW max \in Nat \ {0}, NEW c \in Seq(Ranges(t)), NEW list,
           CutFrom(t, c, max, list), NEW s,
           s = "fixed" => OrderedBy(list, ByStart(t)), s # "fixed" => Apart(list),
           \A p \in 1..Len(t) : t[p] \in Sliceable => \E n \in 1..Len(c) : p \in Covered(c[n]),
           s = "recursive" => \A n \in 1..Len(c) : \A p \in Covered(c[n]) : c[n].section = Section(t, p)
    PROVE  Sound(t, s, max, [n \in DOMAIN list |-> Labelled(t, list[n])])
<1> DEFINE out == [n \in DOMAIN list |-> Labelled(t, list[n])]
<1>1. /\ list \in Seq(Ranges(t)) /\ DOMAIN list = 1..Len(list)
      /\ \A n \in 1..Len(list) : list[n] \in Ranges(t) /\ list[n].first \in Int /\ list[n].last \in Int
                                 /\ list[n].first <= list[n].last
  <2>1. list \in Seq(Ranges(t))
    BY DEF CutFrom
  <2>2. \A r \in Ranges(t) : r.first \in Int /\ r.last \in Int /\ r.first <= r.last
    BY DEF Ranges
  <2>3. QED  BY <2>1, <2>2
<1>2. ASSUME NEW m \in 1..Len(list), NEW n \in 1..Len(list), m < n
      PROVE  list[m].first < list[n].first /\ (s # "fixed" => list[m].last < list[n].first)
  <2>1. CASE s = "fixed"
    <3>1. <<list[m], list[n]>> \in ByStart(t)
      BY <1>2, <2>1 DEF OrderedBy
    <3>2. list[m].first < list[n].first
      BY <3>1 DEF ByStart
    <3>3. QED  BY <2>1, <3>2
  <2>2. CASE s # "fixed"
    <3>1. list[m].last < list[n].first
      BY <1>1, <1>2, <2>2 DEF Apart
    <3>2. QED  BY <1>1, <3>1
  <2>3. QED  BY <2>1, <2>2
<1>3. ASSUME NEW p \in 1..Len(t), t[p] \in Sliceable
      PROVE  \E n \in 1..Len(list) : p \in list[n].first..list[n].last
  <2>1. PICK n \in 1..Len(c) : p \in Covered(c[n])
    BY <1>3
  <2>2. QED  BY <1>3, <2>1 DEF CutFrom, Covered
<1>4. ASSUME NEW n \in 1..Len(list)
      PROVE  \/ CountTokens(t, list[n].first, list[n].last) <= max
             \/ Cardinality({p \in list[n].first..list[n].last : t[p] \in Sliceable}) <= max
                /\ \E p \in list[n].first..list[n].last : t[p] \notin Sliceable
  <2>1. Capped(t, list[n], max)
    BY DEF CutFrom
  <2>2. QED  BY <2>1 DEF Capped, Covered
<1>5. ASSUME s = "recursive", NEW n \in 1..Len(list), NEW p \in list[n].first..list[n].last
      PROVE  list[n].section = Section(t, p)
  <2>1. PICK k \in 1..Len(c) : Covered(list[n]) \subseteq Covered(c[k]) /\ list[n].section = c[k].section
    BY DEF CutFrom
  <2>2. p \in Covered(c[k])
    BY <1>5, <2>1 DEF Covered
  <2>3. QED  BY <1>5, <2>1, <2>2
<1>6. DOMAIN t = 1..Len(t)
  OBVIOUS
<1>7. /\ DOMAIN out = 1..Len(list)
      /\ \A n \in 1..Len(list) :
            /\ out[n].first = list[n].first /\ out[n].last = list[n].last
            /\ out[n].section = IF list[n].section = <<>> THEN LabelAt(t, list[n].first)
                                ELSE list[n].section
  <2>1. ASSUME NEW n \in 1..Len(list)
        PROVE  /\ out[n].first = list[n].first /\ out[n].last = list[n].last
               /\ out[n].section = IF list[n].section = <<>> THEN LabelAt(t, list[n].first)
                                   ELSE list[n].section
    <3> DEFINE r == list[n]
    <3>1. r \in [first : 1..Len(t), last : 1..Len(t), section : Seq(Titles)]
      BY <1>1 DEF Ranges
    <3>2. out[n] = Labelled(t, r)
      BY <1>1
    <3> HIDE DEF r, out
    <3>3. /\ Labelled(t, r).first = r.first /\ Labelled(t, r).last = r.last
          /\ Labelled(t, r).section = IF r.section = <<>> THEN LabelAt(t, r.first) ELSE r.section
      BY <3>1 DEF Labelled
    <3>4. QED  BY <3>2, <3>3 DEF r
  <2>2. QED  BY <1>1, <2>1
<1>8. ASSUME s = "recursive", NEW n \in 1..Len(list)
      PROVE  /\ out[n].section = SectionOf(t, out[n].first)
             /\ \A p \in out[n].first..out[n].last : Section(t, p) = Section(t, out[n].first)
  <2>1. out[n].first = list[n].first /\ out[n].last = list[n].last
    BY <1>7
  <2>2. list[n].section = Section(t, list[n].first)
    <3>1. list[n].first \in list[n].first..list[n].last
      BY <1>1
    <3>2. QED  BY <1>5, <1>8, <3>1
  <2>3. out[n].section = SectionOf(t, list[n].first)
    BY <1>7, <2>2 DEF SectionOf
  <2> HIDE DEF out
  <2>4. QED  BY <1>5, <1>8, <2>1, <2>2, <2>3
<1> HIDE DEF out
<1>81. \A n \in 1..Len(list) : out[n].first \in DOMAIN t /\ out[n].last \in out[n].first..Len(t)
  <2>1. ASSUME NEW r \in Ranges(t) PROVE r.first \in 1..Len(t) /\ r.last \in r.first..Len(t)
    BY DEF Ranges
  <2>2. \A n \in 1..Len(list) : list[n].first \in 1..Len(t) /\ list[n].last \in list[n].first..Len(t)
    BY <1>1, <2>1
  <2>3. QED  BY <1>6, <1>7, <2>2
<1>9. Sound(t, s, max, out)
  BY <1>2, <1>3, <1>4, <1>6, <1>7, <1>8, <1>81 DEF Sound
<1>10. QED  BY <1>9 DEF out

\* The windows of the fixed strategy.
LEMMA FixedSound ==
    ASSUME NEW t \in Seq(Kinds), NEW max \in Nat, max > Overlap
    PROVE  Sound(t, "fixed", max, FixedToken(t, max))
<1> DEFINE s == TokenSpans(t, 1, Len(t))
           N == Len(s)
           w == TokenWindows(N, max, max - Overlap)
           c == [n \in DOMAIN w |-> Piece(s[w[n][1]], s[w[n][2]], <<>>)]
           result == Picked(t, c, max)
           out == [n \in DOMAIN result |-> Labelled(t, result[n])]
<1>1. Overlap \in Nat /\ max \in Nat \ {0} /\ max - Overlap \in 1..max /\ Len(t) \in Nat
  BY ChunkingAssumption
<1>2. FixedToken(t, max) = out
  BY FinaliseLabels DEF FixedToken
<1>3. <<>> \in Seq(Titles)
  OBVIOUS
<1>4. /\ c \in Seq(Ranges(t))
      /\ \A n \in 1..Len(c) : HardSplit(t, c[n], max) = <<c[n]>>
      /\ \A m, n \in 1..Len(c) : m < n => c[m].first < c[n].first
      /\ \A p \in 1..Len(t) : t[p] \in Sliceable => \E n \in 1..Len(c) : p \in Covered(c[n])
  <2>1. CASE Len(t) = 0
    <3>1. N = 0
      <4> DEFINE P == IF {p \in 1..Len(t) : t[p] \in Sliceable} = {} THEN 1..Len(t)
                      ELSE {p \in 1..Len(t) : t[p] \in Sliceable}
                 places == PlacesIn(t, P)
      <4>1. s = places
        BY DEF TokenSpans
      <4> HIDE DEF P, s
      <4>2. Len(places) \in Nat /\ DOMAIN places = 1..Len(places) /\ \A i \in DOMAIN places : places[i] \in DOMAIN t \cap P
        BY PlacesInOrder
      <4>3. DOMAIN t = {}
        BY <2>1
      <4> DEFINE L == Len(places)
      <4>4. L \in Nat /\ 1..L = {}
        BY <4>2, <4>3
      <4> HIDE DEF L
      <4>5. L = 0
        BY <4>4
      <4>6. QED  BY <4>1, <4>5 DEF L
    <3>2. DOMAIN w = {}
      <4> HIDE DEF N
      <4>1. QED  BY <3>1 DEF TokenWindows
    <3>3. c = <<>>
      <4>1. c = [n \in {} |-> Piece(s[w[n][1]], s[w[n][2]], <<>>)]
        BY <3>2
      <4> HIDE DEF c, s, w
      <4>2. QED  BY <4>1
    <3> HIDE DEF c
    <3>4. 1..Len(c) = {} /\ 1..Len(t) = {} /\ c \in Seq(Ranges(t))
      <4>1. Len(<<>>) = 0
        OBVIOUS
      <4>2. QED  BY <2>1, <3>3, <4>1
    <3>5. QED  BY <3>4
  <2>2. CASE Len(t) # 0
    <3> DEFINE usable == {p \in 1..Len(t) : t[p] \in Sliceable}
    <3>1. /\ N \in Nat \ {0} /\ \A i \in 1..N : s[i] \in 1..Len(t)
          /\ \A i, j \in 1..N : i < j => s[i] < s[j]
          /\ \A p \in usable : \E i \in 1..N : s[i] = p
      <4> DEFINE from == 1
                 to == Len(t)
      <4>1. from \in 1..Len(t) /\ to \in from..Len(t)
        BY <1>1, <2>2
      <4> HIDE DEF from, to
      <4> DEFINE all == TokenSpans(t, from, to)
                 P == {p \in from..to : t[p] \in Sliceable}
      <4>2. /\ Len(all) \in Nat \ {0} /\ \A i \in 1..Len(all) : all[i] \in from..to
            /\ \A i, j \in 1..Len(all) : i < j => all[i] < all[j]
            /\ \/ P = {} /\ \A p \in from..to : \E i \in 1..Len(all) : all[i] = p
               \/ /\ \A i \in 1..Len(all) : all[i] \in P
                  /\ \A p \in P : \E i \in 1..Len(all) : all[i] = p
        BY <4>1, SpansOf
      <4>3. all = s /\ from..to = 1..Len(t) /\ P = usable
        BY DEF from, to
      <4> HIDE DEF all, P, usable
      <4>4. QED  BY <4>2, <4>3
    <3> HIDE DEF usable
    <3>2. PICK m \in 1..N :
             /\ DOMAIN w = 1..m /\ Len(w) = m
             /\ \A n \in 1..m : /\ w[n][1] \in 1..N /\ w[n][2] \in w[n][1]..N
                                /\ w[n][2] - w[n][1] < max
             /\ \A i, j \in 1..m : i < j => w[i][1] < w[j][1]
             /\ \A k \in 1..N : \E n \in 1..m : k \in w[n][1]..w[n][2]
      <4> DEFINE stride == max - Overlap
      <4>1. N \in Nat \ {0} /\ max \in Nat \ {0} /\ stride \in 1..max
        BY <1>1, <3>1
      <4> HIDE DEF N, stride
      <4> DEFINE v == TokenWindows(N, max, stride)
      <4>2. \E m \in 1..N :
               /\ DOMAIN v = 1..m /\ Len(v) = m
               /\ \A n \in 1..m : /\ v[n][1] \in 1..N /\ v[n][2] \in v[n][1]..N
                                  /\ v[n][2] - v[n][1] < max
               /\ \A i, j \in 1..m : i < j => /\ v[i][1] < v[j][1]
                                              /\ stride = max => v[i][2] < v[j][1]
               /\ \A k \in 1..N : \E n \in 1..m : k \in v[n][1]..v[n][2]
        BY <4>1, WindowsOver
      <4>3. v = w
        BY DEF stride
      <4> HIDE DEF v, w
      <4>4. QED  BY <4>2, <4>3
    <3> DEFINE at(n) == Piece(s[w[n][1]], s[w[n][2]], <<>>)
    <3>3. ASSUME NEW n \in 1..m
          PROVE  /\ at(n) \in Ranges(t) /\ HardSplit(t, at(n), max) = <<at(n)>>
                 /\ at(n).first = s[w[n][1]] /\ at(n).last = s[w[n][2]]
      <4> DEFINE a == w[n][1]
                 b == w[n][2]
                 r == Piece(s[a], s[b], <<>>)
      <4>1. a \in 1..N /\ b \in a..N /\ b \in 1..N /\ b - a < max /\ N \in Nat
        BY <3>1, <3>2
      <4> HIDE DEF a, b
      <4>2. s[a] \in 1..Len(t) /\ s[b] \in s[a]..Len(t)
        <5>1. s[a] \in 1..Len(t) /\ s[b] \in 1..Len(t) /\ (a < b => s[a] < s[b])
          BY <3>1, <4>1
        <5>2. a = b \/ a < b
          BY <4>1
        <5>3. QED  BY <5>1, <5>2
      <4>3. r \in Ranges(t) /\ r.first = s[a] /\ r.last = s[b]
        BY <1>1, <1>3, <4>2 DEF Piece, Ranges
      <4> HIDE DEF r
      <4>4. HardSplit(t, r, max) = <<r>>
        <5> DEFINE spans == s
        <5>1. spans = TokenSpans(t, 1, Len(t)) /\ a \in 1..Len(spans) /\ b \in a..Len(spans)
              /\ r.first = spans[a] /\ r.last = spans[b]
          BY <4>1, <4>3 DEF N
        <5> HIDE DEF spans
        <5>2. QED  BY <1>1, <4>1, <4>3, <5>1, WindowStays
      <4>5. at(n) = r
        BY DEF r, a, b
      <4>6. QED  BY <4>3, <4>4, <4>5 DEF a, b
    <3>4. c = [n \in 1..m |-> at(n)]
      BY <3>2
    <3> HIDE DEF at, c, s, w
    <3>5. m \in Nat /\ c \in Seq(Ranges(t)) /\ Len(c) = m /\ \A n \in 1..m : c[n] = at(n)
      <4>1. c \in [1..m -> Ranges(t)]
        BY <3>3, <3>4
      <4>2. m \in Nat
        BY <3>1
      <4>3. QED  BY <3>4, <4>1, <4>2
    <3>6. ASSUME NEW i \in 1..m, NEW j \in 1..m, i < j PROVE c[i].first < c[j].first
      <4>1. w[i][1] \in 1..N /\ w[j][1] \in 1..N /\ w[i][1] < w[j][1]
        BY <3>2, <3>6
      <4>2. s[w[i][1]] < s[w[j][1]]
        BY <3>1, <4>1
      <4>3. QED  BY <3>3, <3>5, <4>2
    <3>7. ASSUME NEW p \in 1..Len(t), t[p] \in Sliceable PROVE \E n \in 1..m : p \in Covered(c[n])
      <4>1. PICK k \in 1..N : s[k] = p
        BY <3>1, <3>7 DEF usable
      <4>2. PICK n \in 1..m : k \in w[n][1]..w[n][2]
        BY <3>2
      <4> DEFINE a == w[n][1]
                 b == w[n][2]
      <4>3. a \in 1..N /\ b \in a..N /\ a <= k /\ k <= b /\ c[n].first = s[a] /\ c[n].last = s[b]
        <5>1. c[n].first = s[a] /\ c[n].last = s[b]
          BY <3>3, <3>5
        <5>2. w[n][1] \in 1..N /\ w[n][2] \in w[n][1]..N
          BY <3>2
        <5>3. k \in a..b /\ k \in 1..N /\ N \in Nat
          BY <3>1, <4>2
        <5>4. a <= k /\ k <= b
          BY <5>2, <5>3
        <5>5. QED  BY <5>1, <5>2, <5>4
      <4> HIDE DEF a, b
      <4>4. b \in 1..N /\ (a = k \/ a < k) /\ (k = b \/ k < b)
        BY <3>1, <4>3
      <4>5. (a < k => s[a] < s[k]) /\ (k < b => s[k] < s[b]) /\ s[a] \in Int /\ s[b] \in Int /\ s[k] \in Int
        BY <3>1, <4>3, <4>4
      <4>6. s[a] <= s[k] /\ s[k] <= s[b]
        BY <4>4, <4>5
      <4>7. QED  BY <4>1, <4>3, <4>5, <4>6 DEF Covered
    <3>8. QED  BY <3>3, <3>5, <3>6, <3>7
  <2>3. QED  BY <2>1, <2>2
<1> HIDE DEF c
<1> DEFINE split(n) == HardSplit(t, c[n], max)
           R == ByStart(t)
           L == Len(c)
<1>5. L \in Nat /\ \A n \in 1..L : c[n] \in Ranges(t) /\ split(n) = <<c[n]>>
  BY <1>4
<1>6. \A n \in 1..L : Len(split(n)) = 1 /\ split(n)[1] = c[n]
  BY <1>5
<1> HIDE DEF split
<1>7. ASSUME NEW n \in 1..L PROVE OrderedBy(split(n), R)
  <2>1. \A i, j \in 1..1 : ~(i < j)
    OBVIOUS
  <2>2. QED  BY <1>6, <2>1 DEF OrderedBy
<1>8. ASSUME NEW m \in 1..L, NEW n \in 1..L, m < n PROVE BeforeAll(split(m), split(n), R)
  <2>1. c[m] \in Ranges(t) /\ c[n] \in Ranges(t) /\ c[m].first < c[n].first
    BY <1>4, <1>5, <1>8
  <2>2. <<c[m], c[n]>> \in R
    BY <2>1 DEF ByStart
  <2>3. \A i \in 1..1 : i = 1
    OBVIOUS
  <2>4. \A i \in 1..Len(split(m)), j \in 1..Len(split(n)) : split(m)[i] = c[m] /\ split(n)[j] = c[n]
    BY <1>6, <2>3
  <2>5. QED  BY <2>2, <2>4 DEF BeforeAll
<1>9. /\ \A n \in 1..Len(c) : OrderedBy(HardSplit(t, c[n], max), R)
      /\ \A m, n \in 1..Len(c) : m < n => BeforeAll(HardSplit(t, c[m], max), HardSplit(t, c[n], max), R)
  BY <1>7, <1>8 DEF split
<1>10. c \in Seq(Ranges(t)) /\ R \in SUBSET ByStart(t)
  BY <1>4
<1>11. CutFrom(t, c, max, result) /\ OrderedBy(result, ByStart(t))
  BY <1>1, <1>9, <1>10, Finalised
<1> HIDE DEF result
<1>12. Sound(t, "fixed", max, out)
  <2>1. \A p \in 1..Len(t) : t[p] \in Sliceable => \E n \in 1..Len(c) : p \in Covered(c[n])
    BY <1>4
  <2>2. QED  BY <1>1, <1>10, <1>11, <2>1, SoundFrom
<1>13. QED  BY <1>2, <1>12
\* Ranges one right after the other from lo to hi.
Tiles(t, list, lo, hi) ==
    /\ list \in Seq(Ranges(t))
    /\ IF list = <<>> THEN hi = lo - 1 ELSE list[1].first = lo /\ list[Len(list)].last = hi
    /\ \A n \in 1..Len(list) : n < Len(list) => list[n + 1].first = list[n].last + 1

\* Tiles do not overlap, stay inside and leave out nothing.
LEMMA Tiled ==
    ASSUME NEW t, NEW list, NEW lo \in Int, NEW hi \in Int, Tiles(t, list, lo, hi)
    PROVE  /\ Apart(list)
           /\ \A n \in 1..Len(list) : lo <= list[n].first /\ list[n].last <= hi
           /\ \A p \in lo..hi : \E n \in 1..Len(list) : p \in Covered(list[n])
<1> DEFINE N == Len(list)
<1>1. /\ N \in Nat /\ DOMAIN list = 1..N
      /\ \A n \in 1..N : list[n].first \in Int /\ list[n].last \in Int /\ list[n].first <= list[n].last
  <2>1. list \in Seq(Ranges(t))
    BY DEF Tiles
  <2>2. \A r \in Ranges(t) : r.first \in Int /\ r.last \in Int /\ r.first <= r.last
    BY DEF Ranges
  <2>3. QED  BY <2>1, <2>2
<1>2. /\ IF N = 0 THEN hi = lo - 1 ELSE list[1].first = lo /\ list[N].last = hi
      /\ \A n \in 1..N : n < N => list[n + 1].first = list[n].last + 1
  <2>1. list = <<>> <=> N = 0
    <3>1. list \in Seq(Ranges(t))
      BY DEF Tiles
    <3>2. QED  BY <3>1
  <2>2. QED  BY <2>1 DEF Tiles
<1> HIDE DEF N
<1>3. ASSUME NEW i \in 1..N PROVE \A j \in 1..N : i < j => list[i].last < list[j].first
  <2> DEFINE T == {j \in 0..N : i < j => list[i].last < list[j].first}
  <2>1. 0 \in T
    BY <1>1
  <2>2. ASSUME NEW j \in 1..N, j - 1 \in T, i < j PROVE list[i].last < list[j].first
    <3>1. j - 1 \in 1..N /\ j - 1 < N /\ (j - 1) + 1 = j
      BY <1>1, <2>2
    <3>2. list[j].first = list[j - 1].last + 1
      <4>1. list[(j - 1) + 1].first = list[j - 1].last + 1
        BY <1>2, <3>1
      <4>2. QED  BY <3>1, <4>1
    <3>3. CASE i = j - 1
      BY <1>1, <3>2, <3>3
    <3>4. CASE i # j - 1
      <4>1. list[i].last < list[j - 1].first
        BY <2>2, <3>4
      <4>2. list[j - 1].first <= list[j - 1].last /\ list[j - 1].first \in Int /\ list[j - 1].last \in Int
            /\ list[i].last \in Int
        BY <1>1, <3>1
      <4>3. QED  BY <3>2, <4>1, <4>2
    <3>5. QED  BY <3>3, <3>4
  <2>3. \A j \in 1..N : j - 1 \in T => j \in T
    BY <1>1, <2>2
  <2> HIDE DEF T
  <2>4. \A j \in 0..N : j \in T
    BY <1>1, <2>1, <2>3, UpTo
  <2>5. QED  BY <1>1, <2>4 DEF T
<1>4. ASSUME NEW n \in 1..N PROVE lo <= list[n].first /\ list[n].last <= hi
  <2>1. N # 0 /\ 1 \in 1..N /\ N \in 1..N
    BY <1>1
  <2>2. list[1].first = lo /\ list[N].last = hi
    BY <1>2, <2>1
  <2>3. (1 < n => list[1].last < list[n].first) /\ (n < N => list[n].last < list[N].first)
    BY <1>3, <2>1
  <2>4. (n = 1 \/ 1 < n) /\ (n = N \/ n < N)
    BY <1>1
  <2>5. /\ list[1].first <= list[1].last /\ list[N].first <= list[N].last
        /\ list[1].first \in Int /\ list[1].last \in Int /\ list[N].first \in Int /\ list[N].last \in Int
        /\ list[n].first \in Int /\ list[n].last \in Int
    BY <1>1, <2>1
  <2>6. lo <= list[n].first
    BY <2>2, <2>3, <2>4, <2>5
  <2>7. list[n].last <= hi
    BY <2>2, <2>3, <2>4, <2>5
  <2>8. QED  BY <2>6, <2>7
<1>5. ASSUME NEW p \in lo..hi PROVE \E n \in 1..N : p \in Covered(list[n])
  <2> DEFINE T == {n \in 1..N : list[n].first <= p}
  <2>1. N # 0
    BY <1>2
  <2>2. 1 \in T
    BY <1>1, <1>2, <2>1
  <2>3. T \in SUBSET (0..N)
    BY <1>1
  <2>4. PICK n \in T : \A k \in T : n >= k
    <3> HIDE DEF T
    <3>1. QED  BY <1>1, <2>2, <2>3, GreatestNatural
  <2>5. n \in 1..N /\ list[n].first <= p /\ list[n].first \in Int /\ list[n].last \in Int
    BY <1>1, <2>4
  <2>6. p <= list[n].last
    <3>1. CASE n = N
      BY <1>2, <2>1, <3>1
    <3>2. CASE n # N
      <4>1. n < N /\ n + 1 \in 1..N /\ ~(n >= n + 1)
        BY <1>1, <2>5, <3>2
      <4>2. n + 1 \notin T
        BY <2>4, <4>1
      <4>3. list[n + 1].first = list[n].last + 1 /\ ~(list[n + 1].first <= p)
        BY <1>2, <2>5, <4>1, <4>2
      <4>4. QED  BY <2>5, <4>3
    <3>3. QED  BY <3>1, <3>2
  <2>7. QED  BY <2>5, <2>6 DEF Covered
<1>6. Apart(list)
  BY <1>1, <1>3 DEF Apart
<1>7. QED  BY <1>4, <1>5, <1>6 DEF N

\* The ranges between starts are tiles; each begins at a start, with the section of that
\* piece, and has no start after it.
LEMMA BetweenTiles ==
    ASSUME NEW t \in Seq(Kinds), NEW lo \in 1..(Len(t) + 1), NEW hi \in (lo - 1)..Len(t), NEW P,
           DOMAIN t \cap P \subseteq lo..hi, lo <= hi => lo \in P, NEW section \in [DOMAIN t -> Seq(Titles)]
    PROVE  LET list == Between(t, P, hi, section)
           IN  /\ Tiles(t, list, lo, hi)
               /\ \A n \in 1..Len(list) :
                     /\ list[n].section = section[list[n].first]
                     /\ \A p \in Covered(list[n]) : p \in P => p = list[n].first
<1> DEFINE from == PlacesIn(t, P)
           N == Len(from)
           end(n) == IF n = N THEN hi ELSE from[n + 1] - 1
           list == [n \in DOMAIN from |-> Piece(from[n], end(n), section[from[n]])]
<1>1. Between(t, P, hi, section) = list
  BY DEF Between
<1>2. Len(t) \in Nat /\ DOMAIN t = 1..Len(t) /\ lo \in Nat /\ lo >= 1 /\ hi \in Int /\ lo - 1 <= hi /\ hi <= Len(t)
  OBVIOUS
<1>3. /\ N \in Nat /\ DOMAIN from = 1..N
      /\ \A n \in 1..N : from[n] \in DOMAIN t \cap P
      /\ \A p \in DOMAIN t \cap P : \E n \in 1..N : from[n] = p
      /\ \A i, j \in 1..N : i < j => from[i] < from[j]
  <2>1. /\ from \in Seq(Int) /\ Len(from) \in Nat /\ DOMAIN from = 1..Len(from)
        /\ \A i \in DOMAIN from : from[i] \in DOMAIN t \cap P
        /\ \A p \in DOMAIN t \cap P : \E i \in DOMAIN from : from[i] = p
        /\ \A i, j \in DOMAIN from : i < j => from[i] < from[j]
    BY PlacesInOrder
  <2> HIDE DEF from
  <2>2. QED  BY <2>1
<1> HIDE DEF from, N
<1>4. \A n \in 1..N : from[n] \in lo..hi /\ from[n] \in 1..Len(t) /\ section[from[n]] \in Seq(Titles)
  <2>1. TAKE n \in 1..N
  <2>2. from[n] \in DOMAIN t /\ from[n] \in lo..hi
    BY <1>3
  <2>3. QED  BY <1>2, <2>2
<1>5. ASSUME NEW n \in 1..N PROVE end(n) \in from[n]..hi /\ (n < N => end(n) = from[n + 1] - 1)
  <2>1. CASE n = N
    BY <1>2, <1>3, <1>4, <2>1
  <2>2. CASE n # N
    <3>1. n + 1 \in 1..N /\ n < n + 1
      BY <1>3, <2>2
    <3>2. from[n] < from[n + 1] /\ from[n] \in lo..hi /\ from[n + 1] \in lo..hi
      BY <1>3, <1>4, <3>1
    <3>3. QED  BY <1>2, <2>2, <3>2
  <2>3. QED  BY <2>1, <2>2
<1> DEFINE at(n) == Piece(from[n], end(n), section[from[n]])
<1>6. \A n \in 1..N : /\ at(n) \in Ranges(t) /\ at(n).first = from[n] /\ at(n).last = end(n)
                      /\ at(n).section = section[from[n]]
  <2>1. TAKE n \in 1..N
  <2>2. end(n) \in from[n]..hi /\ from[n] \in lo..hi /\ from[n] \in 1..Len(t) /\ section[from[n]] \in Seq(Titles)
    BY <1>4, <1>5
  <2> DEFINE e == end(n)
  <2> HIDE DEF end
  <2>3. e \in 1..Len(t) /\ from[n] <= e
    BY <1>2, <2>2
  <2>4. QED  BY <2>2, <2>3 DEF Piece, Ranges
<1>7. list = [n \in 1..N |-> at(n)]
  BY <1>3
<1> HIDE DEF list, at
<1>8. list \in Seq(Ranges(t)) /\ Len(list) = N /\ DOMAIN list = 1..N /\ \A n \in 1..N : list[n] = at(n)
  <2>1. list \in [1..N -> Ranges(t)]
    BY <1>6, <1>7
  <2>2. QED  BY <1>3, <1>7, <2>1
<1>9. Tiles(t, list, lo, hi)
  <2>1. CASE list = <<>>
    <3>1. N = 0
      <4>1. Len(<<>>) = 0
        OBVIOUS
      <4>2. QED  BY <1>8, <2>1, <4>1
    <3>2. DOMAIN t \cap P = {}
      BY <1>3, <3>1
    <3>3. ~(lo <= hi)
      BY <1>2, <3>2
    <3>4. hi = lo - 1
      BY <1>2, <3>3
    <3>5. QED  BY <1>8, <2>1, <3>1, <3>4 DEF Tiles
  <2>2. CASE list # <<>>
    <3>1. N # 0
      <4>1. Len(list) = 0 => list = <<>>
        BY <1>8
      <4>2. QED  BY <1>8, <2>2, <4>1
    <3>2. 1 \in 1..N /\ N \in 1..N
      BY <1>3, <3>1
    <3>3. lo <= hi
      BY <1>2, <1>4, <3>2
    <3>4. lo \in DOMAIN t \cap P
      BY <1>2, <3>3
    <3>5. PICK i \in 1..N : from[i] = lo
      BY <1>3, <3>4
    <3>6. i = 1
      <4>1. 1 < i => from[1] < from[i]
        BY <1>3, <3>2
      <4>2. from[1] \in lo..hi
        BY <1>4, <3>2
      <4>3. QED  BY <1>2, <1>3, <3>5, <4>1, <4>2
    <3>7. list[1].first = lo
      BY <1>6, <1>8, <3>2, <3>5, <3>6
    <3>8. list[N].last = hi
      <4>1. list[N].last = end(N)
        BY <1>6, <1>8, <3>2
      <4>2. QED  BY <4>1
    <3>9. ASSUME NEW n \in 1..N, n < N PROVE list[n + 1].first = list[n].last + 1
      <4>1. n + 1 \in 1..N
        BY <1>3, <3>9
      <4>2. list[n + 1].first = from[n + 1] /\ list[n].last = from[n + 1] - 1
        <5>1. list[n].last = end(n) /\ end(n) = from[n + 1] - 1
          BY <1>5, <1>6, <1>8, <3>9
        <5>2. list[n + 1].first = from[n + 1]
          BY <1>6, <1>8, <4>1
        <5>3. QED  BY <5>1, <5>2
      <4>3. from[n + 1] \in Int
        BY <1>4, <4>1
      <4>4. QED  BY <4>2, <4>3
    <3>10. QED  BY <1>8, <2>2, <3>7, <3>8, <3>9 DEF Tiles
  <2>3. QED  BY <2>1, <2>2
<1>10. ASSUME NEW n \in 1..N
       PROVE  /\ list[n].section = section[list[n].first]
              /\ \A p \in Covered(list[n]) : p \in P => p = list[n].first
  <2>1. list[n].first = from[n] /\ list[n].last = end(n) /\ list[n].section = section[from[n]]
    BY <1>6, <1>8
  <2>2. ASSUME NEW p \in from[n]..end(n), p \in P PROVE p = from[n]
    <3>1. end(n) \in from[n]..hi /\ from[n] \in lo..hi /\ from[n] \in 1..Len(t)
      BY <1>4, <1>5
    <3> DEFINE e == end(n)
    <3> HIDE DEF end
    <3>2. p \in DOMAIN t \cap P /\ p \in Int /\ from[n] \in Int /\ p <= e /\ from[n] <= p /\ e \in Int
      BY <1>2, <2>2, <3>1
    <3>3. PICK j \in 1..N : from[j] = p
      BY <1>3, <3>2
    <3>4. CASE j < n
      BY <1>3, <3>2, <3>3, <3>4
    <3>5. CASE n < j
      <4>1. n < N /\ n + 1 \in 1..N /\ (n + 1 = j \/ n + 1 < j)
        BY <1>3, <3>5
      <4>2. e = from[n + 1] - 1 /\ from[n + 1] \in Int
        BY <1>4, <1>5, <4>1 DEF end
      <4>3. n + 1 < j => from[n + 1] < from[j]
        BY <1>3, <4>1
      <4>4. QED  BY <3>2, <3>3, <4>1, <4>2, <4>3
    <3>6. CASE n = j
      BY <3>3, <3>6
    <3>7. QED  BY <1>3, <3>4, <3>5, <3>6
  <2>3. QED  BY <2>1, <2>2 DEF Covered
<1>11. QED  BY <1>1, <1>8, <1>9, <1>10
\* Tiles of a whole text become sound chunks.
LEMMA TilesSound ==
    ASSUME NEW t \in Seq(Kinds), NEW max \in Nat \ {0}, NEW c, Tiles(t, c, 1, Len(t)), NEW s, s # "fixed",
           s = "recursive" => \A n \in 1..Len(c) : \A p \in Covered(c[n]) : c[n].section = Section(t, p)
    PROVE  Sound(t, s, max, Finalise(t, c, max))
<1> DEFINE hi == Len(t)
           result == Picked(t, c, max)
           out == [n \in DOMAIN result |-> Labelled(t, result[n])]
<1>1. hi \in Int /\ Tiles(t, c, 1, hi)
  OBVIOUS
<1>2. c \in Seq(Ranges(t))
  BY DEF Tiles
<1>3. Apart(c) /\ \A p \in 1..hi : \E n \in 1..Len(c) : p \in Covered(c[n])
  <2> HIDE DEF hi
  <2>1. QED  BY <1>1, Tiled
<1>4. CutFrom(t, c, max, result) /\ Apart(result)
  BY <1>2, <1>3, FinalisedApart
<1> HIDE DEF result
<1>5. Sound(t, s, max, out)
  BY <1>2, <1>3, <1>4, SoundFrom
<1>6. QED  BY <1>5, FinaliseLabels DEF result

\* The groups of the semantic strategy, wherever it cuts.
LEMMA SemanticSound ==
    ASSUME NEW t \in Seq(Kinds), NEW max \in Nat \ {0}, NEW far
    PROVE  Sound(t, "semantic", max, Semantic(t, max, far))
<1> DEFINE P == {1} \cup far
           hi == Len(t)
           section == [p \in DOMAIN t |-> <<>>]
           c == Between(t, P, hi, section)
<1>1. /\ 1 \in 1..(Len(t) + 1) /\ hi \in (1 - 1)..Len(t) /\ DOMAIN t \cap P \subseteq 1..hi /\ 1 \in P
      /\ section \in [DOMAIN t -> Seq(Titles)]
  OBVIOUS
<1> HIDE DEF P, hi, section
<1>2. Tiles(t, c, 1, hi)
  BY <1>1, BetweenTiles
<1> HIDE DEF c
<1>3. Sound(t, "semantic", max, Finalise(t, c, max))
  BY <1>2, TilesSound DEF hi
<1>4. Semantic(t, max, far) = Finalise(t, c, max)
  BY DEF Semantic, c, P, hi, section
<1>5. QED  BY <1>3, <1>4

\* What a heading leaves of a path is a path.
LEMMA PrefixOfPath ==
    ASSUME NEW s \in Seq(Titles), NEW kind \in Kinds, IsHeading(kind)
    PROVE  SubSeq(s, 1, Min({HeadingLevel[kind] - 1, Len(s)})) \in Seq(Titles)
<1> DEFINE a == HeadingLevel[kind] - 1
           b == Len(s)
           m == Min({a, b})
<1>1. a \in Int /\ b \in Int /\ a >= 0 /\ b >= 0
  BY ChunkingAssumption DEF IsHeading
<1>2. m = IF a <= b THEN a ELSE b
  <2> HIDE DEF a, b
  <2>1. QED  BY <1>1, OfPair
<1>3. m \in 0..Len(s)
  BY <1>1, <1>2
<1> HIDE DEF m
<1>4. SubSeq(s, 1, m) \in Seq(Titles)
  BY <1>3
<1>5. QED  BY <1>4 DEF m

\* The section path is a list of titles, and only a heading changes it.
LEMMA SectionSteps ==
    ASSUME NEW t \in Seq(Kinds)
    PROVE  /\ \A p \in 0..Len(t) : Section(t, p) \in Seq(Titles)
           /\ \A p \in 1..Len(t) : ~IsHeading(t[p]) => Section(t, p) = Section(t, p - 1)
           /\ Section(t, 0) = <<>>
           /\ \A p \in 1..Len(t) : Section(t, p) = Under(Section(t, p - 1), t[p])
<1> DEFINE N == Len(t)
           X == Seq(Titles)
           Is(g) == g = [p \in 0..N |-> IF p = 0 THEN <<>> ELSE Under(g[p - 1], t[p])]
           step == [x \in X \X (1..N) |-> Under(x[1], t[x[2]])]
           stack == CHOOSE g : Is(g)
<1>1. N \in Nat /\ \A p \in 1..N : t[p] \in Kinds
  OBVIOUS
<1>2. \A s \in X, kind \in Kinds : Under(s, kind) \in X
  <2>1. TAKE s \in X, kind \in Kinds
  <2>2. HeadingLevel[kind] \in Nat /\ Title[kind] \in Titles
    BY ChunkingAssumption DEF Titles
  <2>3. CASE ~IsHeading(kind)
    BY <2>3 DEF Under
  <2>4. CASE IsHeading(kind)
    <3>1. Append(SubSeq(s, 1, Min({HeadingLevel[kind] - 1, Len(s)})), Title[kind]) \in Seq(Titles)
      <4> DEFINE a == SubSeq(s, 1, Min({HeadingLevel[kind] - 1, Len(s)}))
      <4>1. a \in Seq(Titles)
        BY <2>4, PrefixOfPath
      <4> HIDE DEF a
      <4>2. Append(a, Title[kind]) \in Seq(Titles)
        BY <2>2, <4>1
      <4>3. QED  BY <4>2 DEF a
    <3>2. QED  BY <2>4, <3>1 DEF Under
  <2>5. QED  BY <2>3, <2>4
<1>3. <<>> \in X
  OBVIOUS
<1>31. \A p \in 0..N : Section(t, p) = stack[p]
  BY DEF Section
<1> HIDE DEF X, N
<1>4. step \in [X \X (1..N) -> X]
  <2>1. ASSUME NEW x \in X \X (1..N) PROVE Under(x[1], t[x[2]]) \in X
    <3>1. x[1] \in X /\ x[2] \in 1..N
      OBVIOUS
    <3>2. QED  BY <1>1, <1>2, <3>1
  <2>2. QED  BY <2>1
<1>5. PICK f \in [0..N -> X] : IsFold(f, <<>>, step, N)
  <2> HIDE DEF step
  <2>1. QED  BY <1>1, <1>3, <1>4, FoldDefined
<1>6. Is(f)
  <2>1. ASSUME NEW p \in 0..N PROVE f[p] = IF p = 0 THEN <<>> ELSE Under(f[p - 1], t[p])
    <3>1. CASE p = 0
      BY <1>5, <3>1 DEF IsFold
    <3>2. CASE p # 0
      <4>1. p \in 1..N /\ p - 1 \in 0..N
        BY <1>1, <3>2
      <4>2. f[p] = step[<<f[p - 1], p>>]
        <5> HIDE DEF step
        <5>1. QED  BY <1>5, <4>1 DEF IsFold
      <4>3. <<f[p - 1], p>> \in X \X (1..N)
        BY <4>1
      <4>4. QED  BY <3>2, <4>2, <4>3
    <3>3. QED  BY <3>1, <3>2
  <2>2. f = [p \in 0..N |-> f[p]]
    OBVIOUS
  <2>3. QED  BY <2>1, <2>2
<1>7. Is(stack)
  BY <1>6
<1> HIDE DEF stack
<1>8. stack[0] = <<>> /\ \A p \in 1..N : stack[p] = Under(stack[p - 1], t[p])
  <2>1. 0 \in 0..N /\ \A p \in 1..N : p \in 0..N /\ p # 0
    BY <1>1
  <2>2. QED  BY <1>7, <2>1
<1>9. \A p \in 0..N : stack[p] \in X
  <2>1. ASSUME NEW p \in 1..N, stack[p - 1] \in X PROVE stack[p] \in X
    BY <1>1, <1>2, <1>8, <2>1
  <2>2. stack[0] \in X
    BY <1>3, <1>8
  <2>3. QED  BY <1>1, <2>1, <2>2, FoldType
<1>10. ASSUME NEW p \in 1..N, ~IsHeading(t[p]) PROVE Section(t, p) = Section(t, p - 1)
  <2>1. p \in 0..N /\ p - 1 \in 0..N
    BY <1>1
  <2>2. stack[p] = stack[p - 1]
    BY <1>8, <1>10 DEF Under
  <2>3. QED  BY <1>31, <2>1, <2>2
<1>11. \A p \in 0..N : Section(t, p) \in X
  BY <1>9, <1>31
<1>12. Section(t, 0) = <<>> /\ \A p \in 1..N : Section(t, p) = Under(Section(t, p - 1), t[p])
  <2>1. 0 \in 0..N /\ \A p \in 1..N : p \in 0..N /\ p - 1 \in 0..N
    BY <1>1
  <2>2. QED  BY <1>8, <1>31, <2>1
<1>13. QED  BY <1>10, <1>11, <1>12 DEF N, X

\* The label at a piece is that of the last piece up to it that opens a span.
LEMMA LabelSteps ==
    ASSUME NEW t \in Seq(Kinds)
    PROVE  /\ LabelAt(t, 0) = <<>>
           /\ \A p \in 1..Len(t) :
                 LabelAt(t, p) = IF Label[t[p]] # NoLabel THEN <<Label[t[p]]>> ELSE LabelAt(t, p - 1)
<1> DEFINE N == Len(t)
           Labels == {Label[kind] : kind \in Kinds}
           X == Seq(Labels)
           After(x, kind) == IF Label[kind] # NoLabel THEN <<Label[kind]>> ELSE x
           Is(g) == g = [p \in 0..N |-> IF p = 0 THEN <<>> ELSE After(g[p - 1], t[p])]
           step == [x \in X \X (1..N) |-> After(x[1], t[x[2]])]
           path == CHOOSE g : Is(g)
<1>1. N \in Nat /\ \A p \in 1..N : t[p] \in Kinds
  OBVIOUS
<1>2. \A x \in X, kind \in Kinds : After(x, kind) \in X
  <2>1. \A label \in Labels : <<label>> \in X
    OBVIOUS
  <2>2. \A kind \in Kinds : Label[kind] \in Labels
    OBVIOUS
  <2> HIDE DEF Labels, X
  <2>3. QED  BY <2>1, <2>2
<1>3. <<>> \in X
  OBVIOUS
<1>31. \A p \in 0..N : LabelAt(t, p) = path[p]
  BY DEF LabelAt
<1> HIDE DEF X, N, After
<1>4. step \in [X \X (1..N) -> X]
  <2>1. ASSUME NEW x \in X \X (1..N) PROVE After(x[1], t[x[2]]) \in X
    <3>1. x[1] \in X /\ x[2] \in 1..N
      OBVIOUS
    <3>2. QED  BY <1>1, <1>2, <3>1
  <2>2. QED  BY <2>1
<1>5. PICK f \in [0..N -> X] : IsFold(f, <<>>, step, N)
  <2> HIDE DEF step
  <2>1. QED  BY <1>1, <1>3, <1>4, FoldDefined
<1>6. Is(f)
  <2>1. ASSUME NEW p \in 0..N PROVE f[p] = IF p = 0 THEN <<>> ELSE After(f[p - 1], t[p])
    <3>1. CASE p = 0
      BY <1>5, <3>1 DEF IsFold
    <3>2. CASE p # 0
      <4>1. p \in 1..N /\ p - 1 \in 0..N
        BY <1>1, <3>2
      <4>2. f[p] = step[<<f[p - 1], p>>]
        <5> HIDE DEF step
        <5>1. QED  BY <1>5, <4>1 DEF IsFold
      <4>3. <<f[p - 1], p>> \in X \X (1..N)
        BY <4>1
      <4>4. QED  BY <3>2, <4>2, <4>3
    <3>3. QED  BY <3>1, <3>2
  <2>2. f = [p \in 0..N |-> f[p]]
    OBVIOUS
  <2>3. QED  BY <2>1, <2>2
<1>7. Is(path)
  BY <1>6
<1> HIDE DEF path
<1>8. path[0] = <<>> /\ \A p \in 1..N : path[p] = After(path[p - 1], t[p])
  <2>1. 0 \in 0..N /\ \A p \in 1..N : p \in 0..N /\ p # 0
    BY <1>1
  <2>2. QED  BY <1>7, <2>1
<1>9. LabelAt(t, 0) = <<>> /\ \A p \in 1..N : LabelAt(t, p) = After(LabelAt(t, p - 1), t[p])
  <2>1. 0 \in 0..N /\ \A p \in 1..N : p \in 0..N /\ p - 1 \in 0..N
    BY <1>1
  <2>2. QED  BY <1>8, <1>31, <2>1
<1>10. QED  BY <1>9 DEF N, After

\* A heading never leaves the path empty, so before a path there is no heading.
LEMMA PathStarts ==
    ASSUME NEW t \in Seq(Kinds), \A kind \in Kinds : Label[kind] # NoLabel => IsHeading(kind)
    PROVE  \A p \in 0..Len(t) : Section(t, p) = <<>> => LabelAt(t, p) = <<>>
<1> DEFINE N == Len(t)
           Good == {p \in 0..N : Section(t, p) = <<>> => LabelAt(t, p) = <<>>}
<1>1. N \in Nat /\ \A p \in 1..N : t[p] \in Kinds
  OBVIOUS
<1>2. /\ Section(t, 0) = <<>> /\ LabelAt(t, 0) = <<>>
      /\ \A p \in 1..N : /\ Section(t, p) = Under(Section(t, p - 1), t[p])
                         /\ LabelAt(t, p) = IF Label[t[p]] # NoLabel THEN <<Label[t[p]]>>
                                            ELSE LabelAt(t, p - 1)
  BY SectionSteps, LabelSteps
<1>3. ASSUME NEW p \in 1..N, p - 1 \in Good, Section(t, p) = <<>> PROVE LabelAt(t, p) = <<>>
  <2>1. ~IsHeading(t[p])
    <3>1. SUFFICES ASSUME IsHeading(t[p]) PROVE FALSE
      OBVIOUS
    <3> DEFINE a == SubSeq(Section(t, p - 1), 1, Min({HeadingLevel[t[p]] - 1, Len(Section(t, p - 1))}))
    <3>2. Section(t, p) = Append(a, Title[t[p]])
      BY <1>2, <3>1 DEF Under
    <3>3. Section(t, p) \in Seq(Titles) /\ Section(t, p - 1) \in Seq(Titles)
      <4>1. p \in 0..N /\ p - 1 \in 0..N
        BY <1>1
      <4>2. QED  BY <4>1, SectionSteps
    <3>4. a \in Seq(Titles)
      BY <1>1, <3>1, <3>3, PrefixOfPath
    <3> HIDE DEF a
    <3>5. Append(a, Title[t[p]]) # <<>>
      BY <3>4
    <3>6. QED  BY <1>3, <3>2, <3>5
  <2>2. Label[t[p]] = NoLabel /\ LabelAt(t, p) = LabelAt(t, p - 1)
    BY <1>1, <1>2, <2>1
  <2>3. Section(t, p) = Section(t, p - 1)
    BY <1>2, <2>1 DEF Under
  <2>4. QED  BY <1>3, <2>2, <2>3
<1>4. 0 \in Good /\ \A p \in 1..N : p - 1 \in Good => p \in Good
  <2>1. 0 \in 0..N /\ \A p \in 1..N : p \in 0..N
    BY <1>1
  <2>2. QED  BY <1>2, <1>3, <2>1
<1> HIDE DEF Good
<1>5. \A p \in 0..N : p \in Good
  BY <1>1, <1>4, UpTo
<1>6. QED  BY <1>5 DEF Good

\* The section of a range is that of all its pieces.
TrueOf(t, r) == \A p \in Covered(r) : r.section = Section(t, p)

\* The blocks are tiles of the text whose sections are true of them.
LEMMA BlocksRight ==
    ASSUME NEW t \in Seq(Kinds)
    PROVE  Tiles(t, Blocks(t), 1, Len(t)) /\ \A n \in 1..Len(Blocks(t)) : TrueOf(t, Blocks(t)[n])
<1> DEFINE P == {p \in DOMAIN t : StartsBlock(t, p)}
           hi == Len(t)
           section == [p \in DOMAIN t |-> Section(t, p)]
           list == Between(t, P, hi, section)
<1>1. Blocks(t) = list
  BY DEF Blocks
<1>2. Len(t) \in Nat /\ DOMAIN t = 1..Len(t)
  OBVIOUS
<1>3. \A p \in 1..Len(t) : section[p] = Section(t, p) /\ Section(t, p) \in Seq(Titles)
  <2>1. \A p \in 0..Len(t) : Section(t, p) \in Seq(Titles)
    BY SectionSteps
  <2>2. QED  BY <1>2, <2>1
<1>4. section \in [DOMAIN t -> Seq(Titles)]
  BY <1>2, <1>3
<1> HIDE DEF section
<1>5. \A p \in 1..Len(t) : (p \notin P => ~IsHeading(t[p])) /\ (p = 1 => p \in P)
  BY <1>2 DEF StartsBlock
<1>6. 1 \in 1..(Len(t) + 1) /\ hi \in (1 - 1)..Len(t) /\ DOMAIN t \cap P \subseteq 1..hi /\ (1 <= hi => 1 \in P)
  BY <1>2, <1>5
<1> HIDE DEF P
<1>7. /\ Tiles(t, list, 1, hi)
      /\ \A n \in 1..Len(list) : /\ list[n].section = section[list[n].first]
                                 /\ \A p \in Covered(list[n]) : p \in P => p = list[n].first
  <2> DEFINE lo == 1
  <2>1. /\ lo \in 1..(Len(t) + 1) /\ hi \in (lo - 1)..Len(t) /\ DOMAIN t \cap P \subseteq lo..hi
        /\ lo <= hi => lo \in P
    BY <1>6
  <2> HIDE DEF lo, hi
  <2>2. /\ Tiles(t, list, lo, hi)
        /\ \A n \in 1..Len(list) : /\ list[n].section = section[list[n].first]
                                   /\ \A p \in Covered(list[n]) : p \in P => p = list[n].first
    BY <1>4, <2>1, BetweenTiles
  <2>3. QED  BY <2>2 DEF lo
<1> HIDE DEF list
<1>8. ASSUME NEW n \in 1..Len(list) PROVE TrueOf(t, list[n])
  <2> DEFINE r == list[n]
             W == r.last - r.first
             T == {k \in 0..W : Section(t, r.first + k) = r.section}
  <2>1. r.first \in 1..Len(t) /\ r.last \in 1..Len(t) /\ r.first <= r.last
    <3>1. r \in Ranges(t)
      BY <1>7 DEF Tiles
    <3>2. QED  BY <3>1 DEF Ranges
  <2>2. r.section = Section(t, r.first)
    BY <1>3, <1>7, <2>1
  <2>3. \A p \in Covered(r) : p \in P => p = r.first
    BY <1>7
  <2> HIDE DEF r
  <2>4. 0 \in T /\ W \in Nat
    BY <1>2, <2>1, <2>2
  <2>5. ASSUME NEW k \in 1..W, k - 1 \in T PROVE k \in T
    <3> DEFINE p == r.first + k
    <3>1. p \in 1..Len(t) /\ p \in Covered(r) /\ p # r.first /\ p - 1 = r.first + (k - 1) /\ k \in 0..W
      BY <1>2, <2>1, <2>4 DEF Covered
    <3>2. Section(t, r.first + (k - 1)) = r.section
      BY <2>5
    <3> HIDE DEF p
    <3>3. ~IsHeading(t[p])
      BY <1>5, <2>3, <3>1
    <3>4. Section(t, p) = Section(t, p - 1)
      BY <3>1, <3>3, SectionSteps
    <3>5. QED  BY <3>1, <3>2, <3>4 DEF p
  <2>6. \A k \in 0..W : k \in T
    <3> HIDE DEF T, W
    <3>1. QED  BY <2>4, <2>5, UpTo
  <2>7. ASSUME NEW p \in Covered(r) PROVE r.section = Section(t, p)
    <3>1. p - r.first \in 0..W /\ r.first + (p - r.first) = p
      BY <1>2, <2>1 DEF Covered
    <3>2. Section(t, r.first + (p - r.first)) = r.section
      BY <2>6, <3>1
    <3>3. QED  BY <3>1, <3>2
  <2>8. QED  BY <2>7 DEF TrueOf, r
<1>9. QED  BY <1>1, <1>7, <1>8 DEF hi

\* One range more, of its own or at the end of the last.
LEMMA ExtendedRight ==
    ASSUME NEW t, NEW X, NEW list \in Seq(X), NEW r, NEW joins, joins => list # <<>>
    PROVE  LET e == Extended(list, r, joins)
               N == Len(list)
           IN  \/ /\ joins /\ N \in Nat \ {0}
                  /\ e = [n \in 1..N |-> IF n = N THEN [list[N] EXCEPT !.last = r.last] ELSE list[n]]
               \/ /\ ~joins /\ N \in Nat
                  /\ e = [n \in 1..(N + 1) |-> IF n = N + 1 THEN r ELSE list[n]]
<1> DEFINE N == Len(list)
           e == Extended(list, r, joins)
           w == [list[N] EXCEPT !.last = r.last]
<1>1. CASE joins
  <2>1. N \in Nat \ {0} /\ \A n \in 1..N : list[n] \in X
    BY <1>1
  <2>2. e = Append(SubSeq(list, 1, N - 1), w)
    BY <1>1 DEF Extended, Last, Front
  <2> HIDE DEF e, w
  <2> DEFINE front == SubSeq(list, 1, N - 1)
  <2>3. front \in Seq(X) /\ Len(front) = N - 1 /\ \A n \in 1..(N - 1) : front[n] = list[n]
    <3> DEFINE m == N - 1
    <3>1. m \in 0..Len(list)
      BY <2>1
    <3> HIDE DEF m
    <3> DEFINE cut == SubSeq(list, 1, m)
    <3>2. cut \in Seq(X) /\ Len(cut) = m /\ \A n \in 1..m : cut[n] = list[n]
      BY <3>1
    <3>3. QED  BY <3>2 DEF m
  <2> HIDE DEF front, N
  <2>4. e = [n \in 1..N |-> IF n = N THEN w ELSE list[n]]
    <3> DEFINE Y == X \cup {w}
    <3>1. front \in Seq(Y) /\ w \in Y
      BY <2>3
    <3> HIDE DEF Y
    <3>2. e \in Seq(Y) /\ Len(e) = N /\ (\A n \in 1..(N - 1) : e[n] = front[n]) /\ e[N] = w
      <4>1. e = Append(front, w)
        BY <2>2 DEF front
      <4>2. N - 1 \in Nat /\ (N - 1) + 1 = N
        BY <2>1
      <4>3. Len(front) = N - 1
        BY <2>3
      <4>4. QED  BY <3>1, <4>1, <4>2, <4>3
    <3>3. e = [n \in 1..N |-> e[n]]
      BY <3>2
    <3>4. \A n \in 1..N : e[n] = IF n = N THEN w ELSE list[n]
      <4>1. \A n \in 1..N : n = N \/ n \in 1..(N - 1)
        BY <2>1
      <4>2. \A n \in 1..(N - 1) : n # N
        BY <2>1
      <4>3. QED  BY <2>3, <3>2, <4>1, <4>2
    <3>5. QED  BY <3>3, <3>4
  <2>5. QED  BY <1>1, <2>1, <2>4 DEF N, e, w
<1>2. CASE ~joins
  <2>1. N \in Nat /\ \A n \in 1..N : list[n] \in X
    OBVIOUS
  <2>2. e = Append(list, r)
    BY <1>2 DEF Extended
  <2> DEFINE Y == X \cup {r}
  <2>3. list \in Seq(Y) /\ r \in Y
    OBVIOUS
  <2> HIDE DEF e, Y
  <2>4. e \in Seq(Y) /\ Len(e) = N + 1 /\ (\A n \in 1..N : e[n] = list[n]) /\ e[N + 1] = r
    BY <2>2, <2>3
  <2> HIDE DEF N
  <2>5. e = [n \in 1..(N + 1) |-> e[n]]
    BY <2>4
  <2>6. \A n \in 1..(N + 1) : e[n] = IF n = N + 1 THEN r ELSE list[n]
    <3>1. \A n \in 1..(N + 1) : n = N + 1 \/ n \in 1..N
      BY <2>1
    <3>2. QED  BY <2>4, <3>1
  <2>7. e = [n \in 1..(N + 1) |-> IF n = N + 1 THEN r ELSE list[n]]
    BY <2>5, <2>6
  <2>8. QED  BY <1>2, <2>1, <2>7 DEF N, e
<1>3. QED  BY <1>1, <1>2
\* The tiles grow by the range that follows them.
LEMMA ExtendedTiles ==
    ASSUME NEW t, NEW list, NEW lo \in Int, NEW hi, Tiles(t, list, lo, hi), NEW r \in Ranges(t),
           hi = r.first - 1, NEW joins, joins => list # <<>>
    PROVE  LET e == Extended(list, r, joins)
               N == Len(list)
           IN  /\ Tiles(t, e, lo, r.last)
               /\ \A k \in 1..Len(e) :
                     \/ \E n \in 1..N : e[k] = list[n]
                     \/ ~joins /\ e[k] = r
                     \/ joins /\ N \in 1..N /\ e[k].section = list[N].section
                        /\ Covered(e[k]) = Covered(list[N]) \cup Covered(r)
<1> DEFINE e == Extended(list, r, joins)
           N == Len(list)
           w == [list[N] EXCEPT !.last = r.last]
<1>1. /\ list \in Seq(Ranges(t)) /\ N \in Nat
      /\ \A n \in 1..N : list[n] \in Ranges(t)
      /\ IF N = 0 THEN r.first - 1 = lo - 1 ELSE list[1].first = lo /\ list[N].last = r.first - 1
      /\ \A n \in 1..N : n < N => list[n + 1].first = list[n].last + 1
  <2>1. list \in Seq(Ranges(t))
    BY DEF Tiles
  <2>2. N \in Nat /\ (\A n \in 1..N : list[n] \in Ranges(t)) /\ (list = <<>> <=> N = 0)
    BY <2>1
  <2>3. QED  BY <2>1, <2>2 DEF Tiles
<1>2. \A q \in Ranges(t) : /\ q.first \in Int /\ q.last \in Int /\ q.first <= q.last
                           /\ q.first \in 1..Len(t) /\ q.last \in 1..Len(t) /\ q.section \in Seq(Titles)
                           /\ q = [first |-> q.first, last |-> q.last, section |-> q.section]
  BY DEF Ranges
<1>3. \/ /\ joins /\ N \in Nat \ {0}
         /\ e = [n \in 1..N |-> IF n = N THEN w ELSE list[n]]
      \/ /\ ~joins /\ N \in Nat
         /\ e = [n \in 1..(N + 1) |-> IF n = N + 1 THEN r ELSE list[n]]
  <2> DEFINE X == Ranges(t)
  <2>1. list \in Seq(X)
    BY <1>1
  <2> HIDE DEF X
  <2>2. QED  BY <2>1, ExtendedRight
<1>4. joins => N # 0
  <2>1. list = <<>> => N = 0
    OBVIOUS
  <2>2. QED  BY <1>1, <1>3
<1> HIDE DEF e, N
<1>5. CASE joins
  <2>1. N \in 1..N /\ N \in Nat /\ N # 0 /\ list[N] \in Ranges(t) /\ list[N].last = r.first - 1
    BY <1>1, <1>4, <1>5
  <2> DEFINE q == list[N]
  <2>2. /\ q.first \in 1..Len(t) /\ q.first <= q.last /\ q.last = r.first - 1 /\ q.section \in Seq(Titles)
        /\ r.first <= r.last /\ r.last \in 1..Len(t) /\ r.first \in Int /\ r.last \in Int
        /\ q.first \in Int /\ q.last \in Int
    BY <1>2, <2>1
  <2>3. w = [first |-> q.first, last |-> r.last, section |-> q.section]
    <3>1. q = [first |-> q.first, last |-> q.last, section |-> q.section]
      BY <1>2, <2>1
    <3> HIDE DEF q
    <3>2. [q EXCEPT !.last = r.last] = [first |-> q.first, last |-> r.last, section |-> q.section]
      BY <3>1
    <3>3. QED  BY <3>2 DEF q
  <2> HIDE DEF w, q
  <2>4. w \in Ranges(t) /\ w.first = q.first /\ w.last = r.last /\ w.section = q.section
    BY <2>2, <2>3 DEF Ranges
  <2>5. Covered(w) = Covered(q) \cup Covered(r)
    BY <2>2, <2>4 DEF Covered
  <2>6. e \in Seq(Ranges(t)) /\ Len(e) = N /\ e[N] = w /\ \A n \in 1..N : n # N => e[n] = list[n]
    <3>1. e = [n \in 1..N |-> IF n = N THEN w ELSE list[n]]
      BY <1>3, <1>5
    <3>2. e \in [1..N -> Ranges(t)]
      BY <1>1, <2>4, <3>1
    <3>3. QED  BY <2>1, <3>1, <3>2
  <2>7. e # <<>>
    <3>1. Len(<<>>) = 0
      OBVIOUS
    <3>2. QED  BY <2>1, <2>6, <3>1
  <2>8. e[1].first = lo
    <3>1. 1 \in 1..N /\ list[1].first = lo
      BY <1>1, <2>1
    <3>2. CASE N = 1
      BY <2>4, <2>6, <3>1, <3>2 DEF q
    <3>3. CASE N # 1
      BY <2>6, <3>1, <3>3
    <3>4. QED  BY <3>2, <3>3
  <2>9. ASSUME NEW n \in 1..N, n < N PROVE e[n + 1].first = e[n].last + 1
    <3>1. n # N /\ n + 1 \in 1..N /\ list[n + 1].first = list[n].last + 1 /\ e[n] = list[n]
      BY <1>1, <2>1, <2>6, <2>9
    <3>2. CASE n + 1 = N
      BY <2>4, <2>6, <3>1, <3>2 DEF q
    <3>3. CASE n + 1 # N
      BY <2>6, <3>1, <3>3
    <3>4. QED  BY <3>2, <3>3
  <2>10. Tiles(t, e, lo, r.last)
    BY <2>4, <2>6, <2>7, <2>8, <2>9 DEF Tiles
  <2>11. ASSUME NEW k \in 1..N
         PROVE  \/ \E n \in 1..N : e[k] = list[n]
                \/ joins /\ N \in 1..N /\ e[k].section = list[N].section
                   /\ Covered(e[k]) = Covered(list[N]) \cup Covered(r)
    <3>1. CASE k = N
      BY <1>5, <2>1, <2>4, <2>5, <2>6, <3>1 DEF q
    <3>2. CASE k # N
      BY <2>6, <3>2
    <3>3. QED  BY <3>1, <3>2
  <2>12. QED  BY <2>6, <2>10, <2>11 DEF e, N
<1>6. CASE ~joins
  <2>1. N \in Nat /\ N + 1 \in 1..(N + 1)
    BY <1>1
  <2>2. e \in Seq(Ranges(t)) /\ Len(e) = N + 1 /\ e[N + 1] = r /\ \A n \in 1..N : e[n] = list[n]
    <3>1. e = [n \in 1..(N + 1) |-> IF n = N + 1 THEN r ELSE list[n]]
      BY <1>3, <1>6
    <3>2. \A n \in 1..(N + 1) : n = N + 1 \/ n \in 1..N
      BY <2>1
    <3>3. e \in [1..(N + 1) -> Ranges(t)]
      BY <1>1, <3>1, <3>2
    <3>4. \A n \in 1..N : n \in 1..(N + 1) /\ n # N + 1
      BY <2>1
    <3>5. QED  BY <2>1, <3>1, <3>3, <3>4
  <2>3. e # <<>>
    <3>1. Len(<<>>) = 0
      OBVIOUS
    <3>2. QED  BY <2>1, <2>2, <3>1
  <2>4. e[1].first = lo
    <3>1. CASE N = 0
      <4>1. r.first = lo
        BY <1>1, <1>2, <3>1
      <4>2. QED  BY <2>2, <3>1, <4>1
    <3>2. CASE N # 0
      <4>1. 1 \in 1..N /\ list[1].first = lo
        BY <1>1, <3>2
      <4>2. QED  BY <2>2, <4>1
    <3>3. QED  BY <3>1, <3>2
  <2>5. ASSUME NEW n \in 1..(N + 1), n < N + 1 PROVE e[n + 1].first = e[n].last + 1
    <3>1. n \in 1..N /\ e[n] = list[n]
      BY <2>1, <2>2, <2>5
    <3>2. CASE n = N
      <4>1. N # 0 /\ list[N].last = r.first - 1 /\ r.first \in Int
        BY <1>1, <1>2, <3>1, <3>2
      <4>2. e[n + 1] = r /\ e[n].last = r.first - 1
        BY <2>2, <3>1, <3>2, <4>1
      <4>3. QED  BY <4>1, <4>2
    <3>3. CASE n # N
      <4>1. n < N /\ n + 1 \in 1..N
        BY <2>1, <3>1, <3>3
      <4>2. QED  BY <1>1, <2>2, <3>1, <4>1
    <3>4. QED  BY <3>2, <3>3
  <2>6. Tiles(t, e, lo, r.last)
    BY <2>2, <2>3, <2>4, <2>5 DEF Tiles
  <2>7. ASSUME NEW k \in 1..(N + 1) PROVE (\E n \in 1..N : e[k] = list[n]) \/ (~joins /\ e[k] = r)
    <3>1. k = N + 1 \/ k \in 1..N
      BY <2>1
    <3>2. QED  BY <1>6, <2>2, <3>1
  <2>8. QED  BY <2>2, <2>6, <2>7 DEF e, N
<1>7. QED  BY <1>5, <1>6
\* A list of ranges stays one when it is extended.
AnyRange == [first : Int, last : Int, section : Seq(Titles)]

LEMMA ExtendedType ==
    ASSUME NEW list \in Seq(AnyRange), NEW r \in AnyRange, NEW joins, joins => list # <<>>
    PROVE  Extended(list, r, joins) \in Seq(AnyRange)
<1> DEFINE N == Len(list)
           e == Extended(list, r, joins)
           w == [list[N] EXCEPT !.last = r.last]
           X == AnyRange
<1>1. N \in Nat /\ \A n \in 1..N : list[n] \in X
  OBVIOUS
<1>2. ASSUME NEW q \in X PROVE [q EXCEPT !.last = r.last] \in X
  BY DEF AnyRange
<1>3. \/ /\ joins /\ N \in Nat \ {0}
         /\ e = [n \in 1..N |-> IF n = N THEN w ELSE list[n]]
      \/ /\ ~joins /\ N \in Nat
         /\ e = [n \in 1..(N + 1) |-> IF n = N + 1 THEN r ELSE list[n]]
  <2>1. list \in Seq(X)
    OBVIOUS
  <2> HIDE DEF X
  <2>2. QED  BY <2>1, ExtendedRight
<1>4. r \in X
  OBVIOUS
<1> HIDE DEF e, N, X
<1>5. CASE joins
  <2>1. N \in 1..N /\ e = [n \in 1..N |-> IF n = N THEN w ELSE list[n]]
    BY <1>3, <1>5
  <2>2. w \in X
    BY <1>1, <1>2, <2>1
  <2> HIDE DEF w
  <2>3. e \in [1..N -> X]
    BY <1>1, <2>1, <2>2
  <2>4. QED  BY <1>1, <2>3 DEF e, X
<1>6. CASE ~joins
  <2>1. e = [n \in 1..(N + 1) |-> IF n = N + 1 THEN r ELSE list[n]]
    BY <1>3, <1>6
  <2>2. \A n \in 1..(N + 1) : n = N + 1 \/ n \in 1..N
    BY <1>1
  <2>3. e \in [1..(N + 1) -> X]
    BY <1>1, <1>4, <2>1, <2>2
  <2>4. N + 1 \in Nat
    BY <1>1
  <2>5. QED  BY <2>3, <2>4 DEF e, X
<1>7. QED  BY <1>5, <1>6

\* The groups of sentences of a block are tiles of it, in its section.
LEMMA SplitLargeRight ==
    ASSUME NEW t \in Seq(Kinds), NEW block \in Ranges(t), NEW target
    PROVE  /\ Tiles(t, SplitLarge(t, block, target), block.first, block.last)
           /\ \A n \in 1..Len(SplitLarge(t, block, target)) :
                 SplitLarge(t, block, target)[n].section = block.section
<1> DEFINE lo == block.first
           hi == block.last
           P == SentenceStarts(t, lo, hi)
           section == [p \in DOMAIN t |-> block.section]
           s == Between(t, P, hi, section)
           N == Len(s)
           X == Seq(AnyRange)
           Is(g) == g = [n \in 0..N |-> IF n = 0 THEN <<>> ELSE Group(t, target, g[n - 1], s[n])]
           groups == CHOOSE g : Is(g)
           step == [x \in X \X (1..N) |-> Group(t, target, x[1], s[x[2]])]
<1>1. /\ lo \in 1..Len(t) /\ hi \in lo..Len(t) /\ block.section \in Seq(Titles) /\ Len(t) \in Nat
      /\ DOMAIN t = 1..Len(t)
  BY DEF Ranges
<1>2. SplitLarge(t, block, target) = groups[N]
  BY DEF SplitLarge
<1>3. /\ Tiles(t, s, lo, hi)
      /\ \A n \in 1..N : s[n].section = block.section
  <2>1. /\ lo \in 1..(Len(t) + 1) /\ hi \in (lo - 1)..Len(t)
        /\ DOMAIN t \cap P \subseteq lo..hi /\ (lo <= hi => lo \in P)
    BY <1>1 DEF SentenceStarts
  <2>2. section \in [DOMAIN t -> Seq(Titles)]
    BY <1>1
  <2>3. \A p \in DOMAIN t : section[p] = block.section
    OBVIOUS
  <2> HIDE DEF lo, hi, P, section
  <2>4. /\ Tiles(t, s, lo, hi)
        /\ \A n \in 1..Len(s) : /\ s[n].section = section[s[n].first]
                                /\ \A p \in Covered(s[n]) : p \in P => p = s[n].first
    BY <2>1, <2>2, BetweenTiles
  <2> HIDE DEF s
  <2>5. \A n \in 1..Len(s) : s[n].first \in DOMAIN t
    <3>1. s \in Seq(Ranges(t))
      BY <2>4 DEF Tiles
    <3>2. \A n \in 1..Len(s) : s[n] \in Ranges(t)
      BY <3>1
    <3>3. QED  BY <1>1, <3>2 DEF Ranges
  <2>6. QED  BY <2>3, <2>4, <2>5
<1> HIDE DEF lo, hi, s
<1>4. /\ s \in Seq(Ranges(t)) /\ N \in Nat
      /\ \A n \in 1..N : s[n] \in Ranges(t) /\ s[n] \in AnyRange /\ s[n].first \in Int /\ s[n].last \in Int
      /\ IF N = 0 THEN hi = lo - 1 ELSE s[1].first = lo /\ s[N].last = hi
      /\ \A n \in 1..N : n < N => s[n + 1].first = s[n].last + 1
  <2>1. s \in Seq(Ranges(t))
    BY <1>3 DEF Tiles
  <2>2. N \in Nat /\ (\A n \in 1..N : s[n] \in Ranges(t)) /\ (s = <<>> <=> N = 0)
    BY <2>1
  <2>3. \A r \in Ranges(t) : r \in AnyRange /\ r.first \in Int /\ r.last \in Int
    BY DEF Ranges, AnyRange
  <2>4. QED  BY <1>3, <2>1, <2>2, <2>3 DEF Tiles
<1> HIDE DEF N
<1>5. step \in [X \X (1..N) -> X] /\ <<>> \in X
  <2>1. ASSUME NEW x \in X \X (1..N) PROVE Group(t, target, x[1], s[x[2]]) \in X
    <3>1. x[1] \in Seq(AnyRange) /\ s[x[2]] \in AnyRange
      BY <1>4
    <3> DEFINE list == x[1]
               r == s[x[2]]
               joins == /\ list # <<>>
                        /\ CountTokens(t, Last(list).first, Last(list).last)
                           + CountTokens(t, r.first, r.last) <= target
    <3>2. joins => list # <<>>
      OBVIOUS
    <3>3. Group(t, target, list, r) = Extended(list, r, joins)
      BY DEF Group
    <3> HIDE DEF list, r, joins
    <3>4. list \in Seq(AnyRange) /\ r \in AnyRange
      BY <3>1 DEF list, r
    <3>5. Extended(list, r, joins) \in Seq(AnyRange)
      BY <3>2, <3>4, ExtendedType
    <3>6. QED  BY <3>3, <3>5 DEF list, r
  <2>2. QED  BY <2>1
<1> HIDE DEF X
<1>6. PICK f \in [0..N -> X] : IsFold(f, <<>>, step, N)
  <2> HIDE DEF step
  <2>1. QED  BY <1>4, <1>5, FoldDefined
<1>7. Is(f)
  <2>1. ASSUME NEW n \in 0..N PROVE f[n] = IF n = 0 THEN <<>> ELSE Group(t, target, f[n - 1], s[n])
    <3>1. CASE n = 0
      BY <1>6, <3>1 DEF IsFold
    <3>2. CASE n # 0
      <4>1. n \in 1..N /\ n - 1 \in 0..N
        BY <1>4, <3>2
      <4>2. f[n] = step[<<f[n - 1], n>>]
        <5> HIDE DEF step
        <5>1. QED  BY <1>6, <4>1 DEF IsFold
      <4>3. <<f[n - 1], n>> \in X \X (1..N)
        BY <4>1
      <4>4. QED  BY <3>2, <4>2, <4>3
    <3>3. QED  BY <3>1, <3>2
  <2>2. f = [n \in 0..N |-> f[n]]
    OBVIOUS
  <2>3. QED  BY <2>1, <2>2
<1>8. Is(groups)
  BY <1>7
<1> HIDE DEF groups
<1>9. groups[0] = <<>> /\ \A n \in 1..N : groups[n] = Group(t, target, groups[n - 1], s[n])
  <2>1. 0 \in 0..N /\ \A n \in 1..N : n \in 0..N /\ n # 0
    BY <1>4
  <2>2. QED  BY <1>8, <2>1
<1> DEFINE last(n) == IF n = 0 THEN lo - 1 ELSE s[n].last
           T == {n \in 0..N : /\ Tiles(t, groups[n], lo, last(n))
                              /\ \A k \in 1..Len(groups[n]) : groups[n][k].section = block.section}
<1>10. 0 \in T
  <2>1. <<>> \in Seq(Ranges(t)) /\ Len(<<>>) = 0 /\ 0 \in 0..N
    BY <1>4
  <2>2. Tiles(t, <<>>, lo, lo - 1)
    BY <2>1 DEF Tiles
  <2>3. QED  BY <1>9, <2>1, <2>2
<1>11. ASSUME NEW n \in 1..N, n - 1 \in T PROVE n \in T
  <2> DEFINE list == groups[n - 1]
             r == s[n]
             joins == /\ list # <<>>
                      /\ CountTokens(t, Last(list).first, Last(list).last)
                         + CountTokens(t, r.first, r.last) <= target
             e == Extended(list, r, joins)
  <2>1. groups[n] = e
    BY <1>9 DEF Group
  <2>2. joins => list # <<>>
    OBVIOUS
  <2>3. Tiles(t, list, lo, last(n - 1)) /\ \A k \in 1..Len(list) : list[k].section = block.section
    BY <1>11
  <2>4. r \in Ranges(t) /\ last(n - 1) = r.first - 1 /\ last(n) = r.last /\ r.section = block.section
    <3>1. CASE n = 1
      <4>1. N # 0 /\ s[1].first = lo
        BY <1>4, <3>1
      <4>2. QED  BY <1>3, <1>4, <3>1, <4>1
    <3>2. CASE n # 1
      <4>1. n - 1 \in 1..N /\ n - 1 < N /\ (n - 1) + 1 = n /\ n - 1 # 0
        BY <1>4, <3>2
      <4>2. s[n].first = s[n - 1].last + 1 /\ s[n - 1].last \in Int
        <5>1. s[(n - 1) + 1].first = s[n - 1].last + 1
          BY <1>4, <4>1
        <5>2. QED  BY <1>4, <4>1, <5>1
      <4>3. QED  BY <1>3, <1>4, <4>1, <4>2
    <3>3. QED  BY <3>1, <3>2
  <2>5. lo \in Int
    BY <1>1
  <2> HIDE DEF list, r, joins, last
  <2> DEFINE M == Len(list)
  <2>6. /\ Tiles(t, e, lo, r.last)
        /\ \A k \in 1..Len(e) :
              \/ \E m \in 1..M : e[k] = list[m]
              \/ ~joins /\ e[k] = r
              \/ joins /\ M \in 1..M /\ e[k].section = list[M].section
                 /\ Covered(e[k]) = Covered(list[M]) \cup Covered(r)
    <3>1. Tiles(t, list, lo, last(n - 1)) /\ last(n - 1) = r.first - 1
      BY <2>3, <2>4
    <3>2. QED  BY <2>2, <2>4, <2>5, <3>1, ExtendedTiles
  <2> HIDE DEF e
  <2>7. \A k \in 1..Len(e) : e[k].section = block.section
    BY <2>3, <2>4, <2>6
  <2>8. n \in 0..N
    BY <1>4
  <2>9. QED  BY <2>1, <2>4, <2>6, <2>7, <2>8
<1>12. N \in T
  <2>1. N \in 0..N
    BY <1>4
  <2> HIDE DEF T
  <2>2. \A n \in 0..N : n \in T
    BY <1>4, <1>10, <1>11, UpTo
  <2>3. QED  BY <2>1, <2>2
<1>13. last(N) = hi
  BY <1>4
<1>14. QED  BY <1>2, <1>12, <1>13 DEF lo, hi
\* Tiles after tiles are tiles.
LEMMA JoinedTiles ==
    ASSUME NEW t, NEW s, NEW u, NEW lo \in Int, NEW mid \in Int, NEW hi \in Int,
           Tiles(t, s, lo, mid), Tiles(t, u, mid + 1, hi)
    PROVE  Tiles(t, s \o u, lo, hi)
<1> DEFINE X == Ranges(t)
           r == s \o u
           M == Len(s)
           N == Len(u)
<1>1. /\ s \in Seq(X) /\ u \in Seq(X) /\ M \in Nat /\ N \in Nat
      /\ (s = <<>> <=> M = 0) /\ (u = <<>> <=> N = 0)
  <2>1. s \in Seq(X) /\ u \in Seq(X)
    BY DEF Tiles
  <2> HIDE DEF X
  <2>2. QED  BY <2>1
<1>2. /\ IF M = 0 THEN mid = lo - 1 ELSE s[1].first = lo /\ s[M].last = mid
      /\ IF N = 0 THEN hi = (mid + 1) - 1 ELSE u[1].first = mid + 1 /\ u[N].last = hi
      /\ \A n \in 1..M : n < M => s[n + 1].first = s[n].last + 1
      /\ \A n \in 1..N : n < N => u[n + 1].first = u[n].last + 1
  BY <1>1 DEF Tiles
<1>3. /\ r \in Seq(X) /\ Len(r) = M + N
      /\ \A i \in 1..M : r[i] = s[i]
      /\ \A i \in 1..N : r[M + i] = u[i]
  <2> HIDE DEF X
  <2>1. s \in Seq(X) /\ u \in Seq(X)
    BY <1>1
  <2>2. QED  BY <2>1, Concatenated
<1> HIDE DEF M, N, r
<1>4. r = <<>> <=> M + N = 0
  BY <1>1, <1>3
<1>5. IF r = <<>> THEN hi = lo - 1 ELSE r[1].first = lo /\ r[Len(r)].last = hi
  <2>1. CASE M = 0 /\ N = 0
    BY <1>1, <1>2, <1>4, <2>1
  <2>2. CASE M = 0 /\ N # 0
    <3>1. 1 \in 1..N /\ N \in 1..N /\ M + 1 = 1 /\ M + N = N
      BY <1>1, <2>2
    <3>2. r[1] = u[1] /\ r[N] = u[N]
      <4>1. r[M + 1] = u[1] /\ r[M + N] = u[N]
        BY <1>3, <3>1
      <4>2. QED  BY <3>1, <4>1
    <3>3. u[1].first = mid + 1 /\ u[N].last = hi /\ mid = lo - 1
      BY <1>2, <2>2
    <3>4. mid + 1 = lo
      BY <3>3
    <3>5. QED  BY <1>3, <1>4, <2>2, <3>1, <3>2, <3>3, <3>4
  <2>3. CASE M # 0 /\ N = 0
    <3>1. 1 \in 1..M /\ M \in 1..M /\ M + N = M /\ mid = hi
      BY <1>1, <1>2, <2>3
    <3>2. r[1] = s[1] /\ r[M] = s[M]
      BY <1>3, <3>1
    <3>3. s[1].first = lo /\ s[M].last = mid
      BY <1>2, <2>3
    <3>4. QED  BY <1>3, <1>4, <2>3, <3>1, <3>2, <3>3
  <2>4. CASE M # 0 /\ N # 0
    <3>1. 1 \in 1..M /\ N \in 1..N /\ M + N # 0
      BY <1>1, <2>4
    <3>2. r[1] = s[1] /\ r[M + N] = u[N]
      BY <1>3, <3>1
    <3>3. s[1].first = lo /\ u[N].last = hi
      BY <1>2, <2>4
    <3>4. QED  BY <1>3, <1>4, <3>1, <3>2, <3>3
  <2>5. QED  BY <2>1, <2>2, <2>3, <2>4
<1>6. ASSUME NEW n \in 1..(M + N), n < M + N PROVE r[n + 1].first = r[n].last + 1
  <2>1. CASE n < M
    <3>1. n \in 1..M /\ n + 1 \in 1..M
      BY <1>1, <1>6, <2>1
    <3>2. r[n] = s[n] /\ r[n + 1] = s[n + 1]
      BY <1>3, <3>1
    <3>3. QED  BY <1>2, <2>1, <3>1, <3>2
  <2>2. CASE n = M
    <3>1. M \in 1..M /\ 1 \in 1..N /\ M # 0 /\ N # 0
      BY <1>1, <1>6, <2>2
    <3>2. r[M] = s[M] /\ r[M + 1] = u[1]
      BY <1>3, <3>1
    <3>3. s[M].last = mid /\ u[1].first = mid + 1
      BY <1>2, <3>1
    <3>4. QED  BY <2>2, <3>2, <3>3
  <2>3. CASE n > M
    <3> DEFINE k == n - M
    <3>1. k \in 1..N /\ k < N /\ k + 1 \in 1..N /\ n = M + k /\ n + 1 = M + (k + 1)
      BY <1>1, <1>6, <2>3
    <3> HIDE DEF k
    <3>2. r[n] = u[k] /\ r[n + 1] = u[k + 1]
      BY <1>3, <3>1
    <3>3. u[k + 1].first = u[k].last + 1
      BY <1>2, <3>1
    <3>4. QED  BY <3>2, <3>3
  <2>4. QED  BY <1>1, <1>6, <2>1, <2>2, <2>3
<1>7. QED  BY <1>3, <1>5, <1>6 DEF Tiles, r

\* Tiles of each of the ranges up to a place make tiles up to it.
LEMMA FlatTiles ==
    ASSUME NEW t, NEW X \in SUBSET Ranges(t), NEW lists \in Seq(Seq(X)), NEW N, N = Len(lists), NEW lo \in Int,
           NEW end \in [0..N -> Int], end[0] = lo - 1,
           \A n \in 1..N : Tiles(t, lists[n], end[n - 1] + 1, end[n])
    PROVE  Flat(lists) \in Seq(X) /\ Tiles(t, Flat(lists), lo, end[N])
<1>1. N \in Nat
  OBVIOUS
<1>2. PICK f \in [0..N -> Seq(X)] : /\ f[0] = <<>>
                                    /\ \A n \in 1..N : f[n] = f[n - 1] \o lists[n]
                                    /\ Flat(lists) = f[N]
  BY FlatDefined
<1>3. \A n \in 0..N : f[n] \in Seq(X)
  <2> DEFINE S == Seq(X)
  <2>1. f \in [0..N -> S]
    BY <1>2
  <2> HIDE DEF S
  <2>2. \A n \in 0..N : f[n] \in S
    BY <2>1
  <2>3. QED  BY <2>2 DEF S
<1> DEFINE T == {n \in 0..N : Tiles(t, f[n], lo, end[n])}
<1>4. 0 \in T
  <2>1. f[0] = <<>> /\ end[0] = lo - 1 /\ 0 \in 0..N
    BY <1>1, <1>2
  <2>2. <<>> \in Seq(Ranges(t)) /\ Len(<<>>) = 0
    OBVIOUS
  <2>3. Tiles(t, <<>>, lo, lo - 1)
    BY <2>2 DEF Tiles
  <2>4. QED  BY <2>1, <2>3
<1>5. ASSUME NEW n \in 1..N, n - 1 \in T PROVE n \in T
  <2>1. n - 1 \in 0..N /\ n \in 0..N
    BY <1>1
  <2>2. end[n - 1] \in Int /\ end[n] \in Int
    BY <2>1
  <2> DEFINE mid == end[n - 1]
             hi == end[n]
             s == f[n - 1]
             u == lists[n]
  <2>3. Tiles(t, s, lo, mid) /\ Tiles(t, u, mid + 1, hi) /\ f[n] = s \o u
    BY <1>2, <1>5
  <2>4. mid \in Int /\ hi \in Int
    BY <2>2
  <2> HIDE DEF mid, hi, s, u
  <2>5. Tiles(t, s \o u, lo, hi)
    BY <2>3, <2>4, JoinedTiles
  <2>6. QED  BY <2>1, <2>3, <2>5 DEF hi
<1>6. N \in T
  <2>1. N \in 0..N
    BY <1>1
  <2> HIDE DEF T
  <2>2. \A n \in 0..N : n \in T
    BY <1>1, <1>4, <1>5, UpTo
  <2>3. QED  BY <2>1, <2>2
<1>7. f[N] \in Seq(X)
  BY <1>1, <1>3
<1>8. QED  BY <1>2, <1>6, <1>7

\* A block, or its groups, are tiles of it whose sections are true of them when its own is.
LEMMA FittingRight ==
    ASSUME NEW t \in Seq(Kinds), NEW block \in Ranges(t), NEW target, TrueOf(t, block)
    PROVE  /\ Tiles(t, Fitting(t, block, target), block.first, block.last)
           /\ Fitting(t, block, target) \in Seq({r \in Ranges(t) : TrueOf(t, r)})
<1> DEFINE X == {r \in Ranges(t) : TrueOf(t, r)}
           list == SplitLarge(t, block, target)
           lo == block.first
           hi == block.last
<1>1. CASE CountTokens(t, lo, hi) > target
  <2>1. Fitting(t, block, target) = list
    BY <1>1 DEF Fitting
  <2>2. Tiles(t, list, lo, hi) /\ \A n \in 1..Len(list) : list[n].section = block.section
    BY SplitLargeRight
  <2>3. lo \in Int /\ hi \in Int
    BY DEF Ranges
  <2> HIDE DEF list, lo, hi
  <2>4. \A n \in 1..Len(list) : lo <= list[n].first /\ list[n].last <= hi
    BY <2>2, <2>3, Tiled
  <2>5. list \in Seq(Ranges(t))
    BY <2>2 DEF Tiles
  <2>6. \A n \in 1..Len(list) : list[n] \in Ranges(t)
    BY <2>5
  <2>7. ASSUME NEW n \in 1..Len(list) PROVE TrueOf(t, list[n])
    <3>1. list[n].first \in Int /\ list[n].last \in Int /\ lo <= list[n].first /\ list[n].last <= hi
      BY <2>4, <2>6 DEF Ranges
    <3>2. Covered(list[n]) \subseteq Covered(block)
      BY <2>3, <3>1 DEF Covered, lo, hi
    <3>3. QED  BY <2>2, <3>2 DEF TrueOf
  <2>8. \A n \in 1..Len(list) : list[n] \in X
    BY <2>6, <2>7
  <2> HIDE DEF X
  <2>9. list \in Seq(X)
    <3> DEFINE N == Len(list)
    <3>1. N \in Nat /\ list = [n \in 1..N |-> list[n]]
      BY <2>5
    <3> HIDE DEF N
    <3>2. list \in [1..N -> X]
      BY <2>8, <3>1 DEF N
    <3>3. QED  BY <3>1, <3>2
  <2>10. QED  BY <2>1, <2>2, <2>9 DEF X, lo, hi
<1>2. CASE ~(CountTokens(t, lo, hi) > target)
  <2>1. Fitting(t, block, target) = <<block>>
    BY <1>2 DEF Fitting
  <2>2. block \in X
    OBVIOUS
  <2> HIDE DEF X
  <2>3. /\ <<block>> \in Seq(X) /\ <<block>> \in Seq(Ranges(t)) /\ Len(<<block>>) = 1
        /\ <<block>>[1] = block /\ <<block>> # <<>>
    BY <2>2
  <2>4. \A n \in 1..1 : ~(n < 1)
    OBVIOUS
  <2>5. Tiles(t, <<block>>, lo, hi)
    BY <2>3, <2>4 DEF Tiles
  <2>6. QED  BY <2>1, <2>3, <2>5 DEF X
<1>3. QED  BY <1>1, <1>2
\* The blocks of the recursive strategy, each fitting, merged where the sections agree.
LEMMA RecursiveSound ==
    ASSUME NEW t \in Seq(Kinds), NEW max \in Nat \ {0}
    PROVE  Sound(t, "recursive", max, RecursiveStructural(t, max))
<1> DEFINE blocks == Blocks(t)
           B == Len(blocks)
           fittings == [n \in DOMAIN blocks |-> Fitting(t, blocks[n], max)]
           s == Flat(fittings)
           N == Len(s)
           True == {r \in Ranges(t) : TrueOf(t, r)}
           hi == Len(t)
           X == Seq(AnyRange)
           Is(g) == g = [n \in 0..N |-> IF n = 0 THEN <<>> ELSE Merge(t, max, g[n - 1], s[n])]
           merged == CHOOSE g : Is(g)
           step == [x \in X \X (1..N) |-> Merge(t, max, x[1], s[x[2]])]
<1>1. RecursiveStructural(t, max) = Finalise(t, merged[N], max)
  BY DEF RecursiveStructural
<1>2. Tiles(t, blocks, 1, hi) /\ \A n \in 1..B : TrueOf(t, blocks[n])
  BY BlocksRight
<1> HIDE DEF blocks
<1>3. /\ blocks \in Seq(Ranges(t)) /\ B \in Nat /\ DOMAIN blocks = 1..B /\ hi \in Int
      /\ \A n \in 1..B : /\ blocks[n] \in Ranges(t) /\ blocks[n].first \in Int /\ blocks[n].last \in Int
      /\ IF B = 0 THEN hi = 1 - 1 ELSE blocks[1].first = 1 /\ blocks[B].last = hi
      /\ \A n \in 1..B : n < B => blocks[n + 1].first = blocks[n].last + 1
  <2>1. blocks \in Seq(Ranges(t))
    BY <1>2 DEF Tiles
  <2>2. B \in Nat /\ DOMAIN blocks = 1..B /\ (\A n \in 1..B : blocks[n] \in Ranges(t)) /\ (blocks = <<>> <=> B = 0)
    BY <2>1
  <2>3. \A r \in Ranges(t) : r.first \in Int /\ r.last \in Int
    BY DEF Ranges
  <2>4. hi \in Int
    OBVIOUS
  <2>5. QED  BY <1>2, <2>1, <2>2, <2>3, <2>4 DEF Tiles
<1> HIDE DEF B, hi
<1>4. \A n \in 1..B : /\ fittings[n] \in Seq(True)
                      /\ Tiles(t, fittings[n], blocks[n].first, blocks[n].last)
  <2>1. TAKE n \in 1..B
  <2>2. fittings[n] = Fitting(t, blocks[n], max) /\ blocks[n] \in Ranges(t) /\ TrueOf(t, blocks[n])
    BY <1>2, <1>3
  <2> HIDE DEF fittings
  <2>3. QED  BY <2>2, FittingRight
<1>5. fittings = [n \in 1..B |-> fittings[n]] /\ Len(fittings) = B
  BY <1>3
<1> HIDE DEF fittings
<1>6. s \in Seq(True) /\ Tiles(t, s, 1, hi)
  <2> DEFINE end == [n \in 0..B |-> IF n = 0 THEN 0 ELSE blocks[n].last]
             Y == True
  <2>1. fittings \in Seq(Seq(Y)) /\ Y \in SUBSET Ranges(t)
    <3>1. fittings \in [1..B -> Seq(Y)]
      <4> DEFINE S == Seq(Y)
      <4>1. \A n \in 1..B : fittings[n] \in S
        BY <1>4
      <4> HIDE DEF S
      <4>2. fittings \in [1..B -> S]
        BY <1>5, <4>1
      <4>3. QED  BY <4>2 DEF S
    <3>2. Y \in SUBSET Ranges(t)
      OBVIOUS
    <3> HIDE DEF Y
    <3>3. QED  BY <1>3, <3>1, <3>2
  <2>2. end \in [0..B -> Int]
    <3>1. ASSUME NEW n \in 0..B, n # 0 PROVE blocks[n].last \in Int
      <4>1. n \in 1..B
        BY <1>3, <3>1
      <4>2. QED  BY <1>3, <4>1
    <3>2. QED  BY <3>1
  <2>3. end[0] = 1 - 1 /\ end[B] = hi
    BY <1>3
  <2>4. ASSUME NEW n \in 1..B PROVE Tiles(t, fittings[n], end[n - 1] + 1, end[n])
    <3>1. n \in 0..B /\ n # 0 /\ n - 1 \in 0..B
      BY <1>3
    <3>2. end[n] = blocks[n].last
      BY <3>1
    <3>3. end[n - 1] + 1 = blocks[n].first
      <4>1. CASE n = 1
        <5>1. B # 0 /\ end[n - 1] = 0
          BY <1>3, <3>1, <4>1
        <5>2. QED  BY <1>3, <4>1, <5>1
      <4>2. CASE n # 1
        <5>1. n - 1 \in 1..B /\ n - 1 < B /\ (n - 1) + 1 = n /\ n - 1 # 0
          BY <1>3, <4>2
        <5>2. blocks[(n - 1) + 1].first = blocks[n - 1].last + 1
          BY <1>3, <5>1
        <5>3. end[n - 1] = blocks[n - 1].last
          BY <3>1, <5>1
        <5>4. QED  BY <5>1, <5>2, <5>3
      <4>3. QED  BY <4>1, <4>2
    <3> HIDE DEF end
    <3>4. QED  BY <1>4, <3>2, <3>3
  <2> DEFINE lo == 1
  <2>5. end[0] = lo - 1 /\ lo \in Int
    BY <2>3
  <2> HIDE DEF end, Y, lo
  <2>6. Flat(fittings) \in Seq(Y) /\ Tiles(t, Flat(fittings), lo, end[B])
    BY <1>5, <2>1, <2>2, <2>4, <2>5, FlatTiles
  <2>7. QED  BY <2>3, <2>6 DEF Y, lo
<1> HIDE DEF s
<1>7. /\ N \in Nat
      /\ \A n \in 1..N : /\ s[n] \in Ranges(t) /\ TrueOf(t, s[n]) /\ s[n] \in AnyRange
                         /\ s[n].first \in Int /\ s[n].last \in Int
      /\ IF N = 0 THEN hi = 1 - 1 ELSE s[1].first = 1 /\ s[N].last = hi
      /\ \A n \in 1..N : n < N => s[n + 1].first = s[n].last + 1
  <2>1. N \in Nat /\ (\A n \in 1..N : s[n] \in True) /\ (s = <<>> <=> N = 0)
    BY <1>6
  <2>2. \A r \in Ranges(t) : r \in AnyRange /\ r.first \in Int /\ r.last \in Int
    BY DEF Ranges, AnyRange
  <2>3. \A n \in 1..N : s[n] \in Ranges(t) /\ TrueOf(t, s[n])
    BY <2>1
  <2>4. QED  BY <1>6, <2>1, <2>2, <2>3 DEF Tiles
<1> HIDE DEF N, True
<1>8. step \in [X \X (1..N) -> X] /\ <<>> \in X
  <2>1. ASSUME NEW x \in X \X (1..N) PROVE Merge(t, max, x[1], s[x[2]]) \in X
    <3>1. x[1] \in Seq(AnyRange) /\ s[x[2]] \in AnyRange
      BY <1>7
    <3> DEFINE list == x[1]
               r == s[x[2]]
               joins == /\ list # <<>>
                        /\ SameSection(Last(list), r)
                        /\ CountTokens(t, Last(list).first, r.last) <= max
    <3>2. joins => list # <<>>
      OBVIOUS
    <3>3. Merge(t, max, list, r) = Extended(list, r, joins)
      BY DEF Merge
    <3> HIDE DEF list, r, joins
    <3>4. list \in Seq(AnyRange) /\ r \in AnyRange
      BY <3>1 DEF list, r
    <3>5. Extended(list, r, joins) \in Seq(AnyRange)
      BY <3>2, <3>4, ExtendedType
    <3>6. QED  BY <3>3, <3>5 DEF list, r
  <2>2. QED  BY <2>1
<1> HIDE DEF X
<1>9. PICK f \in [0..N -> X] : IsFold(f, <<>>, step, N)
  <2> HIDE DEF step
  <2>1. QED  BY <1>7, <1>8, FoldDefined
<1>10. Is(f)
  <2>1. ASSUME NEW n \in 0..N PROVE f[n] = IF n = 0 THEN <<>> ELSE Merge(t, max, f[n - 1], s[n])
    <3>1. CASE n = 0
      BY <1>9, <3>1 DEF IsFold
    <3>2. CASE n # 0
      <4>1. n \in 1..N /\ n - 1 \in 0..N
        BY <1>7, <3>2
      <4>2. f[n] = step[<<f[n - 1], n>>]
        <5> HIDE DEF step
        <5>1. QED  BY <1>9, <4>1 DEF IsFold
      <4>3. <<f[n - 1], n>> \in X \X (1..N)
        BY <4>1
      <4>4. QED  BY <3>2, <4>2, <4>3
    <3>3. QED  BY <3>1, <3>2
  <2>2. f = [n \in 0..N |-> f[n]]
    OBVIOUS
  <2>3. QED  BY <2>1, <2>2
<1>11. Is(merged)
  BY <1>10
<1> HIDE DEF merged
<1>12. merged[0] = <<>> /\ \A n \in 1..N : merged[n] = Merge(t, max, merged[n - 1], s[n])
  <2>1. 0 \in 0..N /\ \A n \in 1..N : n \in 0..N /\ n # 0
    BY <1>7
  <2>2. QED  BY <1>11, <2>1
<1> DEFINE last(n) == IF n = 0 THEN 0 ELSE s[n].last
           T == {n \in 0..N : /\ Tiles(t, merged[n], 1, last(n))
                              /\ \A k \in 1..Len(merged[n]) : TrueOf(t, merged[n][k])}
<1>13. 0 \in T
  <2>1. <<>> \in Seq(Ranges(t)) /\ Len(<<>>) = 0 /\ 0 \in 0..N /\ 0 = 1 - 1
    BY <1>7
  <2>2. Tiles(t, <<>>, 1, 0)
    BY <2>1 DEF Tiles
  <2>3. QED  BY <1>12, <2>1, <2>2
<1>14. ASSUME NEW n \in 1..N, n - 1 \in T PROVE n \in T
  <2> DEFINE list == merged[n - 1]
             r == s[n]
             M == Len(list)
             joins == /\ list # <<>>
                      /\ SameSection(Last(list), r)
                      /\ CountTokens(t, Last(list).first, r.last) <= max
             e == Extended(list, r, joins)
  <2>1. merged[n] = e
    BY <1>12 DEF Merge
  <2>2. joins => list # <<>> /\ list[M].section = r.section
    BY DEF SameSection, Last
  <2>3. Tiles(t, list, 1, last(n - 1)) /\ \A k \in 1..M : TrueOf(t, list[k])
    BY <1>14
  <2>4. r \in Ranges(t) /\ last(n - 1) = r.first - 1 /\ last(n) = r.last /\ TrueOf(t, r)
    <3>1. CASE n = 1
      <4>1. N # 0 /\ s[1].first = 1
        BY <1>7, <3>1
      <4>2. QED  BY <1>7, <3>1, <4>1
    <3>2. CASE n # 1
      <4>1. n - 1 \in 1..N /\ n - 1 < N /\ (n - 1) + 1 = n /\ n - 1 # 0
        BY <1>7, <3>2
      <4>2. s[n].first = s[n - 1].last + 1 /\ s[n - 1].last \in Int
        <5>1. s[(n - 1) + 1].first = s[n - 1].last + 1
          BY <1>7, <4>1
        <5>2. QED  BY <1>7, <4>1, <5>1
      <4>3. QED  BY <1>7, <4>1, <4>2
    <3>3. QED  BY <3>1, <3>2
  <2> DEFINE lo == 1
  <2>5. Tiles(t, list, lo, last(n - 1)) /\ lo \in Int
    BY <2>3
  <2> HIDE DEF list, r, joins, last, lo
  <2>6. /\ Tiles(t, e, lo, r.last)
        /\ \A k \in 1..Len(e) :
              \/ \E m \in 1..M : e[k] = list[m]
              \/ ~joins /\ e[k] = r
              \/ joins /\ M \in 1..M /\ e[k].section = list[M].section
                 /\ Covered(e[k]) = Covered(list[M]) \cup Covered(r)
    BY <2>2, <2>4, <2>5, ExtendedTiles
  <2> HIDE DEF e, M
  <2>7. ASSUME NEW k \in 1..Len(e) PROVE TrueOf(t, e[k])
    <3>1. CASE \E m \in 1..M : e[k] = list[m]
      BY <2>3, <3>1
    <3>2. CASE e[k] = r
      BY <2>4, <3>2
    <3>3. CASE joins /\ M \in 1..M /\ e[k].section = list[M].section
               /\ Covered(e[k]) = Covered(list[M]) \cup Covered(r)
      <4>1. TrueOf(t, list[M]) /\ TrueOf(t, r) /\ list[M].section = r.section
        BY <2>2, <2>3, <2>4, <3>3
      <4>2. QED  BY <3>3, <4>1 DEF TrueOf
    <3>4. QED  BY <2>6, <3>1, <3>2, <3>3
  <2>8. n \in 0..N
    BY <1>7
  <2>9. Tiles(t, e, 1, last(n))
    BY <2>4, <2>6 DEF lo
  <2>10. QED  BY <2>1, <2>7, <2>8, <2>9
<1>15. N \in T
  <2>1. N \in 0..N
    BY <1>7
  <2> HIDE DEF T
  <2>2. \A n \in 0..N : n \in T
    BY <1>7, <1>13, <1>14, UpTo
  <2>3. QED  BY <2>1, <2>2
<1>16. last(N) = hi
  BY <1>7
<1>17. Tiles(t, merged[N], 1, hi) /\ \A k \in 1..Len(merged[N]) : TrueOf(t, merged[N][k])
  BY <1>15, <1>16
<1> DEFINE c == merged[N]
<1>18. Tiles(t, c, 1, Len(t)) /\ \A k \in 1..Len(c) : \A p \in Covered(c[k]) : c[k].section = Section(t, p)
  BY <1>17 DEF TrueOf, hi
<1> HIDE DEF c
<1>19. Sound(t, "recursive", max, Finalise(t, c, max))
  BY <1>18, TilesSound
<1>20. QED  BY <1>1, <1>19 DEF c

\* What is chunked is a text of the corpus at a configured size, and what was returned is sound.
ChunkInv ==
    /\ text \in Bodies /\ size \in Sizes
    /\ chunked => Sound(text, strategy, size, chunkList)

LEMMA ChunkInitially ==
    ASSUME NEW t \in Bodies, NEW s, NEW n \in Sizes, ChunkStart(t, s, n)
    PROVE  ChunkInv
BY DEF ChunkStart, ChunkInv

LEMMA ChunkRight ==
    ASSUME ChunkInv, Chunk
    PROVE  ChunkInv'
<1>1. text \in Seq(Kinds) /\ size \in Nat \ {0} /\ size > Overlap
  <2>1. size \in Nat /\ size > Overlap /\ Overlap \in Nat /\ text \in Seq(Kinds)
    BY ChunkingAssumption DEF ChunkInv
  <2>2. QED  BY <2>1
<1>2. text' = text /\ strategy' = strategy /\ size' = size
  BY DEF Chunk
<1>3. Sound(text, strategy, size, chunkList')
  <2>1. CASE strategy = "fixed" /\ chunkList' = FixedToken(text, size)
    BY <1>1, <2>1, FixedSound
  <2>2. CASE strategy = "recursive" /\ chunkList' = RecursiveStructural(text, size)
    BY <1>1, <2>2, RecursiveSound
  <2>3. CASE strategy = "semantic" /\ \E far \in Divergent(text) : chunkList' = Semantic(text, size, far)
    BY <1>1, <2>3, SemanticSound
  <2>4. QED  BY <2>1, <2>2, <2>3 DEF Chunk
<1>4. QED  BY <1>2, <1>3 DEF ChunkInv

LEMMA ChunkKept == ChunkInv /\ [Chunk]_chunkVars => ChunkInv'
<1>1. ChunkInv /\ UNCHANGED chunkVars => ChunkInv'
  BY DEF ChunkInv, chunkVars
<1>2. QED  BY <1>1, ChunkRight

----------------------------------------------------------------------------
\* Migrations.

USE MigrateAssumption, DownloadAssumption

SqlSet == ToSet(SqlFiles)
Transaction == [ran : SUBSET SqlSet, rows : SUBSET SqlSet]

MigrateTypeOK ==
    /\ present \subseteq SqlSet /\ recorded \subseteq SqlSet
    /\ DOMAIN effects = SqlSet
    /\ doing \in [Migrators -> {"off", "reading", "deciding", "applying", "recorded"}]
    /\ found \in [Migrators -> SUBSET SqlSet] /\ discovered \in [Migrators -> SUBSET SqlSet]
    /\ plan \in [Migrators -> Seq(SqlSet)]
    /\ pending \in [Migrators -> Transaction]

\* A file's statements are committed with its row.
CommittedOnce == \A f \in SqlSet : effects[f] = (IF f \in recorded THEN 1 ELSE 0)

\* An open transaction has the statements of the file at hand, then the row too,
\* which was not recorded before.
AtHand(m) ==
    /\ doing[m] = "applying" => plan[m] # <<>> /\ pending[m] = [ran |-> {Head(plan[m])}, rows |-> {}]
    /\ doing[m] = "recorded" => /\ plan[m] # <<>> /\ Head(plan[m]) \notin recorded
                                /\ pending[m] = [ran |-> {Head(plan[m])}, rows |-> {Head(plan[m])}]
    /\ doing[m] \notin {"applying", "recorded"} => pending[m] = None

\* PostgreSQL lets one open transaction have a row.
OneHolder == \A m, n \in Migrators : m # n => pending[m].rows \cap pending[n].rows = {}

\* What a migrator read at its start is still recorded, and what it saw and did not
\* apply yet is ahead of it.
PlanComplete(m) ==
    /\ found[m] \subseteq recorded
    /\ discovered[m] \subseteq recorded \cup Range(plan[m])

MigrateInv ==
    /\ MigrateTypeOK /\ CommittedOnce /\ OneHolder
    /\ \A m \in Migrators : AtHand(m) /\ PlanComplete(m)

LEMMA MigrateInitially == \A seen \in SUBSET SqlSet : MigrateStart(seen) => MigrateInv
BY DEF MigrateStart, MigrateInv, MigrateTypeOK, CommittedOnce, OneHolder, AtHand, PlanComplete,
       Transaction, None, SqlSet

\* A list that is not empty is its head and the rest.
LEMMA HeadAndTail ==
    ASSUME NEW X, NEW s \in Seq(X), s # <<>>
    PROVE  Head(s) \in X /\ Tail(s) \in Seq(X) /\ Range(s) = {Head(s)} \cup Range(Tail(s))
<1>1. /\ Len(s) \in Nat /\ Len(s) > 0 /\ DOMAIN s = 1..Len(s)
      /\ Tail(s) \in Seq(X) /\ Head(s) = s[1] /\ Head(s) \in X
      /\ DOMAIN Tail(s) = 1..(Len(s) - 1)
      /\ \A i \in 1..(Len(s) - 1) : Tail(s)[i] = s[i + 1]
  OBVIOUS
<1>2. \A i \in 1..Len(s) : i = 1 \/ i - 1 \in 1..(Len(s) - 1)
  BY <1>1
<1>3. Range(s) \subseteq {Head(s)} \cup Range(Tail(s))
  <2>1. SUFFICES ASSUME NEW i \in 1..Len(s) PROVE s[i] \in {Head(s)} \cup Range(Tail(s))
    BY <1>1 DEF Range
  <2>2. CASE i = 1
    BY <1>1, <2>2
  <2>3. CASE i - 1 \in 1..(Len(s) - 1)
    <3>1. Tail(s)[i - 1] = s[i]
      BY <1>1, <2>3
    <3>2. QED  BY <1>1, <2>3, <3>1 DEF Range
  <2>4. QED  BY <1>2, <2>2, <2>3
<1>4. Range(Tail(s)) \subseteq Range(s)
  <2>1. \A i \in 1..(Len(s) - 1) : i + 1 \in 1..Len(s)
    BY <1>1
  <2>2. QED  BY <1>1, <2>1 DEF Range
<1>5. Head(s) \in Range(s)
  BY <1>1 DEF Range
<1>6. QED  BY <1>1, <1>3, <1>4, <1>5

LEMMA DiscoverKept == ASSUME MigrateInv, NEW m \in Migrators, Discover(m) PROVE MigrateInv'
<1> DEFINE seen == Filtered(SqlFiles, SqlSet \ present)
<1>1. seen \in Seq(SqlSet) /\ Range(seen) = present
  <2>1. SqlFiles \in Seq(SqlSet) /\ Range(SqlFiles) = SqlSet
    BY DEF SqlSet, ToSet, Range
  <2>2. Filtered(SqlFiles, SqlSet \ present) \in Seq(SqlSet)
        /\ Range(Filtered(SqlFiles, SqlSet \ present)) = Range(SqlFiles) \ (SqlSet \ present)
    BY <2>1, FilteredProperties
  <2>3. present \subseteq SqlSet
    BY DEF MigrateInv, MigrateTypeOK
  <2>4. QED  BY <2>1, <2>2, <2>3
<1>2. /\ doing[m] = "off" /\ discovered' = [discovered EXCEPT ![m] = present]
      /\ plan' = [plan EXCEPT ![m] = seen] /\ doing' = [doing EXCEPT ![m] = "reading"]
      /\ UNCHANGED <<present, effects, recorded, found, pending>>
  BY DEF Discover, SqlSet
<1> HIDE DEF seen
<1>3. MigrateTypeOK'
  BY <1>1, <1>2 DEF MigrateInv, MigrateTypeOK
<1>4. CommittedOnce' /\ OneHolder'
  BY <1>2 DEF MigrateInv, CommittedOnce, OneHolder
<1>5. ASSUME NEW n \in Migrators PROVE AtHand(n)' /\ PlanComplete(n)'
  <2>1. CASE n = m
    BY <1>1, <1>2, <2>1 DEF MigrateInv, MigrateTypeOK, AtHand, PlanComplete
  <2>2. CASE n # m
    BY <1>2, <2>2 DEF MigrateInv, MigrateTypeOK, AtHand, PlanComplete
  <2>3. QED  BY <2>1, <2>2
<1>6. QED  BY <1>3, <1>4, <1>5 DEF MigrateInv

LEMMA ReadRecordedKept == ASSUME MigrateInv, NEW m \in Migrators, ReadRecorded(m) PROVE MigrateInv'
<1>1. MigrateTypeOK' /\ CommittedOnce' /\ OneHolder'
  BY DEF MigrateInv, MigrateTypeOK, CommittedOnce, OneHolder, ReadRecorded
<1>2. \A n \in Migrators : AtHand(n)' /\ PlanComplete(n)'
  BY DEF MigrateInv, MigrateTypeOK, AtHand, PlanComplete, ReadRecorded
<1>3. QED  BY <1>1, <1>2 DEF MigrateInv

LEMMA SkipFileKept == ASSUME MigrateInv, NEW m \in Migrators, SkipFile(m) PROVE MigrateInv'
<1>1. plan[m] \in Seq(SqlSet) /\ plan[m] # <<>>
  BY DEF MigrateInv, MigrateTypeOK, SkipFile
<1>2. Tail(plan[m]) \in Seq(SqlSet) /\ Range(plan[m]) = {Head(plan[m])} \cup Range(Tail(plan[m]))
  BY <1>1, HeadAndTail
<1>3. MigrateTypeOK' /\ CommittedOnce' /\ OneHolder'
  BY <1>2 DEF MigrateInv, MigrateTypeOK, CommittedOnce, OneHolder, SkipFile
<1>4. ASSUME NEW n \in Migrators PROVE AtHand(n)' /\ PlanComplete(n)'
  <2>1. CASE n = m
    BY <1>2, <2>1 DEF MigrateInv, MigrateTypeOK, AtHand, PlanComplete, SkipFile
  <2>2. CASE n # m
    BY <2>2 DEF MigrateInv, MigrateTypeOK, AtHand, PlanComplete, SkipFile
  <2>3. QED  BY <2>1, <2>2
<1>5. QED  BY <1>3, <1>4 DEF MigrateInv

LEMMA ApplyFileKept == ASSUME MigrateInv, NEW m \in Migrators, ApplyFile(m) PROVE MigrateInv'
<1>1. Head(plan[m]) \in SqlSet
  <2>1. plan[m] \in Seq(SqlSet) /\ plan[m] # <<>>
    BY DEF MigrateInv, MigrateTypeOK, ApplyFile
  <2>2. QED  BY <2>1, HeadAndTail
<1>2. pending' = [pending EXCEPT ![m] = [ran |-> {Head(plan[m])}, rows |-> {}]]
  BY DEF ApplyFile
<1>3. MigrateTypeOK'
  <2>1. [ran |-> {Head(plan[m])}, rows |-> {}] \in Transaction
    BY <1>1 DEF Transaction
  <2>2. QED  BY <1>2, <2>1 DEF MigrateInv, MigrateTypeOK, ApplyFile
<1>4. CommittedOnce' /\ OneHolder'
  <2>1. \A n \in Migrators : pending'[n].rows = IF n = m THEN {} ELSE pending[n].rows
    BY <1>2 DEF MigrateInv, MigrateTypeOK
  <2>2. QED  BY <2>1 DEF MigrateInv, CommittedOnce, OneHolder, ApplyFile
<1>5. ASSUME NEW n \in Migrators PROVE AtHand(n)' /\ PlanComplete(n)'
  <2>1. CASE n = m
    BY <1>2, <2>1 DEF MigrateInv, MigrateTypeOK, AtHand, PlanComplete, ApplyFile
  <2>2. CASE n # m
    BY <1>2, <2>2 DEF MigrateInv, MigrateTypeOK, AtHand, PlanComplete, ApplyFile
  <2>3. QED  BY <2>1, <2>2
<1>6. QED  BY <1>3, <1>4, <1>5 DEF MigrateInv

\* The row is nobody else's, committed or not.
LEMMA RecordFileKept == ASSUME MigrateInv, NEW m \in Migrators, RecordFile(m) PROVE MigrateInv'
<1> DEFINE h == Head(plan[m])
<1>1. plan[m] # <<>> /\ pending[m] = [ran |-> {h}, rows |-> {}]
  BY DEF MigrateInv, AtHand, RecordFile
<1>2. h \in SqlSet
  <2>1. plan[m] \in Seq(SqlSet)
    BY DEF MigrateInv, MigrateTypeOK
  <2>2. QED  BY <1>1, <2>1, HeadAndTail
<1>3. /\ doing[m] = "applying" /\ h \notin recorded
      /\ \A n \in Migrators : h \notin pending[n].rows
      /\ doing' = [doing EXCEPT ![m] = "recorded"]
      /\ UNCHANGED <<present, effects, recorded, found, discovered, plan>>
  BY DEF RecordFile, SameTransaction
<1>4. pending' = [pending EXCEPT ![m] = [ran |-> {h}, rows |-> {h}]]
  BY <1>1 DEF RecordFile, SameTransaction
<1>5. MigrateTypeOK'
  BY <1>2, <1>3, <1>4 DEF MigrateInv, MigrateTypeOK, Transaction
<1>6. CommittedOnce'
  BY <1>3 DEF MigrateInv, CommittedOnce
<1>7. OneHolder'
  <2>1. \A n \in Migrators : pending'[n].rows = IF n = m THEN {h} ELSE pending[n].rows
    BY <1>4 DEF MigrateInv, MigrateTypeOK
  <2>2. QED  BY <1>3, <2>1 DEF MigrateInv, OneHolder
<1>8. ASSUME NEW n \in Migrators PROVE AtHand(n)' /\ PlanComplete(n)'
  <2>1. CASE n = m
    BY <1>1, <1>3, <1>4, <2>1 DEF MigrateInv, MigrateTypeOK, AtHand, PlanComplete
  <2>2. CASE n # m
    BY <1>3, <1>4, <2>2 DEF MigrateInv, MigrateTypeOK, AtHand, PlanComplete
  <2>3. QED  BY <2>1, <2>2
<1>9. QED  BY <1>5, <1>6, <1>7, <1>8 DEF MigrateInv

\* A commit makes one file's statements and its row permanent.
LEMMA CommitFileKept == ASSUME MigrateInv, NEW m \in Migrators, CommitFile(m) PROVE MigrateInv'
<1> DEFINE h == Head(plan[m])
<1>1. /\ plan[m] # <<>> /\ h \notin recorded
      /\ pending[m] = [ran |-> {h}, rows |-> {h}]
  BY DEF MigrateInv, AtHand, CommitFile
<1>2. /\ h \in SqlSet /\ Tail(plan[m]) \in Seq(SqlSet)
      /\ Range(plan[m]) = {h} \cup Range(Tail(plan[m]))
  <2>1. plan[m] \in Seq(SqlSet)
    BY DEF MigrateInv, MigrateTypeOK
  <2>2. QED  BY <1>1, <2>1, HeadAndTail
<1>3. /\ effects' = [f \in SqlSet |-> effects[f] + (IF f = h THEN 1 ELSE 0)]
      /\ recorded' = recorded \cup {h}
      /\ pending' = [pending EXCEPT ![m] = None]
      /\ plan' = [plan EXCEPT ![m] = Tail(@)]
      /\ doing' = [doing EXCEPT ![m] = "deciding"]
      /\ UNCHANGED <<present, found, discovered>>
  BY <1>1 DEF CommitFile, Committed, MigrateInv, MigrateTypeOK
<1> HIDE DEF h
<1>4. MigrateTypeOK'
  BY <1>2, <1>3 DEF MigrateInv, MigrateTypeOK, Transaction, None
<1>5. CommittedOnce'
  BY <1>1, <1>2, <1>3 DEF MigrateInv, CommittedOnce
<1>6. OneHolder'
  <2>1. \A n \in Migrators : pending'[n].rows = IF n = m THEN {} ELSE pending[n].rows
    BY <1>3 DEF MigrateInv, MigrateTypeOK, None
  <2>2. QED  BY <2>1 DEF MigrateInv, OneHolder
<1>7. ASSUME NEW n \in Migrators PROVE AtHand(n)' /\ PlanComplete(n)'
  <2>1. CASE n = m
    BY <1>2, <1>3, <2>1 DEF MigrateInv, MigrateTypeOK, AtHand, PlanComplete
  <2>2. CASE n # m
    <3>1. doing'[n] = doing[n] /\ plan'[n] = plan[n] /\ pending'[n] = pending[n]
      BY <1>3, <2>2 DEF MigrateInv, MigrateTypeOK
    <3>2. h \notin pending[n].rows
      BY <1>1, <2>2 DEF MigrateInv, OneHolder
    <3>3. AtHand(n)'
      <4>1. AtHand(n)
        BY DEF MigrateInv
      <4>2. doing[n] = "recorded" => Head(plan[n]) \notin recorded'
        <5>1. SUFFICES ASSUME doing[n] = "recorded" PROVE Head(plan[n]) \notin recorded'
          OBVIOUS
        <5>2. pending[n].rows = {Head(plan[n])} /\ Head(plan[n]) \notin recorded
          BY <4>1, <5>1 DEF AtHand
        <5>3. QED  BY <1>3, <3>2, <5>2
      <4>3. QED  BY <3>1, <4>1, <4>2 DEF AtHand
    <3>4. PlanComplete(n)'
      BY <1>3, <3>1 DEF MigrateInv, PlanComplete
    <3>5. QED  BY <3>3, <3>4
  <2>3. QED  BY <2>1, <2>2
<1>8. QED  BY <1>4, <1>5, <1>6, <1>7 DEF MigrateInv

\* A migrator that ends or is killed leaves what was committed.
LEMMA LeaveKept == ASSUME MigrateInv, NEW m \in Migrators, Leave(m) PROVE MigrateInv'
<1>1. <<>> \in Seq(SqlSet)
  OBVIOUS
<1>2. MigrateTypeOK' /\ CommittedOnce'
  BY <1>1 DEF MigrateInv, MigrateTypeOK, CommittedOnce, Transaction, None, Leave
<1>3. OneHolder'
  <2>1. \A n \in Migrators : pending'[n].rows = IF n = m THEN {} ELSE pending[n].rows
    BY DEF MigrateInv, MigrateTypeOK, None, Leave
  <2>2. QED  BY <2>1 DEF MigrateInv, OneHolder
<1>4. ASSUME NEW n \in Migrators PROVE AtHand(n)' /\ PlanComplete(n)'
  <2>1. CASE n = m
    BY <2>1 DEF MigrateInv, MigrateTypeOK, AtHand, PlanComplete, Leave
  <2>2. CASE n # m
    BY <2>2 DEF MigrateInv, MigrateTypeOK, AtHand, PlanComplete, Leave
  <2>3. QED  BY <2>1, <2>2
<1>5. QED  BY <1>2, <1>3, <1>4 DEF MigrateInv

LEMMA AddFileKept == MigrateInv /\ AddFile => MigrateInv'
BY DEF MigrateInv, MigrateTypeOK, CommittedOnce, OneHolder, AtHand, PlanComplete, AddFile, SqlSet

LEMMA MigrateKept == MigrateInv /\ [MigrateNext]_migrateVars => MigrateInv'
<1> SUFFICES ASSUME MigrateInv, [MigrateNext]_migrateVars PROVE MigrateInv'
  OBVIOUS
<1>1. CASE UNCHANGED migrateVars
  BY <1>1 DEF MigrateInv, MigrateTypeOK, CommittedOnce, OneHolder, AtHand, PlanComplete, migrateVars
<1>2. CASE AddFile
  BY <1>2, AddFileKept
<1>3. ASSUME NEW m \in Migrators,
             \/ Discover(m) \/ ReadRecorded(m) \/ SkipFile(m) \/ ApplyFile(m)
             \/ RecordFile(m) \/ CommitFile(m) \/ Leave(m)
      PROVE  MigrateInv'
  BY <1>3, DiscoverKept, ReadRecordedKept, SkipFileKept, ApplyFileKept, RecordFileKept,
     CommitFileKept, LeaveKept
<1>4. QED  BY <1>1, <1>2, <1>3 DEF MigrateNext

----------------------------------------------------------------------------
\* The corpus download.

Active == {"harvesting", "papers", "fetching", "rendering", "filing", "recording", "rewriting", "closing"}
OnPaper == {"fetching", "rendering", "filing", "recording", "rewriting"}

Harvests == {ks \in Seq(Papers) : Len(ks) <= Limit /\ Injective(ks)}

DownloadTypeOK ==
    /\ files \in [Papers -> Renderings \cup {Nothing, Half}]
    /\ entries \in Manifests /\ manifest \in Manifests \cup {Nothing, Half}
    /\ stage \in Active \cup {"idle"}
    /\ pages \in Seq(Seq(Papers)) /\ kept \in Harvests
    /\ next \in Nat \ {0}
    /\ stage \in {"rendering", "filing"} => body \in Renderings
    /\ written \subseteq Papers
    /\ everTorn \in BOOLEAN

\* The run has what it went through, and is at one of its papers or at the end.
Progress ==
    /\ stage \in Active \ {"harvesting"} =>
          next <= Len(kept) + 1 /\ \A n \in 1..(next - 1) : Intact(kept[n], entries)
    /\ stage = "harvesting" => next = 1
    /\ stage \in OnPaper => next <= Len(kept)
    /\ stage \in {"fetching", "rendering"} => ~Intact(kept[next], entries)
    /\ stage \in {"recording", "rewriting"} => Intact(kept[next], entries)
    /\ stage = "closing" => next = Len(kept) + 1

\* Of what was written, the run has what its start had; the manifest on disk says so
\* too, but for the paper at hand; and a run that was killed left one paper at most.
Disk ==
    /\ stage \in {"rewriting", "closing"} => manifest = Half
    /\ ~everTorn =>
        /\ stage \notin {"rewriting", "closing"} => manifest # Half
        /\ stage \in Active => \A p \in written : p \in lostBefore \/ Intact(p, entries)
        /\ stage \in {"harvesting", "papers", "fetching", "rendering", "filing"} => entries = LoadManifest
        /\ stage = "recording" => \A p \in Papers \ {kept[next]} : entries[p] = LoadManifest[p]
        /\ stage = "idle" => \E q \in Papers \cup {Nothing} : \A p \in written :
                                 p = q \/ p \in lostBefore \/ Intact(p, LoadManifest)

DownloadInv == DownloadTypeOK /\ Progress /\ Disk

LEMMA LoadedType == DownloadTypeOK => LoadManifest \in Manifests
BY DEF DownloadTypeOK, LoadManifest, NoEntries, Manifests

LEMMA DownloadInitially == DownloadInit => DownloadInv
<1> SUFFICES ASSUME DownloadInit PROVE DownloadInv
  OBVIOUS
<1>1. <<>> \in Harvests /\ <<>> \in Seq(Seq(Papers))
  BY DEF Harvests, Injective
<1>2. NoEntries \in Manifests /\ NoEntries \in [Papers -> Renderings \cup {Nothing, Half}]
  BY DEF NoEntries, Manifests
<1>3. DownloadTypeOK
  <2>1. files = NoEntries /\ entries = NoEntries /\ manifest = Nothing /\ stage = "idle"
        /\ pages = <<>> /\ kept = <<>> /\ next = 1 /\ written = {} /\ everTorn = FALSE
    BY DEF DownloadInit
  <2>2. {} \subseteq Papers /\ FALSE \in BOOLEAN /\ 1 \in Nat \ {0}
    OBVIOUS
  <2>3. manifest \in Manifests \cup {Nothing, Half} /\ stage \in Active \cup {"idle"}
    BY <2>1 DEF Active
  <2>4. stage \notin {"rendering", "filing"}
    BY <2>1
  <2>5. QED  BY <1>1, <1>2, <2>1, <2>2, <2>3, <2>4, Zenon DEF DownloadTypeOK
<1>4. Progress /\ Disk
  BY DEF DownloadInit, Progress, Disk, Active, OnPaper
<1>5. QED  BY <1>3, <1>4 DEF DownloadInv

\* A run starts with the manifest that is on disk, and with what it lost so far.
LEMMA StartRunKept == ASSUME DownloadInv, StartRun PROVE DownloadInv'
<1>1. LoadManifest \in Manifests
  BY LoadedType DEF DownloadInv
<1>2. /\ stage = "idle" /\ stage' = "harvesting" /\ entries' = LoadManifest
      /\ pages' \in PageLists /\ kept' = <<>> /\ next' = 1 /\ lostBefore' = Lost
      /\ UNCHANGED <<files, manifest, written, everTorn>>
  BY DEF StartRun
<1>3. DownloadTypeOK'
  <2>1. <<>> \in Harvests /\ pages' \in Seq(Seq(Papers))
    BY <1>2 DEF Harvests, Injective
  <2>2. QED  BY <1>1, <1>2, <2>1 DEF DownloadInv, DownloadTypeOK, Active
<1>4. Progress'
  BY <1>2 DEF Progress, Active, OnPaper
<1>5. Disk'
  <2>1. LoadManifest' = LoadManifest /\ \A p \in Papers : Intact(p, entries)' <=> Intact(p, LoadManifest)
    BY <1>2 DEF LoadManifest, Intact, NoEntries
  <2>2. \A p \in written : p \in lostBefore' \/ Intact(p, entries)'
    BY <1>2, <2>1 DEF Lost, DownloadInv, DownloadTypeOK
  <2>3. QED  BY <1>2, <2>1, <2>2 DEF DownloadInv, Disk, Active
<1>6. QED  BY <1>3, <1>4, <1>5 DEF DownloadInv

\* Up to the step that writes a paper's file, the run's manifest is the one on disk.
LEMMA DiskKept ==
    ASSUME DownloadInv, stage \in {"harvesting", "papers", "fetching", "rendering", "filing"},
           stage' \in {"harvesting", "papers", "fetching", "rendering", "filing", "idle"},
           UNCHANGED <<manifest, entries, written, lostBefore, everTorn>>,
           \A p \in written : p \in lostBefore \/ files'[p] = files[p]
    PROVE  Disk'
<1>1. LoadManifest' = LoadManifest
  BY DEF LoadManifest, NoEntries
<1>2. SUFFICES ASSUME ~everTorn PROVE Disk'
  BY DEF Disk
<1>3. /\ manifest # Half /\ entries = LoadManifest
      /\ \A p \in written : p \in lostBefore \/ Intact(p, entries)
  BY <1>2 DEF DownloadInv, Disk, Active
<1>4. \A p \in written : p \in lostBefore \/ Intact(p, entries)'
  BY <1>3 DEF Intact
<1>5. \A p \in written : p \in lostBefore \/ Intact(p, LoadManifest)'
  BY <1>1, <1>3, <1>4 DEF Intact
<1>6. QED  BY <1>1, <1>3, <1>4, <1>5 DEF Disk

LEMMA RetryKept == ASSUME DownloadInv, NEW stages, Retry(stages) PROVE DownloadInv'
<1>1. UNCHANGED <<files, manifest, entries, stage, pages, kept, next, body, written, lostBefore, everTorn>>
  BY DEF Retry
<1>2. \A p : Intact(p, entries)' <=> Intact(p, entries)
  BY <1>1 DEF Intact
<1>3. LoadManifest' = LoadManifest /\ \A p : Intact(p, LoadManifest)' <=> Intact(p, LoadManifest)
  BY <1>1 DEF LoadManifest, NoEntries, Intact
<1>4. DownloadTypeOK'
  BY <1>1 DEF DownloadInv, DownloadTypeOK
<1>5. Progress'
  <2>1. Intact(kept[next], entries)' <=> Intact(kept[next], entries)
    BY <1>1, <1>2
  <2>2. \A n : Intact(kept[n], entries)' <=> Intact(kept[n], entries)
    BY <1>1, <1>2
  <2>3. QED  BY <1>1, <2>1, <2>2 DEF DownloadInv, Progress
<1>6. Disk'
  BY <1>1, <1>2, <1>3 DEF DownloadInv, Disk
<1>7. QED  BY <1>4, <1>5, <1>6 DEF DownloadInv

\* A page adds papers that the harvest does not have, up to the limit.
LEMMA KeepType ==
    ASSUME NEW ks \in Harvests, NEW p \in Papers
    PROVE  Keep(ks, p) \in Harvests
<1>1. CASE Len(ks) >= Limit \/ p \notin Wanted \/ Contains(ks, p)
  BY <1>1 DEF Keep
<1>2. CASE ~(Len(ks) >= Limit \/ p \notin Wanted \/ Contains(ks, p))
  <2> DEFINE a == Append(ks, p)
  <2>1. ks \in Seq(Papers) /\ Len(ks) \in Nat /\ Len(ks) < Limit /\ \A i \in 1..Len(ks) : ks[i] # p
    BY <1>2 DEF Harvests, Contains
  <2>2. /\ a \in Seq(Papers) /\ Len(a) = Len(ks) + 1 /\ DOMAIN a = 1..(Len(ks) + 1)
        /\ DOMAIN ks = 1..Len(ks)
        /\ \A i \in 1..Len(ks) : a[i] = ks[i]
        /\ a[Len(ks) + 1] = p
    BY <2>1
  <2> HIDE DEF a
  <2>3. \A i \in DOMAIN a : i \in DOMAIN ks \/ i = Len(ks) + 1
    BY <2>1, <2>2
  <2>4. Injective(ks)
    BY DEF Harvests
  <2>5. Injective(a)
    BY <2>1, <2>2, <2>3, <2>4 DEF Injective
  <2>6. Len(a) <= Limit
    BY <2>1, <2>2
  <2>7. Keep(ks, p) = a
    BY <1>2 DEF Keep, a
  <2>8. QED  BY <2>2, <2>5, <2>6, <2>7 DEF Harvests
<1>3. QED  BY <1>1, <1>2

LEMMA ScanType ==
    ASSUME NEW ks \in Harvests, NEW page \in Seq(Papers)
    PROVE  Scan(ks, page) \in Harvests
<1> DEFINE N == Len(page)
           IsScan(g) == g = [n \in 0..N |-> IF n = 0 THEN ks ELSE Keep(g[n - 1], page[n])]
           step == [x \in Harvests \X (1..N) |-> Keep(x[1], page[x[2]])]
           scanned == CHOOSE g : IsScan(g)
<1>0. N \in Nat /\ \A n \in 1..N : page[n] \in Papers
  OBVIOUS
<1>1. step \in [Harvests \X (1..N) -> Harvests]
  BY <1>0, KeepType
<1>2. PICK f \in [0..N -> Harvests] : IsFold(f, ks, step, N)
  <2> HIDE DEF step, N
  <2>1. QED  BY <1>0, <1>1, FoldDefined
<1>3. IsScan(f)
  <2>1. ASSUME NEW n \in 0..N
        PROVE  f[n] = IF n = 0 THEN ks ELSE Keep(f[n - 1], page[n])
    <3>1. CASE n = 0
      BY <1>2, <3>1 DEF IsFold
    <3>2. CASE n # 0
      <4>1. n \in 1..N /\ n - 1 \in 0..N
        BY <1>0, <3>2
      <4>2. f[n] = step[<<f[n - 1], n>>] /\ f[n - 1] \in Harvests
        BY <1>2, <4>1 DEF IsFold
      <4>3. QED  BY <3>2, <4>1, <4>2
    <3>3. QED  BY <3>1, <3>2
  <2>2. QED  BY <2>1
<1>4. IsScan(scanned)
  <2> HIDE DEF IsScan
  <2>1. QED  BY <1>3
<1>5. Scan(ks, page) = scanned[N]
  BY DEF Scan
<1> HIDE DEF scanned
<1>6. scanned[0] = ks /\ \A n \in 1..N : scanned[n] = Keep(scanned[n - 1], page[n])
  <2>1. \A n \in 0..N : scanned[n] = IF n = 0 THEN ks ELSE Keep(scanned[n - 1], page[n])
    BY <1>4
  <2>2. 0 \in 0..N /\ \A n \in 1..N : n \in 0..N /\ n # 0
    BY <1>0
  <2>3. QED  BY <2>1, <2>2
<1>7. \A n \in 1..N : scanned[n - 1] \in Harvests => scanned[n] \in Harvests
  BY <1>0, <1>6, KeepType
<1>8. \A n \in 0..N : scanned[n] \in Harvests
  <2> HIDE DEF N
  <2>1. QED  BY <1>0, <1>6, <1>7, FoldType
<1>9. QED  BY <1>0, <1>5, <1>8

LEMMA GetPageKept == ASSUME DownloadInv, GetPage PROVE DownloadInv'
<1>1. /\ stage = "harvesting" /\ pages \in Seq(Seq(Papers)) /\ pages # <<>> /\ kept \in Harvests
      /\ kept' = Scan(kept, Head(pages)) /\ pages' = Tail(pages)
      /\ stage' \in {"harvesting", "papers", "idle"}
      /\ UNCHANGED <<files, manifest, entries, next, body, written, lostBefore, everTorn>>
  BY DEF GetPage, Harvested, DownloadInv, DownloadTypeOK
<1>2. Head(pages) \in Seq(Papers) /\ Tail(pages) \in Seq(Seq(Papers))
  BY <1>1
<1>3. kept' \in Harvests
  BY <1>1, <1>2, ScanType
<1>4. DownloadTypeOK'
  BY <1>1, <1>2, <1>3 DEF DownloadInv, DownloadTypeOK, Active
<1>5. next = 1
  BY <1>1 DEF DownloadInv, Progress
<1>6. Progress'
  BY <1>1, <1>3, <1>5 DEF Progress, Active, OnPaper, Harvests
<1>7. Disk'
  BY <1>1, DiskKept
<1>8. QED  BY <1>4, <1>6, <1>7 DEF DownloadInv

LEMMA HarvestCutKept == ASSUME DownloadInv, HarvestCut PROVE DownloadInv'
<1>1. /\ stage = "harvesting" /\ stage' \in {"papers", "idle"}
      /\ UNCHANGED <<files, manifest, entries, pages, kept, next, body, written, lostBefore, everTorn>>
  BY DEF HarvestCut, Harvested
<1>2. DownloadTypeOK'
  BY <1>1 DEF DownloadInv, DownloadTypeOK, Active
<1>3. Progress'
  <2>1. next = 1 /\ Len(kept) \in Nat
    BY <1>1 DEF DownloadInv, DownloadTypeOK, Progress, Harvests
  <2>2. QED  BY <1>1, <2>1 DEF Progress, Active, OnPaper
<1>4. Disk'
  BY <1>1, DiskKept
<1>5. QED  BY <1>2, <1>3, <1>4 DEF DownloadInv

LEMMA SkipKept == ASSUME DownloadInv, Skip PROVE DownloadInv'
<1>1. /\ stage = "papers" /\ next <= Len(kept) /\ Intact(kept[next], entries) /\ next' = next + 1
      /\ UNCHANGED <<files, manifest, entries, stage, pages, kept, body, written, lostBefore, everTorn>>
  BY DEF Skip
<1>2. next \in Nat \ {0} /\ Len(kept) \in Nat /\ \A n \in 1..(next - 1) : Intact(kept[n], entries)
  BY <1>1 DEF DownloadInv, DownloadTypeOK, Progress, Active, Harvests
<1>3. DownloadTypeOK'
  BY <1>1, <1>2 DEF DownloadInv, DownloadTypeOK
<1>4. Progress'
  <2>1. \A n \in 1..next : Intact(kept[n], entries)
    BY <1>1, <1>2
  <2>2. QED  BY <1>1, <1>2, <2>1 DEF Progress, Active, OnPaper, Intact
<1>5. Disk'
  BY <1>1, DiskKept
<1>6. QED  BY <1>3, <1>4, <1>5 DEF DownloadInv

LEMMA TakeOrFetchKept == ASSUME DownloadInv, Take \/ Fetch PROVE DownloadInv'
<1>1. /\ stage \in {"papers", "fetching"} /\ next <= Len(kept) /\ ~Intact(kept[next], entries)
      /\ stage' \in {"fetching", "rendering"} /\ body' \in Renderings
  BY DEF Take, Fetch, Renderings, DownloadInv, Progress, OnPaper
<1>2. UNCHANGED <<files, manifest, entries, pages, kept, next, written, lostBefore, everTorn>>
  BY DEF Take, Fetch
<1>3. DownloadTypeOK'
  <2>1. stage' \in Active \cup {"idle"}
    BY <1>1 DEF Active
  <2>2. QED  BY <1>1, <1>2, <2>1 DEF DownloadInv, DownloadTypeOK
<1>4. Progress'
  <2>1. \A n \in 1..(next - 1) : Intact(kept[n], entries)
    BY <1>1 DEF DownloadInv, Progress, Active
  <2>2. Len(kept) \in Nat /\ next \in Nat
    BY DEF DownloadInv, DownloadTypeOK, Harvests
  <2>3. (\A n \in 1..(next - 1) : Intact(kept[n], entries))' /\ ~Intact(kept[next], entries)'
    BY <1>1, <1>2, <2>1 DEF Intact
  <2>4. next' <= Len(kept') /\ next' <= Len(kept') + 1
    BY <1>1, <1>2, <2>2
  <2>5. QED  BY <1>1, <2>3, <2>4 DEF Progress, Active, OnPaper
<1>5. Disk'
  BY <1>1, <1>2, DiskKept
<1>6. QED  BY <1>3, <1>4, <1>5 DEF DownloadInv

\* The paper at hand is one of the harvest's, and none of those before it.
LEMMA PaperAtHand ==
    ASSUME DownloadInv, stage \in OnPaper
    PROVE  /\ next \in 1..Len(kept) /\ kept[next] \in Papers
           /\ \A n \in 1..(next - 1) : kept[n] \in Papers /\ kept[n] # kept[next]
<1>1. kept \in Seq(Papers) /\ Injective(kept) /\ Len(kept) \in Nat /\ next \in Nat \ {0} /\ next <= Len(kept)
  BY DEF DownloadInv, DownloadTypeOK, Progress, Harvests
<1>2. DOMAIN kept = 1..Len(kept) /\ \A n \in 1..Len(kept) : kept[n] \in Papers
  BY <1>1
<1>3. next \in 1..Len(kept) /\ \A n \in 1..(next - 1) : n \in 1..Len(kept) /\ n # next
  BY <1>1
<1>4. QED  BY <1>1, <1>2, <1>3 DEF Injective

\* Truncating the file of a paper loses it only if it was lost.
LEMMA OpenFileKept == ASSUME DownloadInv, OpenFile PROVE DownloadInv'
<1>1. /\ stage = "rendering" /\ stage' = "filing" /\ files' = [files EXCEPT ![kept[next]] = Half]
      /\ UNCHANGED <<manifest, entries, pages, kept, next, body, written, lostBefore, everTorn>>
  BY DEF OpenFile
<1>2. /\ next \in 1..Len(kept) /\ kept[next] \in Papers
      /\ \A n \in 1..(next - 1) : kept[n] \in Papers /\ kept[n] # kept[next]
  BY <1>1, PaperAtHand DEF OnPaper
<1>3. files \in [Papers -> Renderings \cup {Nothing, Half}]
  BY DEF DownloadInv, DownloadTypeOK
<1>4. DownloadTypeOK'
  BY <1>1, <1>2 DEF DownloadInv, DownloadTypeOK, Active
<1>5. Progress'
  <2>1. \A n \in 1..(next - 1) : Intact(kept[n], entries)
    BY <1>1 DEF DownloadInv, Progress, Active
  <2>2. \A n \in 1..(next - 1) : files'[kept[n]] = files[kept[n]]
    BY <1>1, <1>2, <1>3
  <2>3. \A n \in 1..(next - 1) : Intact(kept[n], entries)'
    BY <1>1, <2>1, <2>2 DEF Intact
  <2>4. QED  BY <1>1, <1>2, <2>3 DEF DownloadInv, DownloadTypeOK, Progress, Active, OnPaper, Harvests
<1>6. CASE everTorn
  BY <1>1, <1>4, <1>5, <1>6 DEF DownloadInv, Disk
<1>7. CASE ~everTorn
  <2>1. \A p \in written : p \in lostBefore \/ Intact(p, entries)
    BY <1>1, <1>7 DEF DownloadInv, Disk, Active
  <2>2. \A p \in written : p \in lostBefore \/ files'[p] = files[p]
    <3>1. TAKE p \in written
    <3>2. CASE p = kept[next]
      BY <1>1, <2>1, <3>2 DEF DownloadInv, Progress
    <3>3. CASE p # kept[next]
      BY <1>1, <1>3, <3>3 DEF DownloadInv, DownloadTypeOK
    <3>4. QED  BY <3>2, <3>3
  <2>3. Disk'
    BY <1>1, <2>2, DiskKept
  <2>4. QED  BY <1>4, <1>5, <2>3 DEF DownloadInv
<1>8. QED  BY <1>6, <1>7

\* A paper's file written whole is recorded in memory before it is on disk.
LEMMA WriteFileKept == ASSUME DownloadInv, WriteFile PROVE DownloadInv'
<1>0. PICK q \in Papers : q = kept[next] /\ stage = "filing"
  BY PaperAtHand DEF WriteFile, OnPaper
<1>1. /\ stage = "filing" /\ stage' = "recording"
      /\ files' = [files EXCEPT ![q] = body] /\ entries' = [entries EXCEPT ![q] = body]
      /\ written' = written \cup {q}
      /\ UNCHANGED <<manifest, pages, kept, next, body, lostBefore, everTorn>>
  BY <1>0 DEF WriteFile
<1>2. /\ next \in 1..Len(kept) /\ q \in Papers
      /\ \A n \in 1..(next - 1) : kept[n] \in Papers /\ kept[n] # q
  BY <1>0, PaperAtHand DEF OnPaper
<1>3. /\ files \in [Papers -> Renderings \cup {Nothing, Half}]
      /\ entries \in [Papers -> Renderings \cup {Nothing}] /\ body \in Renderings
      /\ written \subseteq Papers /\ body # Nothing
  BY <1>1 DEF DownloadInv, DownloadTypeOK, Manifests
<1>4. /\ files' \in [Papers -> Renderings \cup {Nothing, Half}] /\ entries' \in Manifests
      /\ files'[q] = body /\ entries'[q] = body
      /\ \A p \in Papers \ {q} : files'[p] = files[p] /\ entries'[p] = entries[p]
  BY <1>1, <1>2, <1>3 DEF Manifests
<1>5. DownloadTypeOK'
  <2>1. stage' \in Active \cup {"idle"} /\ written' \subseteq Papers
    BY <1>1, <1>2, <1>3 DEF Active
  <2>2. QED  BY <1>1, <1>4, <2>1 DEF DownloadInv, DownloadTypeOK
<1>6. Intact(q, entries)' /\ \A p \in Papers \ {q} : Intact(p, entries)' <=> Intact(p, entries)
  BY <1>3, <1>4 DEF Intact
<1>7. Progress'
  <2>1. \A n \in 1..(next - 1) : Intact(kept[n], entries)
    BY <1>1 DEF DownloadInv, Progress, Active
  <2>2. \A n \in 1..(next - 1) : Intact(kept[n], entries)'
    BY <1>1, <1>2, <1>6, <2>1 DEF Intact
  <2>3. kept' = kept /\ next' = next /\ kept'[next'] = q
    BY <1>0, <1>1
  <2>4. (\A n \in 1..(next - 1) : Intact(kept[n], entries))' /\ Intact(kept[next], entries)'
    BY <1>1, <1>6, <2>2, <2>3 DEF Intact
  <2>5. next' <= Len(kept') /\ next' <= Len(kept') + 1
    BY <1>1, <1>2
  <2>6. QED  BY <1>1, <2>4, <2>5 DEF Progress, Active, OnPaper
<1>8. Disk'
  <2>1. SUFFICES ASSUME ~everTorn PROVE Disk'
    BY <1>1 DEF Disk
  <2>2. /\ manifest # Half /\ entries = LoadManifest
        /\ \A p \in written : p \in lostBefore \/ Intact(p, entries)
    BY <1>1, <2>1 DEF DownloadInv, Disk, Active
  <2>3. LoadManifest' = LoadManifest
    BY <1>1 DEF LoadManifest, NoEntries
  <2>4. \A p \in written' : p \in lostBefore \/ Intact(p, entries)'
    BY <1>1, <1>3, <1>6, <2>2
  <2>5. \A p \in written' : p \in lostBefore' \/ Intact(p, entries)'
    BY <1>1, <2>4
  <2>6. \A p \in Papers \ {q} : entries'[p] = LoadManifest'[p]
    BY <1>4, <2>2, <2>3
  <2>7. kept'[next'] = q
    BY <1>0, <1>1
  <2>8. QED  BY <1>1, <2>2, <2>5, <2>6, <2>7 DEF Disk
<1>9. QED  BY <1>5, <1>7, <1>8 DEF DownloadInv

LEMMA OpenManifestKept == ASSUME DownloadInv, OpenManifest PROVE DownloadInv'
<1>1. /\ \/ stage = "recording" /\ stage' = "rewriting"
         \/ stage = "papers" /\ next > Len(kept) /\ stage' = "closing"
      /\ manifest' = Half
      /\ UNCHANGED <<files, entries, pages, kept, next, body, written, lostBefore, everTorn>>
  BY DEF OpenManifest, Rewritten
<1>2. DownloadTypeOK'
  <2>1. stage' \in Active \cup {"idle"} /\ stage' \notin {"rendering", "filing"}
    BY <1>1 DEF Active
  <2>2. QED  BY <1>1, <2>1 DEF DownloadInv, DownloadTypeOK
<1>3. Progress'
  <2>1. next <= Len(kept) + 1 /\ \A n \in 1..(next - 1) : Intact(kept[n], entries)
    BY <1>1 DEF DownloadInv, Progress, Active
  <2>2. (next <= Len(kept) + 1 /\ \A n \in 1..(next - 1) : Intact(kept[n], entries))'
    BY <1>1, <2>1 DEF Intact
  <2>3. Len(kept) \in Nat /\ next \in Nat
    BY DEF DownloadInv, DownloadTypeOK, Harvests
  <2>4. CASE stage = "recording"
    <3>1. next <= Len(kept) /\ Intact(kept[next], entries)
      BY <2>4 DEF DownloadInv, Progress, OnPaper
    <3>2. (next <= Len(kept) /\ Intact(kept[next], entries))'
      BY <1>1, <3>1 DEF Intact
    <3>3. QED  BY <1>1, <2>2, <2>4, <3>2 DEF Progress, Active, OnPaper
  <2>5. CASE stage = "papers"
    <3>1. stage' = "closing" /\ next' = Len(kept') + 1
      BY <1>1, <2>1, <2>3, <2>5
    <3>2. QED  BY <2>2, <3>1 DEF Progress, Active, OnPaper
  <2>6. QED  BY <1>1, <2>4, <2>5
<1>4. Disk'
  <2>1. ~everTorn => \A p \in written : p \in lostBefore \/ Intact(p, entries)
    BY <1>1 DEF DownloadInv, Disk, Active
  <2>2. (~everTorn => \A p \in written : p \in lostBefore \/ Intact(p, entries))'
    BY <1>1, <2>1 DEF Intact
  <2>3. QED  BY <1>1, <2>2 DEF Disk
<1>5. QED  BY <1>2, <1>3, <1>4 DEF DownloadInv

LEMMA WriteManifestKept == ASSUME DownloadInv, WriteManifest PROVE DownloadInv'
<1>1. /\ \/ stage = "rewriting" /\ stage' = "papers" /\ next' = next + 1
         \/ stage = "closing" /\ stage' = "idle" /\ next' = next
      /\ manifest' = entries
      /\ UNCHANGED <<files, entries, pages, kept, body, written, lostBefore, everTorn>>
  BY DEF WriteManifest, Rewritten
<1>2. /\ entries \in Manifests /\ Len(kept) \in Nat /\ next \in Nat \ {0}
      /\ written \subseteq Papers
  BY DEF DownloadInv, DownloadTypeOK, Harvests
<1>3. DownloadTypeOK'
  <2>1. stage' \in Active \cup {"idle"} /\ stage' \notin {"rendering", "filing"} /\ next' \in Nat \ {0}
    BY <1>1, <1>2 DEF Active
  <2>2. QED  BY <1>1, <1>2, <2>1 DEF DownloadInv, DownloadTypeOK
<1>4. Progress'
  <2>1. CASE stage = "rewriting"
    <3>1. /\ next <= Len(kept) /\ Intact(kept[next], entries)
          /\ \A n \in 1..(next - 1) : Intact(kept[n], entries)
      BY <2>1 DEF DownloadInv, Progress, Active, OnPaper
    <3>2. \A n \in 1..next : Intact(kept[n], entries)
      BY <1>2, <3>1
    <3>3. next' - 1 = next /\ next' <= Len(kept') + 1 /\ stage' = "papers"
      BY <1>1, <1>2, <2>1, <3>1
    <3>4. (\A n \in 1..(next - 1) : Intact(kept[n], entries))'
      BY <1>1, <3>2, <3>3 DEF Intact
    <3>5. QED  BY <3>3, <3>4 DEF Progress, OnPaper
  <2>2. CASE stage = "closing"
    BY <1>1, <2>2 DEF Progress, Active, OnPaper
  <2>3. QED  BY <1>1, <2>1, <2>2
<1>5. Disk'
  <2>1. entries # Nothing /\ entries # Half
    BY <1>2
  <2>2. LoadManifest' = entries /\ manifest' # Half /\ entries' = entries
    BY <1>1, <2>1 DEF LoadManifest
  <2>3. ~everTorn => \A p \in written : p \in lostBefore \/ Intact(p, entries)
    BY <1>1 DEF DownloadInv, Disk, Active
  <2>4. (~everTorn => \A p \in written : p \in lostBefore \/ Intact(p, entries))'
    BY <1>1, <2>3 DEF Intact
  <2>5. (~everTorn => \A p \in written : p = Nothing \/ p \in lostBefore \/ Intact(p, LoadManifest))'
    BY <2>2, <2>4 DEF Intact
  <2>6. QED  BY <1>1, <2>2, <2>4, <2>5 DEF Disk
<1>6. QED  BY <1>3, <1>4, <1>5 DEF DownloadInv

\* A run that is killed loses the paper at hand, if its file is written and its entry
\* is not.
LEMMA InterruptKept == ASSUME DownloadInv, Interrupt PROVE DownloadInv'
<1>1. /\ stage # "idle" /\ stage' = "idle" /\ everTorn' = (everTorn \/ manifest = Half)
      /\ UNCHANGED <<files, manifest, entries, pages, kept, next, body, written, lostBefore>>
  BY DEF Interrupt
<1>2. DownloadTypeOK'
  <2>1. everTorn' \in BOOLEAN
    BY <1>1
  <2>2. QED  BY <1>1, <2>1 DEF DownloadInv, DownloadTypeOK
<1>3. Progress'
  BY <1>1 DEF Progress, Active, OnPaper
<1>4. Disk'
  <2>1. SUFFICES ASSUME ~everTorn, manifest # Half PROVE Disk'
    BY <1>1 DEF Disk
  <2>2. stage \in Active /\ stage \notin {"rewriting", "closing"}
    BY <1>1, <2>1 DEF DownloadInv, DownloadTypeOK, Disk
  <2>3. \A p \in written : p \in lostBefore \/ Intact(p, entries)
    BY <2>1, <2>2 DEF DownloadInv, Disk
  <2>4. LoadManifest' = LoadManifest /\ \A p \in Papers : Intact(p, LoadManifest)' <=> Intact(p, LoadManifest)
    BY <1>1 DEF LoadManifest, NoEntries, Intact
  <2>5. written \subseteq Papers
    BY DEF DownloadInv, DownloadTypeOK
  <2>6. PICK q \in Papers \cup {Nothing} :
               \A p \in written : p = q \/ p \in lostBefore \/ Intact(p, LoadManifest)
    <3>1. CASE stage = "recording"
      <4>1. kept[next] \in Papers
        BY <3>1, PaperAtHand DEF OnPaper
      <4>2. \A p \in Papers \ {kept[next]} : entries[p] = LoadManifest[p]
        BY <2>1, <3>1 DEF DownloadInv, Disk
      <4>3. \A p \in written : p = kept[next] \/ p \in lostBefore \/ Intact(p, LoadManifest)
        BY <2>3, <2>5, <4>2 DEF Intact
      <4>4. QED  BY <4>1, <4>3
    <3>2. CASE stage # "recording"
      <4>1. entries = LoadManifest
        BY <2>1, <2>2, <3>2 DEF DownloadInv, Disk, Active
      <4>2. QED  BY <2>3, <4>1
    <3>3. QED  BY <3>1, <3>2
  <2>7. \A p \in written' : p = q \/ p \in lostBefore' \/ Intact(p, LoadManifest)'
    BY <1>1, <2>4, <2>5, <2>6
  <2>8. \E e \in Papers \cup {Nothing} : \A p \in written' :
              p = e \/ p \in lostBefore' \/ Intact(p, LoadManifest)'
    BY <2>7
  <2>9. QED  BY <1>1, <2>1, <2>8 DEF Disk, Active
<1>5. QED  BY <1>2, <1>3, <1>4 DEF DownloadInv

LEMMA DownloadKept == DownloadInv /\ [DownloadNext]_downloadVars => DownloadInv'
<1> SUFFICES ASSUME DownloadInv, [DownloadNext]_downloadVars PROVE DownloadInv'
  OBVIOUS
<1>1. CASE UNCHANGED downloadVars
  BY <1>1 DEF DownloadInv, DownloadTypeOK, Progress, Disk, Intact, LoadManifest, NoEntries, downloadVars
<1>2. CASE DownloadNext
  BY <1>2, StartRunKept, RetryKept, GetPageKept, HarvestCutKept, SkipKept, TakeOrFetchKept,
     OpenFileKept, WriteFileKept, OpenManifestKept, WriteManifestKept, InterruptKept DEF DownloadNext
<1>3. QED  BY <1>1, <1>2

\* What a kill leaves is one paper at most.
LEMMA LosesOne == DownloadInv => DownloadLosesOne
<1> SUFFICES ASSUME DownloadInv PROVE DownloadLosesOne
  OBVIOUS
<1>1. ASSUME ~everTorn, manifest # Half PROVE Cardinality(Lost \ lostBefore) <= 1
  <2>1. stage \in (Active \ {"rewriting", "closing"}) \cup {"idle"} /\ written \subseteq Papers
    BY <1>1 DEF DownloadInv, DownloadTypeOK, Disk
  <2>2. PICK q : \A p \in written : p = q \/ p \in lostBefore \/ Intact(p, LoadManifest)
    <3>1. CASE stage = "idle"
      BY <1>1, <3>1 DEF DownloadInv, Disk
    <3>2. CASE stage = "recording"
      <4>1. /\ \A p \in Papers \ {kept[next]} : entries[p] = LoadManifest[p]
            /\ \A p \in written : p \in lostBefore \/ Intact(p, entries)
        BY <1>1, <3>2 DEF DownloadInv, Disk, Active
      <4>2. \A p \in written : p = kept[next] \/ p \in lostBefore \/ Intact(p, LoadManifest)
        BY <2>1, <4>1 DEF Intact
      <4>3. QED  BY <4>2
    <3>3. CASE stage \notin {"idle", "recording"}
      BY <1>1, <2>1, <3>3 DEF DownloadInv, Disk, Active
    <3>4. QED  BY <3>1, <3>2, <3>3
  <2>3. Lost \ lostBefore \subseteq {q}
    BY <2>2 DEF Lost
  <2>4. IsFiniteSet({q}) /\ Cardinality({q}) = 1
    BY FS_Singleton
  <2>5. Cardinality(Lost \ lostBefore) \in Nat /\ Cardinality(Lost \ lostBefore) <= Cardinality({q})
    BY <2>3, <2>4, FS_Subset, FS_CardinalityType
  <2>6. QED  BY <2>4, <2>5
<1>2. Len(kept) <= Limit /\ IsInjective(kept)
  BY DEF DownloadInv, DownloadTypeOK, Harvests, Injective, IsInjective
<1>3. ASSUME stage = "closing", NEW n \in DOMAIN kept PROVE Intact(kept[n], entries)
  <2>1. next = Len(kept) + 1 /\ (\A i \in 1..(next - 1) : Intact(kept[i], entries)) /\ kept \in Seq(Papers)
    BY <1>3 DEF DownloadInv, DownloadTypeOK, Progress, Active, Harvests
  <2>2. n \in 1..(next - 1)
    BY <1>3, <2>1
  <2>3. QED  BY <2>1, <2>2
<1>4. QED  BY <1>1, <1>2, <1>3 DEF DownloadLosesOne

----------------------------------------------------------------------------
\* One tool runs, the others wait.

LEMMA MigrateStarts == Init => MigrateInv
<1>1. ToSet(SqlFiles) = SqlSet /\ SqlSet \in SUBSET SqlSet
  BY DEF SqlSet
<1>2. Init => \E seen \in SUBSET SqlSet : MigrateStart(seen)
  BY <1>1 DEF Init, Waiting, Tools, MigrateInit
<1>3. QED  BY <1>2, MigrateInitially

LEMMA MigrateSteps == [Next]_vars => [MigrateNext]_migrateVars
BY DEF Next, vars

\* Running the migrations twice is a no-op and adding a file applies only the new one,
\* also when migrators run at the same time or are killed at any point: no file's
\* statements are committed twice, a file is recorded exactly when they are, and what
\* a migrator saw it has ahead of it or applied (migrate.py:3-6).
THEOREM MigrationsOnce == Spec => []MigratedOnce
<1>1. MigrateInv => MigratedOnce
  <2> SUFFICES ASSUME MigrateInv PROVE MigratedOnce
    OBVIOUS
  <2>1. \A f \in DOMAIN effects : effects[f] = (IF f \in recorded THEN 1 ELSE 0)
    BY DEF MigrateInv, MigrateTypeOK, CommittedOnce
  <2>2. ASSUME NEW m \in Migrators, NEW f \in discovered[m], f \notin recorded
        PROVE  Contains(plan[m], f)
    <3>1. f \in Range(plan[m]) /\ plan[m] \in Seq(SqlSet)
      BY <2>2 DEF MigrateInv, MigrateTypeOK, PlanComplete
    <3>2. QED  BY <3>1 DEF Range, Contains
  <2>3. QED  BY <2>1, <2>2 DEF MigratedOnce
<1>2. QED  BY <1>1, MigrateStarts, MigrateKept, MigrateSteps, PTL DEF Spec

LEMMA DownloadStarts == Init => DownloadInv
<1>1. Init => DownloadInit
  BY DEF Init, Waiting, Tools
<1>2. QED  BY <1>1, DownloadInitially

LEMMA DownloadSteps == [Next]_vars => [DownloadNext]_downloadVars
BY DEF Next, vars

\* A run of the download that is killed at any step loses at most one paper that was
\* whole on disk, unless the manifest itself is torn; a finished run has all it kept,
\* which is within the limit and without doubles (download_corpus.py:18-20).
THEOREM KillsLoseOne == Spec => []DownloadLosesOne
<1>1. QED  BY DownloadStarts, DownloadKept, DownloadSteps, LosesOne, PTL DEF Spec

LEMMA EvalStarts == Init => EvalInv
<1>1. AnyOf(Workloads) \in Workloads
  BY EvaluationAssumption DEF AnyOf
<1>2. Init => \E w \in Workloads : EvalStart(w)
  BY <1>1 DEF Init, Waiting, Tools, EvalInit
<1>3. QED  BY <1>2, EvalInitially

LEMMA EvalSteps == [Next]_vars => [EvalNext]_evalVars
BY DEF Next, vars

\* A run on disk has one row for each golden question in whichever order its tasks
\* ended, sorted into golden order and counted in the run's own index when ids are
\* unique, averages of all the answerable questions, and no more questions in flight
\* than configured; a killed evaluation's report misses at most the last run, unless it
\* was killed while writing it (runner.py:186-200, 276-303, run_eval.py:152-181).
THEOREM RunsComplete == Spec => []RunComplete
<1>1. QED  BY EvalStarts, EvalKept, EvalSteps, RunsRight, PTL DEF Spec

\* What the numbers of a row mean: no metric leaves 0..1; for unique ids and spans that
\* occur in the named documents only, recall is perfect exactly when every relevant
\* chunk of the corpus was retrieved, and nDCG exactly when nothing irrelevant is
\* ranked before one; a hit, a reciprocal rank and a precision agree; a long span
\* leaves its question a chunk to find (metrics.py:28-31, 95-183, runner.py:186-200).
THEOREM MetricsAreSound == Spec => []MetricsSound
<1>1. QED  BY EvalStarts, EvalKept, EvalSteps, MetricsRight, PTL DEF Spec

LEMMA LoadStarts == Init => LoadInv
<1>1. AnyOf(Files) \in Files /\ AnyOf(Formats) \in Formats
  BY LoadingAssumption DEF AnyOf
<1>2. Init => \E blocks \in Files, kind \in Formats : LoadStart(blocks, kind)
  BY <1>1 DEF Init, Waiting, Tools, LoadInit
<1>3. QED  BY <1>2, LoadInitially

LEMMA LoadSteps == [Next]_vars => [Load]_loadVars
BY DEF Next, vars

\* The spans land exactly on the joined text for every file: a heading's span begins
\* with its heading, behind a separator unless it is the first, and ends where the next
\* begins or with the text; a page's span is the text of the page whose number in the
\* file it carries (loaders.py:134-161, 308-325).
THEOREM SpansAreExact == Spec => []SpansExact
<1>1. QED  BY LoadStarts, LoadKept, LoadSteps, LayoutExact, PTL DEF Spec

LEMMA ChunkStarts == Init => ChunkInv
<1>1. AnyOf(Bodies) \in Bodies /\ AnyOf(Sizes) \in Sizes
  BY ChunkingAssumption DEF AnyOf
<1>2. Init => \E t \in Bodies : \E s : \E n \in Sizes : ChunkStart(t, s, n)
  BY <1>1 DEF Init, Waiting, Tools, ChunkInit
<1>3. QED  BY <1>2, ChunkInitially

LEMMA ChunkSteps == [Next]_vars => [Chunk]_chunkVars
BY DEF Next, vars

\* Whatever the text, the strategy and the size: the chunks are in order, no two start
\* at one place, only fixed windows overlap, no piece that has characters of its own is
\* left out, none is over the cap but by tokens that consume no characters, and a
\* recursive chunk keeps to one section of markdown headings, whose path it carries, or
\* without one the label of the page or heading it starts under (chunker.py:126-331).
THEOREM ChunksAreSound == Spec => []ChunksSound
<1>1. ChunkInv => ChunksSound
  BY DEF ChunkInv, ChunksSound
<1>2. QED  BY <1>1, ChunkStarts, ChunkKept, ChunkSteps, PTL DEF Spec

\* Where only markdown headings open a labelled span, as in markdown and plain text, the
\* documented promise does hold: a recursive chunk's section is that of all its text
\* (chunker.py:14-16, 231-235).
THEOREM MarkdownSectionsHonest ==
    ASSUME \A kind \in Kinds : Label[kind] # NoLabel => IsHeading(kind)
    PROVE  Spec => []SectionsHonest
<1>1. ChunkInv => SectionsHonest
  <2>1. SUFFICES ASSUME ChunkInv, chunked, strategy = "recursive", NEW n \in DOMAIN chunkList,
                        NEW p \in chunkList[n].first..chunkList[n].last
                 PROVE  chunkList[n].section = SectionOf(text, p)
    BY DEF SectionsHonest
  <2> DEFINE r == chunkList[n]
  <2>2. text \in Seq(Kinds)
    BY <2>1, ChunkingAssumption DEF ChunkInv
  <2>3. /\ r.first \in DOMAIN text /\ r.last \in r.first..Len(text)
        /\ r.section = SectionOf(text, r.first) /\ Section(text, p) = Section(text, r.first)
    BY <2>1 DEF ChunkInv, Sound
  <2>4. r.first \in 0..Len(text) /\ p \in 0..Len(text)
    BY <2>2, <2>3
  <2> HIDE DEF r
  <2>5. Section(text, p) = <<>> => LabelAt(text, p) = <<>> /\ LabelAt(text, r.first) = <<>>
    BY <2>2, <2>3, <2>4, PathStarts
  <2>6. QED  BY <2>3, <2>5 DEF SectionOf, r
<1>2. QED  BY <1>1, ChunkStarts, ChunkKept, ChunkSteps, PTL DEF Spec
=============================================================================

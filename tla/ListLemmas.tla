---------------------------- MODULE ListLemmas -----------------------------
(***************************************************************************)
(* Facts about lists, about recursion over the naturals and what it sums   *)
(* up, and about sets listed by a strict order, for the proofs about the   *)
(* stores, the tools and a query.                                          *)
(***************************************************************************)
EXTENDS Lists, Functions, FiniteSetTheorems, TLAPS

\* Every set of naturals that is not empty has a least member: the intervals 1..n
\* are finite sets, and strict inclusion is well founded on those.
LEMMA LeastNatural ==
    ASSUME NEW T \in SUBSET Nat, T # {}
    PROVE  \E m \in T : \A k \in T : m <= k
<1> DEFINE Below == {1..n : n \in T}
<1>1. Below \subseteq FiniteSubsetsOf(Nat)
  BY FS_Interval DEF FiniteSubsetsOf
<1>2. PICK B \in Below : \A C \in Below : <<C, B>> \notin StrictSubsetOrdering(Nat)
  <2>1. IsWellFoundedOn(StrictSubsetOrdering(Nat), FiniteSubsetsOf(Nat))
    BY FS_StrictSubsetOrderingWellFounded
  <2>2. Below # {}
    OBVIOUS
  <2> HIDE DEF Below
  <2>3. QED  BY <1>1, <2>1, <2>2, WFMin
<1>3. PICK m \in T : B = 1..m
  OBVIOUS
<1>4. ASSUME NEW k \in T, k < m
      PROVE  FALSE
  <2>1. 1..k \subseteq 1..m /\ m \in 1..m /\ m \notin 1..k
    BY <1>4
  <2>2. <<1..k, B>> \in StrictSubsetOrdering(Nat)
    BY <1>3, <2>1 DEF StrictSubsetOrdering
  <2>3. QED  BY <1>2, <2>2
<1>5. QED  BY <1>4

\* g holds the prefixes that the recursion of Filtered goes through, up to the n-th.
IsFilter(g, s, S, n) ==
    g = [i \in 0..n |-> IF i = 0 THEN <<>>
                        ELSE IF s[i] \in S THEN g[i - 1] ELSE Append(g[i - 1], s[i])]

\* The recursion of Filtered defines a function.
LEMMA FilteredDefined ==
    ASSUME NEW X, NEW s \in Seq(X), NEW S, NEW n \in 0..Len(s)
    PROVE  \E g : IsFilter(g, s, S, n)
<1> DEFINE Kept(g, m) == IsFilter(g, s, S, m)
           Bad == {m \in 0..Len(s) : ~ \E g : Kept(g, m)}
<1>1. SUFFICES ASSUME Bad # {} PROVE FALSE
  BY DEF Bad
<1>2. PICK m \in Bad : \A k \in Bad : m <= k
  <2>1. Bad \in SUBSET Nat
    OBVIOUS
  <2> HIDE DEF Bad
  <2>2. QED  BY <1>1, <2>1, LeastNatural
<1>3. m # 0
  <2>1. Kept([i \in 0..0 |-> <<>>], 0)
    BY DEF IsFilter
  <2>2. QED  BY <2>1
<1>4. PICK g : Kept(g, m - 1)
  <2>1. m - 1 \in 0..Len(s) /\ ~(m <= m - 1)
    BY <1>3
  <2>2. m - 1 \notin Bad
    <3> HIDE DEF Bad
    <3>1. QED  BY <1>2, <2>1
  <2>3. QED  BY <2>1, <2>2
<1> DEFINE h == [i \in 0..m |-> IF i = m
                                THEN IF s[m] \in S THEN g[m - 1] ELSE Append(g[m - 1], s[m])
                                ELSE g[i]]
<1>5. Kept(h, m)
  <2>1. ASSUME NEW i \in 0..m
        PROVE  h[i] = IF i = 0 THEN <<>>
                      ELSE IF s[i] \in S THEN h[i - 1] ELSE Append(h[i - 1], s[i])
    <3>1. CASE i = m
      BY <1>3, <3>1
    <3>2. CASE i # m
      <4>1. i \in 0..(m - 1)
        BY <3>2
      <4>2. g[i] = IF i = 0 THEN <<>>
                   ELSE IF s[i] \in S THEN g[i - 1] ELSE Append(g[i - 1], s[i])
        BY <1>4, <4>1 DEF IsFilter
      <4>3. QED  BY <3>2, <4>1, <4>2
    <3>3. QED  BY <3>1, <3>2
  <2>2. QED  BY <2>1 DEF IsFilter
<1>6. QED  BY <1>5

\* The list comprehension keeps exactly the other members and repeats none.
LEMMA FilteredProperties ==
    ASSUME NEW X, NEW s \in Seq(X), NEW S
    PROVE  /\ Filtered(s, S) \in Seq(X)
           /\ Range(Filtered(s, S)) = Range(s) \ S
           /\ Injective(s) => Injective(Filtered(s, S))
<1> DEFINE kept == CHOOSE g : IsFilter(g, s, S, Len(s))
<1>1. IsFilter(kept, s, S, Len(s))
  <2>1. Len(s) \in 0..Len(s)
    OBVIOUS
  <2>2. \E g : IsFilter(g, s, S, Len(s))
    BY <2>1, FilteredDefined
  <2>3. QED  BY <2>2
<1>2. Filtered(s, S) = kept[Len(s)]
  BY DEF Filtered, IsFilter
<1> HIDE DEF kept
<1>21. \A i \in 0..Len(s) :
          kept[i] = IF i = 0 THEN <<>>
                    ELSE IF s[i] \in S THEN kept[i - 1] ELSE Append(kept[i - 1], s[i])
  BY <1>1 DEF IsFilter
<1> DEFINE Good(n) == /\ kept[n] \in Seq(X)
                      /\ Range(kept[n]) = {s[i] : i \in 1..n} \ S
                      /\ Injective(s) => Injective(kept[n])
           Bad == {n \in 0..Len(s) : ~Good(n)}
<1>3. Good(0)
  <2>1. kept[0] = <<>>
    <3>1. 0 \in 0..Len(s)
      OBVIOUS
    <3>2. QED  BY <1>21, <3>1
  <2>2. {s[i] : i \in 1..0} = {}
    OBVIOUS
  <2>3. DOMAIN <<>> = {} /\ <<>> \in Seq(X)
    OBVIOUS
  <2>4. QED  BY <2>1, <2>2, <2>3 DEF Range, Injective
<1>4. ASSUME NEW n \in 1..Len(s), Good(n - 1)
      PROVE  Good(n)
  <2>1. kept[n] = IF s[n] \in S THEN kept[n - 1] ELSE Append(kept[n - 1], s[n])
    <3>1. n \in 0..Len(s) /\ n # 0
      OBVIOUS
    <3>2. QED  BY <1>21, <3>1
  <2>2. {s[i] : i \in 1..n} = {s[i] : i \in 1..(n - 1)} \cup {s[n]}
    OBVIOUS
  <2>3. CASE s[n] \in S
    BY <1>4, <2>1, <2>2, <2>3
  <2>4. CASE s[n] \notin S
    <3> DEFINE t == kept[n - 1]
    <3>1. t \in Seq(X) /\ s[n] \in X /\ kept[n] = Append(t, s[n])
      BY <1>4, <2>1, <2>4
    <3>2. kept[n] \in Seq(X)
      BY <3>1
    <3>3. Range(kept[n]) = Range(t) \cup {s[n]}
      <4>1. /\ Len(kept[n]) = Len(t) + 1
            /\ \A i \in 1..Len(t) : kept[n][i] = t[i]
            /\ kept[n][Len(t) + 1] = s[n]
        BY <3>1
      <4>2. DOMAIN kept[n] = 1..(Len(t) + 1) /\ DOMAIN t = 1..Len(t)
        BY <3>1, <3>2, <4>1
      <4>3. Range(kept[n]) = {kept[n][i] : i \in 1..(Len(t) + 1)}
            /\ Range(t) = {t[i] : i \in 1..Len(t)}
        BY <4>2 DEF Range
      <4>4. Len(t) \in Nat
        BY <3>1
      <4>5. \A i \in 1..(Len(t) + 1) : i \in 1..Len(t) \/ i = Len(t) + 1
        BY <4>4
      <4>6. \A i \in 1..Len(t) : i \in 1..(Len(t) + 1)
        BY <4>4
      <4>7. Len(t) + 1 \in 1..(Len(t) + 1)
        BY <4>4
      <4>8. Range(kept[n]) \subseteq Range(t) \cup {s[n]}
        BY <4>1, <4>3, <4>5
      <4>9. Range(t) \subseteq Range(kept[n])
        BY <4>1, <4>3, <4>6
      <4>10. s[n] \in Range(kept[n])
        BY <4>1, <4>3, <4>7
      <4>11. QED  BY <4>8, <4>9, <4>10
    <3>4. ASSUME Injective(s) PROVE Injective(kept[n])
      <4>1. s[n] \notin Range(t)
        <5>1. \A i \in 1..(n - 1) : s[i] # s[n]
          BY <3>4 DEF Injective
        <5>2. QED  BY <1>4, <5>1
      <4>2. Injective(t)
        BY <1>4, <3>4
      <4>3. \A i \in 1..Len(t) : t[i] # s[n]
        BY <3>1, <4>1 DEF Range
      <4>4. QED  BY <3>1, <4>2, <4>3 DEF Injective
    <3>5. QED  BY <1>4, <2>2, <2>4, <3>2, <3>3, <3>4
  <2>5. QED  BY <2>3, <2>4
<1>5. Bad = {}
  <2>1. SUFFICES ASSUME Bad # {} PROVE FALSE
    OBVIOUS
  <2>2. PICK n \in Bad : \A k \in Bad : n <= k
    <3>1. Bad \in SUBSET Nat
      OBVIOUS
    <3> HIDE DEF Bad
    <3>2. QED  BY <2>1, <3>1, LeastNatural
  <2>3. n \in 0..Len(s) /\ ~Good(n)
    BY <2>2
  <2> HIDE DEF Good
  <2>4. n # 0
    BY <1>3, <2>3
  <2>5. n - 1 \in 0..Len(s) /\ ~(n <= n - 1)
    BY <2>3, <2>4
  <2>6. Good(n - 1)
    BY <2>2, <2>5
  <2>7. QED  BY <1>4, <2>3, <2>4, <2>6
<1>6. Good(Len(s))
  <2> HIDE DEF Good
  <2>1. Len(s) \in 0..Len(s)
    OBVIOUS
  <2>2. QED  BY <1>5, <2>1
<1>7. {s[i] : i \in 1..Len(s)} = Range(s)
  BY DEF Range
<1>8. QED  BY <1>2, <1>6, <1>7

\* The members of a list are finitely many.
LEMMA RangeFinite ==
    ASSUME NEW X, NEW s \in Seq(X)
    PROVE  IsFiniteSet(Range(s)) /\ Range(s) \subseteq X
<1>1. s \in Surjection(1..Len(s), Range(s))
  BY DEF Surjection, Range
<1>2. IsFiniteSet(1..Len(s))
  BY FS_Interval
<1>3. QED  BY <1>1, <1>2, FS_Surjection DEF Range

\* Two lists without repetitions and without a common member make one.
LEMMA ConcatInjective ==
    ASSUME NEW X, NEW s \in Seq(X), NEW t \in Seq(X)
    PROVE  /\ s \o t \in Seq(X)
           /\ Range(s \o t) = Range(s) \cup Range(t)
           /\ Injective(s) /\ Injective(t) /\ Range(s) \cap Range(t) = {} => Injective(s \o t)
<1> DEFINE r == s \o t
<1>1. /\ r \in Seq(X) /\ Len(r) = Len(s) + Len(t)
      /\ \A i \in 1..Len(s) : r[i] = s[i]
      /\ \A i \in 1..Len(t) : r[Len(s) + i] = t[i]
  OBVIOUS
<1>2. \A i \in 1..Len(r) : i \in 1..Len(s) \/ \E j \in 1..Len(t) : i = Len(s) + j
  <2>1. TAKE i \in 1..Len(r)
  <2>2. i \notin 1..Len(s) => i - Len(s) \in 1..Len(t) /\ i = Len(s) + (i - Len(s))
    BY <1>1
  <2>3. QED  BY <2>2
<1> HIDE DEF r
<1>3. DOMAIN s = 1..Len(s) /\ DOMAIN t = 1..Len(t) /\ DOMAIN r = 1..Len(r)
  BY <1>1
<1>4. Range(r) = Range(s) \cup Range(t)
  <2>1. Range(r) \subseteq Range(s) \cup Range(t)
    <3>1. SUFFICES ASSUME NEW i \in 1..Len(r) PROVE r[i] \in Range(s) \cup Range(t)
      BY <1>3 DEF Range
    <3>2. CASE i \in 1..Len(s)
      BY <1>1, <1>3, <3>2 DEF Range
    <3>3. CASE \E j \in 1..Len(t) : i = Len(s) + j
      BY <1>1, <1>3, <3>3 DEF Range
    <3>4. QED  BY <1>2, <3>2, <3>3
  <2>2. Range(s) \subseteq Range(r)
    <3>1. 1..Len(s) \subseteq 1..Len(r)
      BY <1>1
    <3>2. \A i \in 1..Len(s) : r[i] = s[i]
      BY <1>1
    <3>3. QED  BY <1>3, <3>1, <3>2 DEF Range
  <2>3. Range(t) \subseteq Range(r)
    <3>1. \A j \in 1..Len(t) : Len(s) + j \in 1..Len(r)
      BY <1>1
    <3>2. \A j \in 1..Len(t) : r[Len(s) + j] = t[j]
      BY <1>1
    <3>3. QED  BY <1>3, <3>1, <3>2 DEF Range
  <2>4. QED  BY <2>1, <2>2, <2>3
<1>5. ASSUME Injective(s), Injective(t), Range(s) \cap Range(t) = {}
      PROVE  Injective(r)
  <2>1. \A i \in 1..Len(s), j \in 1..Len(t) : s[i] # t[j]
    BY <1>3, <1>5 DEF Range
  <2>2. SUFFICES ASSUME NEW i \in 1..Len(r), NEW j \in 1..Len(r), r[i] = r[j]
                 PROVE  i = j
    BY <1>3 DEF Injective
  <2>3. CASE i \in 1..Len(s) /\ j \in 1..Len(s)
    BY <1>1, <1>3, <1>5, <2>2, <2>3 DEF Injective
  <2>4. CASE i \in 1..Len(s) /\ j \notin 1..Len(s)
    BY <1>1, <1>2, <2>1, <2>2, <2>4
  <2>5. CASE i \notin 1..Len(s) /\ j \in 1..Len(s)
    BY <1>1, <1>2, <2>1, <2>2, <2>5
  <2>6. CASE i \notin 1..Len(s) /\ j \notin 1..Len(s)
    <3>1. PICK a \in 1..Len(t), b \in 1..Len(t) : i = Len(s) + a /\ j = Len(s) + b
      BY <1>2, <2>6
    <3>2. t[a] = t[b]
      <4>1. r[Len(s) + a] = t[a] /\ r[Len(s) + b] = t[b]
        BY <1>1
      <4>2. QED  BY <2>2, <3>1, <4>1
    <3>3. QED  BY <1>3, <1>5, <3>1, <3>2 DEF Injective
  <2>7. QED  BY <2>3, <2>4, <2>5, <2>6
<1>6. QED  BY <1>1, <1>4, <1>5 DEF r

\* A list without repetitions has as many members as places.
LEMMA InjectiveCardinality ==
    ASSUME NEW X, NEW s \in Seq(X), Injective(s)
    PROVE  Cardinality(Range(s)) = Len(s)
<1>1. s \in Surjection(1..Len(s), Range(s)) /\ s \in Injection(1..Len(s), Range(s))
  <2>1. s \in [1..Len(s) -> Range(s)]
    BY DEF Range
  <2>2. \A i, j \in 1..Len(s) : s[i] = s[j] => i = j
    BY DEF Injective
  <2>3. \A x \in Range(s) : \E i \in 1..Len(s) : s[i] = x
    BY DEF Range
  <2>4. QED  BY <2>1, <2>2, <2>3 DEF Surjection, Injection, IsInjective
<1>2. IsFiniteSet(1..Len(s)) /\ Cardinality(1..Len(s)) = Len(s)
  <2>1. Len(s) \in Nat /\ Len(s) \in Int /\ 1 \in Int
    OBVIOUS
  <2> DEFINE n == Len(s)
  <2> HIDE DEF n
  <2>2. n \in Nat
    BY <2>1 DEF n
  <2>3. /\ IsFiniteSet(1..n)
        /\ Cardinality(1..n) = IF 1 > n THEN 0 ELSE n - 1 + 1
    BY <2>2, FS_Interval
  <2>4. Cardinality(1..n) = n
    BY <2>2, <2>3
  <2>5. QED  BY <2>3, <2>4 DEF n
<1>3. QED  BY <1>1, <1>2, FS_Surjection

\* What holds of the start of a recursion and of each value after the one before
\* holds of every value.
LEMMA FoldType ==
    ASSUME NEW X, NEW N \in Nat, NEW f,
           f[0] \in X,
           \A n \in 1..N : f[n - 1] \in X => f[n] \in X
    PROVE  \A n \in 0..N : f[n] \in X
<1> DEFINE Bad == {n \in 0..N : f[n] \notin X}
<1>1. SUFFICES ASSUME Bad # {} PROVE FALSE
  OBVIOUS
<1>2. PICK n \in Bad : \A k \in Bad : n <= k
  <2>1. Bad \in SUBSET Nat
    OBVIOUS
  <2> HIDE DEF Bad
  <2>2. QED  BY <1>1, <2>1, LeastNatural
<1>3. n \in 1..N
  OBVIOUS
<1>4. f[n - 1] \in X
  <2>1. n - 1 \in 0..N /\ ~(n <= n - 1)
    BY <1>3
  <2>2. n - 1 \notin Bad
    <3> HIDE DEF Bad
    <3>1. QED  BY <1>2, <2>1
  <2>3. QED  BY <2>1, <2>2
<1>5. QED  BY <1>3, <1>4

\* f goes through the first m steps from a.
IsFold(f, a, step, m) ==
    f[0] = a /\ \A i \in 1..m : f[i] = step[<<f[i - 1], i>>]

\* A recursion over the naturals defines a function.
LEMMA FoldDefined ==
    ASSUME NEW X, NEW a \in X, NEW N \in Nat, NEW step \in [X \X (1..N) -> X]
    PROVE  \E f \in [0..N -> X] : IsFold(f, a, step, N)
<1> DEFINE Folds(m) == {f \in [0..m -> X] : IsFold(f, a, step, m)}
           Bad == {m \in 0..N : Folds(m) = {}}
<1>1. SUFFICES ASSUME Bad # {} PROVE FALSE
  OBVIOUS
<1>2. PICK m \in Bad : \A k \in Bad : m <= k
  <2>1. Bad \in SUBSET Nat
    OBVIOUS
  <2> HIDE DEF Bad
  <2>2. QED  BY <1>1, <2>1, LeastNatural
<1>3. m \in 1..N
  <2>1. [i \in 0..0 |-> a] \in Folds(0)
    BY DEF IsFold
  <2>2. m # 0
    BY <2>1
  <2>3. QED  BY <2>2
<1>4. PICK f \in [0..(m - 1) -> X] : IsFold(f, a, step, m - 1)
  <2>1. m - 1 \in 0..N /\ ~(m <= m - 1)
    BY <1>3
  <2>2. m - 1 \notin Bad
    <3> HIDE DEF Bad
    <3>1. QED  BY <1>2, <2>1
  <2>3. QED  BY <2>1, <2>2
<1> DEFINE g == [i \in 0..m |-> IF i = m THEN step[<<f[m - 1], m>>] ELSE f[i]]
<1>5. g \in [0..m -> X]
  <2>1. f[m - 1] \in X /\ <<f[m - 1], m>> \in X \X (1..N)
    BY <1>3
  <2>2. step[<<f[m - 1], m>>] \in X
    BY <2>1
  <2>3. ASSUME NEW i \in 0..m, i # m PROVE f[i] \in X
    BY <1>3, <2>3
  <2>4. QED  BY <2>2, <2>3
<1>6. IsFold(g, a, step, m)
  <2>1. g[0] = a
    BY <1>3, <1>4 DEF IsFold
  <2>2. ASSUME NEW i \in 1..m PROVE g[i] = step[<<g[i - 1], i>>]
    <3>1. i - 1 \in 0..m /\ i - 1 # m /\ i \in 0..m /\ g[i - 1] = f[i - 1]
      BY <1>3
    <3>2. CASE i = m
      BY <3>1, <3>2
    <3>3. CASE i # m
      <4>1. i \in 1..(m - 1)
        BY <3>3, <1>3
      <4>2. f[i] = step[<<f[i - 1], i>>]
        BY <4>1, <1>4 DEF IsFold
      <4>3. QED  BY <3>1, <3>3, <4>2
    <3>4. QED  BY <3>2, <3>3
  <2>3. QED  BY <2>1, <2>2 DEF IsFold
<1>7. QED  BY <1>2, <1>5, <1>6

\* What holds of zero and of each number after the one before holds up to N.
LEMMA UpTo ==
    ASSUME NEW N \in Nat, NEW T, 0 \in T, \A n \in 1..N : n - 1 \in T => n \in T
    PROVE  \A n \in 0..N : n \in T
<1> DEFINE f == [n \in 0..N |-> n]
<1>1. f[0] \in T /\ \A n \in 1..N : f[n - 1] \in T => f[n] \in T
  OBVIOUS
<1> HIDE DEF f
<1>2. \A n \in 0..N : f[n] \in T
  BY <1>1, FoldType
<1>3. QED  BY <1>2 DEF f

\* A strict total order on a set, and the list of the set that puts each member at
\* the place that the number of those before it gives.
StrictOrder(S, R) ==
    /\ \A a \in S : <<a, a>> \notin R
    /\ \A a, b \in S : a # b => <<a, b>> \in R \/ <<b, a>> \in R
    /\ \A a, b, c \in S : <<a, b>> \in R /\ <<b, c>> \in R => <<a, c>> \in R

Below(S, R, a) == {b \in S : <<b, a>> \in R}

IsListing(list, S, R) ==
    list = [n \in 1..Cardinality(S) |-> CHOOSE a \in S : Cardinality(Below(S, R, a)) = n - 1]

\* Each member of a finite set in a strict total order has a rank of its own.
LEMMA Ranks ==
    ASSUME NEW S, IsFiniteSet(S), NEW R, StrictOrder(S, R), NEW N, N = Cardinality(S)
    PROVE  \E rank \in [S -> 0..(N - 1)] :
              /\ \A a \in S : rank[a] = Cardinality(Below(S, R, a))
              /\ \A a, b \in S : <<a, b>> \in R => rank[a] < rank[b]
              /\ \A a, b \in S : rank[a] = rank[b] => a = b
              /\ \A t \in 0..(N - 1) : \E a \in S : rank[a] = t
<1> DEFINE rank == [a \in S |-> Cardinality(Below(S, R, a))]
           T == 0..(N - 1)
<1>1. N \in Nat
  BY FS_CardinalityType
<1>2. ASSUME NEW a \in S
      PROVE  IsFiniteSet(Below(S, R, a)) /\ Cardinality(Below(S, R, a)) \in T
  <2>1. Below(S, R, a) \in SUBSET S /\ Below(S, R, a) # S
    BY DEF Below, StrictOrder
  <2>2. IsFiniteSet(Below(S, R, a)) /\ Cardinality(Below(S, R, a)) <= N
        /\ Cardinality(Below(S, R, a)) # N
    BY <2>1, FS_Subset
  <2>3. Cardinality(Below(S, R, a)) \in Nat
    BY <2>2, FS_CardinalityType
  <2>4. QED  BY <1>1, <2>2, <2>3
<1>3. ASSUME NEW a \in S, NEW b \in S, <<a, b>> \in R
      PROVE  Cardinality(Below(S, R, a)) < Cardinality(Below(S, R, b))
  <2>1. Below(S, R, a) \in SUBSET Below(S, R, b) /\ Below(S, R, a) # Below(S, R, b)
    BY <1>3 DEF Below, StrictOrder
  <2>2. /\ IsFiniteSet(Below(S, R, b))
        /\ Cardinality(Below(S, R, a)) \in Nat /\ Cardinality(Below(S, R, b)) \in Nat
    BY <1>1, <1>2
  <2>3. /\ Cardinality(Below(S, R, a)) <= Cardinality(Below(S, R, b))
        /\ Cardinality(Below(S, R, a)) # Cardinality(Below(S, R, b))
    BY <2>1, <2>2, FS_Subset
  <2>4. QED  BY <2>2, <2>3
<1>4. rank \in [S -> T] /\ \A a \in S : rank[a] = Cardinality(Below(S, R, a))
  BY <1>2
<1> HIDE DEF rank
<1>5. \A a, b \in S : <<a, b>> \in R => rank[a] < rank[b]
  BY <1>3, <1>4
<1>6. \A a, b \in S : rank[a] = rank[b] => a = b
  <2>1. SUFFICES ASSUME NEW a \in S, NEW b \in S, rank[a] = rank[b], a # b PROVE FALSE
    OBVIOUS
  <2>2. rank[a] \in Int /\ rank[b] \in Int
    BY <1>1, <1>4
  <2>3. <<a, b>> \in R \/ <<b, a>> \in R
    BY <2>1 DEF StrictOrder
  <2>4. QED  BY <1>5, <2>1, <2>2, <2>3
<1>7. rank \in Injection(S, T)
  BY <1>4, <1>6 DEF Injection, IsInjective
<1>8. IsFiniteSet(T) /\ Cardinality(T) = N
  <2>1. 0 \in Int /\ N - 1 \in Int
    BY <1>1
  <2>2. IsFiniteSet(T) /\ Cardinality(T) = IF 0 > N - 1 THEN 0 ELSE N - 1 - 0 + 1
    BY <2>1, FS_Interval
  <2>3. QED  BY <1>1, <2>2
<1> HIDE DEF T
<1>9. rank \in Surjection(S, T)
  BY <1>7, <1>8, FS_Injection
<1>10. \A t \in T : \E a \in S : rank[a] = t
  BY <1>9 DEF Surjection
<1>11. QED  BY <1>4, <1>5, <1>6, <1>10 DEF T

\* The listing has all members, once and in order.
LEMMA Listing ==
    ASSUME NEW S, IsFiniteSet(S), NEW R, StrictOrder(S, R), NEW list, IsListing(list, S, R)
    PROVE  /\ Cardinality(S) \in Nat
           /\ list \in Seq(S) /\ Len(list) = Cardinality(S) /\ DOMAIN list = 1..Cardinality(S)
           /\ Range(list) = S /\ Injective(list)
           /\ \A i, j \in DOMAIN list : i < j <=> <<list[i], list[j]>> \in R
<1>1. PICK N \in Nat : N = Cardinality(S)
  BY FS_CardinalityType
<1>2. PICK rank \in [S -> 0..(N - 1)] :
              /\ \A a \in S : rank[a] = Cardinality(Below(S, R, a))
              /\ \A a, b \in S : <<a, b>> \in R => rank[a] < rank[b]
              /\ \A a, b \in S : rank[a] = rank[b] => a = b
              /\ \A t \in 0..(N - 1) : \E a \in S : rank[a] = t
  BY <1>1, Ranks
<1>3. DOMAIN list = 1..N /\ \A n \in 1..N : list[n] = CHOOSE a \in S : Cardinality(Below(S, R, a)) = n - 1
  BY <1>1 DEF IsListing
<1>4. ASSUME NEW n \in 1..N PROVE list[n] \in S /\ rank[list[n]] = n - 1
  <2>1. n - 1 \in 0..(N - 1)
    BY <1>1
  <2>2. \E a \in S : Cardinality(Below(S, R, a)) = n - 1
    BY <1>2, <2>1
  <2>3. list[n] \in S /\ Cardinality(Below(S, R, list[n])) = n - 1
    BY <1>3, <2>2
  <2>4. QED  BY <1>2, <2>3
<1>5. list \in Seq(S) /\ Len(list) = N
  <2>1. list = [n \in 1..N |-> list[n]]
    BY <1>1 DEF IsListing
  <2>2. \A n \in 1..N : list[n] \in S
    BY <1>4
  <2>3. list \in [1..N -> S]
    BY <2>1, <2>2
  <2>4. QED  BY <2>3
<1>6. Injective(list)
  <2>1. SUFFICES ASSUME NEW i \in 1..N, NEW j \in 1..N, list[i] = list[j] PROVE i = j
    BY <1>3 DEF Injective
  <2>2. i - 1 = j - 1
    BY <1>4, <2>1
  <2>3. QED  BY <2>2
<1>7. Range(list) = S
  <2>1. ASSUME NEW a \in S PROVE \E n \in 1..N : list[n] = a
    <3>1. PICK n \in 1..N : rank[a] = n - 1
      <4>1. rank[a] \in 0..(N - 1)
        BY <1>2
      <4>2. rank[a] + 1 \in 1..N /\ rank[a] = (rank[a] + 1) - 1
        BY <4>1
      <4>3. QED  BY <4>2
    <3>2. list[n] \in S /\ rank[list[n]] = rank[a]
      BY <1>4, <3>1
    <3>3. QED  BY <1>2, <3>2
  <2>2. \A n \in 1..N : list[n] \in S
    BY <1>4
  <2>3. DOMAIN list = 1..N
    BY <1>3
  <2>4. QED  BY <2>1, <2>2, <2>3 DEF Range
<1>8. ASSUME NEW i \in 1..N, NEW j \in 1..N
      PROVE  i < j <=> <<list[i], list[j]>> \in R
  <2>1. list[i] \in S /\ list[j] \in S /\ rank[list[i]] = i - 1 /\ rank[list[j]] = j - 1
    BY <1>4
  <2>2. <<list[i], list[j]>> \in R => i < j
    <3>1. <<list[i], list[j]>> \in R => rank[list[i]] < rank[list[j]]
      BY <1>2, <2>1
    <3>2. QED  BY <2>1, <3>1
  <2>3. <<list[j], list[i]>> \in R => j < i
    <3>1. <<list[j], list[i]>> \in R => rank[list[j]] < rank[list[i]]
      BY <1>2, <2>1
    <3>2. QED  BY <2>1, <3>1
  <2>4. i # j => list[i] # list[j]
    BY <2>1
  <2>5. list[i] # list[j] => <<list[i], list[j]>> \in R \/ <<list[j], list[i]>> \in R
    BY <2>1 DEF StrictOrder
  <2>6. QED  BY <2>2, <2>3, <2>4, <2>5
<1>9. QED  BY <1>1, <1>3, <1>5, <1>6, <1>7, <1>8

\* The sum of a list is reached place by place.
LEMMA TotalDefined ==
    ASSUME NEW s \in Seq(Int)
    PROVE  \E f \in [0..Len(s) -> Int] : /\ f[0] = 0
                                         /\ \A n \in 1..Len(s) : f[n] = f[n - 1] + s[n]
                                         /\ Total(s) = f[Len(s)]
<1> DEFINE N == Len(s)
           IsTotal(g) == g = [n \in 0..N |-> IF n = 0 THEN 0 ELSE g[n - 1] + s[n]]
           step == [x \in Int \X (1..N) |-> x[1] + s[x[2]]]
           total == CHOOSE g : IsTotal(g)
<1>0. N \in Nat /\ \A n \in 1..N : s[n] \in Int
  OBVIOUS
<1>1. step \in [Int \X (1..N) -> Int]
  BY <1>0
<1>2. PICK f \in [0..N -> Int] : IsFold(f, 0, step, N)
  <2> HIDE DEF step, N
  <2>1. 0 \in Int
    OBVIOUS
  <2>2. QED  BY <1>0, <1>1, <2>1, FoldDefined
<1>3. f[0] = 0 /\ \A n \in 1..N : f[n] = f[n - 1] + s[n]
  <2>1. ASSUME NEW n \in 1..N PROVE f[n] = f[n - 1] + s[n]
    <3>1. f[n] = step[<<f[n - 1], n>>]
      BY <1>2 DEF IsFold
    <3>2. n - 1 \in 0..N
      BY <1>0
    <3>3. f[n - 1] \in Int
      BY <1>2, <3>2
    <3>4. QED  BY <3>1, <3>3
  <2>2. QED  BY <1>2, <2>1 DEF IsFold
<1>4. IsTotal(f)
  <2>1. \A n \in 0..N : f[n] = IF n = 0 THEN 0 ELSE f[n - 1] + s[n]
    BY <1>0, <1>3
  <2>2. QED  BY <2>1
<1>5. IsTotal(total)
  <2> HIDE DEF IsTotal
  <2>1. QED  BY <1>4
<1>6. Total(s) = total[N]
  BY DEF Total
<1> HIDE DEF total
<1>7. total \in [0..N -> Int] /\ total[0] = 0 /\ \A n \in 1..N : total[n] = total[n - 1] + s[n]
  <2>1. /\ \A n \in 0..N : total[n] = IF n = 0 THEN 0 ELSE total[n - 1] + s[n]
        /\ DOMAIN total = 0..N /\ total = [n \in 0..N |-> total[n]]
    BY <1>5
  <2>2. total[0] = 0 /\ \A n \in 1..N : total[n] = total[n - 1] + s[n]
    <3>1. 0 \in 0..N /\ \A n \in 1..N : n \in 0..N /\ n # 0
      BY <1>0
    <3>2. QED  BY <2>1, <3>1
  <2>3. \A n \in 0..N : total[n] \in Int
    <3>1. total[0] \in Int /\ \A n \in 1..N : total[n - 1] \in Int => total[n] \in Int
      BY <1>0, <2>2
    <3> HIDE DEF N
    <3>2. QED  BY <1>0, <3>1, FoldType
  <2>4. QED  BY <2>1, <2>2, <2>3
<1>8. QED  BY <1>6, <1>7

\* A list that is nowhere above another has no greater sum.
LEMMA TotalMonotone ==
    ASSUME NEW s \in Seq(Int), NEW t \in Seq(Int), Len(s) = Len(t), \A n \in 1..Len(s) : s[n] <= t[n]
    PROVE  Total(s) \in Int /\ Total(t) \in Int /\ Total(s) <= Total(t)
<1> DEFINE N == Len(s)
<1>1. PICK f \in [0..N -> Int] : f[0] = 0 /\ (\A n \in 1..N : f[n] = f[n - 1] + s[n]) /\ Total(s) = f[N]
  BY TotalDefined
<1>2. PICK g \in [0..N -> Int] : g[0] = 0 /\ (\A n \in 1..N : g[n] = g[n - 1] + t[n]) /\ Total(t) = g[N]
  BY TotalDefined
<1>3. N \in Nat /\ \A n \in 1..N : s[n] \in Int /\ t[n] \in Int /\ n - 1 \in 0..N /\ n \in 0..N
  OBVIOUS
<1> DEFINE T == {n \in 0..N : f[n] <= g[n]}
<1>4. 0 \in T /\ \A n \in 1..N : n - 1 \in T => n \in T
  <2> HIDE DEF N
  <2>1. 0 \in T
    BY <1>1, <1>2, <1>3
  <2>2. ASSUME NEW n \in 1..N, n - 1 \in T PROVE f[n] <= g[n]
    <3>1. f[n] = f[n - 1] + s[n] /\ g[n] = g[n - 1] + t[n] /\ f[n - 1] <= g[n - 1] /\ s[n] <= t[n]
      BY <1>1, <1>2, <2>2 DEF N
    <3>2. f[n - 1] \in Int /\ g[n - 1] \in Int /\ s[n] \in Int /\ t[n] \in Int
      BY <1>3
    <3>3. f[n - 1] + s[n] <= g[n - 1] + t[n]
      BY <3>1, <3>2
    <3>4. QED  BY <3>1, <3>3
  <2>3. QED  BY <1>3, <2>1, <2>2
<1>5. N \in T
  <2> HIDE DEF N, T
  <2>1. N \in 0..N
    BY <1>3
  <2>2. QED  BY <1>3, <1>4, <2>1, UpTo
<1>6. QED  BY <1>1, <1>2, <1>3, <1>5

\* A list is comprehended to nothing only if it is of what is left out.
LEMMA FilteredEmpty ==
    ASSUME NEW X, NEW s \in Seq(X), NEW S, Filtered(s, S) = <<>>
    PROVE  \A i \in DOMAIN s : s[i] \in S
<1>1. Range(s) \ S = {}
  <2>1. Range(Filtered(s, S)) = Range(s) \ S
    BY FilteredProperties
  <2>2. QED  BY <2>1 DEF Range
<1>2. QED  BY <1>1 DEF Range

\* What a comprehension keeps is as long as the places it keeps are many.
LEMMA FilteredLength ==
    ASSUME NEW X, NEW s \in Seq(X), NEW S
    PROVE  /\ Len(Filtered(s, S)) \in Nat
           /\ Len(Filtered(s, S)) = Cardinality({i \in DOMAIN s : s[i] \notin S})
<1> DEFINE N == Len(s)
           kept == CHOOSE g : IsFilter(g, s, S, N)
           Kept(n) == {i \in 1..n : s[i] \notin S}
           Good(n) == kept[n] \in Seq(X) /\ IsFiniteSet(Kept(n)) /\ Len(kept[n]) = Cardinality(Kept(n))
           T == {n \in 0..N : Good(n)}
<1>1. N \in Nat /\ DOMAIN s = 1..N /\ \A n \in 1..N : s[n] \in X
  OBVIOUS
<1>2. IsFilter(kept, s, S, N)
  <2>1. N \in 0..N
    BY <1>1
  <2>2. \E g : IsFilter(g, s, S, N)
    BY <2>1, FilteredDefined
  <2>3. QED  BY <2>2
<1>3. Filtered(s, S) = kept[N]
  BY DEF Filtered, IsFilter
<1> HIDE DEF kept, N
<1>4. \A i \in 0..N : kept[i] = IF i = 0 THEN <<>>
                                ELSE IF s[i] \in S THEN kept[i - 1] ELSE Append(kept[i - 1], s[i])
  BY <1>2 DEF IsFilter
<1>5. 0 \in T
  <2>1. Kept(0) = {} /\ 0 \in 0..N
    BY <1>1
  <2>2. kept[0] = <<>>
    BY <1>4, <2>1
  <2>3. IsFiniteSet(Kept(0)) /\ Cardinality(Kept(0)) = 0
    BY <2>1, FS_EmptySet
  <2>4. kept[0] \in Seq(X) /\ Len(kept[0]) = 0
    BY <2>2
  <2>5. QED  BY <2>1, <2>3, <2>4
<1>6. ASSUME NEW n \in 1..N, n - 1 \in T PROVE n \in T
  <2>1. n \in 0..N /\ n # 0 /\ kept[n - 1] \in Seq(X) /\ Len(kept[n - 1]) = Cardinality(Kept(n - 1))
        /\ IsFiniteSet(Kept(n - 1))
    BY <1>1, <1>6
  <2>2. kept[n] = IF s[n] \in S THEN kept[n - 1] ELSE Append(kept[n - 1], s[n])
    BY <1>4, <2>1
  <2>3. CASE s[n] \in S
    <3>1. Kept(n) = Kept(n - 1)
      BY <1>1, <2>3
    <3>2. QED  BY <2>1, <2>2, <2>3, <3>1
  <2>4. CASE s[n] \notin S
    <3>1. Kept(n) = Kept(n - 1) \cup {n} /\ n \notin Kept(n - 1)
      BY <1>1, <2>4
    <3>2. IsFiniteSet(Kept(n)) /\ Cardinality(Kept(n)) = Cardinality(Kept(n - 1)) + 1
      <4> HIDE DEF Kept
      <4>1. QED  BY <2>1, <3>1, FS_AddElement
    <3>3. kept[n] \in Seq(X) /\ Len(kept[n]) = Len(kept[n - 1]) + 1
      BY <1>1, <2>1, <2>2, <2>4
    <3>4. QED  BY <2>1, <3>2, <3>3
  <2>5. QED  BY <2>3, <2>4
<1>7. N \in T
  <2> HIDE DEF T
  <2>1. QED  BY <1>1, <1>5, <1>6, UpTo
<1>8. Kept(N) = {i \in DOMAIN s : s[i] \notin S}
  BY <1>1
<1>9. Len(kept[N]) \in Nat /\ Len(kept[N]) = Cardinality(Kept(N))
  <2>1. kept[N] \in Seq(X) /\ Len(kept[N]) = Cardinality(Kept(N))
    BY <1>7
  <2>2. QED  BY <2>1
<1> HIDE DEF Kept
<1>10. QED  BY <1>3, <1>8, <1>9

\* As many places of a list of a whole set hold a member of a part as the part has.
LEMMA PlacesOf ==
    ASSUME NEW S, IsFiniteSet(S), NEW p \in Seq(S), Injective(p), Range(p) = S, NEW A \in SUBSET S
    PROVE  Cardinality({i \in DOMAIN p : p[i] \in A}) = Cardinality(A)
<1> DEFINE P == {i \in DOMAIN p : p[i] \in A}
           f == [i \in P |-> p[i]]
<1>1. f \in Surjection(P, A)
  BY DEF Surjection, Range
<1>2. f \in Injection(P, A)
  BY DEF Injection, IsInjective, Injective
<1>3. IsFiniteSet(DOMAIN p)
  <2>1. DOMAIN p = 1..Len(p) /\ 1 \in Int /\ Len(p) \in Int
    OBVIOUS
  <2>2. QED  BY <2>1, FS_Interval
<1>4. IsFiniteSet(P)
  BY <1>3, FS_Subset
<1> HIDE DEF f, P
<1>5. QED  BY <1>1, <1>2, <1>4, FS_Surjection DEF P

\* What goes up through as many places as there are values is at its own place.
LEMMA InPlace ==
    ASSUME NEW N \in Nat, NEW f \in [1..N -> 1..N], \A i, j \in 1..N : i < j => f[i] < f[j]
    PROVE  \A i \in 1..N : f[i] = i
<1> DEFINE Up == {n \in 0..N : n > 0 => f[n] >= n}
           Down == {n \in 0..N : n < N => f[N - n] <= N - n}
<1>1. 0 \in Up /\ \A n \in 1..N : n - 1 \in Up => n \in Up
  <2>1. ASSUME NEW n \in 1..N, n - 1 \in Up PROVE f[n] >= n
    <3>1. CASE n = 1
      BY <3>1
    <3>2. CASE n # 1
      <4>1. n - 1 \in 1..N /\ n - 1 < n
        BY <3>2
      <4>2. f[n - 1] >= n - 1 /\ f[n - 1] < f[n] /\ f[n] \in Int /\ f[n - 1] \in Int
        BY <2>1, <4>1
      <4>3. QED  BY <4>2
    <3>3. QED  BY <3>1, <3>2
  <2>2. QED  BY <2>1
<1>2. 0 \in Down /\ \A n \in 1..N : n - 1 \in Down => n \in Down
  <2>1. ASSUME NEW n \in 1..N, n - 1 \in Down, n < N PROVE f[N - n] <= N - n
    <3>1. N - n \in 1..N /\ N - (n - 1) \in 1..N /\ N - n < N - (n - 1) /\ n - 1 < N
      BY <2>1
    <3>2. f[N - (n - 1)] <= N - (n - 1) /\ f[N - n] < f[N - (n - 1)]
          /\ f[N - n] \in Int /\ f[N - (n - 1)] \in Int
      BY <2>1, <3>1
    <3>3. QED  BY <3>2
  <2>2. 0 \in Down
    <3>1. 0 < N => N - 0 = N /\ N \in 1..N
      OBVIOUS
    <3>2. QED  BY <3>1
  <2>3. QED  BY <2>1, <2>2
<1>3. (\A n \in 0..N : n \in Up) /\ (\A n \in 0..N : n \in Down)
  <2> HIDE DEF Up, Down
  <2>1. QED  BY <1>1, <1>2, UpTo
<1>4. ASSUME NEW i \in 1..N PROVE f[i] = i
  <2>1. i \in 0..N /\ N - i \in 0..N /\ N - i < N /\ N - (N - i) = i /\ f[i] \in Int
    OBVIOUS
  <2>2. f[i] >= i
    BY <1>3, <2>1
  <2>3. f[i] <= i
    BY <1>3, <2>1
  <2>4. QED  BY <2>1, <2>2, <2>3
<1>5. QED  BY <1>4

\* A set of naturals up to a bound that is not empty has a greatest member.
LEMMA GreatestNatural ==
    ASSUME NEW N \in Nat, NEW T \in SUBSET (0..N), T # {}
    PROVE  \E m \in T : \A k \in T : m >= k
<1> DEFINE Rest == {N - k : k \in T}
<1>1. Rest \in SUBSET Nat /\ Rest # {}
  <2>1. \A k \in T : N - k \in Nat
    OBVIOUS
  <2>2. QED  BY <2>1
<1>2. PICK r \in Rest : \A k \in Rest : r <= k
  <2> HIDE DEF Rest
  <2>1. QED  BY <1>1, LeastNatural
<1>3. PICK m \in T : r = N - m
  OBVIOUS
<1>4. ASSUME NEW k \in T PROVE m >= k
  <2>1. N - m <= N - k
    BY <1>2, <1>3
  <2>2. QED  BY <2>1
<1>5. QED  BY <1>4

\* What is kept of a list that goes up goes up.
LEMMA FilteredAscends ==
    ASSUME NEW s \in Seq(Int), NEW S, \A i, j \in 1..Len(s) : i < j => s[i] < s[j]
    PROVE  \A i, j \in 1..Len(Filtered(s, S)) : i < j => Filtered(s, S)[i] < Filtered(s, S)[j]
<1> DEFINE N == Len(s)
           kept == CHOOSE g : IsFilter(g, s, S, N)
           Good(n) == /\ kept[n] \in Seq(Int)
                      /\ \A i \in 1..Len(kept[n]) : \E m \in 1..n : kept[n][i] = s[m]
                      /\ \A i, j \in 1..Len(kept[n]) : i < j => kept[n][i] < kept[n][j]
           T == {n \in 0..N : Good(n)}
<1>1. N \in Nat /\ \A n \in 1..N : s[n] \in Int
  OBVIOUS
<1>2. IsFilter(kept, s, S, N)
  <2>1. N \in 0..N
    BY <1>1
  <2>2. \E g : IsFilter(g, s, S, N)
    BY <2>1, FilteredDefined
  <2>3. QED  BY <2>2
<1>3. Filtered(s, S) = kept[N]
  BY DEF Filtered, IsFilter
<1>31. \A i, j \in 1..N : i < j => s[i] < s[j]
  OBVIOUS
<1> HIDE DEF kept, N
<1>4. \A i \in 0..N : kept[i] = IF i = 0 THEN <<>>
                                ELSE IF s[i] \in S THEN kept[i - 1] ELSE Append(kept[i - 1], s[i])
  BY <1>2 DEF IsFilter
<1>5. 0 \in T
  <2>1. 0 \in 0..N
    BY <1>1
  <2>2. kept[0] = <<>>
    BY <1>4, <2>1
  <2>3. kept[0] \in Seq(Int) /\ 1..Len(kept[0]) = {}
    BY <2>2
  <2>4. QED  BY <2>1, <2>3
<1>6. ASSUME NEW n \in 1..N, n - 1 \in T PROVE n \in T
  <2> DEFINE t == kept[n - 1]
  <2>1. n \in 0..N /\ n # 0
    BY <1>1
  <2>2. kept[n] = IF s[n] \in S THEN t ELSE Append(t, s[n])
    BY <1>4, <2>1
  <2>3. /\ t \in Seq(Int)
        /\ \A i \in 1..Len(t) : \E m \in 1..(n - 1) : t[i] = s[m]
        /\ \A i, j \in 1..Len(t) : i < j => t[i] < t[j]
    BY <1>6
  <2> HIDE DEF t
  <2>4. CASE s[n] \in S
    <3>1. \A i \in 1..Len(t) : \E m \in 1..n : t[i] = s[m]
      BY <1>1, <2>3
    <3>2. QED  BY <2>1, <2>2, <2>3, <2>4, <3>1
  <2>5. CASE s[n] \notin S
    <3>1. /\ kept[n] \in Seq(Int) /\ Len(kept[n]) = Len(t) + 1 /\ Len(t) \in Nat
          /\ \A i \in 1..Len(t) : kept[n][i] = t[i]
          /\ kept[n][Len(t) + 1] = s[n]
      BY <1>1, <2>2, <2>3, <2>5
    <3>2. \A i \in 1..Len(t) : t[i] < s[n] /\ t[i] \in Int
      <4>1. TAKE i \in 1..Len(t)
      <4>2. PICK m \in 1..(n - 1) : t[i] = s[m]
        BY <2>3
      <4>3. m \in 1..N /\ n \in 1..N /\ m < n
        BY <1>1
      <4>4. s[m] < s[n] /\ s[m] \in Int
        BY <1>1, <1>31, <4>3
      <4>5. QED  BY <4>2, <4>4
    <3>3. \A i \in 1..Len(kept[n]) : i \in 1..Len(t) \/ i = Len(t) + 1
      BY <3>1
    <3>4. \A i \in 1..Len(kept[n]) : \E m \in 1..n : kept[n][i] = s[m]
      <4>1. TAKE i \in 1..Len(kept[n])
      <4>2. CASE i \in 1..Len(t)
        <5>1. PICK m \in 1..(n - 1) : t[i] = s[m]
          BY <2>3, <4>2
        <5>2. m \in 1..n /\ kept[n][i] = s[m]
          BY <1>1, <3>1, <4>2, <5>1
        <5>3. QED  BY <5>2
      <4>3. CASE i = Len(t) + 1
        <5>1. n \in 1..n
          BY <1>1
        <5>2. QED  BY <3>1, <4>3, <5>1
      <4>4. QED  BY <3>3, <4>2, <4>3
    <3>5. ASSUME NEW i \in 1..Len(kept[n]), NEW j \in 1..Len(kept[n]), i < j
          PROVE  kept[n][i] < kept[n][j]
      <4>1. i \in 1..Len(t)
        BY <3>1, <3>5
      <4>2. CASE j \in 1..Len(t)
        BY <2>3, <3>1, <3>5, <4>1, <4>2
      <4>3. CASE j = Len(t) + 1
        BY <3>1, <3>2, <4>1, <4>3
      <4>4. QED  BY <3>3, <4>2, <4>3
    <3>6. QED  BY <2>1, <3>1, <3>4, <3>5
  <2>6. QED  BY <2>4, <2>5
<1>7. N \in T
  <2>1. N \in 0..N
    BY <1>1
  <2> HIDE DEF T
  <2>2. \A n \in 0..N : n \in T
    BY <1>1, <1>5, <1>6, UpTo
  <2>3. QED  BY <2>1, <2>2
<1>8. QED  BY <1>3, <1>7

\* Two lists one after the other, place by place.
LEMMA Concatenated ==
    ASSUME NEW X, NEW s \in Seq(X), NEW t \in Seq(X)
    PROVE  /\ s \o t \in Seq(X) /\ Len(s \o t) = Len(s) + Len(t)
           /\ \A i \in 1..Len(s) : (s \o t)[i] = s[i]
           /\ \A i \in 1..Len(t) : (s \o t)[Len(s) + i] = t[i]
OBVIOUS

\* A window of a list, place by place.
LEMMA Window ==
    ASSUME NEW X, NEW s \in Seq(X), NEW m \in Nat, NEW i \in 0..(Len(s) - m)
    PROVE  /\ SubSeq(s, i + 1, i + m) = [k \in 1..m |-> s[i + k]]
           /\ Len(SubSeq(s, i + 1, i + m)) = m
<1> DEFINE cut == SubSeq(s, i + 1, i + m)
<1>1. cut \in Seq(X) /\ Len(cut) = m
  OBVIOUS
<1>2. \A k \in 1..m : cut[k] = s[i + k]
  OBVIOUS
<1>3. DOMAIN cut = 1..m /\ cut = [k \in 1..Len(cut) |-> cut[k]]
  BY <1>1
<1> HIDE DEF cut
<1>4. cut = [k \in 1..m |-> s[i + k]]
  BY <1>1, <1>2, <1>3
<1>5. QED  BY <1>1, <1>4 DEF cut

\* The places of a list in a set are in order, and they are all.
LEMMA PlacesInOrder ==
    ASSUME NEW X, NEW s \in Seq(X), NEW P
    PROVE  LET places == PlacesIn(s, P)
           IN  /\ places \in Seq(Int) /\ Len(places) \in Nat /\ DOMAIN places = 1..Len(places)
               /\ \A i \in DOMAIN places : places[i] \in DOMAIN s \cap P
               /\ \A p \in DOMAIN s \cap P : \E i \in DOMAIN places : places[i] = p
               /\ \A i, j \in DOMAIN places : i < j => places[i] < places[j]
<1> DEFINE N == Len(s)
           all == [n \in DOMAIN s |-> n]
           places == Filtered(all, DOMAIN s \ P)
<1>1. N \in Nat /\ DOMAIN s = 1..N
  OBVIOUS
<1>2. PlacesIn(s, P) = places
  BY DEF PlacesIn
<1>3. all = [n \in 1..N |-> n]
  BY <1>1
<1> HIDE DEF N, all
<1>4. /\ all \in Seq(Int) /\ Len(all) = N /\ DOMAIN all = 1..N
      /\ \A i, j \in 1..Len(all) : i < j => all[i] < all[j]
  BY <1>1, <1>3
<1>5. places \in Seq(Int) /\ Range(places) = Range(all) \ (DOMAIN s \ P)
  BY <1>4, FilteredProperties
<1>6. \A i, j \in 1..Len(places) : i < j => places[i] < places[j]
  BY <1>4, FilteredAscends
<1> HIDE DEF places
<1>7. Range(all) = DOMAIN s
  BY <1>1, <1>3, <1>4 DEF Range
<1>8. Len(places) \in Nat /\ DOMAIN places = 1..Len(places)
  BY <1>5
<1>9. Range(places) = DOMAIN s \cap P
  BY <1>5, <1>7
<1>10. /\ \A i \in DOMAIN places : places[i] \in DOMAIN s \cap P
       /\ \A p \in DOMAIN s \cap P : \E i \in DOMAIN places : places[i] = p
  BY <1>9 DEF Range
<1>11. QED  BY <1>2, <1>5, <1>6, <1>8, <1>10

\* A concatenation is reached list by list.
LEMMA FlatDefined ==
    ASSUME NEW X, NEW lists \in Seq(Seq(X))
    PROVE  \E f \in [0..Len(lists) -> Seq(X)] :
              /\ f[0] = <<>>
              /\ \A n \in 1..Len(lists) : f[n] = f[n - 1] \o lists[n]
              /\ Flat(lists) = f[Len(lists)]
<1> DEFINE S == Seq(X)
           N == Len(lists)
           Is(g) == g = [n \in 0..N |-> IF n = 0 THEN <<>> ELSE g[n - 1] \o lists[n]]
           step == [x \in S \X (1..N) |-> x[1] \o lists[x[2]]]
           joined == CHOOSE g : Is(g)
<1>0. N \in Nat /\ \A n \in 1..N : lists[n] \in S
  OBVIOUS
<1>1. step \in [S \X (1..N) -> S] /\ <<>> \in S
  OBVIOUS
<1> HIDE DEF N
<1>2. PICK f \in [0..N -> S] : IsFold(f, <<>>, step, N)
  <2> HIDE DEF step, S
  <2>1. QED  BY <1>0, <1>1, FoldDefined
<1>3. f[0] = <<>> /\ \A n \in 1..N : f[n] = f[n - 1] \o lists[n]
  <2>1. ASSUME NEW n \in 1..N PROVE f[n] = f[n - 1] \o lists[n]
    <3>1. n - 1 \in 0..N
      BY <1>0
    <3>2. f[n - 1] \in S /\ f[n] = step[<<f[n - 1], n>>]
      <4> HIDE DEF step, S
      <4>1. QED  BY <1>2, <3>1 DEF IsFold
    <3> HIDE DEF S
    <3>3. <<f[n - 1], n>> \in S \X (1..N)
      BY <3>2
    <3>4. QED  BY <3>2, <3>3
  <2>2. QED  BY <1>2, <2>1 DEF IsFold
<1> HIDE DEF S
<1>4. Is(f)
  <2>1. ASSUME NEW n \in 0..N
        PROVE  f[n] = IF n = 0 THEN <<>> ELSE f[n - 1] \o lists[n]
    <3>1. n = 0 \/ n \in 1..N
      BY <1>0
    <3>2. QED  BY <1>3, <3>1
  <2>2. f = [n \in 0..N |-> f[n]]
    BY <1>2
  <2>3. QED  BY <2>1, <2>2
<1>5. Is(joined)
  BY <1>4
<1>6. Flat(lists) = joined[N]
  BY DEF Flat, N
<1> HIDE DEF joined
<1>7. DOMAIN joined = 0..N /\ joined[0] = <<>> /\ \A n \in 1..N : joined[n] = joined[n - 1] \o lists[n]
  <2>1. 0 \in 0..N /\ \A n \in 1..N : n \in 0..N /\ n # 0
    BY <1>0
  <2>2. QED  BY <1>5, <2>1
<1>8. \A n \in 0..N : joined[n] \in S
  <2>1. ASSUME NEW n \in 1..N, joined[n - 1] \in S PROVE joined[n] \in S
    <3>1. joined[n - 1] \o lists[n] \in S
      BY <1>0, <2>1 DEF S
    <3>2. QED  BY <1>7, <3>1
  <2>2. joined[0] \in S
    BY <1>7 DEF S
  <2>3. QED  BY <1>0, <2>1, <2>2, FoldType
<1>9. joined \in [0..N -> S]
  BY <1>5, <1>8
<1>10. QED  BY <1>6, <1>7, <1>9 DEF S, N
\* R orders the list; it orders the members of one list with those of another.
OrderedBy(s, R) == \A i, j \in 1..Len(s) : i < j => <<s[i], s[j]>> \in R
BeforeAll(s, u, R) == \A i \in 1..Len(s), j \in 1..Len(u) : <<s[i], u[j]>> \in R
AllOrdered(lists, R) ==
    /\ \A n \in 1..Len(lists) : OrderedBy(lists[n], R)
    /\ \A m, n \in 1..Len(lists) : m < n => BeforeAll(lists[m], lists[n], R)

\* A concatenation has the members of its lists, and no others; if R orders each list, and
\* the members of each with those of the later ones, then it orders the concatenation.
LEMMA FlatInOrder ==
    ASSUME NEW X, NEW lists \in Seq(Seq(X)), NEW R, NEW N, N = Len(lists), AllOrdered(lists, R)
    PROVE  LET flat == Flat(lists)
           IN  /\ flat \in Seq(X)
               /\ \A k \in 1..Len(flat) : \E n \in 1..N : \E i \in 1..Len(lists[n]) : flat[k] = lists[n][i]
               /\ \A n \in 1..N : \A i \in 1..Len(lists[n]) : \E k \in 1..Len(flat) : flat[k] = lists[n][i]
               /\ OrderedBy(flat, R)
<1> DEFINE From(s, n) == \A k \in 1..Len(s) : \E m \in 1..n : \E i \in 1..Len(lists[m]) : s[k] = lists[m][i]
           All(s, n) == \A m \in 1..n : \A i \in 1..Len(lists[m]) : \E k \in 1..Len(s) : s[k] = lists[m][i]
<1>1. PICK f \in [0..N -> Seq(X)] : /\ f[0] = <<>>
                                    /\ \A n \in 1..N : f[n] = f[n - 1] \o lists[n]
                                    /\ Flat(lists) = f[N]
  BY FlatDefined
<1>11. N \in Nat /\ \A n \in 1..N : lists[n] \in Seq(X)
  OBVIOUS
<1>12. \A n \in 0..N : f[n] \in Seq(X)
  <2> DEFINE S == Seq(X)
  <2>1. f \in [0..N -> S]
    BY <1>1
  <2> HIDE DEF S
  <2>2. \A n \in 0..N : f[n] \in S
    BY <2>1
  <2>3. QED  BY <2>2 DEF S
<1> DEFINE T == {n \in 0..N : From(f[n], n) /\ All(f[n], n) /\ OrderedBy(f[n], R)}
<1>2. 0 \in T
  <2>1. 1..Len(f[0]) = {} /\ 1..0 = {} /\ 0 \in 0..N
    <3>1. Len(<<>>) = 0
      OBVIOUS
    <3>2. QED  BY <1>1, <3>1
  <2>2. From(f[0], 0) /\ All(f[0], 0) /\ OrderedBy(f[0], R)
    BY <2>1 DEF OrderedBy
  <2> HIDE DEF From, All
  <2>3. QED  BY <2>1, <2>2
<1>3. ASSUME NEW n \in 1..N, n - 1 \in T PROVE n \in T
  <2> DEFINE s == f[n - 1]
             u == lists[n]
             r == f[n]
  <2>1. s \in Seq(X) /\ u \in Seq(X) /\ r = s \o u
    <3>1. n - 1 \in 0..N
      BY <1>11
    <3>2. f[n] = f[n - 1] \o lists[n]
      BY <1>1
    <3>3. QED  BY <1>11, <1>12, <3>1, <3>2
  <2>2. From(s, n - 1) /\ All(s, n - 1) /\ OrderedBy(s, R)
    BY <1>3
  <2>3. OrderedBy(u, R)
    BY DEF AllOrdered
  <2>4. \A m \in 1..(n - 1) : BeforeAll(lists[m], u, R)
    <3>1. \A m \in 1..(n - 1) : m \in 1..N /\ m < n
      OBVIOUS
    <3>2. QED  BY <3>1 DEF AllOrdered
  <2>41. n \in 1..n /\ \A m \in 1..(n - 1) : m \in 1..n
    OBVIOUS
  <2>42. \A m \in 1..n : m \in 1..(n - 1) \/ m = n
    OBVIOUS
  <2>43. Len(lists[n]) = Len(u) /\ \A i \in 1..Len(u) : lists[n][i] = u[i]
    OBVIOUS
  <2> HIDE DEF s, u, r
  <2>5. /\ r \in Seq(X) /\ Len(r) = Len(s) + Len(u) /\ Len(s) \in Nat /\ Len(u) \in Nat
        /\ \A i \in 1..Len(s) : r[i] = s[i]
        /\ \A i \in 1..Len(u) : r[Len(s) + i] = u[i]
    <3>1. Len(s) \in Nat /\ Len(u) \in Nat
      BY <2>1
    <3>2. QED  BY <2>1, <3>1, Concatenated
  <2>6. \A k \in 1..Len(r) : k \in 1..Len(s) \/ (k - Len(s) \in 1..Len(u) /\ k = Len(s) + (k - Len(s)))
    BY <2>5
  <2>7. (\A i \in 1..Len(s) : i \in 1..Len(r)) /\ \A i \in 1..Len(u) : Len(s) + i \in 1..Len(r)
    BY <2>5
  <2>8. From(r, n)
    <3>1. ASSUME NEW k \in 1..Len(r)
          PROVE  \E m \in 1..n : \E i \in 1..Len(lists[m]) : r[k] = lists[m][i]
      <4>1. CASE k \in 1..Len(s)
        <5>1. PICK m \in 1..(n - 1) : \E i \in 1..Len(lists[m]) : s[k] = lists[m][i]
          BY <2>2, <4>1
        <5>2. QED  BY <2>41, <2>5, <4>1, <5>1
      <4>2. CASE k \notin 1..Len(s)
        <5>1. k - Len(s) \in 1..Len(u) /\ r[k] = u[k - Len(s)]
          BY <2>5, <2>6, <4>2
        <5>2. QED  BY <2>41, <2>43, <5>1
      <4>3. QED  BY <4>1, <4>2
    <3>2. QED  BY <3>1
  <2>9. All(r, n)
    <3>1. ASSUME NEW m \in 1..n, NEW i \in 1..Len(lists[m])
          PROVE  \E k \in 1..Len(r) : r[k] = lists[m][i]
      <4>1. CASE m \in 1..(n - 1)
        <5>1. PICK k \in 1..Len(s) : s[k] = lists[m][i]
          BY <2>2, <4>1
        <5>2. QED  BY <2>5, <2>7, <5>1
      <4>2. CASE m = n
        <5>1. i \in 1..Len(u) /\ lists[m][i] = u[i]
          BY <2>43, <4>2
        <5>2. QED  BY <2>5, <2>7, <5>1
      <4>3. QED  BY <2>42, <4>1, <4>2
    <3>2. QED  BY <3>1
  <2>10. OrderedBy(r, R)
    <3>1. ASSUME NEW k \in 1..Len(r), NEW l \in 1..Len(r), k < l PROVE <<r[k], r[l]>> \in R
      <4>1. CASE l \in 1..Len(s)
        <5>1. k \in 1..Len(s)
          BY <2>5, <3>1, <4>1
        <5>2. QED  BY <2>2, <2>5, <3>1, <4>1, <5>1 DEF OrderedBy
      <4>2. CASE l \notin 1..Len(s)
        <5>1. l - Len(s) \in 1..Len(u) /\ r[l] = u[l - Len(s)]
          BY <2>5, <2>6, <4>2
        <5>2. CASE k \in 1..Len(s)
          <6>1. PICK m \in 1..(n - 1) : \E i \in 1..Len(lists[m]) : s[k] = lists[m][i]
            BY <2>2, <5>2
          <6>2. PICK i \in 1..Len(lists[m]) : r[k] = lists[m][i]
            BY <2>5, <5>2, <6>1
          <6>3. <<lists[m][i], u[l - Len(s)]>> \in R
            BY <2>4, <5>1 DEF BeforeAll
          <6>4. QED  BY <5>1, <6>2, <6>3
        <5>3. CASE k \notin 1..Len(s)
          <6>1. k - Len(s) \in 1..Len(u) /\ r[k] = u[k - Len(s)]
            BY <2>5, <2>6, <5>3
          <6>2. k - Len(s) < l - Len(s)
            BY <2>5, <3>1
          <6>3. QED  BY <2>3, <5>1, <6>1, <6>2 DEF OrderedBy
        <5>4. QED  BY <5>2, <5>3
      <4>3. QED  BY <4>1, <4>2
    <3>2. QED  BY <3>1 DEF OrderedBy
  <2>11. n \in 0..N
    OBVIOUS
  <2> HIDE DEF From, All
  <2>12. QED  BY <2>8, <2>9, <2>10, <2>11 DEF r
<1>4. N \in T
  <2>1. N \in 0..N
    OBVIOUS
  <2> HIDE DEF T
  <2>2. \A n \in 0..N : n \in T
    BY <1>2, <1>3, <1>11, UpTo
  <2>3. QED  BY <2>1, <2>2
<1>5. f[N] \in Seq(X)
  <2>1. N \in 0..N
    BY <1>11
  <2>2. QED  BY <1>12, <2>1
<1>6. QED  BY <1>1, <1>4, <1>5
=============================================================================

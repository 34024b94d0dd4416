---------------------------- MODULE QueryProofs ----------------------------
(***************************************************************************)
(* For every set of requests, deployment, corpus, completion, cache and    *)
(* batch size: the reranker's cache is bounded and honest and predictions  *)
(* never overlap; and, of the pipeline over it, what a chunk says of how   *)
(* it was found is true, fusion keeps the order that the lists agree on,   *)
(* nothing is answered from irrelevant chunks, and an answer that is       *)
(* called grounded is.                                                     *)
(*                                                                         *)
(* A rerank call carries what it will put in the cache through its awaits, *)
(* so RInv speaks of the scores in flight: each is the model's for the     *)
(* text it was predicted from, in the place it is for.  A request carries  *)
(* its lists, fused list and chunks through its awaits, so QInv relates    *)
(* each to the one before: the lists are ranked, the fused list is what    *)
(* fusion promises of them (Fused), the chunks are traced to the fused     *)
(* list (Traced), the rerank call has the fused list's shortlist, and an   *)
(* answer is composed from the chunks.                                     *)
(***************************************************************************)
EXTENDS QueryPath, ListLemmas

USE RerankerAssumption

----------------------------------------------------------------------------
\* The cache.

\* An entry with a score that some text of its chunk has with its query.
Honest == {e \in [key : Queries \X Ids, score : Int] :
              \E t \in TextsOf[e.key[2]] : e.score = Relevance[e.key[1]][t]}

OneEntry(c) == \A i, j \in DOMAIN c : c[i].key = c[j].key => i = j

Caches == {c \in Seq(Honest) : OneEntry(c)}
Bounded == {c \in Caches : Len(c) <= CacheSize}

\* The model scores every text that a chunk may have with an integer.
LEMMA ScoreType ==
    ASSUME NEW q \in Queries, NEW id \in Ids, NEW t \in TextsOf[id]
    PROVE  t \in Texts /\ Relevance[q][t] \in Int /\ Entry(<<q, id>>, Relevance[q][t]) \in Honest
<1>1. t \in Texts
  BY DEF Texts
<1>2. Relevance[q][t] \in Int
  BY <1>1
<1>3. QED  BY <1>1, <1>2 DEF Honest, Entry

\* The places of a list are those of a cache.
LEMMA CachesDistinct ==
    ASSUME NEW c \in Caches
    PROVE  c \in Seq(Honest) /\ Injective(c) /\ Range(c) \subseteq Honest
           /\ \A e, f \in Range(c) : e.key = f.key => e = f
BY DEF Caches, OneEntry, Injective, Range

\* A list of the entries of a cache without repetitions is a cache.
LEMMA CacheOf ==
    ASSUME NEW S \in SUBSET Honest, \A e, f \in S : e.key = f.key => e = f,
           NEW c \in Seq(Honest), Injective(c), Range(c) = S
    PROVE  c \in Caches
BY DEF Caches, OneEntry, Injective, Range

\* Without a key, what is left is the rest.
LEMMA WithoutType ==
    ASSUME NEW c \in Caches, NEW key
    PROVE  /\ Without(c, key) \in Caches
           /\ Range(Without(c, key)) = {e \in Range(c) : e.key # key}
<1> DEFINE S == {e \in Range(c) : e.key = key}
           w == Filtered(c, S)
<1>1. w \in Seq(Honest) /\ Range(w) = Range(c) \ S /\ Injective(w)
  <2>1. c \in Seq(Honest) /\ Injective(c)
    BY CachesDistinct
  <2> HIDE DEF S
  <2>2. QED  BY <2>1, FilteredProperties
<1>2. Without(c, key) = w
  BY DEF Without
<1>3. Range(c) \ S = {e \in Range(c) : e.key # key}
  OBVIOUS
<1> HIDE DEF w
<1>4. w \in Caches
  BY <1>1, CachesDistinct, CacheOf
<1>5. QED  BY <1>1, <1>2, <1>3, <1>4

\* An entry of another key goes to the end.
LEMMA AppendType ==
    ASSUME NEW c \in Caches, NEW e \in Honest, \A f \in Range(c) : f.key # e.key
    PROVE  /\ Append(c, e) \in Caches
           /\ Range(Append(c, e)) = Range(c) \cup {e}
           /\ Len(Append(c, e)) = Len(c) + 1
<1> DEFINE a == Append(c, e)
<1>1. /\ c \in Seq(Honest) /\ a \in Seq(Honest) /\ Len(a) = Len(c) + 1 /\ Len(c) \in Nat
      /\ \A i \in 1..Len(c) : a[i] = c[i]
      /\ a[Len(c) + 1] = e
      /\ DOMAIN c = 1..Len(c) /\ DOMAIN a = 1..(Len(c) + 1)
  BY DEF Caches
<1> HIDE DEF a
<1>2. \A i \in DOMAIN a : i \in DOMAIN c \/ i = Len(c) + 1
  BY <1>1
<1>3. \A i \in DOMAIN c : c[i] \in Range(c) /\ c[i].key # e.key
  BY DEF Range
<1>4. OneEntry(a)
  <2>1. OneEntry(c)
    BY DEF Caches
  <2>2. QED  BY <1>1, <1>2, <1>3, <2>1 DEF OneEntry
<1>5. Range(a) = Range(c) \cup {e}
  <2>1. Range(a) \subseteq Range(c) \cup {e}
    BY <1>1, <1>2, <1>3 DEF Range
  <2>2. \A i \in DOMAIN c : i \in DOMAIN a /\ a[i] = c[i]
    BY <1>1
  <2>3. Len(c) + 1 \in DOMAIN a
    BY <1>1
  <2>4. Range(c) \subseteq Range(a)
    BY <2>2 DEF Range
  <2>5. e \in Range(a)
    BY <1>1, <2>3 DEF Range
  <2>6. QED  BY <2>1, <2>4, <2>5
<1>6. QED  BY <1>1, <1>4, <1>5 DEF Caches, a

\* The oldest entries leave.
LEMMA EvictType ==
    ASSUME NEW c \in Caches
    PROVE  Evict(c) \in Bounded
<1>1. c \in Seq(Honest) /\ Len(c) \in Nat /\ OneEntry(c) /\ DOMAIN c = 1..Len(c)
  BY DEF Caches
<1>2. CASE Len(c) <= CacheSize
  BY <1>1, <1>2 DEF Evict, Bounded
<1>3. CASE Len(c) > CacheSize
  <2> DEFINE first == Len(c) - CacheSize + 1
             s == SubSeq(c, first, Len(c))
  <2>1. first \in Nat /\ first >= 1 /\ first <= Len(c)
    BY <1>1, <1>3
  <2>2. s \in Seq(Honest) /\ Len(s) = CacheSize /\ \A i \in 1..Len(s) : s[i] = c[first + i - 1]
    BY <1>1, <2>1
  <2>3. DOMAIN s = 1..Len(s) /\ \A i \in 1..Len(s) : first + i - 1 \in DOMAIN c
    BY <1>1, <2>1, <2>2
  <2>4. Evict(c) = s
    BY <1>3 DEF Evict
  <2> HIDE DEF s
  <2>5. OneEntry(s)
    <3>1. SUFFICES ASSUME NEW i \in 1..Len(s), NEW j \in 1..Len(s), s[i].key = s[j].key PROVE i = j
      BY <2>3 DEF OneEntry
    <3> DEFINE at(n) == first + n - 1
    <3>2. at(i) \in DOMAIN c /\ at(j) \in DOMAIN c /\ c[at(i)].key = c[at(j)].key
      BY <2>2, <2>3, <3>1
    <3> HIDE DEF at
    <3>3. at(i) = at(j)
      BY <1>1, <3>2 DEF OneEntry
    <3>4. QED  BY <2>1, <3>3 DEF at
  <2>6. QED  BY <2>2, <2>4, <2>5 DEF Bounded, Caches
<1>4. QED  BY <1>1, <1>2, <1>3

LEMMA PutType ==
    ASSUME NEW c \in Caches, NEW key, NEW score, Entry(key, score) \in Honest
    PROVE  Put(c, key, score) \in Bounded
<1>1. Without(c, key) \in Caches /\ \A f \in Range(Without(c, key)) : f.key # key
  BY WithoutType
<1>2. Entry(key, score).key = key
  BY DEF Entry
<1>3. Append(Without(c, key), Entry(key, score)) \in Caches
  BY <1>1, <1>2, AppendType
<1>4. QED  BY <1>3, EvictType DEF Put

\* A key of the cache has one entry, and ScoreIn is its score.
LEMMA ScoreInEntry ==
    ASSUME NEW c \in Caches, NEW key \in Keys(c)
    PROVE  Entry(key, ScoreIn(c, key)) \in Range(c)
<1>1. PICK i \in DOMAIN c : i = CHOOSE j \in DOMAIN c : c[j].key = key
  BY DEF Keys
<1>2. c[i].key = key
  BY <1>1 DEF Keys
<1>3. c[i] \in Range(c) /\ c[i] \in Honest
  BY CachesDistinct DEF Range
<1>4. c[i] = Entry(c[i].key, c[i].score)
  BY <1>3 DEF Honest, Entry
<1>5. ScoreIn(c, key) = c[i].score
  BY <1>1 DEF ScoreIn
<1>6. QED  BY <1>2, <1>3, <1>4, <1>5

\* A hit moves an entry and changes none.
LEMMA GetType ==
    ASSUME NEW c \in Bounded, NEW key
    PROVE  Get(c, key) \in Bounded
<1>1. c \in Caches
  BY DEF Bounded
<1>2. CASE key \notin Keys(c)
  BY <1>2 DEF Get
<1>3. CASE key \in Keys(c)
  <2> DEFINE e == Entry(key, ScoreIn(c, key))
             w == Without(c, key)
             a == Append(w, e)
  <2>1. e \in Range(c) /\ e.key = key
    BY <1>1, <1>3, ScoreInEntry DEF Entry
  <2>2. e \in Honest /\ \A f, g \in Range(c) : f.key = g.key => f = g
    BY <1>1, <2>1, CachesDistinct
  <2>3. w \in Caches /\ Range(w) = {f \in Range(c) : f.key # key}
    BY <1>1, WithoutType
  <2> HIDE DEF e, w
  <2>4. a \in Caches /\ Range(a) = Range(w) \cup {e}
    BY <2>1, <2>2, <2>3, AppendType
  <2>5. Range(a) = Range(c)
    BY <2>1, <2>2, <2>3, <2>4
  <2> HIDE DEF a
  <2>6. Len(a) = Len(c)
    <3>1. /\ Cardinality(Range(a)) = Len(a)
          /\ Cardinality(Range(c)) = Len(c)
      BY <1>1, <2>4, CachesDistinct, InjectiveCardinality
    <3>2. QED  BY <2>5, <3>1
  <2>7. Get(c, key) = a
    BY <1>3 DEF Get, a, w, e
  <2>8. QED  BY <2>4, <2>6, <2>7 DEF Bounded
<1>4. QED  BY <1>2, <1>3

\* Lookups one after the other leave a cache.
LEMMA AfterGetsType ==
    ASSUME NEW c \in Bounded, NEW keys, Len(keys) \in Nat
    PROVE  AfterGets(c, keys) \in Bounded
<1> DEFINE N == Len(keys)
           IsGot(g) == g = [n \in 0..N |-> IF n = 0 THEN c ELSE Get(g[n - 1], keys[n])]
           step == [x \in Bounded \X (1..N) |-> Get(x[1], keys[x[2]])]
           got == CHOOSE g : IsGot(g)
<1>1. step \in [Bounded \X (1..N) -> Bounded]
  BY GetType
<1>2. PICK f \in [0..N -> Bounded] : IsFold(f, c, step, N)
  <2> HIDE DEF step
  <2>1. QED  BY <1>1, FoldDefined
<1>3. IsGot(f)
  <2>1. ASSUME NEW n \in 0..N
        PROVE  f[n] = IF n = 0 THEN c ELSE Get(f[n - 1], keys[n])
    <3>1. CASE n = 0
      BY <1>2, <3>1 DEF IsFold
    <3>2. CASE n # 0
      <4>1. n \in 1..N /\ n - 1 \in 0..N
        BY <3>2
      <4>2. f[n] = step[<<f[n - 1], n>>] /\ f[n - 1] \in Bounded
        BY <1>2, <4>1 DEF IsFold
      <4>3. QED  BY <3>2, <4>1, <4>2
    <3>3. QED  BY <3>1, <3>2
  <2>2. QED  BY <2>1
<1>4. IsGot(got)
  <2> HIDE DEF IsGot
  <2>1. QED  BY <1>3
<1>5. AfterGets(c, keys) = got[N]
  BY DEF AfterGets
<1> HIDE DEF got
<1>6. got[0] = c /\ \A n \in 1..N : got[n] = Get(got[n - 1], keys[n])
  <2>1. \A n \in 0..N : got[n] = IF n = 0 THEN c ELSE Get(got[n - 1], keys[n])
    BY <1>4
  <2>2. 0 \in 0..N /\ \A n \in 1..N : n \in 0..N /\ n # 0
    OBVIOUS
  <2>3. QED  BY <2>1, <2>2
<1>7. \A n \in 0..N : got[n] \in Bounded
  <2>1. \A n \in 1..N : got[n - 1] \in Bounded => got[n] \in Bounded
    BY <1>6, GetType
  <2>2. QED  BY <1>6, <2>1, FoldType
<1>8. QED  BY <1>5, <1>7

\* So do honest scores put one after the other.
LEMMA AfterPutsType ==
    ASSUME NEW c \in Bounded, NEW keys, NEW scores, Len(keys) \in Nat,
           \A n \in 1..Len(keys) : Entry(keys[n], scores[n]) \in Honest
    PROVE  AfterPuts(c, keys, scores) \in Bounded
<1> DEFINE N == Len(keys)
           IsPut(g) == g = [n \in 0..N |-> IF n = 0 THEN c ELSE Put(g[n - 1], keys[n], scores[n])]
           step == [x \in Bounded \X (1..N) |-> Put(x[1], keys[x[2]], scores[x[2]])]
           put == CHOOSE g : IsPut(g)
<1>0. Bounded \subseteq Caches
  BY DEF Bounded
<1>1. step \in [Bounded \X (1..N) -> Bounded]
  BY <1>0, PutType
<1>2. PICK f \in [0..N -> Bounded] : IsFold(f, c, step, N)
  <2> HIDE DEF step
  <2>1. QED  BY <1>1, FoldDefined
<1>3. IsPut(f)
  <2>1. ASSUME NEW n \in 0..N
        PROVE  f[n] = IF n = 0 THEN c ELSE Put(f[n - 1], keys[n], scores[n])
    <3>1. CASE n = 0
      BY <1>2, <3>1 DEF IsFold
    <3>2. CASE n # 0
      <4>1. n \in 1..N /\ n - 1 \in 0..N
        BY <3>2
      <4>2. f[n] = step[<<f[n - 1], n>>] /\ f[n - 1] \in Bounded
        BY <1>2, <4>1 DEF IsFold
      <4>3. QED  BY <3>2, <4>1, <4>2
    <3>3. QED  BY <3>1, <3>2
  <2>2. QED  BY <2>1
<1>4. IsPut(put)
  <2> HIDE DEF IsPut
  <2>1. QED  BY <1>3
<1>5. AfterPuts(c, keys, scores) = put[N]
  BY DEF AfterPuts
<1> HIDE DEF put
<1>6. put[0] = c /\ \A n \in 1..N : put[n] = Put(put[n - 1], keys[n], scores[n])
  <2>1. \A n \in 0..N : put[n] = IF n = 0 THEN c ELSE Put(put[n - 1], keys[n], scores[n])
    BY <1>4
  <2>2. 0 \in 0..N /\ \A n \in 1..N : n \in 0..N /\ n # 0
    OBVIOUS
  <2>3. QED  BY <2>1, <2>2
<1>7. \A n \in 0..N : put[n] \in Bounded
  <2>1. \A n \in 1..N : put[n - 1] \in Bounded => put[n] \in Bounded
    BY <1>0, <1>6, PutType
  <2>2. QED  BY <1>6, <2>1, FoldType
<1>8. QED  BY <1>5, <1>7

----------------------------------------------------------------------------
\* One call of rerank.

\* The model's score of a place of the shortlist.
Modelled(j, i) == Relevance[j.query][j.shortlist[i].text]

\* The model's score of the place, or of another text of its chunk.
HonestScore(j, i) == \E t \in TextsOf[j.shortlist[i].id] : j.scores[i] = Relevance[j.query][t]

\* What a call has found out is the model's, and the places without a score are
\* those that it is going to predict.
Request(j) ==
    j.at # "none" =>
        /\ j.query \in Queries /\ Shortlist(j.shortlist)
        /\ DOMAIN j.scores = DOMAIN j.shortlist
        /\ j.pending \in Seq(DOMAIN j.shortlist) /\ Injective(j.pending)
        /\ j.predicted \in Seq(Int) /\ Len(j.predicted) <= Len(j.pending)
        /\ \A n \in 1..Len(j.predicted) : j.predicted[n] = Modelled(j, j.pending[n])
        /\ j.at = "predicted" => Len(j.predicted) = Len(j.pending)
        /\ \A i \in DOMAIN j.shortlist :
              IF j.scores[i] = None THEN j.at # "scored" /\ i \in Range(j.pending)
              ELSE HonestScore(j, i)

\* The places that miss, each once.
LEMMA MissesType ==
    ASSUME NEW n \in Nat, NEW scores, DOMAIN scores = 1..n
    PROVE  /\ Misses(scores) \in Seq(1..n)
           /\ Injective(Misses(scores))
           /\ Range(Misses(scores)) = {i \in 1..n : scores[i] = None}
           /\ Misses(scores) = <<>> => \A i \in 1..n : scores[i] # None
<1> DEFINE places == [i \in 1..n |-> i]
           hits == {i \in 1..n : scores[i] # None}
<1>1. places \in Seq(1..n) /\ Injective(places) /\ Range(places) = 1..n
  BY DEF Injective, Range
<1>2. Misses(scores) = Filtered(places, hits)
  BY DEF Misses
<1>3. /\ Filtered(places, hits) \in Seq(1..n)
      /\ Range(Filtered(places, hits)) = Range(places) \ hits
      /\ Injective(Filtered(places, hits))
  <2> HIDE DEF places, hits
  <2>1. QED  BY <1>1, FilteredProperties
<1>4. Range(places) \ hits = {i \in 1..n : scores[i] = None}
  BY <1>1
<1>5. Misses(scores) = <<>> => Range(Misses(scores)) = {}
  BY DEF Range
<1>6. QED  BY <1>2, <1>3, <1>4, <1>5

\* A score of the cache is one that its chunk has had, and no Python None.
LEMMA CachedScoresType ==
    ASSUME NEW c \in Bounded, NEW q \in Queries, NEW list, Shortlist(list), NEW i \in DOMAIN list
    PROVE  CachedScores(c, q, list)[i] # None =>
              \E t \in TextsOf[list[i].id] : CachedScores(c, q, list)[i] = Relevance[q][t]
<1> DEFINE key == KeyOf(q, list[i])
           e == Entry(key, ScoreIn(c, key))
<1>1. CASE key \in Keys(c)
  <2>1. e \in Honest
    BY <1>1, ScoreInEntry, CachesDistinct DEF Bounded
  <2>2. e.key = <<q, list[i].id>> /\ e.score = ScoreIn(c, key)
    BY DEF Entry, KeyOf
  <2>3. \E t \in TextsOf[list[i].id] : ScoreIn(c, key) = Relevance[q][t]
    BY <2>1, <2>2 DEF Honest
  <2>4. QED  BY <1>1, <2>3 DEF CachedScores
<1>2. CASE key \notin Keys(c)
  BY <1>2 DEF CachedScores
<1>3. QED  BY <1>1, <1>2

\* A call starts with the scores of the cache.
LEMMA BeginRequest ==
    ASSUME NEW c \in Bounded, NEW q \in Queries, NEW list, Shortlist(list), NEW top, NEW j,
           j = LET scores == CachedScores(c, q, list)
               IN  [at |-> IF Misses(scores) = <<>> THEN "scored" ELSE "called",
                    query |-> q, top |-> top, shortlist |-> list,
                    scores |-> scores, pending |-> Misses(scores), predicted |-> <<>>]
    PROVE  Request(j)
<1> DEFINE scores == CachedScores(c, q, list)
           n == Len(list)
<1>1. n \in Nat /\ DOMAIN list = 1..n /\ DOMAIN scores = 1..n
  BY DEF Shortlist, CachedScores
<1>2. \A i \in 1..n : scores[i] # None => \E t \in TextsOf[list[i].id] : scores[i] = Relevance[q][t]
  BY <1>1, CachedScoresType
<1>3. /\ j.at = IF Misses(scores) = <<>> THEN "scored" ELSE "called"
      /\ j.query = q /\ j.shortlist = list /\ j.scores = scores
      /\ j.pending = Misses(scores) /\ j.predicted = <<>>
  OBVIOUS
<1> HIDE DEF scores, n
<1>4. /\ Misses(scores) \in Seq(1..n) /\ Injective(Misses(scores))
      /\ Range(Misses(scores)) = {i \in 1..n : scores[i] = None}
      /\ Misses(scores) = <<>> => \A i \in 1..n : scores[i] # None
  BY <1>1, MissesType
<1>5. \A i \in 1..n : IF scores[i] = None THEN j.at # "scored" /\ i \in Range(j.pending)
                       ELSE HonestScore(j, i)
  <2>1. TAKE i \in 1..n
  <2>2. CASE scores[i] = None
    BY <1>3, <1>4, <2>2
  <2>3. CASE scores[i] # None
    BY <1>2, <1>3, <2>3 DEF HonestScore
  <2>4. QED  BY <2>2, <2>3
<1>6. /\ j.predicted \in Seq(Int) /\ Len(j.predicted) = 0 /\ Len(j.pending) \in Nat
      /\ \A m \in 1..Len(j.predicted) : j.predicted[m] = Modelled(j, j.pending[m])
  BY <1>3, <1>4
<1>7. QED  BY <1>1, <1>3, <1>4, <1>5, <1>6 DEF Request

\* A place of a shortlist has a chunk of the store, with a text of its own.
LEMMA PlaceType ==
    ASSUME NEW j, j.at # "none", Request(j), NEW i \in DOMAIN j.shortlist
    PROVE  /\ j.query \in Queries /\ j.shortlist[i].id \in Ids
           /\ j.shortlist[i].text \in TextsOf[j.shortlist[i].id]
           /\ Modelled(j, i) \in Int
           /\ Entry(KeyOf(j.query, j.shortlist[i]), Modelled(j, i)) \in Honest
<1>1. /\ j.query \in Queries /\ j.shortlist[i].id \in Ids
      /\ j.shortlist[i].text \in TextsOf[j.shortlist[i].id]
  BY DEF Request, Shortlist
<1>2. QED  BY <1>1, ScoreType DEF Modelled, KeyOf

\* A call that only moves on keeps what it has.
LEMMA MovesOn ==
    ASSUME NEW j, NEW k, j.at # "none", Request(j), k.at \notin {"scored", "predicted"},
           k.query = j.query, k.shortlist = j.shortlist, k.scores = j.scores,
           k.pending = j.pending, k.predicted = j.predicted, j.at # "scored"
    PROVE  Request(k)
BY DEF Request, Modelled, HonestScore

\* A function on 1..m is a list of m members.
LEMMA ListOf ==
    ASSUME NEW X, NEW m \in Nat, NEW s \in [1..m -> X]
    PROVE  s \in Seq(X) /\ Len(s) = m
OBVIOUS

\* The members of a concatenation of scores.
LEMMA Joined ==
    ASSUME NEW s \in Seq(Int), NEW t \in Seq(Int)
    PROVE  /\ s \o t \in Seq(Int) /\ Len(s \o t) = Len(s) + Len(t)
           /\ \A n \in 1..Len(s) : (s \o t)[n] = s[n]
           /\ \A n \in 1..Len(t) : (s \o t)[Len(s) + n] = t[n]
OBVIOUS

\* Scores that go on as they should.
LEMMA Lengthened ==
    ASSUME NEW s \in Seq(Int), NEW t \in Seq(Int), NEW wanted,
           \A n \in 1..Len(s) : s[n] = wanted[n],
           \A n \in 1..Len(t) : t[n] = wanted[Len(s) + n]
    PROVE  \A n \in 1..(Len(s) + Len(t)) : (s \o t)[n] = wanted[n]
<1> DEFINE a == Len(s)
           b == Len(t)
<1>1. /\ \A n \in 1..a : (s \o t)[n] = s[n]
      /\ \A n \in 1..b : (s \o t)[a + n] = t[n]
      /\ a \in Nat /\ b \in Nat
  BY Joined
<1>2. TAKE n \in 1..(Len(s) + Len(t))
<1> n \in 1..(a + b)
  OBVIOUS
<1> HIDE DEF a, b
<1>3. CASE n \in 1..a
  BY <1>1, <1>3 DEF a
<1>4. CASE n \notin 1..a
  <2>1. n - a \in 1..b /\ a + (n - a) = n
    BY <1>1, <1>4
  <2>2. (s \o t)[a + (n - a)] = wanted[a + (n - a)]
    BY <1>1, <2>1 DEF a, b
  <2>3. QED  BY <2>1, <2>2
<1>5. QED  BY <1>3, <1>4

\* How far a batch goes.
LEMMA BatchEnd ==
    ASSUME NEW done \in Nat, NEW all \in Nat, done <= all
    PROVE  LET upTo == Lesser(done + BatchSize, all)
           IN  /\ upTo \in Nat /\ upTo - done \in Nat /\ upTo <= all
               /\ \A n \in 1..(upTo - done) : done + n \in 1..all
               /\ done + (upTo - done) = upTo
<1>1. BatchSize \in Nat
  OBVIOUS
<1>2. QED  BY <1>1 DEF Lesser

\* A call that has predicted more.
LEMMA PredictRequest ==
    ASSUME NEW j, NEW k, j.at = "predicting", Request(j), NEW upTo \in Nat, upTo <= Len(j.pending),
           k.query = j.query, k.shortlist = j.shortlist, k.scores = j.scores, k.pending = j.pending,
           k.predicted \in Seq(Int), Len(k.predicted) = upTo,
           \A n \in 1..upTo : k.predicted[n] = Modelled(j, j.pending[n]),
           k.at = IF upTo = Len(j.pending) THEN "predicted" ELSE "waiting"
    PROVE  Request(k)
<1>1. \A n \in 1..Len(k.predicted) : k.predicted[n] = Modelled(k, k.pending[n])
  BY DEF Modelled
<1>2. \A i \in DOMAIN k.shortlist :
         IF k.scores[i] = None THEN k.at # "scored" /\ i \in Range(k.pending) ELSE HonestScore(k, i)
  BY DEF Request, HonestScore
<1>3. QED
  BY <1>1, <1>2 DEF Request

\* Each predicted score is the model's for the place it fills.
LEMMA SettleRequest ==
    ASSUME NEW j, NEW k, j.at = "predicted", Request(j), k.at = "scored",
           k.query = j.query, k.shortlist = j.shortlist, k.pending = j.pending,
           k.predicted = j.predicted, k.scores = Filled(j.scores, j.pending, j.predicted)
    PROVE  Request(k)
<1>1. /\ DOMAIN j.scores = DOMAIN j.shortlist
      /\ j.pending \in Seq(DOMAIN j.shortlist)
      /\ Len(j.predicted) = Len(j.pending) /\ DOMAIN j.pending = 1..Len(j.pending)
      /\ \A n \in 1..Len(j.predicted) : j.predicted[n] = Modelled(j, j.pending[n])
  BY DEF Request
<1>2. ASSUME NEW i \in DOMAIN j.shortlist
      PROVE  k.scores[i] # None /\ HonestScore(k, i)
  <2>1. j.query \in Queries /\ j.shortlist[i].text \in TextsOf[j.shortlist[i].id] /\ Modelled(j, i) \in Int
        /\ j.shortlist[i].id \in Ids
    BY PlaceType
  <2>2. CASE i \in Range(j.pending)
    <3>1. PICK n \in DOMAIN j.pending : n = CHOOSE m \in DOMAIN j.pending : j.pending[m] = i
      BY <2>2 DEF Range
    <3>2. j.pending[n] = i
      BY <2>2, <3>1 DEF Range
    <3>3. k.scores[i] = j.predicted[n]
      BY <1>1, <2>2, <3>1 DEF Filled
    <3>4. k.scores[i] = Modelled(j, i)
      BY <1>1, <3>2, <3>3
    <3>5. QED  BY <2>1, <3>4, FusionAssumption DEF HonestScore, Modelled
  <2>3. CASE i \notin Range(j.pending)
    <3>1. k.scores[i] = j.scores[i]
      BY <1>1, <2>3 DEF Filled
    <3>2. j.scores[i] # None /\ HonestScore(j, i)
      BY <2>3 DEF Request
    <3>3. QED  BY <3>1, <3>2 DEF HonestScore
  <2>4. QED  BY <2>2, <2>3
<1>3. DOMAIN k.scores = DOMAIN j.shortlist
  BY <1>1 DEF Filled
<1>4. \A n \in 1..Len(k.predicted) : k.predicted[n] = Modelled(k, k.pending[n])
  BY <1>1 DEF Modelled
<1>5. QED  BY <1>2, <1>3, <1>4 DEF Request

\* What a call puts in the cache is honest.
LEMMA SettlePuts ==
    ASSUME NEW c \in Bounded, NEW j, j.at = "predicted", Request(j)
    PROVE  LET missed == [n \in DOMAIN j.pending |-> j.shortlist[j.pending[n]]]
           IN  AfterPuts(c, KeysOf(j.query, missed), j.predicted) \in Bounded
<1> DEFINE missed == [n \in DOMAIN j.pending |-> j.shortlist[j.pending[n]]]
           keys == KeysOf(j.query, missed)
<1>1. /\ j.pending \in Seq(DOMAIN j.shortlist) /\ Len(j.pending) \in Nat
      /\ Len(j.predicted) = Len(j.pending) /\ DOMAIN j.pending = 1..Len(j.pending)
      /\ \A n \in 1..Len(j.predicted) : j.predicted[n] = Modelled(j, j.pending[n])
  BY DEF Request
<1>2. keys = [n \in 1..Len(j.pending) |-> KeyOf(j.query, j.shortlist[j.pending[n]])]
  BY <1>1 DEF KeysOf
<1>3. Len(keys) = Len(j.pending)
  BY <1>1, <1>2
<1>4. ASSUME NEW n \in 1..Len(j.pending)
      PROVE  Entry(keys[n], j.predicted[n]) \in Honest
  <2>1. j.pending[n] \in DOMAIN j.shortlist
    BY <1>1
  <2>2. QED  BY <1>1, <1>2, <2>1, PlaceType
<1> HIDE DEF keys
<1>5. QED  BY <1>1, <1>3, <1>4, AfterPutsType DEF keys

----------------------------------------------------------------------------
\* The inductive invariant.

\* Each slot has a record with the fields of a call.
JobsOK == /\ job = [r \in Requests |-> job[r]]
          /\ \A r \in Requests : DOMAIN job[r] = DOMAIN NoJob

\* Who predicts holds the lock.
Locked == \A r \in Requests : job[r].at = "predicting" => lock = r

RInv == /\ cache \in Bounded
        /\ JobsOK
        /\ \A r \in Requests : Request(job[r])
        /\ Locked

LEMMA RerankInitially == RerankInit => RInv
<1> SUFFICES ASSUME RerankInit PROVE RInv
  OBVIOUS
<1>1. cache \in Bounded
  <2>1. cache = <<>> /\ <<>> \in Seq(Honest) /\ Len(<<>>) = 0 /\ DOMAIN <<>> = {}
    BY DEF RerankInit
  <2>2. QED  BY <2>1 DEF Bounded, Caches, OneEntry
<1>2. \A r \in Requests : job[r] = NoJob /\ NoJob.at = "none"
  BY DEF RerankInit, NoJob
<1>3. job = [r \in Requests |-> job[r]]
  BY DEF RerankInit
<1>4. QED  BY <1>1, <1>2, <1>3 DEF RInv, JobsOK, Locked, Request

\* A step that replaces one call by k.
LEMMA OneCall ==
    ASSUME RInv, NEW r \in Requests, NEW k, DOMAIN k = DOMAIN NoJob, Request(k),
           job' = [job EXCEPT ![r] = k],
           cache' \in Bounded,
           k.at = "predicting" => lock' = r,
           \A s \in Requests \ {r} : job[s].at = "predicting" => lock' = s
    PROVE  RInv'
<1>1. job'[r] = k /\ \A s \in Requests \ {r} : job'[s] = job[s]
  BY DEF RInv, JobsOK
<1>2. JobsOK'
  BY <1>1 DEF RInv, JobsOK
<1>3. \A s \in Requests : Request(job'[s])
  BY <1>1 DEF RInv
<1>4. Locked'
  BY <1>1 DEF Locked
<1>5. QED  BY <1>2, <1>3, <1>4 DEF RInv

LEMMA CallKept ==
    ASSUME RInv, NEW r \in Requests, Call(r)
    PROVE  RInv'
<1> DEFINE q == job'[r].query
           list == job'[r].shortlist
           top == job'[r].top
           scores == CachedScores(cache, q, list)
           k == [at |-> IF Misses(scores) = <<>> THEN "scored" ELSE "called",
                 query |-> q, top |-> top, shortlist |-> list,
                 scores |-> scores, pending |-> Misses(scores), predicted |-> <<>>]
<1>1. q \in Queries /\ Shortlist(list) /\ cache \in Bounded
  BY DEF Call, RInv
<1>2. /\ cache' = AfterGets(cache, KeysOf(q, list))
      /\ job' = [job EXCEPT ![r] = k]
      /\ lock' = lock
  BY DEF Call, Begin
<1>3. cache' \in Bounded
  <2>1. Len(KeysOf(q, list)) \in Nat
    <3>1. Len(list) \in Nat /\ DOMAIN list = 1..Len(list)
      BY <1>1 DEF Shortlist
    <3> HIDE DEF list, q
    <3>2. QED  BY <3>1 DEF KeysOf
  <2> HIDE DEF list, q
  <2>2. QED  BY <1>1, <1>2, <2>1, AfterGetsType
<1> HIDE DEF q, list, top
<1>4. Request(k)
  BY <1>1, BeginRequest
<1>5. DOMAIN k = DOMAIN NoJob /\ k.at \in {"scored", "called"}
  BY DEF NoJob
<1> HIDE DEF k
<1>6. QED  BY <1>2, <1>3, <1>4, <1>5, OneCall DEF RInv, Locked

\* A call that goes on to where it neither has its scores nor all its predictions.
LEMMA MoveKept ==
    ASSUME RInv, NEW r \in Requests, NEW at,
           job[r].at \notin {"none", "scored"}, at \notin {"scored", "predicted"},
           job' = [job EXCEPT ![r].at = at],
           UNCHANGED cache,
           at = "predicting" => lock' = r,
           \A s \in Requests \ {r} : job[s].at = "predicting" => lock' = s
    PROVE  RInv'
<1> DEFINE j == job[r]
           k == [j EXCEPT !.at = at]
<1>1. DOMAIN j = DOMAIN NoJob /\ Request(j)
  BY DEF RInv, JobsOK
<1>2. /\ DOMAIN k = DOMAIN NoJob /\ k.at = at
      /\ k.query = j.query /\ k.shortlist = j.shortlist /\ k.scores = j.scores
      /\ k.pending = j.pending /\ k.predicted = j.predicted
  BY <1>1 DEF NoJob
<1>3. job' = [job EXCEPT ![r] = k]
  OBVIOUS
<1>4. cache' \in Bounded
  BY DEF RInv
<1> HIDE DEF k
<1>5. Request(k)
  BY <1>1, <1>2, MovesOn
<1>6. QED  BY <1>2, <1>3, <1>4, <1>5, OneCall

LEMMA PredictKept ==
    ASSUME RInv, NEW r \in Requests, Predict(r)
    PROVE  RInv'
<1> DEFINE j == job[r]
           done == Len(j.predicted)
           all == Len(j.pending)
           upTo == Lesser(done + BatchSize, all)
           wanted == [n \in 1..all |-> Modelled(j, j.pending[n])]
           batch == [n \in 1..(upTo - done) |-> Modelled(j, j.pending[done + n])]
           predicted == j.predicted \o batch
           k == [j EXCEPT !.predicted = predicted,
                          !.at = IF upTo = all THEN "predicted" ELSE "waiting"]
<1>1. DOMAIN j = DOMAIN NoJob /\ Request(j) /\ j.at = "predicting"
  <2>1. DOMAIN j = DOMAIN NoJob /\ Request(j)
    BY DEF RInv, JobsOK
  <2>2. j.at = "predicting"
    BY Zenon DEF Predict
  <2>3. QED  BY <2>1, <2>2
<1>2. job' = [job EXCEPT ![r] = k] /\ lock' = Free /\ cache' = cache
  BY Zenon DEF Predict, Modelled
<1>3. /\ j.predicted \in Seq(Int) /\ j.pending \in Seq(DOMAIN j.shortlist)
      /\ done \in Nat /\ all \in Nat /\ done <= all
      /\ \A n \in 1..done : j.predicted[n] = Modelled(j, j.pending[n])
  BY <1>1 DEF Request
<1>4. /\ upTo \in Nat /\ upTo - done \in Nat /\ upTo <= all
      /\ \A n \in 1..(upTo - done) : done + n \in 1..all
      /\ done + (upTo - done) = upTo
  <2> HIDE DEF done, all
  <2>1. QED  BY <1>3, BatchEnd
<1>5. \A n \in 1..all : wanted[n] = Modelled(j, j.pending[n]) /\ wanted[n] \in Int
  <2>1. \A n \in 1..all : j.pending[n] \in DOMAIN j.shortlist
    BY <1>3
  <2>2. \A i \in DOMAIN j.shortlist : Modelled(j, i) \in Int
    BY <1>1, PlaceType
  <2> HIDE DEF all
  <2>3. QED  BY <2>1, <2>2
<1>6. batch \in Seq(Int) /\ Len(batch) = upTo - done /\ \A n \in 1..(upTo - done) : batch[n] = wanted[done + n]
  <2>1. \A n \in 1..(upTo - done) : batch[n] = wanted[done + n] /\ batch[n] \in Int
    <3> HIDE DEF done, all, upTo, j
    <3>1. QED  BY <1>4, <1>5
  <2>2. batch \in [1..(upTo - done) -> Int]
    BY <2>1
  <2> DEFINE m == upTo - done
  <2>3. m \in Nat
    BY <1>4
  <2> HIDE DEF batch, upTo, done, m
  <2>4. batch \in Seq(Int) /\ Len(batch) = m
    BY <2>2, <2>3, ListOf DEF m
  <2>5. QED  BY <2>1, <2>4 DEF m
<1> HIDE DEF batch, wanted
<1>7. predicted \in Seq(Int) /\ Len(predicted) = upTo /\ \A n \in 1..upTo : predicted[n] = Modelled(j, j.pending[n])
  <2> DEFINE p == j.predicted
  <2>1. /\ p \in Seq(Int) /\ Len(p) = done
        /\ \A n \in 1..done : p[n] = wanted[n]
    BY <1>3, <1>5
  <2> HIDE DEF p, done, all, upTo
  <2>2. batch \in Seq(Int) /\ \A n \in 1..Len(batch) : batch[n] = wanted[Len(p) + n]
    BY <1>6, <2>1
  <2>3. p \in Seq(Int) /\ \A n \in 1..Len(p) : p[n] = wanted[n]
    BY <2>1
  <2>4. p \o batch \in Seq(Int) /\ Len(p \o batch) = Len(p) + Len(batch)
    BY <2>2, <2>3, Joined
  <2>5. \A n \in 1..(Len(p) + Len(batch)) : (p \o batch)[n] = wanted[n]
    BY <2>2, <2>3, Lengthened
  <2>6. Len(p) + Len(batch) = upTo
    BY <1>4, <1>6, <2>1
  <2>7. \A n \in 1..upTo : n \in 1..all
    BY <1>3, <1>4
  <2>8. predicted = p \o batch
    BY DEF p
  <2> HIDE DEF predicted
  <2>9. QED  BY <1>5, <2>4, <2>5, <2>6, <2>7, <2>8
<1> HIDE DEF predicted
<1>8. /\ DOMAIN k = DOMAIN NoJob
      /\ k.at = IF upTo = all THEN "predicted" ELSE "waiting"
      /\ k.predicted = predicted
      /\ k.query = j.query /\ k.shortlist = j.shortlist /\ k.scores = j.scores
      /\ k.pending = j.pending
  BY <1>1 DEF NoJob
<1> HIDE DEF k
<1>9. Request(k)
  BY <1>1, <1>4, <1>7, <1>8, PredictRequest

\* Nobody else predicts: the lock was this one's.
<1>10. \A s \in Requests \ {r} : job[s].at # "predicting"
  BY <1>1 DEF RInv, Locked
<1>11. cache' \in Bounded /\ k.at # "predicting"
  BY <1>2, <1>8 DEF RInv
<1>12. QED  BY <1>2, <1>8, <1>9, <1>10, <1>11, OneCall

LEMMA SettleKept ==
    ASSUME RInv, NEW r \in Requests, Settle(r)
    PROVE  RInv'
<1> DEFINE j == job[r]
           k == [j EXCEPT !.scores = Filled(j.scores, j.pending, j.predicted), !.at = "scored"]
<1>1. DOMAIN j = DOMAIN NoJob /\ Request(j) /\ j.at = "predicted" /\ cache \in Bounded
  BY DEF RInv, JobsOK, Settle
<1>2. job' = [job EXCEPT ![r] = k] /\ lock' = lock
  BY DEF Settle
<1>3. cache' \in Bounded
  BY <1>1, SettlePuts DEF Settle
<1>4. /\ DOMAIN k = DOMAIN NoJob /\ k.at = "scored"
      /\ k.scores = Filled(j.scores, j.pending, j.predicted)
      /\ k.query = j.query /\ k.shortlist = j.shortlist
      /\ k.pending = j.pending /\ k.predicted = j.predicted
  BY <1>1 DEF NoJob
<1> HIDE DEF k
<1>5. Request(k)
  BY <1>1, <1>4, SettleRequest
<1>6. QED  BY <1>2, <1>3, <1>4, <1>5, OneCall DEF RInv, Locked

LEMMA ReturnKept ==
    ASSUME RInv, NEW r \in Requests, Return(r)
    PROVE  RInv'
<1>1. Request(NoJob) /\ NoJob.at = "none"
  BY DEF Request, NoJob
<1>2. QED  BY <1>1, OneCall DEF Return, RInv, Locked

LEMMA RerankKept == RInv /\ [RerankNext]_rerankVars => RInv'
<1> SUFFICES ASSUME RInv, [RerankNext]_rerankVars PROVE RInv'
  OBVIOUS
<1>1. CASE UNCHANGED rerankVars
  BY <1>1 DEF rerankVars, RInv, JobsOK, Locked
<1>2. ASSUME NEW r \in Requests, Call(r) \/ Work(r) \/ Raise(r) \/ Return(r)
      PROVE  RInv'
  <2>0. \A s \in Requests \ {r} : job[s].at = "predicting" => lock = s
    BY DEF RInv, Locked
  <2>1. CASE Call(r)
    BY <2>1, CallKept
  <2>2. CASE FindModel(r)
    <3> DEFINE at == IF loaded THEN "waiting" ELSE "loading"
    <3>1. /\ job' = [job EXCEPT ![r].at = at] /\ UNCHANGED <<cache, lock>>
          /\ job[r].at = "called" /\ at \notin {"scored", "predicted", "predicting"}
      BY <2>2 DEF FindModel
    <3> HIDE DEF at
    <3>2. QED  BY <2>0, <3>1, MoveKept
  <2>3. CASE Load(r)
    <3> DEFINE at == "waiting"
    <3>1. /\ job' = [job EXCEPT ![r].at = at] /\ UNCHANGED <<cache, lock>>
          /\ job[r].at = "loading" /\ at \notin {"scored", "predicted", "predicting"}
      BY <2>3 DEF Load
    <3> HIDE DEF at
    <3>2. QED  BY <2>0, <3>1, MoveKept
  <2>4. CASE Acquire(r)
    <3> DEFINE at == "predicting"
    <3>1. /\ job' = [job EXCEPT ![r].at = at] /\ UNCHANGED cache /\ lock' = r
          /\ job[r].at = "waiting" /\ at \notin {"scored", "predicted"}
      BY <2>4 DEF Acquire, LockFree
    <3>2. \A s \in Requests : job[s].at # "predicting"
      BY <2>4 DEF Acquire, LockFree, RInv, Locked
    <3> HIDE DEF at
    <3>3. QED  BY <3>1, <3>2, MoveKept
  <2>5. CASE Predict(r)
    BY <2>5, PredictKept
  <2>6. CASE Settle(r)
    BY <2>6, SettleKept
  <2>7. CASE Raise(r)
    <3> DEFINE at == "raised"
    <3>1. /\ job' = [job EXCEPT ![r].at = at] /\ UNCHANGED cache
          /\ job[r].at \in {"loading", "predicting"} /\ at \notin {"scored", "predicted", "predicting"}
          /\ \A s \in Requests \ {r} : job[s].at = "predicting" => lock' = s
      BY <2>0, <2>7 DEF Raise
    <3> HIDE DEF at
    <3>2. QED  BY <3>1, MoveKept
  <2>8. CASE Return(r)
    BY <2>8, ReturnKept
  <2>9. QED  BY <1>2, <2>1, <2>2, <2>3, <2>4, <2>5, <2>6, <2>7, <2>8 DEF Work
<1>3. QED  BY <1>1, <1>2 DEF RerankNext

LEMMA RerankInvariant == RerankSpec => []RInv
BY RerankInitially, RerankKept, PTL DEF RerankSpec

----------------------------------------------------------------------------
\* The theorems.

\* The cache is bounded, has no key twice, and scores a key as the model scores a
\* text that the chunk of the key has had (rerank.py:68-74, 148-150).
THEOREM CacheIsSound == RerankSpec => []CacheSound
<1>1. RInv => CacheSound
  <2>1. SUFFICES ASSUME RInv PROVE CacheSound
    OBVIOUS
  <2>2. cache \in Seq(Honest) /\ Len(cache) <= CacheSize /\ OneEntry(cache)
    <3>1. cache \in Bounded
      BY <2>1 DEF RInv
    <3>2. QED  BY <3>1 DEF Bounded, Caches
  <2>3. \A i \in DOMAIN cache : cache[i] \in Honest
    BY <2>2
  <2>4. QED  BY <2>2, <2>3 DEF CacheSound, OneEntry, Honest
<1>2. QED  BY <1>1, RerankInvariant, PTL

\* No two threads use the model at once, however many loaded one (rerank.py:116-124).
THEOREM PredictionsAlone == RerankSpec => []PredictsAlone
<1>1. RInv => PredictsAlone
  BY DEF RInv, Locked, PredictsAlone
<1>2. QED  BY <1>1, RerankInvariant, PTL

\* Where a chunk's text never changed, its score is the model's for this query and
\* this text, with any cache, batches and requests (rerank.py:136-155).
THEOREM CacheIsInvisible == RerankSpec => []CacheInvisible
<1>1. RInv => CacheInvisible
  <2>1. SUFFICES ASSUME RInv, NEW r \in Requests, job[r].at = "scored",
                        NEW i \in DOMAIN job[r].shortlist,
                        TextsOf[job[r].shortlist[i].id] = {job[r].shortlist[i].text}
                 PROVE  job[r].scores[i] = Relevance[job[r].query][job[r].shortlist[i].text]
    BY DEF CacheInvisible
  <2>2. HonestScore(job[r], i)
    BY <2>1 DEF RInv, Request
  <2>3. QED  BY <2>1, <2>2 DEF HonestScore
<1>2. QED  BY <1>1, RerankInvariant, PTL

----------------------------------------------------------------------------
\* Ranked lists.

HIDE RerankerAssumption
USE FusionAssumption

Found == [id : Ids, text : Texts, score : Int, stages : [StageFields -> Int \cup {None}]]

\* What a retriever, fusion and reranking return.
Ranking(list) == list \in Seq(Found) /\ Shortlist(list)

\* The best score first.
Descending(list) == \A i, j \in DOMAIN list : i < j => list[i].score >= list[j].score

\* The order of scores, ties broken by the ids, is total.
LEMMA ByScoreListing ==
    ASSUME NEW S \in SUBSET Ids, NEW score, \A a \in S : score[a] \in Int
    PROVE  /\ Cardinality(S) \in Nat
           /\ ByScore(S, score) \in Seq(S) /\ Len(ByScore(S, score)) = Cardinality(S)
           /\ DOMAIN ByScore(S, score) = 1..Cardinality(S)
           /\ Range(ByScore(S, score)) = S /\ Injective(ByScore(S, score))
           /\ \A i, j \in DOMAIN ByScore(S, score) :
                 /\ i < j => score[ByScore(S, score)[i]] >= score[ByScore(S, score)[j]]
                 /\ score[ByScore(S, score)[i]] > score[ByScore(S, score)[j]] => i < j
<1> DEFINE Before(a, b) == \/ score[a] > score[b]
                           \/ score[a] = score[b] /\ IdRank[a] < IdRank[b]
           R == {p \in S \X S : Before(p[1], p[2])}
           list == ByScore(S, score)
<1>1. IsFiniteSet(S)
  BY FS_Subset
<1>2. \A a, b \in S : <<a, b>> \in R <=> Before(a, b)
  OBVIOUS
<1>3. \A a, b \in S : score[a] \in Int /\ IdRank[a] \in Int /\ (IdRank[a] = IdRank[b] => a = b)
  BY DEF IsInjective
<1>4. StrictOrder(S, R)
  <2> HIDE DEF R
  <2>1. \A a \in S : <<a, a>> \notin R
    BY <1>2, <1>3
  <2>2. \A a, b \in S : a # b => <<a, b>> \in R \/ <<b, a>> \in R
    BY <1>2, <1>3
  <2>3. \A a, b, c \in S : <<a, b>> \in R /\ <<b, c>> \in R => <<a, c>> \in R
    BY <1>2, <1>3
  <2>4. QED  BY <2>1, <2>2, <2>3 DEF StrictOrder
<1>5. IsListing(list, S, R)
  <2>1. \A a \in S : {b \in S : Before(b, a)} = Below(S, R, a)
    BY <1>2 DEF Below
  <2> DEFINE at(n) == CHOOSE a \in S : Cardinality({b \in S : Before(b, a)}) = n - 1
             place(n) == CHOOSE a \in S : Cardinality(Below(S, R, a)) = n - 1
  <2>2. list = [n \in 1..Cardinality(S) |-> at(n)]
    BY DEF ByScore, Ordered
  <2>3. \A n \in 1..Cardinality(S) : at(n) = place(n)
    <3> HIDE DEF Before, R
    <3>1. QED  BY <2>1
  <2> HIDE DEF at, place, R, list
  <2>4. list = [n \in 1..Cardinality(S) |-> place(n)]
    BY <2>2, <2>3
  <2>5. QED  BY <2>4 DEF IsListing, place
<1> HIDE DEF R, list
<1>6. /\ Cardinality(S) \in Nat
      /\ list \in Seq(S) /\ Len(list) = Cardinality(S) /\ DOMAIN list = 1..Cardinality(S)
      /\ Range(list) = S /\ Injective(list)
      /\ \A i, j \in DOMAIN list : i < j <=> <<list[i], list[j]>> \in R
  BY <1>1, <1>4, <1>5, Listing
<1>7. ASSUME NEW i \in DOMAIN list, NEW j \in DOMAIN list
      PROVE  /\ i < j => score[list[i]] >= score[list[j]]
             /\ score[list[i]] > score[list[j]] => i < j
  <2>1. list[i] \in S /\ list[j] \in S
    BY <1>6
  <2>2. i < j <=> Before(list[i], list[j])
    BY <1>2, <1>6, <2>1
  <2>3. score[list[i]] \in Int /\ score[list[j]] \in Int
    BY <1>3, <2>1
  <2>4. QED  BY <2>2, <2>3
<1>8. QED  BY <1>6, <1>7 DEF list

\* A ranked list has each chunk at one rank.
LEMMA RankOfType ==
    ASSUME NEW list, Ranking(list)
    PROVE  /\ IdsIn(list) \subseteq Ids /\ IsFiniteSet(IdsIn(list))
           /\ \A id \in IdsIn(list) :
                 /\ RankOf(list, id) \in DOMAIN list /\ Held(list, id) = list[RankOf(list, id)]
                 /\ Held(list, id) \in Found /\ Held(list, id).id = id
                 /\ Held(list, id).text \in TextsOf[id]
           /\ \A n \in DOMAIN list : list[n].id \in IdsIn(list) /\ RankOf(list, list[n].id) = n
<1>1. list \in Seq(Found) /\ DOMAIN list = 1..Len(list) /\ \A n \in DOMAIN list : list[n] \in Found
  BY DEF Ranking
<1>2. IdsIn(list) \subseteq Ids
  BY <1>1 DEF IdsIn, Found
<1>3. IsFiniteSet(IdsIn(list))
  BY <1>2, FS_Subset
<1>4. ASSUME NEW id \in IdsIn(list)
      PROVE  RankOf(list, id) \in DOMAIN list /\ list[RankOf(list, id)].id = id
  BY DEF IdsIn, RankOf
<1>5. ASSUME NEW n \in DOMAIN list
      PROVE  list[n].id \in IdsIn(list) /\ RankOf(list, list[n].id) = n
  <2>1. list[n].id \in IdsIn(list)
    BY DEF IdsIn
  <2>2. QED  BY <1>4, <2>1 DEF Ranking, Shortlist
<1>6. \A id \in IdsIn(list) : Held(list, id).text \in TextsOf[id]
  BY <1>4 DEF Held, Ranking, Shortlist
<1>7. QED  BY <1>1, <1>2, <1>3, <1>4, <1>5, <1>6 DEF Held

\* What the searches return.
AllRanked(lists) ==
    /\ Len(lists) \in Nat /\ DOMAIN lists = 1..Len(lists)
    /\ \A i \in DOMAIN lists : Ranking(lists[i]) /\ Descending(lists[i])

\* v is what the first of the first n lists that says something of this says.
Says(lists, i, id, f) == id \in IdsIn(lists[i]) /\ Held(lists[i], id).stages[f] # None

SaysFirst(lists, n, id, f, v) ==
    \/ \E i \in 1..n : /\ Says(lists, i, id, f) /\ v = Held(lists[i], id).stages[f]
                       /\ \A j \in 1..(i - 1) : ~Says(lists, j, id, f)
    \/ v = None /\ \A i \in 1..n : ~Says(lists, i, id, f)

\* The candidates of the first n lists, each with all that is said of it.
Collected(lists, n, held) ==
    /\ DOMAIN held = UNION {IdsIn(lists[i]) : i \in 1..n}
    /\ \A id \in DOMAIN held :
          /\ held[id] \in Found /\ held[id].id = id /\ held[id].text \in TextsOf[id]
          /\ \A f \in StageFields : SaysFirst(lists, n, id, f, held[id].stages[f])

\* The candidates after another list.
Merged(c, d) == Candidate(c.id, c.text, c.score, MergeStages(c.stages, d.stages))
Joining(before, list) ==
    [id \in DOMAIN before \cup IdsIn(list) |->
        IF id \notin DOMAIN before THEN Held(list, id)
        ELSE IF id \notin IdsIn(list) THEN before[id]
        ELSE Merged(before[id], Held(list, id))]

LEMMA MergedType ==
    ASSUME NEW c \in Found, NEW d \in Found
    PROVE  /\ Merged(c, d) \in Found /\ Merged(c, d).id = c.id /\ Merged(c, d).text = c.text
           /\ \A f \in StageFields : Merged(c, d).stages[f] =
                 IF c.stages[f] # None THEN c.stages[f] ELSE d.stages[f]
<1>1. c.stages \in [StageFields -> Int \cup {None}] /\ d.stages \in [StageFields -> Int \cup {None}]
  BY DEF Found
<1>2. MergeStages(c.stages, d.stages) \in [StageFields -> Int \cup {None}]
  BY <1>1 DEF MergeStages
<1>3. QED  BY <1>2 DEF Merged, Candidate, Found, MergeStages

\* One more list adds what it alone has, and what it says where the others say nothing.
LEMMA JoiningType ==
    ASSUME NEW lists, AllRanked(lists), NEW n \in DOMAIN lists,
           NEW before, Collected(lists, n - 1, before)
    PROVE  Collected(lists, n, Joining(before, lists[n]))
<1> DEFINE held == Joining(before, lists[n])
           after == DOMAIN before \cup IdsIn(lists[n])
<1>1. n \in Nat /\ n >= 1 /\ Ranking(lists[n])
  BY DEF AllRanked
<1>2. DOMAIN held = after
  BY DEF Joining
<1>3. \A id \in after : held[id] = IF id \notin DOMAIN before THEN Held(lists[n], id)
                                   ELSE IF id \notin IdsIn(lists[n]) THEN before[id]
                                   ELSE Merged(before[id], Held(lists[n], id))
  BY DEF Joining
<1> HIDE DEF held
<1>4. after = UNION {IdsIn(lists[i]) : i \in 1..n}
  <2>1. DOMAIN before = UNION {IdsIn(lists[i]) : i \in 1..(n - 1)}
    BY DEF Collected
  <2>2. \A i \in 1..n : i \in 1..(n - 1) \/ i = n
    BY <1>1
  <2>3. n \in 1..n /\ \A i \in 1..(n - 1) : i \in 1..n
    BY <1>1
  <2>4. QED  BY <2>1, <2>2, <2>3
<1>5. ASSUME NEW id \in after
      PROVE  /\ held[id] \in Found /\ held[id].id = id /\ held[id].text \in TextsOf[id]
             /\ \A f \in StageFields : SaysFirst(lists, n, id, f, held[id].stages[f])
  <2>1. \A i \in 1..n : i \in 1..(n - 1) \/ i = n
    BY <1>1
  <2>2. id \in IdsIn(lists[n]) => /\ Held(lists[n], id) \in Found /\ Held(lists[n], id).id = id
                                  /\ Held(lists[n], id).text \in TextsOf[id]
    BY <1>1, RankOfType
  <2>3. id \in DOMAIN before =>
           /\ before[id] \in Found /\ before[id].id = id /\ before[id].text \in TextsOf[id]
           /\ \A f \in StageFields : SaysFirst(lists, n - 1, id, f, before[id].stages[f])
    BY DEF Collected
  <2>4. CASE id \notin DOMAIN before
    <3>1. held[id] = Held(lists[n], id) /\ id \in IdsIn(lists[n])
      BY <1>3, <2>4
    <3>2. \A i \in 1..(n - 1) : id \notin IdsIn(lists[i])
      BY <2>4 DEF Collected
    <3>3. \A i \in 1..(n - 1), f \in StageFields : ~Says(lists, i, id, f)
      BY <3>2 DEF Says
    <3>4. ASSUME NEW f \in StageFields PROVE SaysFirst(lists, n, id, f, held[id].stages[f])
      <4>1. CASE Says(lists, n, id, f)
        <5>1. n \in 1..n
          BY <1>1
        <5>2. QED  BY <3>1, <3>3, <4>1, <5>1 DEF SaysFirst
      <4>2. CASE ~Says(lists, n, id, f)
        <5>1. held[id].stages[f] = None
          BY <3>1, <4>2 DEF Says
        <5>2. \A i \in 1..n : ~Says(lists, i, id, f)
          BY <2>1, <3>3, <4>2
        <5>3. QED  BY <5>1, <5>2 DEF SaysFirst
      <4>3. QED  BY <4>1, <4>2
    <3>5. QED  BY <2>2, <3>1, <3>4
  <2>5. CASE id \in DOMAIN before /\ id \notin IdsIn(lists[n])
    <3>1. held[id] = before[id]
      BY <1>3, <2>5
    <3>2. \A f \in StageFields : ~Says(lists, n, id, f)
      BY <2>5 DEF Says
    <3>3. ASSUME NEW f \in StageFields PROVE SaysFirst(lists, n, id, f, held[id].stages[f])
      <4>1. SaysFirst(lists, n - 1, id, f, held[id].stages[f])
        BY <2>3, <2>5, <3>1
      <4>2. \A i \in 1..(n - 1) : i \in 1..n
        BY <1>1
      <4>3. QED  BY <2>1, <3>2, <4>1, <4>2 DEF SaysFirst
    <3>4. QED  BY <2>3, <2>5, <3>1, <3>3
  <2>6. CASE id \in DOMAIN before /\ id \in IdsIn(lists[n])
    <3>1. held[id] = Merged(before[id], Held(lists[n], id))
      BY <1>3, <2>6
    <3>2. before[id] \in Found /\ Held(lists[n], id) \in Found
      BY <2>2, <2>3, <2>6
    <3>3. /\ held[id] \in Found /\ held[id].id = id /\ held[id].text \in TextsOf[id]
          /\ \A f \in StageFields : held[id].stages[f] =
                IF before[id].stages[f] # None THEN before[id].stages[f] ELSE Held(lists[n], id).stages[f]
      BY <2>3, <2>6, <3>1, <3>2, MergedType
    <3>4. ASSUME NEW f \in StageFields PROVE SaysFirst(lists, n, id, f, held[id].stages[f])
      <4>1. SaysFirst(lists, n - 1, id, f, before[id].stages[f])
        BY <2>3, <2>6
      <4>2. \A i \in 1..(n - 1) : i \in 1..n
        BY <1>1
      <4>3. CASE before[id].stages[f] # None
        <5>1. held[id].stages[f] = before[id].stages[f]
          BY <3>3, <4>3
        <5>2. QED  BY <4>1, <4>2, <4>3, <5>1 DEF SaysFirst
      <4>4. CASE before[id].stages[f] = None
        <5>1. held[id].stages[f] = Held(lists[n], id).stages[f]
          BY <3>3, <4>4
        <5>2. \A i \in 1..(n - 1) : ~Says(lists, i, id, f)
          BY <4>1, <4>4 DEF SaysFirst, Says
        <5>3. n \in 1..n
          BY <1>1
        <5>4. CASE Says(lists, n, id, f)
          BY <5>1, <5>2, <5>3, <5>4 DEF SaysFirst
        <5>5. CASE ~Says(lists, n, id, f)
          <6>1. held[id].stages[f] = None
            BY <2>6, <5>1, <5>5 DEF Says
          <6>2. \A i \in 1..n : ~Says(lists, i, id, f)
            BY <2>1, <5>2, <5>5
          <6>3. QED  BY <6>1, <6>2 DEF SaysFirst
        <5>6. QED  BY <5>4, <5>5
      <4>5. QED  BY <4>3, <4>4
    <3>5. QED  BY <3>3, <3>4
  <2>7. QED  BY <2>4, <2>5, <2>6
<1> HIDE DEF after
<1>6. QED  BY <1>2, <1>4, <1>5 DEF Collected, held

\* What is collected is every candidate with what the first list to say it says.
LEMMA CollectType ==
    ASSUME NEW lists, AllRanked(lists)
    PROVE  Collected(lists, Len(lists), Collect(lists))
<1> DEFINE N == Len(lists)
           IsCollected(g) == g = [i \in 0..N |-> IF i = 0 THEN <<>> ELSE Joining(g[i - 1], lists[i])]
           X == UNION {[T -> Found] : T \in SUBSET Ids}
           step == [x \in X \X (1..N) |-> Joining(x[1], lists[x[2]])]
           collected == CHOOSE g : IsCollected(g)
<1>0. N \in Nat /\ DOMAIN lists = 1..N /\ \A i \in 1..N : Ranking(lists[i])
  BY DEF AllRanked
<1>1. step \in [X \X (1..N) -> X]
  <2>1. ASSUME NEW before \in X, NEW i \in 1..N PROVE Joining(before, lists[i]) \in X
    <3>1. PICK T \in SUBSET Ids : before \in [T -> Found]
      OBVIOUS
    <3>2. IdsIn(lists[i]) \subseteq Ids /\ \A id \in IdsIn(lists[i]) : Held(lists[i], id) \in Found
      BY <1>0, RankOfType
    <3>3. DOMAIN before = T /\ \A id \in T : before[id] \in Found
      BY <3>1
    <3>4. \A id \in T \cup IdsIn(lists[i]) : Joining(before, lists[i])[id] \in Found
      BY <3>2, <3>3, MergedType DEF Joining
    <3>5. Joining(before, lists[i]) \in [T \cup IdsIn(lists[i]) -> Found]
      BY <3>3, <3>4 DEF Joining
    <3>6. T \cup IdsIn(lists[i]) \in SUBSET Ids
      BY <3>2
    <3>7. QED  BY <3>5, <3>6
  <2> HIDE DEF X, N
  <2>2. QED  BY <2>1
<1>2. PICK f \in [0..N -> X] : IsFold(f, <<>>, step, N)
  <2>1. <<>> \in X
    <3>1. <<>> \in [{} -> Found]
      OBVIOUS
    <3>2. QED  BY <3>1
  <2> HIDE DEF X, step, N
  <2>2. QED  BY <1>0, <1>1, <2>1, FoldDefined
<1>3. IsCollected(f)
  <2>1. ASSUME NEW i \in 0..N
        PROVE  f[i] = IF i = 0 THEN <<>> ELSE Joining(f[i - 1], lists[i])
    <3>1. CASE i = 0
      BY <1>2, <3>1 DEF IsFold
    <3>2. CASE i # 0
      <4>1. i \in 1..N /\ i - 1 \in 0..N
        BY <1>0, <3>2
      <4>2. f[i] = step[<<f[i - 1], i>>]
        BY <1>2, <4>1 DEF IsFold
      <4>3. f[i - 1] \in X
        BY <1>2, <4>1
      <4> HIDE DEF X
      <4>4. QED  BY <3>2, <4>1, <4>2, <4>3
    <3>3. QED  BY <3>1, <3>2
  <2> HIDE DEF X, step, N
  <2>2. QED  BY <1>2, <2>1
<1>4. IsCollected(collected)
  <2> HIDE DEF IsCollected
  <2>1. QED  BY <1>3
<1>5. Collect(lists) = collected[N]
  BY DEF Collect, Joining, Merged
<1> HIDE DEF collected, X, step
<1>6. collected[0] = <<>> /\ \A i \in 1..N : collected[i] = Joining(collected[i - 1], lists[i])
  <2>1. \A i \in 0..N : collected[i] = IF i = 0 THEN <<>> ELSE Joining(collected[i - 1], lists[i])
    BY <1>4
  <2>2. 0 \in 0..N /\ \A i \in 1..N : i \in 0..N /\ i # 0
    BY <1>0
  <2> HIDE DEF N
  <2>3. QED  BY <2>1, <2>2
<1> DEFINE T == {n \in 0..N : Collected(lists, n, collected[n])}
<1>7. 0 \in T
  <2>1. DOMAIN <<>> = {} /\ 1..0 = {}
    OBVIOUS
  <2>2. Collected(lists, 0, <<>>)
    BY <2>1 DEF Collected
  <2>3. QED  BY <1>0, <1>6, <2>2
<1>8. \A n \in 1..N : n - 1 \in T => n \in T
  <2>1. ASSUME NEW n \in 1..N, Collected(lists, n - 1, collected[n - 1])
        PROVE  Collected(lists, n, collected[n])
    BY <1>0, <1>6, <2>1, JoiningType
  <2>2. \A n \in 1..N : n \in 0..N
    BY <1>0
  <2> HIDE DEF N
  <2>3. QED  BY <2>1, <2>2
<1>9. N \in T
  <2> HIDE DEF N, T
  <2>1. N \in 0..N
    BY <1>0
  <2>2. QED  BY <1>0, <1>7, <1>8, <2>1, UpTo
<1>10. QED  BY <1>5, <1>9

----------------------------------------------------------------------------
\* Fusion.

\* The candidates in the order of their scores, with the score and the rank.
Finalised(S, scores, candidates, fused) ==
    /\ Ranking(fused) /\ IdsIn(fused) = S
    /\ \A n \in DOMAIN fused :
          /\ fused[n].id \in S /\ fused[n].score = scores[fused[n].id]
          /\ fused[n].stages["fusedRank"] = n
          /\ \A f \in StageFields \ {"fusionScore", "fusedRank"} :
                fused[n].stages[f] = candidates[fused[n].id].stages[f]
    /\ \A m, n \in DOMAIN fused : fused[m].score > fused[n].score => m < n

LEMMA FinaliseType ==
    ASSUME NEW S \in SUBSET Ids, NEW scores \in [S -> Int], NEW candidates,
           \A id \in S : /\ candidates[id] \in Found /\ candidates[id].id = id
                         /\ candidates[id].text \in TextsOf[id]
    PROVE  Finalised(S, scores, candidates, Finalise(scores, candidates))
<1> DEFINE fused == Finalise(scores, candidates)
<1> DEFINE order == ByScore(S, scores)
           N == Cardinality(S)
<1>1. /\ N \in Nat /\ order \in Seq(S) /\ Len(order) = N /\ DOMAIN order = 1..N
      /\ Range(order) = S /\ Injective(order)
      /\ \A i, j \in 1..N : scores[order[i]] > scores[order[j]] => i < j
  <2>1. \A a \in S : scores[a] \in Int
    OBVIOUS
  <2>2. QED  BY <2>1, ByScoreListing
<1>2. DOMAIN scores = S
  OBVIOUS
<1>3. /\ DOMAIN fused = 1..N /\ fused = [n \in 1..N |-> fused[n]]
      /\ \A n \in 1..N : fused[n] =
            Candidate(candidates[order[n]].id, candidates[order[n]].text, scores[order[n]],
                      [candidates[order[n]].stages EXCEPT !["fusionScore"] = scores[order[n]],
                                                          !["fusedRank"] = n])
  <2> HIDE DEF order
  <2>1. fused = [n \in 1..N |->
            Candidate(candidates[order[n]].id, candidates[order[n]].text, scores[order[n]],
                      [candidates[order[n]].stages EXCEPT !["fusionScore"] = scores[order[n]],
                                                          !["fusedRank"] = n])]
    BY <1>1, <1>2 DEF Finalise, order
  <2> HIDE DEF N
  <2>2. QED  BY <2>1
<1> HIDE DEF order, N
<1>4. ASSUME NEW n \in 1..N
      PROVE  /\ order[n] \in S /\ fused[n] \in Found /\ fused[n].id = order[n]
             /\ fused[n].text \in TextsOf[order[n]] /\ fused[n].score = scores[order[n]]
             /\ fused[n].stages["fusedRank"] = n
             /\ \A f \in StageFields \ {"fusionScore", "fusedRank"} :
                   fused[n].stages[f] = candidates[order[n]].stages[f]
  <2> DEFINE c == candidates[order[n]]
             stages == [c.stages EXCEPT !["fusionScore"] = scores[order[n]], !["fusedRank"] = n]
  <2>1. order[n] \in S /\ n \in Int
    BY <1>1
  <2>2. c \in Found /\ c.id = order[n] /\ c.text \in TextsOf[order[n]] /\ scores[order[n]] \in Int
    BY <2>1
  <2>3. c.stages \in [StageFields -> Int \cup {None}]
    BY <2>2 DEF Found
  <2>4. /\ stages \in [StageFields -> Int \cup {None}] /\ stages["fusedRank"] = n
        /\ \A f \in StageFields \ {"fusionScore", "fusedRank"} : stages[f] = c.stages[f]
    <3> HIDE DEF c
    <3>1. QED  BY <2>1, <2>2, <2>3 DEF StageFields
  <2>5. fused[n] = Candidate(c.id, c.text, scores[order[n]], stages)
    BY <1>3
  <2>6. c.id \in Ids /\ c.text \in Texts
    BY <2>2 DEF Found
  <2> HIDE DEF stages
  <2>7. QED  BY <2>1, <2>2, <2>4, <2>5, <2>6 DEF Candidate, Found, c
<1>5. fused \in Seq(Found) /\ Len(fused) = N
  <2>1. fused \in [1..N -> Found]
    BY <1>3, <1>4
  <2>2. N \in Nat
    BY <1>1
  <2>3. QED  BY <2>1, <2>2
<1>6. Shortlist(fused)
  <2>1. \A i, j \in 1..N : order[i] = order[j] => i = j
    BY <1>1 DEF Injective
  <2>2. \A i \in 1..N : fused[i].id \in Ids /\ fused[i].text \in TextsOf[fused[i].id]
    BY <1>4
  <2>3. \A i, j \in 1..N : fused[i].id = fused[j].id => i = j
    BY <1>4, <2>1
  <2>4. Len(fused) \in Nat /\ DOMAIN fused = 1..Len(fused)
    BY <1>5
  <2>5. DOMAIN fused = 1..N
    BY <1>3
  <2> HIDE DEF N
  <2>6. QED  BY <2>2, <2>3, <2>4, <2>5 DEF Shortlist
<1>7. IdsIn(fused) = S
  <2>1. S = {order[n] : n \in 1..N}
    BY <1>1 DEF Range
  <2>2. QED  BY <1>3, <1>4, <2>1 DEF IdsIn
<1>8. \A m, n \in DOMAIN fused : fused[m].score > fused[n].score => m < n
  BY <1>1, <1>3, <1>4
<1>9. Ranking(fused)
  BY <1>5, <1>6 DEF Ranking
<1> HIDE DEF fused
<1>10. Finalised(S, scores, candidates, fused)
  BY <1>3, <1>4, <1>7, <1>8, <1>9 DEF Finalised
<1>11. QED  BY <1>10 DEF fused

\* What a rank of a list is worth: the less, the later it is.
Worths(lists, worth) ==
    \A i \in DOMAIN lists : \A r \in DOMAIN lists[i] :
        /\ worth[i][r] \in Nat
        /\ \A s \in DOMAIN lists[i] : r < s => worth[i][s] <= worth[i][r]

\* The first of two chunks is above the second in every list that has the second.
Above(lists, a, b) ==
    \A i \in DOMAIN lists : b \in IdsIn(lists[i]) =>
        a \in IdsIn(lists[i]) /\ RankOf(lists[i], a) < RankOf(lists[i], b)

LEMMA TotalsMonotone ==
    ASSUME NEW lists, AllRanked(lists), NEW worth, Worths(lists, worth),
           NEW a \in AllIds(lists), NEW b \in AllIds(lists)
    PROVE  /\ Totals(lists, worth)[a] \in Int /\ Totals(lists, worth)[b] \in Int
           /\ Above(lists, a, b) => Totals(lists, worth)[b] <= Totals(lists, worth)[a]
<1> DEFINE N == Len(lists)
           at(id, i) == IF id \in IdsIn(lists[i]) THEN worth[i][RankOf(lists[i], id)] ELSE 0
           values(id) == [i \in DOMAIN lists |-> at(id, i)]
<1>1. N \in Nat /\ DOMAIN lists = 1..N /\ \A i \in 1..N : Ranking(lists[i])
  BY DEF AllRanked
<1>2. \A id, i : i \in 1..N => at(id, i) \in Nat
  BY <1>1, RankOfType DEF Worths
<1>3. \A id : values(id) \in Seq(Int) /\ Len(values(id)) = N /\ \A i \in 1..N : values(id)[i] = at(id, i)
  <2> HIDE DEF at, N
  <2> TAKE id
  <2>1. values(id) = [i \in 1..N |-> at(id, i)]
    BY <1>1
  <2>2. values(id) \in [1..N -> Int]
    BY <1>2, <2>1
  <2>3. QED  BY <1>1, <2>1, <2>2
<1>4. Totals(lists, worth)[a] = Total(values(a)) /\ Totals(lists, worth)[b] = Total(values(b))
  BY DEF Totals
<1>5. ASSUME Above(lists, a, b), NEW i \in 1..N PROVE at(b, i) <= at(a, i)
  <2>1. CASE b \in IdsIn(lists[i])
    <3>1. a \in IdsIn(lists[i]) /\ RankOf(lists[i], a) < RankOf(lists[i], b)
      BY <1>1, <1>5, <2>1 DEF Above
    <3>2. RankOf(lists[i], a) \in DOMAIN lists[i] /\ RankOf(lists[i], b) \in DOMAIN lists[i]
      BY <1>1, <2>1, <3>1, RankOfType
    <3>3. worth[i][RankOf(lists[i], b)] <= worth[i][RankOf(lists[i], a)]
      BY <1>1, <3>1, <3>2 DEF Worths
    <3>4. QED  BY <2>1, <3>1, <3>3
  <2>2. CASE b \notin IdsIn(lists[i])
    <3>1. at(b, i) = 0 /\ at(a, i) \in Nat
      BY <1>2, <2>2
    <3> HIDE DEF at
    <3>2. QED  BY <3>1
  <2>3. QED  BY <2>1, <2>2
<1> HIDE DEF N, at, values
<1>6. Total(values(a)) \in Int /\ Total(values(b)) \in Int
  <2>1. \A i \in 1..N : values(a)[i] <= values(a)[i] /\ values(b)[i] <= values(b)[i]
    BY <1>2, <1>3
  <2>2. QED  BY <1>3, <2>1, TotalMonotone
<1>7. Above(lists, a, b) => Total(values(b)) <= Total(values(a))
  <2>1. SUFFICES ASSUME Above(lists, a, b) PROVE Total(values(b)) <= Total(values(a))
    OBVIOUS
  <2>2. \A i \in 1..N : values(b)[i] <= values(a)[i]
    BY <1>3, <1>5, <2>1
  <2>3. QED  BY <1>3, <2>2, TotalMonotone
<1>8. QED  BY <1>4, <1>6, <1>7
LEMMA Quotient ==
    ASSUME NEW n \in Nat, NEW d \in Nat, d > 0
    PROVE  n \div d \in Nat /\ d * (n \div d) <= n /\ n < d * (n \div d) + d
OBVIOUS

LEMMA Product ==
    ASSUME NEW a \in Nat, NEW x \in Int, NEW y \in Int, x <= y
    PROVE  a * x <= a * y
OBVIOUS

\* A quotient grows with what is divided, and shrinks with what it is divided by.
LEMMA QuotientMonotone ==
    ASSUME NEW m \in Nat, NEW n \in Nat, m <= n, NEW c \in Nat, NEW d \in Nat, 0 < c, c <= d
    PROVE  /\ m \div d \in Nat /\ n \div c \in Nat
           /\ m \div d <= n \div c
<1> DEFINE p == m \div d
           q == n \div c
<1>1. p \in Nat /\ d * p <= m /\ m < d * p + d
  BY Quotient
<1>2. q \in Nat /\ c * q <= n /\ n < c * q + c
  BY Quotient
<1> HIDE DEF p, q
<1>3. ASSUME p > q PROVE FALSE
  <2>1. p >= q + 1
    BY <1>1, <1>2, <1>3
  <2>2. c * (q + 1) <= c * p
    BY <1>1, <1>2, <2>1, Product
  <2>3. p * c <= p * d
    BY <1>1, Product
  <2>4. c * (q + 1) = c * q + c /\ p * c = c * p /\ p * d = d * p
    BY <1>1, <1>2
  <2>5. c * q \in Nat /\ c * p \in Nat /\ d * p \in Nat
    BY <1>1, <1>2
  <2>6. QED  BY <1>1, <1>2, <2>2, <2>3, <2>4, <2>5
<1>4. QED  BY <1>1, <1>2, <1>3 DEF p, q

\* A reciprocal rank is worth less, the later the rank.
LEMMA ReciprocalWorths ==
    ASSUME NEW lists, AllRanked(lists), NEW k \in Nat
    PROVE  Worths(lists, [i \in DOMAIN lists |-> [rank \in DOMAIN lists[i] |-> Scale \div (k + rank)]])
<1> DEFINE worth == [i \in DOMAIN lists |-> [rank \in DOMAIN lists[i] |-> Scale \div (k + rank)]]
<1>1. ASSUME NEW i \in DOMAIN lists, NEW r \in DOMAIN lists[i]
      PROVE  /\ worth[i][r] \in Nat
             /\ \A s \in DOMAIN lists[i] : r < s => worth[i][s] <= worth[i][r]
  <2>1. /\ \A s \in DOMAIN lists[i] : worth[i][s] = Scale \div (k + s) /\ s \in Nat /\ s > 0
        /\ Scale \in Nat
    BY DEF AllRanked, Ranking, Shortlist
  <2> HIDE DEF worth
  <2>2. k + r \in Nat /\ k + r > 0
    BY <2>1
  <2>3. worth[i][r] \in Nat
    BY <2>1, <2>2, Quotient
  <2>4. ASSUME NEW s \in DOMAIN lists[i], r < s PROVE worth[i][s] <= worth[i][r]
    <3>1. k + s \in Nat /\ k + r <= k + s
      BY <2>1, <2>4
    <3>2. Scale \div (k + s) <= Scale \div (k + r)
      BY <2>1, <2>2, <3>1, QuotientMonotone
    <3>3. QED  BY <2>1, <3>2
  <2>5. QED  BY <2>3, <2>4
<1>2. QED  BY <1>1 DEF Worths

\* The scores of a ranked list lie between its last and its first.
LEMMA Extremes ==
    ASSUME NEW list, Ranking(list), Descending(list), list # <<>>
    PROVE  LET scores == {list[r].score : r \in DOMAIN list}
           IN  /\ Max(scores) \in Int /\ Min(scores) \in Int
               /\ \A r \in DOMAIN list : /\ list[r].score \in Int /\ Min(scores) <= list[r].score
                                         /\ list[r].score <= Max(scores)
<1> DEFINE N == Len(list)
           scores == {list[r].score : r \in DOMAIN list}
<1>1. N \in Nat /\ N > 0 /\ DOMAIN list = 1..N
  BY DEF Ranking
<1>2. \A r \in 1..N : list[r].score \in Int
  <2>1. \A r \in 1..N : list[r] \in Found
    BY <1>1 DEF Ranking
  <2>2. QED  BY <2>1 DEF Found
<1> HIDE DEF N
<1>3. 1 \in 1..N /\ N \in 1..N
  BY <1>1
<1>4. \A r \in 1..N : list[r].score <= list[1].score /\ list[N].score <= list[r].score
  <2>1. ASSUME NEW r \in 1..N PROVE list[r].score <= list[1].score
    <3>1. CASE r = 1
      BY <1>2, <3>1
    <3>2. CASE r # 1
      <4>1. 1 < r
        BY <1>1, <3>2
      <4>2. QED  BY <1>1, <1>2, <1>3, <4>1 DEF Descending
    <3>3. QED  BY <3>1, <3>2
  <2>2. ASSUME NEW r \in 1..N PROVE list[N].score <= list[r].score
    <3>1. CASE r = N
      BY <1>2, <3>1
    <3>2. CASE r # N
      <4>1. r < N
        BY <1>1, <3>2
      <4>2. QED  BY <1>1, <1>2, <1>3, <4>1 DEF Descending
    <3>3. QED  BY <3>1, <3>2
  <2>3. QED  BY <2>1, <2>2
<1>5. \A x \in scores : x \in Int /\ x <= list[1].score /\ list[N].score <= x
  BY <1>1, <1>2, <1>4
<1>6. list[1].score \in scores /\ list[N].score \in scores
  BY <1>1, <1>3
<1>7. \A r \in DOMAIN list : list[r].score \in scores
  OBVIOUS
<1> HIDE DEF scores
<1>8. Max(scores) \in scores /\ \A x \in scores : Max(scores) >= x
  <2>1. \E x \in scores : \A y \in scores : x >= y
    BY <1>5, <1>6
  <2>2. QED  BY <2>1 DEF Max
<1>9. Min(scores) \in scores /\ \A x \in scores : Min(scores) <= x
  <2>1. \E x \in scores : \A y \in scores : x <= y
    BY <1>5, <1>6
  <2>2. QED  BY <2>1 DEF Min
<1>10. \A r \in DOMAIN list : /\ list[r].score \in Int /\ Min(scores) <= list[r].score
                              /\ list[r].score <= Max(scores)
  BY <1>5, <1>7, <1>8, <1>9
<1>11. Max(scores) \in Int /\ Min(scores) \in Int
  BY <1>5, <1>8, <1>9
<1>12. QED  BY <1>10, <1>11 DEF scores

\* A scaled score is worth less, the later its rank.
LEMMA ScaledWorths ==
    ASSUME NEW lists, AllRanked(lists), NEW weights, \A i \in DOMAIN lists : weights[i] \in Share
    PROVE  Worths(lists, [i \in DOMAIN lists |-> [rank \in DOMAIN lists[i] |->
                             MinMax(lists[i], rank, weights[i])]])
<1> DEFINE worth == [i \in DOMAIN lists |-> [rank \in DOMAIN lists[i] |->
                        MinMax(lists[i], rank, weights[i])]]
<1>1. ASSUME NEW i \in DOMAIN lists, NEW r \in DOMAIN lists[i]
      PROVE  /\ worth[i][r] \in Nat
             /\ \A s \in DOMAIN lists[i] : r < s => worth[i][s] <= worth[i][r]
  <2> DEFINE list == lists[i]
             scores == {list[n].score : n \in DOMAIN list}
             low == Min(scores)
             spread == Max(scores) - Min(scores)
             a == Scale * weights[i][1]
             b == weights[i][2]
  <2>1. Ranking(list) /\ Descending(list) /\ list # <<>>
    BY DEF AllRanked
  <2>2. /\ low \in Int /\ Max(scores) \in Int
        /\ \A n \in DOMAIN list : /\ list[n].score \in Int /\ low <= list[n].score
                                  /\ list[n].score <= Max(scores)
    BY <2>1, Extremes
  <2>3. weights[i][1] \in Nat /\ b \in Nat /\ b > 0 /\ Scale \in Nat
    BY DEF Share
  <2>4. a \in Nat
    BY <2>3
  <2>5. \A n \in DOMAIN list : worth[i][n] = IF spread = 0 THEN a \div b
                                             ELSE (a * (list[n].score - low)) \div (b * spread)
    BY DEF MinMax
  <2>6. \A n \in DOMAIN list : n < r \/ r < n \/ n = r
    BY DEF AllRanked, Ranking, Shortlist
  <2> HIDE DEF worth, low, spread, a, b, scores
  <2>7. CASE spread = 0
    <3>1. a \div b \in Nat
      BY <2>3, <2>4, Quotient
    <3>2. \A n \in DOMAIN list : worth[i][n] = a \div b
      BY <2>5, <2>7
    <3> HIDE DEF list
    <3>3. \A n \in DOMAIN list : worth[i][n] <= worth[i][r]
      BY <3>1, <3>2 DEF list
    <3>4. QED  BY <3>1, <3>2, <3>3 DEF list
  <2>8. CASE spread # 0
    <3>1. spread \in Nat /\ spread > 0
      BY <2>1, <2>2, <2>8 DEF spread, low
    <3>2. b * spread \in Nat /\ b * spread > 0
      BY <2>3, <3>1
    <3>3. \A n \in DOMAIN list : list[n].score - low \in Nat
      BY <2>2
    <3>4. \A n \in DOMAIN list : a * (list[n].score - low) \in Nat
      BY <2>4, <3>3
    <3>5. \A n \in DOMAIN list : worth[i][n] = (a * (list[n].score - low)) \div (b * spread)
      BY <2>5, <2>8
    <3>6. worth[i][r] \in Nat
      BY <3>2, <3>4, <3>5, Quotient
    <3>7. ASSUME NEW s \in DOMAIN list, r < s PROVE worth[i][s] <= worth[i][r]
      <4>1. list[r].score >= list[s].score
        BY <2>1, <3>7 DEF Descending
      <4>2. list[s].score - low <= list[r].score - low
        BY <2>2, <4>1
      <4>3. a * (list[s].score - low) <= a * (list[r].score - low)
        BY <2>4, <3>3, <4>2, Product
      <4>4. (a * (list[s].score - low)) \div (b * spread) <= (a * (list[r].score - low)) \div (b * spread)
        BY <3>2, <3>4, <4>3, QuotientMonotone
      <4>5. QED  BY <3>5, <4>4
    <3>8. QED  BY <3>6, <3>7
  <2>9. QED  BY <2>7, <2>8
<1>2. QED  BY <1>1 DEF Worths

\* The first that says something of this, by Says.
LEMMA FirstSaid ==
    ASSUME NEW lists, AllRanked(lists), NEW id, NEW f, NEW v, SaysFirst(lists, Len(lists), id, f, v)
    PROVE  v = FirstOf(lists, id, f)
<1> DEFINE having == {i \in DOMAIN lists : id \in IdsIn(lists[i]) /\ Held(lists[i], id).stages[f] # None}
           first == CHOOSE i \in having : \A j \in having : i <= j
<1>1. DOMAIN lists = 1..Len(lists) /\ Len(lists) \in Nat
  BY DEF AllRanked
<1>2. \A i \in 1..Len(lists) : i \in having <=> Says(lists, i, id, f)
  BY <1>1 DEF Says
<1>3. CASE \A i \in 1..Len(lists) : ~Says(lists, i, id, f)
  <2>1. having = {}
    BY <1>1, <1>2, <1>3
  <2>2. v = None
    BY <1>3 DEF SaysFirst
  <2> HIDE DEF having
  <2>3. QED  BY <2>1, <2>2 DEF FirstOf, having
<1>4. CASE \E i \in 1..Len(lists) : Says(lists, i, id, f)
  <2>1. PICK i \in 1..Len(lists) : /\ Says(lists, i, id, f) /\ v = Held(lists[i], id).stages[f]
                                   /\ \A j \in 1..(i - 1) : ~Says(lists, j, id, f)
    BY <1>4 DEF SaysFirst
  <2>2. i \in having
    BY <1>2, <2>1
  <2>3. \A j \in having : i <= j
    <3>1. SUFFICES ASSUME NEW j \in having, ~(i <= j) PROVE FALSE
      OBVIOUS
    <3>2. j \in 1..Len(lists) /\ Says(lists, j, id, f)
      BY <1>1, <1>2
    <3>3. j \in 1..(i - 1)
      BY <1>1, <3>1, <3>2
    <3>4. QED  BY <2>1, <3>2, <3>3
  <2>4. having \subseteq Int
    BY <1>1
  <2> HIDE DEF having
  <2>5. first = i
    <3>1. first \in having /\ \A j \in having : first <= j
      BY <2>2, <2>3
    <3> HIDE DEF first
    <3>2. first <= i /\ i <= first
      BY <2>2, <2>3, <3>1
    <3>3. QED  BY <2>2, <2>4, <3>1, <3>2
  <2>6. FirstOf(lists, id, f) = IF having = {} THEN None ELSE Held(lists[first], id).stages[f]
    BY DEF FirstOf, having
  <2> HIDE DEF first
  <2>7. QED  BY <2>1, <2>2, <2>5, <2>6
<1>5. QED  BY <1>3, <1>4

Evidence == {"denseScore", "denseRank", "lexicalScore", "lexicalRank"}

\* What fusion promises of the fused list.
Fused(lists, fused) ==
    /\ Ranking(fused) /\ IdsIn(fused) = AllIds(lists)
    /\ \A n \in DOMAIN fused :
          /\ fused[n].stages["fusedRank"] = n
          /\ \A f \in Evidence : fused[n].stages[f] = FirstOf(lists, fused[n].id, f)
    /\ \A m, n \in DOMAIN fused : Above(lists, fused[m].id, fused[n].id) =>
          m < n \/ fused[m].score = fused[n].score

\* Fusion by any worths that fall with the rank.
LEMMA FusionSound ==
    ASSUME NEW lists, AllRanked(lists), NEW worth, Worths(lists, worth)
    PROVE  Fused(lists, Finalise(Totals(lists, worth), Collect(lists)))
<1> DEFINE S == AllIds(lists)
           scores == Totals(lists, worth)
           held == Collect(lists)
           fused == Finalise(scores, held)
<1>1. S \subseteq Ids
  BY RankOfType DEF AllRanked, AllIds
<1>2. scores \in [S -> Int]
  <2>1. \A id \in S : Totals(lists, worth)[id] \in Int
    BY TotalsMonotone
  <2>2. scores = [id \in S |-> scores[id]]
    BY DEF Totals
  <2>3. QED  BY <2>1, <2>2
<1>3. Collected(lists, Len(lists), held)
  BY CollectType
<1>4. DOMAIN held = S
  BY <1>3 DEF Collected, AllIds, AllRanked
<1>5. \A id \in S : /\ held[id] \in Found /\ held[id].id = id /\ held[id].text \in TextsOf[id]
                    /\ \A f \in StageFields : held[id].stages[f] = FirstOf(lists, id, f)
  <2>1. \A id \in S : /\ held[id] \in Found /\ held[id].id = id /\ held[id].text \in TextsOf[id]
    BY <1>3, <1>4 DEF Collected
  <2>2. ASSUME NEW id \in S, NEW f \in StageFields PROVE held[id].stages[f] = FirstOf(lists, id, f)
    <3>1. SaysFirst(lists, Len(lists), id, f, held[id].stages[f])
      BY <1>3, <1>4 DEF Collected
    <3> HIDE DEF held
    <3>2. QED  BY <3>1, FirstSaid
  <2>3. QED  BY <2>1, <2>2
<1>6. \A a, b \in S : Above(lists, a, b) => scores[b] <= scores[a]
  BY TotalsMonotone
<1> HIDE DEF S, scores, held, fused
<1>7. Finalised(S, scores, held, fused)
  <2>1. \A id \in S : held[id] \in Found /\ held[id].id = id /\ held[id].text \in TextsOf[id]
    BY <1>5
  <2>2. QED  BY <1>1, <1>2, <2>1, FinaliseType DEF fused
<1>8. Evidence \subseteq StageFields \ {"fusionScore", "fusedRank"}
  BY DEF Evidence, StageFields
<1>9. \A n \in DOMAIN fused, f \in Evidence : fused[n].stages[f] = FirstOf(lists, fused[n].id, f)
  BY <1>5, <1>7, <1>8 DEF Finalised
<1>10. ASSUME NEW m \in DOMAIN fused, NEW n \in DOMAIN fused, Above(lists, fused[m].id, fused[n].id)
       PROVE  m < n \/ fused[m].score = fused[n].score
  <2>1. fused[m].id \in S /\ fused[n].id \in S
    BY <1>7 DEF Finalised
  <2>2. scores[fused[n].id] <= scores[fused[m].id]
    BY <1>6, <1>10, <2>1
  <2>3. fused[m].score = scores[fused[m].id] /\ fused[n].score = scores[fused[n].id]
    BY <1>7 DEF Finalised
  <2>4. scores[fused[m].id] \in Int /\ scores[fused[n].id] \in Int
    BY <1>2, <2>1
  <2>5. fused[m].score > fused[n].score \/ fused[m].score = fused[n].score
    BY <2>2, <2>3, <2>4
  <2>6. QED  BY <1>7, <2>5 DEF Finalised
<1>11. Fused(lists, fused)
  BY <1>7, <1>9, <1>10 DEF Fused, Finalised, S
<1>12. QED  BY <1>11 DEF fused, scores, held

\* Both fusions are that.
LEMMA FuseSound ==
    ASSUME NEW lists, AllRanked(lists), NEW config \in Configs
    PROVE  Fused(lists, Fuse(lists, config))
<1>1. config.rrfK \in Nat /\ config.denseWeight \in Share
  BY DEF Configs, Positive
<1>2. Len(lists) \in Nat /\ DOMAIN lists = 1..Len(lists)
  BY DEF AllRanked
<1>3. CASE config.fusion = "rrf"
  <2> DEFINE worth == [i \in DOMAIN lists |-> [rank \in DOMAIN lists[i] |->
                          Scale \div (config.rrfK + rank)]]
  <2>1. Worths(lists, worth)
    BY <1>1, ReciprocalWorths
  <2>2. Fuse(lists, config) = Finalise(Totals(lists, worth), Collect(lists))
    BY <1>3 DEF Fuse, ReciprocalRankFusion
  <2> HIDE DEF worth
  <2>3. QED  BY <2>1, <2>2, FusionSound
<1>4. CASE config.fusion # "rrf"
  <2> DEFINE weights == Weights(lists, config)
             worth == [i \in DOMAIN lists |-> [rank \in DOMAIN lists[i] |->
                          MinMax(lists[i], rank, weights[i])]]
  <2>1. \A i \in DOMAIN lists : weights[i] \in Share
    <3> DEFINE w == config.denseWeight
    <3>1. w[1] \in Nat /\ w[2] \in Nat \ {0} /\ w[1] <= w[2] /\ w \in Share
      BY <1>1 DEF Share
    <3> HIDE DEF w
    <3>2. CASE Len(lists) = 2
      <4> DEFINE rest == <<w[2] - w[1], w[2]>>
      <4>1. w[2] - w[1] \in Nat /\ w[2] - w[1] <= w[2]
        BY <3>1
      <4>2. rest \in Share
        BY <3>1, <4>1 DEF Share
      <4>3. weights = <<w, rest>>
        BY <3>2 DEF Weights, w
      <4>4. \A i \in DOMAIN lists : i = 1 \/ i = 2
        BY <1>2, <3>2
      <4> HIDE DEF rest, weights
      <4>5. weights[1] = w /\ weights[2] = rest
        BY <4>3
      <4>6. QED  BY <3>1, <4>2, <4>4, <4>5
    <3>3. CASE Len(lists) # 2
      <4>1. \A i \in DOMAIN lists : weights[i] = <<1, Len(lists)>>
        BY <3>3 DEF Weights
      <4>2. DOMAIN lists # {} => Len(lists) \in Nat \ {0} /\ 1 <= Len(lists)
        BY <1>2
      <4>3. DOMAIN lists # {} => <<1, Len(lists)>> \in Share
        BY <4>2 DEF Share
      <4> HIDE DEF weights
      <4>4. QED  BY <4>1, <4>3
    <3>4. QED  BY <3>2, <3>3
  <2>2. Fuse(lists, config) = Finalise(Totals(lists, worth), Collect(lists))
    BY <1>4 DEF Fuse, WeightedScoreFusion
  <2> HIDE DEF weights
  <2>3. Worths(lists, worth)
    BY <2>1, ScaledWorths
  <2> HIDE DEF worth
  <2>4. QED  BY <2>2, <2>3, FusionSound
<1>5. QED  BY <1>3, <1>4

----------------------------------------------------------------------------
\* Searching, numbering and reranking.

SearchesFor == [by : {"dense", "lexical"}, text : DOMAIN Likeness]

\* The first n of a list.
LEMMA FirstOnes ==
    ASSUME NEW k \in Nat, NEW n \in Nat
    PROVE  /\ Lesser(k, n) \in Nat /\ Lesser(k, n) <= n /\ Lesser(k, n) <= k
           /\ 1..Lesser(k, n) \subseteq 1..n
           /\ \A m \in 1..Lesser(k, n) : m \in Nat /\ m \in Int
BY DEF Lesser

\* A list of chunks with an id each.
LEMMA RankingOf ==
    ASSUME NEW N \in Nat, NEW list, list = [n \in 1..N |-> list[n]],
           \A n \in 1..N : list[n] \in Found /\ list[n].text \in TextsOf[list[n].id],
           \A m, n \in 1..N : list[m].id = list[n].id => m = n
    PROVE  Ranking(list) /\ Len(list) = N /\ DOMAIN list = 1..N
<1>1. list \in [1..N -> Found]
  OBVIOUS
<1>2. list \in Seq(Found) /\ Len(list) = N /\ DOMAIN list = 1..N
  BY <1>1, ListOf
<1>3. \A n \in 1..N : list[n].id \in Ids
  BY DEF Found
<1>4. Shortlist(list)
  BY <1>2, <1>3 DEF Shortlist
<1>5. QED  BY <1>2, <1>4 DEF Ranking

\* A search returns a ranked list, the best first.
LEMMA HitsType ==
    ASSUME \A id \in Ids : store[id] \in TextsOf[id] \cup {Absent},
           NEW search \in SearchesFor, NEW k \in Positive
    PROVE  Ranking(Hits(search, k)) /\ Descending(Hits(search, k))
<1> DEFINE here == {i \in Ids : store[i] # Absent}
           score == [id \in here |-> Likeness[search.text][store[id]]]
           found == IF search.by = "dense" THEN here ELSE {id \in here : score[id] > 0}
           order == ByScore(found, score)
           scored == IF search.by = "dense" THEN "denseScore" ELSE "lexicalScore"
           ranked == IF search.by = "dense" THEN "denseRank" ELSE "lexicalRank"
           N == Lesser(k, Len(order))
           hits == Hits(search, k)
<1>1. \A id \in here : store[id] \in TextsOf[id] /\ store[id] \in Texts /\ score[id] \in Int
  <2>1. \A id \in here : store[id] \in TextsOf[id]
    OBVIOUS
  <2>2. \A id \in here : store[id] \in Texts
    BY <2>1 DEF Texts
  <2>3. search.text \in DOMAIN Likeness
    BY DEF SearchesFor
  <2>4. \A id \in here : Likeness[search.text][store[id]] \in Int
    BY <2>2, <2>3, BackendAssumption
  <2>5. QED  BY <2>1, <2>2, <2>4
<1>2. found \subseteq here /\ found \subseteq Ids
  OBVIOUS
<1>3. \A id \in found : score[id] \in Int
  BY <1>1
<1> DEFINE M == Cardinality(found)
<1>4. /\ M \in Nat /\ Len(order) = M /\ DOMAIN order = 1..M
      /\ Range(order) = found /\ Injective(order)
      /\ \A i, j \in 1..M : i < j => score[order[i]] >= score[order[j]]
  <2> HIDE DEF found, score
  <2>1. QED  BY <1>2, <1>3, ByScoreListing
<1>5. N \in Nat /\ 1..N \subseteq 1..M /\ \A n \in 1..N : n \in Int
  BY <1>4, FirstOnes DEF Positive
<1>6. hits = [n \in 1..N |->
            Candidate(order[n], store[order[n]], score[order[n]],
                      [NoStages EXCEPT ![scored] = score[order[n]], ![ranked] = n])]
  <2>1. DOMAIN score = here
    OBVIOUS
  <2> HIDE DEF N, scored, ranked, here
  <2>2. found = IF search.by = "dense" THEN DOMAIN score ELSE {id \in DOMAIN score : score[id] > 0}
    BY <2>1
  <2> HIDE DEF score, found
  <2>3. QED  BY <2>2 DEF Hits, N, scored, ranked, score, here, order
<1> DEFINE stages(n) == [NoStages EXCEPT ![scored] = score[order[n]], ![ranked] = n]
<1> HIDE DEF N, M, order
<1>7. ASSUME NEW n \in 1..N
      PROVE  /\ order[n] \in found /\ hits[n] \in Found /\ hits[n].id = order[n]
             /\ hits[n].text \in TextsOf[order[n]] /\ hits[n].score = score[order[n]]
  <2>1. order[n] \in found
    BY <1>4, <1>5 DEF Range
  <2>2. score[order[n]] \in Int /\ n \in Int
    BY <1>3, <1>5, <2>1
  <2>3. stages(n) \in [StageFields -> Int \cup {None}]
    <3> DEFINE x == score[order[n]]
    <3>1. scored \in StageFields /\ ranked \in StageFields
      BY DEF StageFields
    <3>2. NoStages \in [StageFields -> Int \cup {None}] /\ x \in Int
      BY <2>2 DEF NoStages
    <3> HIDE DEF scored, ranked, x
    <3>3. QED  BY <2>2, <3>1, <3>2 DEF x
  <2>4. order[n] \in Ids /\ store[order[n]] \in TextsOf[order[n]] /\ store[order[n]] \in Texts
    BY <1>1, <1>2, <2>1
  <2>5. hits[n] = Candidate(order[n], store[order[n]], score[order[n]], stages(n))
    <3> HIDE DEF stages, score, hits
    <3>1. QED  BY <1>6 DEF stages
  <2> HIDE DEF stages, score, hits, found
  <2>6. QED  BY <2>1, <2>2, <2>3, <2>4, <2>5 DEF Candidate, Found
<1> HIDE DEF score, found, scored, ranked, stages
<1>8. hits = [n \in 1..N |-> hits[n]] /\ DOMAIN hits = 1..N
  <2> DEFINE h == hits
  <2>1. \E f : h = [n \in 1..N |-> f[n]]
    <3>1. WITNESS [n \in 1..N |->
            Candidate(order[n], store[order[n]], score[order[n]],
                      [NoStages EXCEPT ![scored] = score[order[n]], ![ranked] = n])]
    <3>2. QED  BY <1>6
  <2> HIDE DEF h
  <2>2. QED  BY <2>1 DEF h
<1> HIDE DEF hits
<1>9. \A m, n \in 1..N : hits[m].id = hits[n].id => m = n
  BY <1>4, <1>5, <1>7 DEF Injective
<1>10. Ranking(hits)
  <2>1. \A n \in 1..N : hits[n] \in Found /\ hits[n].text \in TextsOf[hits[n].id]
    BY <1>7
  <2>2. QED  BY <1>5, <1>8, <1>9, <2>1, RankingOf
<1>11. Descending(hits)
  BY <1>4, <1>5, <1>7, <1>8 DEF Descending
<1>12. QED  BY <1>10, <1>11 DEF hits

\* What a chunk says is what the list says of it, but for its rerank score and its
\* final rank, which is its place.
Traced(chunks, list) ==
    \A n \in DOMAIN chunks :
        LET c == Held(list, chunks[n].id)
        IN  /\ chunks[n].id \in IdsIn(list) /\ chunks[n].text = c.text
            /\ chunks[n].stages["finalRank"] = n
            /\ \A f \in Evidence \cup {"fusedRank"} : chunks[n].stages[f] = c.stages[f]

\* Each chunk has the model's score of a text that it has had.
Scored(chunks, query) ==
    \A n \in DOMAIN chunks : \E t \in TextsOf[chunks[n].id] :
        chunks[n].stages["rerankScore"] = Relevance[query][t]

LEMMA NumberedType ==
    ASSUME NEW fused, Ranking(fused), NEW k \in Positive
    PROVE  LET chunks == Numbered(fused, k)
           IN  Ranking(chunks) /\ Len(chunks) = Lesser(k, Len(fused)) /\ Traced(chunks, fused)
<1> DEFINE N == Lesser(k, Len(fused))
           chunks == Numbered(fused, k)
           stages(n) == [fused[n].stages EXCEPT !["finalRank"] = n]
<1>1. fused \in Seq(Found) /\ Len(fused) \in Nat /\ DOMAIN fused = 1..Len(fused)
  BY DEF Ranking
<1>2. N \in Nat /\ 1..N \subseteq 1..Len(fused) /\ \A n \in 1..N : n \in Int
  BY <1>1, FirstOnes DEF Positive
<1>3. chunks = [n \in 1..N |-> Candidate(fused[n].id, fused[n].text, fused[n].score, stages(n))]
  BY DEF Numbered
<1> HIDE DEF N
<1>4. chunks = [n \in 1..N |-> chunks[n]] /\ DOMAIN chunks = 1..N
  <2> HIDE DEF stages, chunks
  <2> DEFINE g == [n \in 1..N |-> Candidate(fused[n].id, fused[n].text, fused[n].score, stages(n))]
  <2>1. g = [n \in 1..N |-> g[n]] /\ DOMAIN g = 1..N
    OBVIOUS
  <2>2. chunks = g
    BY <1>3
  <2> HIDE DEF g
  <2>3. QED  BY <2>1, <2>2
<1>5. ASSUME NEW n \in 1..N
      PROVE  /\ chunks[n] \in Found /\ chunks[n].id = fused[n].id /\ chunks[n].text = fused[n].text
             /\ chunks[n].stages["finalRank"] = n
             /\ \A f \in Evidence \cup {"fusedRank"} : chunks[n].stages[f] = fused[n].stages[f]
  <2>1. n \in DOMAIN fused /\ fused[n] \in Found /\ n \in Int
    BY <1>1, <1>2
  <2>2. fused[n].id \in Ids /\ fused[n].text \in Texts /\ fused[n].score \in Int
        /\ fused[n].stages \in [StageFields -> Int \cup {None}]
    BY <2>1 DEF Found
  <2>3. /\ stages(n) \in [StageFields -> Int \cup {None}] /\ stages(n)["finalRank"] = n
        /\ \A f \in Evidence \cup {"fusedRank"} : stages(n)[f] = fused[n].stages[f]
    <3> DEFINE s == fused[n].stages
    <3>1. s \in [StageFields -> Int \cup {None}]
      BY <2>2
    <3> HIDE DEF s
    <3>2. QED  BY <2>1, <3>1 DEF StageFields, Evidence, s
  <2>4. chunks[n] = Candidate(fused[n].id, fused[n].text, fused[n].score, stages(n))
    <3> HIDE DEF stages, chunks
    <3>1. QED  BY <1>3
  <2> HIDE DEF stages, chunks
  <2>5. QED  BY <2>2, <2>3, <2>4 DEF Candidate, Found
<1> HIDE DEF stages, chunks
<1>6. \A n \in DOMAIN fused : /\ fused[n].text \in TextsOf[fused[n].id]
                              /\ fused[n].id \in IdsIn(fused)
                              /\ Held(fused, fused[n].id) = fused[n]
  BY RankOfType DEF Held, Ranking, Shortlist
<1>7. Ranking(chunks) /\ Len(chunks) = N
  <2>1. \A n \in 1..N : chunks[n].text \in TextsOf[chunks[n].id]
    BY <1>1, <1>2, <1>5, <1>6
  <2>2. \A m, n \in 1..N : fused[m].id = fused[n].id => m = n
    BY <1>1, <1>2 DEF Ranking, Shortlist
  <2>3. QED  BY <1>2, <1>4, <1>5, <2>1, <2>2, RankingOf
<1>8. Traced(chunks, fused)
  <2>1. \A n \in 1..N : n \in DOMAIN fused
    BY <1>1, <1>2
  <2>2. QED  BY <1>4, <1>5, <1>6, <2>1 DEF Traced
<1>9. QED  BY <1>7, <1>8 DEF chunks, N

\* A shortlist says of its chunks what the whole list says.
LEMMA ShortlistType ==
    ASSUME NEW fused, Ranking(fused), NEW m \in 0..Len(fused)
    PROVE  LET list == SubSeq(fused, 1, m)
           IN  /\ Ranking(list) /\ Len(list) = m
               /\ \A id \in IdsIn(list) : id \in IdsIn(fused) /\ Held(list, id) = Held(fused, id)
<1> DEFINE list == SubSeq(fused, 1, m)
<1>1. fused \in Seq(Found) /\ Len(fused) \in Nat /\ DOMAIN fused = 1..Len(fused)
  BY DEF Ranking
<1>2. m \in Nat /\ 1..m \subseteq 1..Len(fused)
  BY <1>1
<1>3. list = [n \in 1..m |-> fused[n]]
  BY <1>1, <1>2
<1> HIDE DEF list
<1>4. \A n \in 1..m : list[n] = fused[n]
  BY <1>3
<1>5. list = [n \in 1..m |-> list[n]] /\ DOMAIN list = 1..m
  BY <1>3, <1>4
<1>6. Ranking(list) /\ Len(list) = m
  <2>1. \A n \in 1..m : list[n] \in Found /\ list[n].text \in TextsOf[list[n].id]
    BY <1>1, <1>2, <1>4 DEF Ranking, Shortlist
  <2>2. \A i, n \in 1..m : list[i].id = list[n].id => i = n
    BY <1>1, <1>2, <1>4 DEF Ranking, Shortlist
  <2>3. QED  BY <1>2, <1>5, <2>1, <2>2, RankingOf
<1>7. ASSUME NEW id \in IdsIn(list)
      PROVE  id \in IdsIn(fused) /\ Held(list, id) = Held(fused, id)
  <2>1. PICK n \in 1..m : n = RankOf(list, id)
    BY <1>5, <1>6, RankOfType
  <2>2. list[n].id = id /\ Held(list, id) = fused[n]
    BY <1>4, <1>6, <2>1, RankOfType DEF Held
  <2>3. n \in DOMAIN fused /\ fused[n].id = id
    BY <1>1, <1>2, <1>4, <2>2
  <2>4. id \in IdsIn(fused) /\ RankOf(fused, id) = n
    BY <2>3, RankOfType
  <2>5. QED  BY <2>2, <2>4 DEF Held
<1>8. QED  BY <1>6, <1>7 DEF list

\* The reranked chunks are the shortlist's, with scores of theirs.
LEMMA RerankedType ==
    ASSUME NEW j, j.at = "scored", Request(j), Ranking(j.shortlist), j.top \in Positive
    PROVE  LET chunks == Reranked(j)
           IN  /\ Ranking(chunks) /\ Len(chunks) = Lesser(j.top, Len(j.shortlist))
               /\ Traced(chunks, j.shortlist) /\ Scored(chunks, j.query)
<1> DEFINE list == j.shortlist
           S == IdsIn(list)
           score == [id \in S |-> j.scores[RankOf(list, id)]]
           order == ByScore(S, score)
           M == Cardinality(S)
           N == Lesser(j.top, Len(order))
           chunks == Reranked(j)
           stages(n) == [Held(list, order[n]).stages EXCEPT !["rerankScore"] = score[order[n]],
                                                            !["finalRank"] = n]
<1>1. /\ list \in Seq(Found) /\ Len(list) \in Nat /\ DOMAIN list = 1..Len(list)
      /\ S \subseteq Ids
      /\ \A id \in S : /\ RankOf(list, id) \in DOMAIN list /\ list[RankOf(list, id)].id = id
                       /\ Held(list, id) = list[RankOf(list, id)]
                       /\ Held(list, id) \in Found /\ Held(list, id).id = id
                       /\ Held(list, id).text \in TextsOf[id]
      /\ \A n \in DOMAIN list : list[n].id \in S /\ RankOf(list, list[n].id) = n
  BY RankOfType DEF Ranking
<1>2. j.query \in Queries /\ \A i \in DOMAIN list : HonestScore(j, i)
  BY DEF Request
<1>3. \A id \in S : \E t \in TextsOf[id] : score[id] = Relevance[j.query][t]
  BY <1>1, <1>2 DEF HonestScore
<1>4. \A id \in S : score[id] \in Int
  <2>1. ASSUME NEW id \in S PROVE score[id] \in Int
    <3>1. PICK t \in TextsOf[id] : score[id] = Relevance[j.query][t]
      BY <1>3
    <3>2. id \in Ids
      BY <1>1
    <3> HIDE DEF score, S
    <3>3. QED  BY <1>2, <3>1, <3>2, ScoreType
  <2> HIDE DEF score, S
  <2>2. QED  BY <2>1
<1>5. /\ M \in Nat /\ Len(order) = M /\ DOMAIN order = 1..M
      /\ Range(order) = S /\ Injective(order)
  <2> HIDE DEF S, score
  <2>1. QED  BY <1>1, <1>4, ByScoreListing
  \* As many as there are in the shortlist.
<1>6. M = Len(list)
  <2> DEFINE ids == [n \in 1..Len(list) |-> list[n].id]
  <2>1. \A n \in 1..Len(list) : ids[n] \in Ids
    BY <1>1
  <2>2. ids \in Seq(Ids) /\ Len(ids) = Len(list) /\ \A n \in 1..Len(list) : ids[n] = list[n].id
    <3>1. ids \in [1..Len(list) -> Ids]
      BY <2>1
    <3>2. QED  BY <1>1, <3>1, ListOf
  <2> DEFINE m == Len(list)
  <2>3. m \in Nat /\ DOMAIN list = 1..m /\ DOMAIN ids = 1..m /\ \A n \in 1..m : ids[n] = list[n].id
    BY <1>1, <2>2
  <2>4. \A i, n \in 1..m : list[i].id = list[n].id => i = n
    BY <2>3 DEF Ranking, Shortlist
  <2>5. S = {list[n].id : n \in 1..m}
    BY <2>3 DEF IdsIn
  <2> HIDE DEF ids, m, S, list
  <2>6. Range(ids) = S
    BY <2>3, <2>5 DEF Range
  <2>7. Injective(ids)
    BY <2>3, <2>4 DEF Injective
  <2>8. QED  BY <2>2, <2>6, <2>7, InjectiveCardinality
<1>7. N \in Nat /\ 1..N \subseteq 1..M /\ (\A n \in 1..N : n \in Int) /\ N = Lesser(j.top, Len(list))
  BY <1>5, <1>6, FirstOnes DEF Positive
<1>8. chunks = [n \in 1..N |-> Candidate(Held(list, order[n]).id, Held(list, order[n]).text,
                                         score[order[n]], stages(n))]
  <2>1. DOMAIN score = S
    OBVIOUS
  <2> HIDE DEF score, S
  <2>2. order = ByScore(DOMAIN score, score)
    BY <2>1
  <2> HIDE DEF order
  <2>3. QED  BY <2>2 DEF Reranked, Held, score, S
<1> HIDE DEF N, M, order, score, S
<1>9. chunks = [n \in 1..N |-> chunks[n]] /\ DOMAIN chunks = 1..N
  <2> DEFINE g == [n \in 1..N |-> Candidate(Held(list, order[n]).id, Held(list, order[n]).text,
                                         score[order[n]], stages(n))]
  <2>1. g = [n \in 1..N |-> g[n]] /\ DOMAIN g = 1..N
    OBVIOUS
  <2>2. chunks = g
    BY <1>8
  <2> HIDE DEF g, chunks
  <2>3. QED  BY <2>1, <2>2
<1>10. ASSUME NEW n \in 1..N
       PROVE  /\ order[n] \in S /\ chunks[n] \in Found /\ chunks[n].id = order[n]
              /\ chunks[n].text = Held(list, order[n]).text
              /\ chunks[n].stages["finalRank"] = n
              /\ chunks[n].stages["rerankScore"] = score[order[n]]
              /\ \A f \in Evidence \cup {"fusedRank"} :
                    chunks[n].stages[f] = Held(list, order[n]).stages[f]
  <2> DEFINE c == Held(list, order[n])
             x == score[order[n]]
  <2>1. order[n] \in S /\ n \in Int
    BY <1>5, <1>7 DEF Range
  <2>2. c \in Found /\ c.id = order[n] /\ x \in Int
    BY <1>1, <1>4, <2>1
  <2>3. c.id \in Ids /\ c.text \in Texts /\ c.stages \in [StageFields -> Int \cup {None}]
    BY <2>2 DEF Found
  <2>4. /\ stages(n) \in [StageFields -> Int \cup {None}] /\ stages(n)["finalRank"] = n
        /\ stages(n)["rerankScore"] = x
        /\ \A f \in Evidence \cup {"fusedRank"} : stages(n)[f] = c.stages[f]
    <3> DEFINE s == c.stages
    <3>1. stages(n) = [s EXCEPT !["rerankScore"] = x, !["finalRank"] = n]
      OBVIOUS
    <3> HIDE DEF s, x, stages
    <3>2. QED  BY <2>1, <2>2, <2>3, <3>1 DEF StageFields, Evidence, s
  <2>5. chunks[n] = Candidate(c.id, c.text, x, stages(n))
    <3> HIDE DEF stages, chunks
    <3>1. QED  BY <1>8
  <2> HIDE DEF stages, chunks, c, x
  <2>6. QED  BY <2>1, <2>2, <2>3, <2>4, <2>5 DEF Candidate, Found, c, x
<1> HIDE DEF stages, chunks, list
<1>11. Ranking(chunks) /\ Len(chunks) = N
  <2>1. \A n \in 1..N : chunks[n] \in Found /\ chunks[n].text \in TextsOf[chunks[n].id]
    BY <1>1, <1>10
  <2>2. \A m, n \in 1..N : chunks[m].id = chunks[n].id => m = n
    BY <1>5, <1>7, <1>10 DEF Injective
  <2>3. QED  BY <1>7, <1>9, <2>1, <2>2, RankingOf
<1>12. Traced(chunks, list)
  BY <1>9, <1>10 DEF Traced, S
<1>13. Scored(chunks, j.query)
  BY <1>3, <1>9, <1>10 DEF Scored
<1>14. QED  BY <1>7, <1>11, <1>12, <1>13 DEF chunks, list

----------------------------------------------------------------------------
\* Answers.

\* There is a first that no other betters.
LEMMA FirstBestType ==
    ASSUME NEW list \in Seq(Int), list # <<>>
    PROVE  FirstBest(list) \in DOMAIN list
<1> DEFINE N == Len(list)
           Best(i, n) == /\ \A j \in 1..n : list[j] <= list[i]
                         /\ \A j \in 1..(i - 1) : list[j] < list[i]
           T == {n \in 0..N : n = 0 \/ \E i \in 1..n : Best(i, n)}
<1>1. N \in Nat /\ N > 0 /\ DOMAIN list = 1..N /\ \A i \in 1..N : list[i] \in Int
  OBVIOUS
<1> HIDE DEF N
<1>2. 0 \in T
  BY <1>1
<1>3. ASSUME NEW n \in 1..N, n - 1 \in T PROVE n \in T
  <2>1. n \in Int /\ n \in 0..N /\ \A j \in 1..n : j \in 1..(n - 1) \/ j = n
    BY <1>1
  <2>2. CASE n = 1
    <3>1. Best(1, n)
      BY <1>1, <2>2
    <3>2. QED  BY <2>1, <2>2, <3>1
  <2>3. CASE n # 1
    <3>1. n - 1 # 0
      BY <2>1, <2>3
    <3>2. PICK i \in 1..(n - 1) : Best(i, n - 1)
      BY <1>3, <3>1
    <3>3. i \in 1..n /\ i \in 1..N /\ list[i] \in Int /\ list[n] \in Int
      BY <1>1, <3>2
    <3>4. CASE list[n] <= list[i]
      <4>1. Best(i, n)
        BY <2>1, <3>2, <3>3, <3>4
      <4> HIDE DEF Best
      <4>2. QED  BY <2>1, <3>3, <4>1
    <3>5. CASE list[n] > list[i]
      <4>1. \A j \in 1..(n - 1) : list[j] \in Int /\ list[j] < list[n]
        BY <1>1, <3>2, <3>3, <3>5
      <4>2. Best(n, n)
        BY <2>1, <3>3, <4>1
      <4>3. n \in 1..n
        BY <2>1
      <4> HIDE DEF Best
      <4>4. QED  BY <2>1, <4>2, <4>3
    <3>6. QED  BY <3>3, <3>4, <3>5
  <2>4. QED  BY <2>2, <2>3
<1>4. N \in T
  <2> HIDE DEF T
  <2>1. N \in 0..N
    BY <1>1
  <2>2. QED  BY <1>1, <1>2, <1>3, <2>1, UpTo
<1>5. \E i \in DOMAIN list : /\ \A j \in DOMAIN list : list[j] <= list[i]
                             /\ \A j \in 1..(i - 1) : list[j] < list[i]
  BY <1>1, <1>4
<1>6. QED  BY <1>5 DEF FirstBest

\* What a report that calls an answer grounded says of it.
LEMMA VerifySound ==
    ASSUME NEW answer \in Answers, ~answer.insufficient,
           NEW texts \in Seq(Texts), NEW ids, DOMAIN ids = DOMAIN texts,
           Verify(answer, ids, texts).grounded
    PROVE  \A n \in DOMAIN answer.sentences :
              LET s == answer.sentences[n]
              IN  /\ ToSet(s.marks) \subseteq DOMAIN ids
                  /\ s.says # Nothing =>
                        \E i \in DOMAIN texts : Likeness[s.says][texts[i]] >= GroundingThreshold
<1> DEFINE said == answer.sentences
           silent == {s \in ToSet(said) : s.says = Nothing}
           spoken == Filtered(said, silent)
           graded == [n \in DOMAIN spoken |-> Grade(spoken[n], ids, texts)]
           good == {g \in ToSet(graded) : g.grounded}
           flagged == Filtered(graded, good)
           unresolved == Unresolved(answer, ids)
<1>1. said \in Seq(Sentences)
  BY DEF Answers
<1>2. spoken # <<>> /\ texts # <<>> /\ flagged = <<>> /\ unresolved = {}
  <2> HIDE DEF spoken, graded, flagged, unresolved
  <2>1. Verify(answer, ids, texts) =
           IF spoken = <<>> \/ texts = <<>> THEN Report(<<>>, spoken, unresolved, FALSE)
           ELSE Report(graded, flagged, unresolved, flagged = <<>> /\ unresolved = {})
    BY DEF Verify, spoken, graded, flagged, unresolved
  <2> DEFINE sound == flagged = <<>> /\ unresolved = {}
  <2>2. CASE spoken = <<>> \/ texts = <<>>
    BY <2>1, <2>2 DEF Report
  <2>3. CASE ~(spoken = <<>> \/ texts = <<>>)
    <3>1. Verify(answer, ids, texts) = Report(graded, flagged, unresolved, sound)
      BY <2>1, <2>3
    <3> HIDE DEF sound
    <3>2. Verify(answer, ids, texts).grounded = sound
      BY <3>1 DEF Report
    <3>3. sound
      BY <3>2
    <3>4. QED  BY <2>3, <3>3 DEF sound
  <2>4. QED  BY <2>2, <2>3
<1>3. spoken \in Seq(Sentences) /\ Range(spoken) = Range(said) \ silent
  <2> HIDE DEF said, silent
  <2>1. QED  BY <1>1, FilteredProperties
<1>4. \A m \in DOMAIN spoken : graded[m].grounded
  <2> DEFINE N == Len(spoken)
             X == {graded[m] : m \in 1..N}
  <2>1. N \in Nat /\ DOMAIN spoken = 1..N
    BY <1>3
  <2> HIDE DEF spoken, N
  <2>2. graded \in [1..N -> X]
    BY <2>1
  <2>3. graded \in Seq(X) /\ DOMAIN graded = 1..N
    BY <2>1, <2>2, ListOf
  <2> HIDE DEF graded, X
  <2>4. \A m \in DOMAIN graded : graded[m] \in good
    <3> HIDE DEF good
    <3>1. QED  BY <1>2, <2>3, FilteredEmpty
  <2>5. QED  BY <2>1, <2>3, <2>4
<1>5. ASSUME NEW m \in DOMAIN spoken, spoken[m].says # Nothing
      PROVE  \E i \in DOMAIN texts : Likeness[spoken[m].says][texts[i]] >= GroundingThreshold
  <2> DEFINE likeness == [i \in DOMAIN texts |-> Likeness[spoken[m].says][texts[i]]]
  <2>1. spoken[m] \in Sentences
    BY <1>3
  <2>2. spoken[m].says \in DOMAIN Likeness
    BY <1>5, <2>1 DEF Sentences
  <2> DEFINE says == spoken[m].says
             N == Len(texts)
  <2>3. N \in Nat /\ DOMAIN texts = 1..N /\ \A i \in 1..N : texts[i] \in Texts
    OBVIOUS
  <2>13. N > 0
    BY <1>2
  <2>4. Grade(spoken[m], ids, texts).grounded
    BY <1>4, <1>5
  <2>5. Grade(spoken[m], ids, texts).grounded = (likeness[FirstBest(likeness)] >= GroundingThreshold)
    BY DEF Grade
  <2> HIDE DEF spoken, N
  <2>6. \A i \in 1..N : Likeness[says][texts[i]] \in Int
    <3> HIDE DEF says
    <3>1. QED  BY <2>2, <2>3, BackendAssumption DEF says
  <2>7. likeness \in [1..N -> Int] /\ DOMAIN likeness = 1..N
    <3> HIDE DEF says
    <3>1. QED  BY <2>3, <2>6 DEF says
  <2>8. likeness \in Seq(Int)
    <3> HIDE DEF likeness
    <3>1. QED  BY <2>3, <2>7, ListOf
  <2>9. likeness # <<>>
    <3>1. 1 \in DOMAIN likeness
      BY <2>3, <2>7, <2>13
    <3> HIDE DEF likeness
    <3>2. QED  BY <3>1
  <2>10. FirstBest(likeness) \in DOMAIN likeness
    <3> HIDE DEF likeness
    <3>1. QED  BY <2>8, <2>9, FirstBestType
  <2>11. FirstBest(likeness) \in DOMAIN texts
    BY <2>3, <2>7, <2>10
  <2>12. QED  BY <2>4, <2>5, <2>11
<1> HIDE DEF graded, flagged, good
<1>6. ASSUME NEW n \in DOMAIN said, said[n].says # Nothing
      PROVE  \E i \in DOMAIN texts : Likeness[said[n].says][texts[i]] >= GroundingThreshold
  <2>1. said[n] \in Range(said) \ silent
    BY <1>6 DEF Range
  <2>2. PICK m \in DOMAIN spoken : spoken[m] = said[n]
    <3> HIDE DEF spoken, said, silent
    <3>1. QED  BY <1>3, <2>1 DEF Range
  <2> HIDE DEF spoken
  <2>3. QED  BY <1>5, <1>6, <2>2
<1>7. \A n \in DOMAIN said : ToSet(said[n].marks) \subseteq DOMAIN ids
  <2>1. ASSUME NEW n \in DOMAIN said, NEW x \in ToSet(said[n].marks) PROVE x \in DOMAIN ids
    <3> DEFINE all == UNION {ToSet(answer.sentences[k].marks) : k \in DOMAIN answer.sentences}
    <3>1. x \in all
      OBVIOUS
    <3>2. unresolved = all \ DOMAIN ids
      BY DEF Unresolved
    <3> HIDE DEF all, unresolved
    <3>3. QED  BY <1>2, <3>1, <3>2
  <2>2. QED  BY <2>1
<1>8. QED  BY <1>6, <1>7

\* The sentences that may be extracted are finitely many sentences of the sources.
LEMMA CandidatesType ==
    ASSUME NEW texts \in Seq(Texts)
    PROVE  /\ IsFiniteSet(Candidates(texts))
           /\ \A c \in Candidates(texts) :
                 /\ c = <<c[1], c[2]>> /\ c[1] \in Nat /\ c[2] \in Nat
                 /\ SentencesOf[texts[c[1]]][c[2]] \in Sentences
<1> DEFINE N == Len(texts)
           long(i) == {q \in DOMAIN SentencesOf[texts[i]] : SentencesOf[texts[i]][q].says \notin TooShort}
           of(i) == {<<i, p>> : p \in long(i)}
           all == {of(i) : i \in 1..N}
<1>1. N \in Nat /\ DOMAIN texts = 1..N /\ \A i \in 1..N : SentencesOf[texts[i]] \in Seq(Sentences)
  BY AnsweringAssumption, BackendAssumption
<1>2. \A i \in 1..N : \A p \in long(i) :
         /\ i \in Nat /\ p \in Nat /\ SentencesOf[texts[i]][p] \in Sentences
         /\ p \in 1..Len(SentencesOf[texts[i]])
  <2> TAKE i \in 1..N
  <2> DEFINE s == SentencesOf[texts[i]]
  <2>1. s \in Seq(Sentences) /\ i \in Nat
    BY <1>1
  <2> HIDE DEF s
  <2>2. \A p \in DOMAIN s : p \in Nat /\ s[p] \in Sentences /\ p \in 1..Len(s)
    BY <2>1
  <2>3. QED  BY <2>1, <2>2 DEF s
<1> HIDE DEF N
<1>3. Candidates(texts) = UNION all
  BY <1>1 DEF Candidates
<1>4. ASSUME NEW i \in 1..N PROVE IsFiniteSet(of(i))
  <2> DEFINE M == Len(SentencesOf[texts[i]])
  <2>1. M \in Nat
    BY <1>1
  <2> HIDE DEF M
  <2>2. IsFiniteSet(1..M) /\ IsFiniteSet({i})
    <3>1. 1 \in Int /\ M \in Int
      BY <2>1
    <3>2. IsFiniteSet(1..M)
      BY <3>1, FS_Interval
    <3>3. IsFiniteSet({i})
      BY FS_Singleton
    <3>4. QED  BY <3>2, <3>3
  <2>3. IsFiniteSet({i} \X (1..M))
    BY <2>2, FS_Product
  <2>4. of(i) \in SUBSET ({i} \X (1..M))
    <3>1. \A p \in long(i) : p \in 1..M
      BY <1>2 DEF M
    <3> HIDE DEF long
    <3>2. QED  BY <3>1
  <2> HIDE DEF of
  <2>5. QED  BY <2>3, <2>4, FS_Subset
<1>5. IsFiniteSet(all) /\ \A T \in all : IsFiniteSet(T)
  <2> DEFINE f == [i \in 1..N |-> of(i)]
  <2>1. f \in Surjection(1..N, all)
    <3> HIDE DEF of
    <3>1. QED  BY DEF Surjection
  <2>2. IsFiniteSet(1..N)
    BY <1>1, FS_Interval
  <2> HIDE DEF f, of
  <2>3. \A T \in all : IsFiniteSet(T)
    BY <1>4
  <2> HIDE DEF all
  <2>4. QED  BY <2>1, <2>2, <2>3, FS_Surjection
<1>6. IsFiniteSet(Candidates(texts))
  <2> HIDE DEF all
  <2>1. QED  BY <1>3, <1>5, FS_UNION
<1>7. ASSUME NEW c \in Candidates(texts)
      PROVE  /\ c = <<c[1], c[2]>> /\ c[1] \in Nat /\ c[2] \in Nat
             /\ SentencesOf[texts[c[1]]][c[2]] \in Sentences
  <2>1. PICK i \in 1..N : c \in of(i)
    BY <1>3
  <2>2. PICK p \in long(i) : c = <<i, p>>
    BY <2>1
  <2>3. c[1] = i /\ c[2] = p
    BY <2>2
  <2>4. i \in Nat /\ p \in Nat /\ SentencesOf[texts[i]][p] \in Sentences
    <3> HIDE DEF long
    <3>1. QED  BY <1>2
  <2> HIDE DEF long, of
  <2>5. QED  BY <2>2, <2>3, <2>4
<1>8. QED  BY <1>6, <1>7

\* An extracted answer is one.
LEMMA ExtractType ==
    ASSUME NEW texts \in Seq(Texts), NEW query
    PROVE  Extract(query, texts) \in Answers
<1> DEFINE said(c) == SentencesOf[texts[c[1]]][c[2]]
           nearer(a, b) == LET la == Likeness[query][said(a).says]
                               lb == Likeness[query][said(b).says]
                           IN  la > lb \/ (la = lb /\ Earlier(a, b))
           S == Foremost(Candidates(texts), ExtractiveSentences, nearer)
           R == {p \in S \X S : Earlier(p[1], p[2])}
           chosen == InOrder(S, Earlier)
           sentences == [n \in DOMAIN chosen |->
                            Sentence(said(chosen[n]).says, Append(said(chosen[n]).marks, chosen[n][1]))]
<1>1. S \in SUBSET Candidates(texts)
  BY DEF Foremost
<1>2. Extract(query, texts) = IF chosen = <<>> THEN Insufficient
                              ELSE [sentences |-> sentences, insufficient |-> FALSE]
  BY DEF Extract
<1> HIDE DEF S
<1>3. IsFiniteSet(S) /\ \A c \in S : /\ c = <<c[1], c[2]>> /\ c[1] \in Nat /\ c[2] \in Nat
                                     /\ said(c) \in Sentences
  BY <1>1, CandidatesType, FS_Subset
<1>4. \A a, b \in S : <<a, b>> \in R <=> Earlier(a, b)
  OBVIOUS
<1> HIDE DEF R, said
<1>5. StrictOrder(S, R)
  <2>1. \A a \in S : <<a, a>> \notin R
    BY <1>3, <1>4 DEF Earlier
  <2>2. \A a, b \in S : a # b => <<a, b>> \in R \/ <<b, a>> \in R
    <3>1. SUFFICES ASSUME NEW a \in S, NEW b \in S, ~Earlier(a, b), ~Earlier(b, a) PROVE a = b
      BY <1>4
    <3>2. a[1] = b[1] /\ a[2] = b[2]
      BY <1>3, <3>1 DEF Earlier
    <3>3. a = <<a[1], a[2]>> /\ b = <<b[1], b[2]>>
      BY <1>3
    <3>4. QED  BY <3>2, <3>3
  <2>3. ASSUME NEW a \in S, NEW b \in S, NEW c \in S, <<a, b>> \in R, <<b, c>> \in R
        PROVE  <<a, c>> \in R
    <3>1. Earlier(a, b) /\ Earlier(b, c)
      BY <1>4, <2>3
    <3>2. a[1] \in Nat /\ a[2] \in Nat /\ b[1] \in Nat /\ b[2] \in Nat /\ c[1] \in Nat /\ c[2] \in Nat
      BY <1>3
    <3>3. Earlier(a, c)
      BY <3>1, <3>2 DEF Earlier
    <3>4. QED  BY <1>4, <3>3
  <2>4. QED  BY <2>1, <2>2, <2>3 DEF StrictOrder
<1>6. IsListing(chosen, S, R)
  <2>1. \A a \in S : {b \in S : Earlier(b, a)} = Below(S, R, a)
    BY <1>4 DEF Below
  <2> DEFINE at(n) == CHOOSE a \in S : Cardinality({b \in S : Earlier(b, a)}) = n - 1
             place(n) == CHOOSE a \in S : Cardinality(Below(S, R, a)) = n - 1
  <2>2. chosen = [n \in 1..Cardinality(S) |-> at(n)]
    BY DEF InOrder
  <2>3. \A n \in 1..Cardinality(S) : at(n) = place(n)
    BY <2>1
  <2> HIDE DEF at, place, chosen
  <2>4. chosen = [n \in 1..Cardinality(S) |-> place(n)]
    BY <2>2, <2>3
  <2>5. QED  BY <2>4 DEF IsListing, place
<1> HIDE DEF chosen
<1>7. chosen \in Seq(S) /\ Len(chosen) \in Nat /\ DOMAIN chosen = 1..Len(chosen)
  BY <1>3, <1>5, <1>6, Listing
<1>8. sentences \in Seq(Sentences)
  <2> DEFINE N == Len(chosen)
  <2>1. \A n \in 1..N : sentences[n] \in Sentences
    <3> TAKE n \in 1..N
    <3> DEFINE c == chosen[n]
    <3>1. c \in S
      BY <1>7
    <3> HIDE DEF c
    <3>2. c[1] \in Nat /\ said(c) \in Sentences
      BY <1>3, <3>1
    <3> DEFINE s == said(c)
    <3> HIDE DEF s
    <3>3. s.says \in DOMAIN Likeness \cup {Nothing} /\ s.marks \in Seq(Nat)
      BY <3>2 DEF Sentences, s
    <3>4. Append(s.marks, c[1]) \in Seq(Nat)
      BY <3>2, <3>3
    <3>5. Sentence(s.says, Append(s.marks, c[1])) \in Sentences
      BY <3>3, <3>4 DEF Sentence, Sentences
    <3>6. QED  BY <1>7, <3>5 DEF c, s
  <2>2. N \in Nat /\ DOMAIN sentences = 1..N
    BY <1>7
  <2>3. sentences = [n \in 1..N |-> sentences[n]]
    BY <1>7
  <2> HIDE DEF N, sentences
  <2>4. sentences \in [1..N -> Sentences]
    BY <2>1, <2>3
  <2>5. QED  BY <2>2, <2>4, ListOf
<1> HIDE DEF sentences
<1>9. Insufficient \in Answers
  BY DEF Insufficient, Answers
<1>10. [sentences |-> sentences, insufficient |-> FALSE] \in Answers
  BY <1>8 DEF Answers
<1>11. QED  BY <1>2, <1>9, <1>10

\* What is not refused has a source that the cross-encoder finds relevant.
LEMMA RefusedSound ==
    ASSUME NEW scores, NEW N \in Nat, scores \in [1..N -> Int], ~Refused(scores)
    PROVE  \E n \in DOMAIN scores : scores[n] >= MinConfidence
<1> DEFINE calibrated == {n \in DOMAIN scores : scores[n] # NoScore}
           usable == {n \in calibrated : scores[n] >= MinConfidence}
<1>1. scores # <<>> /\ ~(calibrated # {} /\ usable = {})
  BY DEF Refused
<1>2. N # 0
  <2>1. SUFFICES ASSUME N = 0 PROVE FALSE
    OBVIOUS
  <2>2. DOMAIN scores = {}
    BY <2>1
  <2>3. scores = <<>>
    <3>1. scores \in Seq(Int) /\ Len(scores) = N
      BY ListOf
    <3>2. QED  BY <2>1, <3>1
  <2>4. QED  BY <1>1, <2>3
<1>3. 1 \in DOMAIN scores /\ scores[1] \in Int
  BY <1>2
<1>4. 1 \in calibrated
  BY <1>3, AnsweringAssumption
<1>5. usable # {}
  <2> HIDE DEF calibrated, usable
  <2>1. QED  BY <1>1, <1>4
<1>6. QED  BY <1>5

----------------------------------------------------------------------------
\* The invariant.

\* What a request has been called with.
Asked(q) ==
    q.at # "idle" => /\ q.config \in Configs /\ q.query \in Queries
                     /\ q.config.rerank => q.config.candidates >= q.config.topK

\* Its searches, and what those that have returned have found.
Searched(q) ==
    /\ q.searches \in Seq(SearchesFor) /\ Len(q.lists) = Len(q.searches)
    /\ DOMAIN q.lists = 1..Len(q.lists)
    /\ \A i \in DOMAIN q.lists : q.lists[i] = Waiting \/ (Ranking(q.lists[i]) /\ Descending(q.lists[i]))
    /\ q.at # "idle" => Len(q.searches) <= 2 * (1 + q.config.paraphrases)

\* What it has fused.
FusedFrom(q) == /\ q.fused = <<>> \/ Fused(q.lists, q.fused)
                /\ Retrieved(q) \/ q.at = "reranking" => Fused(q.lists, q.fused)
                /\ q.at \in {"expanding", "searching"} => q.fused = <<>> /\ q.chunks = <<>>

\* The chunks it has taken of them.
Taken(q) == /\ Ranking(q.chunks) /\ Len(q.chunks) = Lesser(q.config.topK, Len(q.fused))
            /\ Traced(q.chunks, q.fused)
            /\ q.config.rerank => Scored(q.chunks, q.query)

\* Its call of the reranker.
Calling(q, j) ==
    /\ (q.at = "reranking") = (j.at # "none")
    /\ q.at = "reranking" =>
          /\ q.config.rerank /\ j.query = q.query /\ j.top = q.config.topK
          /\ j.shortlist = SubSeq(q.fused, 1, Lesser(q.config.candidates, Len(q.fused)))

\* What it answers, if it is not refused.
Composed(q) ==
    /\ q.at \in {"generating", "extracting"} => ~Refused(RerankScores(q.chunks))
    /\ q.at = "answered" =>
          LET kind == q.response.kind
              answer == q.response.answer
          IN  /\ q.response = Response(kind, answer, q)
              /\ answer \in Answers /\ (kind = "refused" => answer = Blank)
              /\ kind # "refused" => ~Refused(RerankScores(q.chunks))

Consistent(q, j) ==
    /\ q.at \in Stages /\ (q.at = "idle" => q = NoRequest)
    /\ Asked(q) /\ Searched(q) /\ FusedFrom(q)
    /\ q.chunks = <<>> \/ Taken(q)
    /\ Retrieved(q) => Taken(q)
    /\ Calling(q, j) /\ Composed(q)

QInv == /\ [settings |-> settings, clients |-> clients] \in Workloads
        /\ store = [id \in Ids |-> store[id]]
        /\ \A id \in Ids : store[id] \in TextsOf[id] \cup {Absent}
        /\ request = [r \in Requests |-> request[r]]
        /\ \A r \in Requests : Consistent(request[r], job[r])

\* A request after an action that changes these of its locals.
After(q, changes) == [f \in DOMAIN NoRequest |-> IF f \in DOMAIN changes THEN changes[f] ELSE q[f]]

\* Only one request moves.
LEMMA Moves ==
    ASSUME QInv, NEW r \in Requests, NEW changes, Become(r, changes), NEW k, k = After(request[r], changes),
           \A s \in Requests \ {r} : job'[s] = job[s], Consistent(k, job'[r]),
           UNCHANGED <<settings, clients, store>>
    PROVE  QInv'
<1>1. request' = [request EXCEPT ![r] = k]
  BY DEF Become, After
<1>2. request' = [s \in Requests |-> request'[s]]
  <2>1. request = [s \in Requests |-> request[s]]
    BY DEF QInv
  <2>2. request' = [s \in Requests |-> IF s = r THEN k ELSE request[s]]
    BY <1>1, <2>1
  <2>3. QED  BY <2>2
<1>3. request'[r] = k /\ \A s \in Requests \ {r} : request'[s] = request[s]
  <2>1. request = [s \in Requests |-> request[s]]
    BY DEF QInv
  <2>2. QED  BY <1>1, <2>1
<1>4. \A s \in Requests : Consistent(request'[s], job'[s])
  BY <1>3 DEF QInv
<1>5. QED  BY <1>2, <1>4 DEF QInv

Same(k, q) == /\ k.config = q.config /\ k.query = q.query /\ k.searches = q.searches
              /\ k.lists = q.lists /\ k.fused = q.fused /\ k.chunks = q.chunks

\* A request that has begun goes on with what it has.
LEMMA GoesOn ==
    ASSUME NEW q, NEW j, Consistent(q, j), q.at # "idle", NEW k, Same(k, q),
           k.at \in Stages \ {"idle", "expanding", "searching", "reranking"},
           Retrieved(k) => Retrieved(q), Composed(k), NEW l, l.at = "none"
    PROVE  Consistent(k, l)
<1>1. Asked(k) /\ Searched(k)
  BY DEF Consistent, Asked, Searched, Same
<1>2. FusedFrom(k)
  BY DEF Consistent, FusedFrom, Same
<1>3. (k.chunks = <<>> \/ Taken(k)) /\ (Retrieved(k) => Taken(k))
  <2>1. Taken(q) => Taken(k)
    BY DEF Taken, Same
  <2>2. q.chunks = k.chunks
    BY DEF Same
  <2>3. (q.chunks = <<>> \/ Taken(q)) /\ (Retrieved(q) => Taken(q))
    BY DEF Consistent
  <2>4. QED  BY <2>1, <2>2, <2>3
<1>4. Calling(k, l)
  BY DEF Calling
<1>5. QED  BY <1>1, <1>2, <1>3, <1>4 DEF Consistent

\* A request that waits for its first results.
LEMMA BeginsToSearch ==
    ASSUME NEW k, Asked(k), k.at \in {"expanding", "searching"},
           NEW searches \in Seq(SearchesFor), Len(searches) <= 2 * (1 + k.config.paraphrases),
           k.searches = searches, k.lists = AllWaiting(searches), k.fused = <<>>, k.chunks = <<>>,
           NEW j, j.at = "none"
    PROVE  Consistent(k, j)
<1>2. Searched(k)
  <2>1. /\ Len(searches) \in Nat /\ DOMAIN searches = 1..Len(searches)
        /\ k.lists = [i \in 1..Len(searches) |-> Waiting]
    BY DEF AllWaiting
  <2> DEFINE N == Len(searches)
             waiting == [i \in 1..N |-> Waiting]
  <2>2. N \in Nat /\ waiting \in [1..N -> {Waiting}]
    BY <2>1
  <2>3. \A i \in 1..N : waiting[i] = Waiting
    OBVIOUS
  <2> HIDE DEF N, waiting
  <2>4. Len(waiting) = N /\ DOMAIN waiting = 1..N
    BY <2>2, ListOf
  <2>5. k.lists = waiting /\ Len(searches) = N
    BY <2>1 DEF waiting, N
  <2>6. QED  BY <2>3, <2>4, <2>5 DEF Searched
<1>3. FusedFrom(k)
  BY DEF FusedFrom, Retrieved
<1>4. Calling(k, j) /\ Composed(k) /\ ~Retrieved(k) /\ k.at \in Stages /\ k.at # "idle"
  BY DEF Calling, Composed, Retrieved, Stages
<1>5. QED  BY <1>2, <1>3, <1>4 DEF Consistent

\* As many searches as there are texts, twice, and passages.
LEMMA SearchesType ==
    ASSUME NEW config \in Configs, NEW texts \in Seq(DOMAIN Likeness), NEW passages \in Seq(DOMAIN Likeness)
    PROVE  /\ Searches(config, texts, passages) \in Seq(SearchesFor)
           /\ Len(Searches(config, texts, passages)) <= 2 * Len(texts) + Len(passages)
<1> DEFINE N == Len(texts)
           M == Len(passages)
           d == [i \in DOMAIN texts |-> Search("dense", texts[i])]
           p == [i \in DOMAIN passages |-> Search("dense", passages[i])]
           l == [i \in DOMAIN texts |-> Search("lexical", texts[i])]
           dense == IF config.dense THEN d \o p ELSE <<>>
           lexical == IF config.lexical THEN l ELSE <<>>
<1>1. N \in Nat /\ M \in Nat /\ DOMAIN texts = 1..N /\ DOMAIN passages = 1..M
  OBVIOUS
<1>2. /\ \A i \in 1..N : Search("dense", texts[i]) \in SearchesFor /\ Search("lexical", texts[i]) \in SearchesFor
      /\ \A i \in 1..M : Search("dense", passages[i]) \in SearchesFor
  BY DEF Search, SearchesFor
<1> HIDE DEF N, M
<1>3. d \in [1..N -> SearchesFor] /\ p \in [1..M -> SearchesFor] /\ l \in [1..N -> SearchesFor]
  BY <1>1, <1>2
<1> HIDE DEF d, p, l
<1>4. /\ d \in Seq(SearchesFor) /\ Len(d) = N /\ p \in Seq(SearchesFor) /\ Len(p) = M
      /\ l \in Seq(SearchesFor) /\ Len(l) = N
  BY <1>1, <1>3, ListOf
<1>5. dense \in Seq(SearchesFor) /\ Len(dense) <= N + M
  BY <1>1, <1>4
<1>6. lexical \in Seq(SearchesFor) /\ Len(lexical) <= N
  BY <1>1, <1>4
<1>7. Searches(config, texts, passages) = dense \o lexical
  BY DEF Searches, d, p, l
<1> HIDE DEF dense, lexical
<1>8. dense \o lexical \in Seq(SearchesFor) /\ Len(dense \o lexical) = Len(dense) + Len(lexical)
  BY <1>5, <1>6
<1>9. Len(dense) \in Nat /\ Len(lexical) \in Nat
  BY <1>5, <1>6
<1>10. QED  BY <1>1, <1>5, <1>6, <1>7, <1>8, <1>9 DEF N, M

\* The paraphrases that are kept.
LEMMA ParaphrasesType ==
    ASSUME NEW lines \in Phrasings, NEW query, NEW count \in Positive
    PROVE  /\ Paraphrases(lines, query, count) \in Seq(DOMAIN Likeness)
           /\ Len(Paraphrases(lines, query, count)) <= count
<1> DEFINE X == DOMAIN Likeness \cup {EmptyLine}
           kept == Filtered(lines, {EmptyLine, query})
           N == Lesser(count, Len(kept))
<1>1. lines \in Seq(X)
  BY BackendAssumption
<1>2. kept \in Seq(X) /\ Range(kept) = Range(lines) \ {EmptyLine, query}
  <2> HIDE DEF X
  <2>1. QED  BY <1>1, FilteredProperties
<1> HIDE DEF kept
<1>3. \A i \in 1..Len(kept) : kept[i] \in DOMAIN Likeness
  <2>1. ASSUME NEW i \in 1..Len(kept) PROVE kept[i] \in DOMAIN Likeness
    <3>1. kept[i] \in X /\ kept[i] \in Range(kept)
      BY <1>2 DEF Range
    <3>2. kept[i] # EmptyLine
      BY <1>2, <3>1
    <3>3. QED  BY <3>1, <3>2
  <2>2. QED  BY <2>1
<1>4. Len(kept) \in Nat /\ N \in Nat /\ 1..N \subseteq 1..Len(kept) /\ N <= Len(kept) /\ N <= count
  <2>1. Len(kept) \in Nat /\ count \in Nat
    BY <1>2 DEF Positive
  <2>2. QED  BY <2>1, FirstOnes
<1> HIDE DEF N
<1>5. SubSeq(kept, 1, N) = [i \in 1..N |-> kept[i]]
  <2>1. kept \in Seq(X)
    BY <1>2
  <2> HIDE DEF X
  <2>2. QED  BY <1>4, <2>1
<1>6. [i \in 1..N |-> kept[i]] \in [1..N -> DOMAIN Likeness]
  BY <1>3, <1>4
<1>7. SubSeq(kept, 1, N) \in Seq(DOMAIN Likeness) /\ Len(SubSeq(kept, 1, N)) = N
  BY <1>4, <1>5, <1>6, ListOf
<1>8. QED  BY <1>4, <1>7 DEF Paraphrases, kept, N

\* The request's own configuration.
LEMMA ResolveType ==
    ASSUME QInv, NEW mode \in Modes \cup {None}, NEW topK \in Positive \cup {None}
    PROVE  LET config == ResolveConfig(mode, topK)
           IN  config \in Configs /\ (config.rerank => config.candidates >= config.topK)
<1> DEFINE config == ResolveConfig(mode, topK)
           m == IF mode = None THEN settings.expansion ELSE mode
           t == IF topK = None THEN settings.topK ELSE topK
           c == IF topK = None THEN settings.candidates ELSE Widened(settings, topK)
<1>1. settings \in Configs /\ (settings.rerank => settings.candidates >= settings.topK)
  <2>1. PICK w \in Workloads : w = [settings |-> settings, clients |-> clients]
    BY DEF QInv
  <2>2. w.settings = settings
    BY <2>1
  <2>3. w \in [settings : Configs, clients : [Requests -> SUBSET Bodies]]
    BY SettingsAssumption
  <2>4. QED  BY <2>2, <2>3, SettingsAssumption
<1>2. /\ settings.topK \in Nat /\ settings.topK > 0 /\ settings.candidates \in Nat
      /\ settings.candidates > 0
  BY <1>1 DEF Configs, Positive
<1>3. topK # None => topK \in Nat /\ topK > 0
  BY DEF Positive
<1>4. m \in Modes
  BY <1>1 DEF Configs
<1>5. t \in Nat /\ t > 0 /\ c \in Nat /\ c > 0 /\ (settings.rerank => c >= t)
  BY <1>1, <1>2, <1>3 DEF Widened
<1>6. config = [settings EXCEPT !.expansion = m, !.topK = t, !.candidates = c]
  BY DEF ResolveConfig
<1> HIDE DEF m, t, c, config
<1>7. config \in Configs
  <2>1. m \in Modes /\ t \in Positive /\ c \in Positive
    BY <1>4, <1>5 DEF Positive
  <2>2. QED  BY <1>1, <1>6, <2>1 DEF Configs
<1>8. config.rerank = settings.rerank /\ config.candidates = c /\ config.topK = t
  BY <1>1, <1>6 DEF Configs
<1>9. QED  BY <1>5, <1>7, <1>8 DEF config

LEMMA ReceiveKept ==
    ASSUME QInv, NEW r \in Requests, NEW body \in clients[r], Receive(r, body)
    PROVE  QInv'
<1> DEFINE q == request[r]
           config == ResolveConfig(body.mode, body.topK)
           expands == config.expansion # "none" /\ config.generates
           searches == IF expands THEN <<>> ELSE Searches(config, <<body.query>>, <<>>)
           changes == [at |-> IF expands THEN "expanding" ELSE "searching", config |-> config,
                       query |-> body.query, searches |-> searches, lists |-> AllWaiting(searches)]
           k == After(q, changes)
<1>1. /\ q.at = "idle" /\ Become(r, changes) /\ UNCHANGED <<settings, clients, store>>
      /\ job' = job
  BY DEF Receive, rerankVars
<1>2. body.query \in Queries /\ body.mode \in Modes \cup {None} /\ body.topK \in Positive \cup {None}
  <2>1. PICK w \in Workloads : w = [settings |-> settings, clients |-> clients]
    BY DEF QInv
  <2>2. w \in [settings : Configs, clients : [Requests -> SUBSET Bodies]]
    BY SettingsAssumption
  <2>3. clients \in [Requests -> SUBSET Bodies]
    BY <2>1, <2>2
  <2>4. body \in Bodies
    BY <2>3
  <2>5. QED  BY <2>4 DEF Bodies
<1>3. config \in Configs /\ (config.rerank => config.candidates >= config.topK)
  BY <1>2, ResolveType
<1>4. q = NoRequest /\ job[r].at = "none"
  BY <1>1 DEF QInv, Consistent, Calling
<1> HIDE DEF config
<1>5. searches \in Seq(SearchesFor) /\ Len(searches) <= 2 * (1 + config.paraphrases)
  <2>1. config.paraphrases \in Nat
    BY <1>3 DEF Configs, Positive
  <2>2. CASE expands
    BY <2>1, <2>2
  <2>3. CASE ~expands
    <3>1. <<body.query>> \in Seq(DOMAIN Likeness) /\ <<>> \in Seq(DOMAIN Likeness)
          /\ Len(<<body.query>>) = 1 /\ Len(<<>>) = 0
      BY <1>2, BackendAssumption
    <3>2. searches = Searches(config, <<body.query>>, <<>>)
      BY <2>3
    <3> HIDE DEF searches
    <3>3. searches \in Seq(SearchesFor) /\ Len(searches) <= 2 * 1 + 0
      BY <1>3, <3>1, <3>2, SearchesType
    <3>4. Len(searches) \in Nat
      BY <3>3
    <3>5. QED  BY <2>1, <3>3, <3>4
  <2>4. QED  BY <2>2, <2>3
<1>6. /\ k.at \in {"expanding", "searching"} /\ k.config = config /\ k.query = body.query
      /\ k.searches = searches /\ k.lists = AllWaiting(searches) /\ k.fused = <<>> /\ k.chunks = <<>>
  <2> HIDE DEF searches, expands
  <2>1. QED  BY <1>4 DEF After, NoRequest
<1> HIDE DEF searches, k
<1>7. Asked(k)
  BY <1>2, <1>3, <1>6 DEF Asked
<1>8. Consistent(k, job'[r])
  BY <1>1, <1>4, <1>5, <1>6, <1>7, BeginsToSearch
<1> HIDE DEF changes
<1>9. k = After(q, changes)
  BY DEF k
<1>10. QED  BY <1>1, <1>8, <1>9, Moves

\* An expansion begins the search, whatever it is blamed for.
LEMMA ExpandedKept ==
    ASSUME QInv, NEW r \in Requests, request[r].at = "expanding",
           NEW texts \in Seq(DOMAIN Likeness), NEW passages \in Seq(DOMAIN Likeness),
           2 * Len(texts) + Len(passages) <= 2 * (1 + request[r].config.paraphrases),
           NEW changes, Become(r, changes), DOMAIN changes \subseteq {"at", "blame", "searches", "lists"},
           {"at", "searches", "lists"} \subseteq DOMAIN changes, changes["at"] = "searching",
           changes["searches"] = Searches(request[r].config, texts, passages),
           changes["lists"] = AllWaiting(changes["searches"]),
           UNCHANGED <<settings, clients, store, rerankVars>>
    PROVE  QInv'
<1> DEFINE q == request[r]
           searches == Searches(q.config, texts, passages)
           k == After(q, changes)
<1>1. Consistent(q, job[r]) /\ job' = job
  BY DEF QInv, rerankVars
<1>2. /\ q.config \in Configs /\ q.fused = <<>> /\ q.chunks = <<>> /\ job[r].at = "none" /\ Asked(q)
  BY <1>1 DEF Consistent, Asked, FusedFrom, Calling
<1>3. searches \in Seq(SearchesFor) /\ Len(searches) <= 2 * Len(texts) + Len(passages)
  BY <1>2, SearchesType
<1>4. Len(searches) <= 2 * (1 + q.config.paraphrases)
  <2>1. Len(searches) \in Nat /\ Len(texts) \in Nat /\ Len(passages) \in Nat /\ q.config.paraphrases \in Nat
    BY <1>2, <1>3 DEF Configs, Positive
  <2> HIDE DEF searches
  <2>2. QED  BY <1>3, <2>1
<1>5. /\ k.at = "searching" /\ k.config = q.config /\ k.query = q.query
      /\ k.searches = searches /\ k.lists = AllWaiting(searches) /\ k.fused = <<>> /\ k.chunks = <<>>
  <2> HIDE DEF searches
  <2>1. /\ {"config", "query", "fused", "chunks"} \cap DOMAIN changes = {}
        /\ changes["at"] = "searching" /\ changes["searches"] = searches
        /\ changes["lists"] = AllWaiting(searches)
    BY DEF searches
  <2>2. QED  BY <1>2, <2>1 DEF After, NoRequest
<1> HIDE DEF searches, k
<1>6. Asked(k)
  BY <1>2, <1>5 DEF Asked
<1>7. Consistent(k, job'[r])
  BY <1>1, <1>2, <1>3, <1>4, <1>5, <1>6, BeginsToSearch
<1>8. k = After(q, changes)
  BY DEF k
<1>9. QED  BY <1>1, <1>7, <1>8, Moves

\* The query is one text.
LEMMA OneText ==
    ASSUME QInv, NEW r \in Requests, request[r].at = "expanding"
    PROVE  /\ request[r].query \in DOMAIN Likeness
           /\ <<request[r].query>> \in Seq(DOMAIN Likeness) /\ Len(<<request[r].query>>) = 1
           /\ <<>> \in Seq(DOMAIN Likeness) /\ Len(<<>>) = 0
           /\ request[r].config.paraphrases \in Positive
<1>1. Asked(request[r])
  BY DEF QInv, Consistent
<1>2. request[r].query \in DOMAIN Likeness /\ request[r].config \in Configs
  BY <1>1, BackendAssumption DEF Asked
<1>3. request[r].config.paraphrases \in Positive
  BY <1>2 DEF Configs
<1>4. QED  BY <1>2, <1>3

LEMMA MultiQueryKept ==
    ASSUME QInv, NEW r \in Requests, NEW lines \in Phrasings, MultiQuery(r, lines)
    PROVE  QInv'
<1> DEFINE q == request[r]
           more == Paraphrases(lines, q.query, q.config.paraphrases)
           texts == <<q.query>> \o more
           changes == SearchWith(q.config, texts, <<>>)
<1>1. q.at = "expanding" /\ Become(r, changes) /\ UNCHANGED <<settings, clients, store, rerankVars>>
  BY DEF MultiQuery
<1>2. q.config.paraphrases \in Positive /\ q.query \in DOMAIN Likeness
  BY <1>1, OneText
<1>3. more \in Seq(DOMAIN Likeness) /\ Len(more) <= q.config.paraphrases
  BY <1>2, ParaphrasesType
<1> HIDE DEF more
<1>4. texts \in Seq(DOMAIN Likeness) /\ Len(texts) = 1 + Len(more)
  BY <1>2, <1>3
<1>5. 2 * Len(texts) + Len(<<>>) <= 2 * (1 + q.config.paraphrases)
  <2>1. Len(more) \in Nat /\ q.config.paraphrases \in Nat /\ Len(<<>>) = 0
    BY <1>2, <1>3 DEF Positive
  <2>2. 2 * (1 + Len(more)) + 0 <= 2 * (1 + q.config.paraphrases)
    BY <1>3, <2>1
  <2>3. QED  BY <1>4, <2>1, <2>2
<1> HIDE DEF texts
<1>6. /\ DOMAIN changes \subseteq {"at", "blame", "searches", "lists"}
      /\ {"at", "searches", "lists"} \subseteq DOMAIN changes /\ changes["at"] = "searching"
      /\ changes["searches"] = Searches(q.config, texts, <<>>)
      /\ changes["lists"] = AllWaiting(changes["searches"])
  BY DEF SearchWith
<1> HIDE DEF changes
<1>7. <<>> \in Seq(DOMAIN Likeness)
  OBVIOUS
<1>8. QED  BY <1>1, <1>4, <1>5, <1>6, <1>7, ExpandedKept

LEMMA HyDEKept ==
    ASSUME QInv, NEW r \in Requests, NEW passage \in Passages, HyDE(r, passage)
    PROVE  QInv'
<1> DEFINE q == request[r]
           passages == IF passage = EmptyLine THEN <<>> ELSE <<passage>>
           changes == SearchWith(q.config, <<q.query>>, passages)
<1>1. q.at = "expanding" /\ Become(r, changes) /\ UNCHANGED <<settings, clients, store, rerankVars>>
  BY DEF HyDE
<1>2. /\ q.config.paraphrases \in Positive /\ <<q.query>> \in Seq(DOMAIN Likeness)
      /\ Len(<<q.query>>) = 1
  BY <1>1, OneText
<1>3. passages \in Seq(DOMAIN Likeness) /\ Len(passages) <= 1
  <2>1. CASE passage = EmptyLine
    BY <2>1
  <2>2. CASE passage # EmptyLine
    <3>1. passage \in DOMAIN Likeness
      BY <2>2, BackendAssumption
    <3>2. QED  BY <2>2, <3>1
  <2>3. QED  BY <2>1, <2>2
<1> HIDE DEF passages
<1>4. 2 * Len(<<q.query>>) + Len(passages) <= 2 * (1 + q.config.paraphrases)
  <2>1. Len(passages) \in Nat /\ q.config.paraphrases \in Nat /\ q.config.paraphrases >= 1
    BY <1>2, <1>3 DEF Positive
  <2>2. 2 * 1 + Len(passages) <= 2 * (1 + q.config.paraphrases)
    BY <1>3, <2>1
  <2>3. QED  BY <1>2, <2>2
<1>5. /\ DOMAIN changes \subseteq {"at", "blame", "searches", "lists"}
      /\ {"at", "searches", "lists"} \subseteq DOMAIN changes /\ changes["at"] = "searching"
      /\ changes["searches"] = Searches(q.config, <<q.query>>, passages)
      /\ changes["lists"] = AllWaiting(changes["searches"])
  BY DEF SearchWith
<1> HIDE DEF changes
<1>6. QED  BY <1>1, <1>2, <1>3, <1>4, <1>5, ExpandedKept

LEMMA ExpansionUnavailableKept ==
    ASSUME QInv, NEW r \in Requests, ExpansionUnavailable(r)
    PROVE  QInv'
<1> DEFINE q == request[r]
           changes == Unexpanded(q)
<1>1. q.at = "expanding" /\ Become(r, changes) /\ UNCHANGED <<settings, clients, store, rerankVars>>
  BY DEF ExpansionUnavailable
<1>2. /\ q.config.paraphrases \in Positive /\ <<q.query>> \in Seq(DOMAIN Likeness)
      /\ Len(<<q.query>>) = 1 /\ <<>> \in Seq(DOMAIN Likeness) /\ Len(<<>>) = 0
  BY <1>1, OneText
<1>3. 2 * Len(<<q.query>>) + Len(<<>>) <= 2 * (1 + q.config.paraphrases)
  <2>1. q.config.paraphrases \in Nat /\ q.config.paraphrases >= 1
    BY <1>2 DEF Positive
  <2>2. 2 * 1 + 0 <= 2 * (1 + q.config.paraphrases)
    BY <2>1
  <2>3. QED  BY <1>2, <2>2
<1>4. /\ DOMAIN changes \subseteq {"at", "blame", "searches", "lists"}
      /\ {"at", "searches", "lists"} \subseteq DOMAIN changes /\ changes["at"] = "searching"
      /\ changes["searches"] = Searches(q.config, <<q.query>>, <<>>)
      /\ changes["lists"] = AllWaiting(changes["searches"])
  BY DEF Unexpanded
<1> HIDE DEF changes
<1>5. QED  BY <1>1, <1>2, <1>3, <1>4, ExpandedKept

\* A search that returns.
LEMMA AnsweredKept ==
    ASSUME QInv, NEW r \in Requests, NEW i \in DOMAIN request[r].searches, Answered(r, i)
    PROVE  QInv'
<1> DEFINE q == request[r]
           n == IF q.searches[i].by = "dense" THEN q.config.topDense ELSE q.config.topLexical
           hits == Hits(q.searches[i], n)
           lists == [q.lists EXCEPT ![i] = hits]
           k == After(q, [lists |-> lists])
<1>1. /\ q.at = "searching" /\ Become(r, [lists |-> lists]) /\ UNCHANGED <<settings, clients, store>>
      /\ job' = job
  BY DEF Answered, rerankVars
<1>2. Consistent(q, job[r])
  BY DEF QInv
<1>3. /\ q.config \in Configs /\ Asked(q) /\ Searched(q) /\ q.fused = <<>> /\ q.chunks = <<>>
      /\ job[r].at = "none"
  BY <1>1, <1>2 DEF Consistent, Asked, FusedFrom, Calling
<1>4. Ranking(hits) /\ Descending(hits)
  <2>1. q.searches[i] \in SearchesFor
    BY <1>3 DEF Searched
  <2>2. n \in Positive
    BY <1>3 DEF Configs
  <2> HIDE DEF n
  <2>3. QED  BY <2>1, <2>2, HitsType DEF QInv
<1> HIDE DEF n, hits
<1>5. /\ Len(lists) = Len(q.lists) /\ DOMAIN lists = DOMAIN q.lists
      /\ \A m \in DOMAIN lists : lists[m] = Waiting \/ (Ranking(lists[m]) /\ Descending(lists[m]))
  <2> DEFINE X == {q.lists[m] : m \in DOMAIN q.lists} \cup {hits}
             N == Len(q.searches)
             old == q.lists
  <2>1. N \in Nat /\ Len(old) = N /\ DOMAIN old = 1..N
    BY <1>3 DEF Searched
  <2>2. DOMAIN lists = DOMAIN old
    OBVIOUS
  <2>3. \A m \in DOMAIN lists : lists[m] = IF m = i THEN hits ELSE old[m]
    OBVIOUS
  <2>4. lists \in [1..N -> X]
    <3>1. lists = [m \in 1..N |-> IF m = i THEN hits ELSE old[m]]
      BY <2>1
    <3>2. QED  BY <2>1, <3>1
  <2> HIDE DEF lists, N, X, old
  <2>5. Len(lists) = N
    BY <2>1, <2>4, ListOf
  <2>6. \A m \in DOMAIN old : old[m] = Waiting \/ (Ranking(old[m]) /\ Descending(old[m]))
    BY <1>3 DEF Searched, old
  <2>7. QED  BY <1>4, <2>1, <2>2, <2>3, <2>5, <2>6 DEF old
<1>6. /\ k.at = "searching" /\ k.config = q.config /\ k.query = q.query /\ k.searches = q.searches
      /\ k.lists = lists /\ k.fused = <<>> /\ k.chunks = <<>>
  <2> HIDE DEF lists
  <2>1. QED  BY <1>1, <1>3 DEF After, NoRequest
<1> HIDE DEF lists, k
<1>7. Asked(k) /\ Searched(k)
  BY <1>1, <1>3, <1>5, <1>6 DEF Asked, Searched
<1>8. FusedFrom(k) /\ Calling(k, job'[r]) /\ Composed(k) /\ ~Retrieved(k) /\ k.at \in Stages /\ k.at # "idle"
  BY <1>1, <1>3, <1>6 DEF FusedFrom, Calling, Composed, Retrieved, Stages
<1>9. Consistent(k, job'[r])
  BY <1>6, <1>7, <1>8 DEF Consistent
<1>10. k = After(q, [lists |-> lists])
  BY DEF k
<1>11. QED  BY <1>1, <1>9, <1>10, Moves

\* When every search has returned, the lists can be fused.
LEMMA AllBack ==
    ASSUME NEW q, Searched(q), Asked(q), q.at # "idle", \A i \in DOMAIN q.lists : q.lists[i] # Waiting
    PROVE  Fused(q.lists, Fuse(q.lists, q.config)) /\ Ranking(Fuse(q.lists, q.config))
<1>1. AllRanked(q.lists)
  <2>1. q.searches \in Seq(SearchesFor) /\ Len(q.lists) = Len(q.searches)
    BY DEF Searched
  <2>2. Len(q.lists) \in Nat
    BY <2>1
  <2>3. QED  BY <2>2 DEF Searched, AllRanked
<1>2. q.config \in Configs
  BY DEF Asked
<1>3. QED  BY <1>1, <1>2, FuseSound DEF Fused

LEMMA FuseAndRerankKept ==
    ASSUME QInv, RInv, NEW r \in Requests, FuseAndRerank(r)
    PROVE  QInv'
<1> DEFINE q == request[r]
           fused == Fuse(q.lists, q.config)
           list == SubSeq(fused, 1, Lesser(q.config.candidates, Len(fused)))
           changes == [at |-> "reranking", fused |-> fused]
           k == After(q, changes)
<1>1. /\ q.at = "searching" /\ \A i \in DOMAIN q.lists : q.lists[i] # Waiting
      /\ q.config.rerank /\ Become(r, changes) /\ UNCHANGED <<settings, clients, store>>
      /\ Begin(r, q.query, list, q.config.topK)
  BY DEF FuseAndRerank, AllAnswered
<1>2. /\ Consistent(q, job[r]) /\ Asked(q) /\ Searched(q) /\ q.chunks = <<>>
  BY <1>1 DEF QInv, Consistent, FusedFrom
<1>3. Fused(q.lists, fused)
  BY <1>1, <1>2, AllBack
<1> HIDE DEF fused
<1>4. /\ job'[r].at # "none" /\ job'[r].query = q.query /\ job'[r].top = q.config.topK
      /\ job'[r].shortlist = list
      /\ \A s \in Requests \ {r} : job'[s] = job[s]
  <2>1. job = [s \in Requests |-> job[s]]
    BY DEF RInv, JobsOK
  <2> DEFINE scores == CachedScores(cache, q.query, list)
             j == [at |-> IF Misses(scores) = <<>> THEN "scored" ELSE "called",
                   query |-> q.query, top |-> q.config.topK, shortlist |-> list,
                   scores |-> scores, pending |-> Misses(scores), predicted |-> <<>>]
  <2>2. job' = [job EXCEPT ![r] = j]
    BY <1>1 DEF Begin
  <2>3. /\ j.at # "none" /\ j.query = q.query /\ j.top = q.config.topK
        /\ j.shortlist = list
    <3> HIDE DEF list, scores
    <3>1. QED  OBVIOUS
  <2> HIDE DEF j, list
  <2>4. job'[r] = j /\ \A s \in Requests \ {r} : job'[s] = job[s]
    BY <2>1, <2>2
  <2>5. QED  BY <2>3, <2>4
<1>5. /\ k.at = "reranking" /\ k.config = q.config /\ k.query = q.query /\ k.searches = q.searches
      /\ k.lists = q.lists /\ k.fused = fused /\ k.chunks = <<>>
  BY <1>2 DEF After, NoRequest
<1> HIDE DEF k
<1>6. Asked(k) /\ Searched(k)
  BY <1>1, <1>2, <1>5 DEF Asked, Searched
<1>7. FusedFrom(k)
  BY <1>3, <1>5 DEF FusedFrom
<1>8. Calling(k, job'[r]) /\ Composed(k) /\ ~Retrieved(k) /\ k.at \in Stages /\ k.at # "idle"
  BY <1>1, <1>4, <1>5 DEF Calling, Composed, Retrieved, Stages
<1>9. Consistent(k, job'[r])
  BY <1>5, <1>6, <1>7, <1>8 DEF Consistent
<1> HIDE DEF changes
<1>10. k = After(q, changes)
  BY DEF k
<1>11. QED  BY <1>1, <1>4, <1>9, <1>10, Moves

LEMMA FuseOnlyKept ==
    ASSUME QInv, NEW r \in Requests, FuseOnly(r)
    PROVE  QInv'
<1> DEFINE q == request[r]
           fused == Fuse(q.lists, q.config)
           chunks == Numbered(fused, q.config.topK)
           changes == [at |-> "retrieved", fused |-> fused, chunks |-> chunks]
           k == After(q, changes)
<1>1. /\ q.at = "searching" /\ \A i \in DOMAIN q.lists : q.lists[i] # Waiting
      /\ ~(q.config.rerank /\ fused # <<>>)
      /\ Become(r, changes) /\ UNCHANGED <<settings, clients, store>> /\ job' = job
  BY DEF FuseOnly, AllAnswered, rerankVars
<1>2. /\ Asked(q) /\ Searched(q) /\ job[r].at = "none"
  BY <1>1 DEF QInv, Consistent, Calling
<1>3. Fused(q.lists, fused) /\ Ranking(fused)
  BY <1>1, <1>2, AllBack
<1>4. q.config.topK \in Positive
  BY <1>1, <1>2 DEF Asked, Configs
<1> HIDE DEF fused
<1>5. Ranking(chunks) /\ Len(chunks) = Lesser(q.config.topK, Len(fused)) /\ Traced(chunks, fused)
  BY <1>3, <1>4, NumberedType
<1> HIDE DEF chunks
<1>6. q.config.rerank => Scored(chunks, q.query)
  <2>1. SUFFICES ASSUME q.config.rerank PROVE DOMAIN chunks = {}
    BY DEF Scored
  <2>2. Len(fused) = 0
    BY <1>1, <2>1
  <2>3. Len(chunks) = 0
    BY <1>4, <1>5, <2>2 DEF Lesser, Positive
  <2>4. DOMAIN chunks = 1..Len(chunks)
    BY <1>5 DEF Ranking, Shortlist
  <2>5. QED  BY <2>3, <2>4
<1>7. /\ k.at = "retrieved" /\ k.config = q.config /\ k.query = q.query /\ k.searches = q.searches
      /\ k.lists = q.lists /\ k.fused = fused /\ k.chunks = chunks
  BY DEF After, NoRequest
<1> HIDE DEF k
<1>8. Asked(k) /\ Searched(k)
  BY <1>1, <1>2, <1>7 DEF Asked, Searched
<1>9. FusedFrom(k) /\ Taken(k)
  BY <1>3, <1>5, <1>6, <1>7 DEF FusedFrom, Taken
<1>10. Calling(k, job'[r]) /\ Composed(k) /\ k.at \in Stages /\ k.at # "idle"
  BY <1>1, <1>2, <1>7 DEF Calling, Composed, Stages
<1>11. Consistent(k, job'[r])
  BY <1>8, <1>9, <1>10 DEF Consistent
<1> HIDE DEF changes
<1>12. k = After(q, changes)
  BY DEF k
<1>13. QED  BY <1>1, <1>11, <1>12, Moves

\* A slot whose call has returned is free, and the others are as they were.
LEMMA ReturnFrees ==
    ASSUME RInv, NEW r \in Requests, Return(r)
    PROVE  job'[r].at = "none" /\ \A s \in Requests \ {r} : job'[s] = job[s]
<1>1. job = [s \in Requests |-> job[s]]
  BY DEF RInv, JobsOK
<1>2. job' = [job EXCEPT ![r] = NoJob] /\ NoJob.at = "none"
  BY DEF Return, NoJob
<1>3. QED  BY <1>1, <1>2

LEMMA TakeRerankedKept ==
    ASSUME QInv, RInv, NEW r \in Requests, TakeReranked(r)
    PROVE  QInv'
<1> DEFINE q == request[r]
           j == job[r]
           chunks == Reranked(j)
           changes == [at |-> "retrieved", chunks |-> chunks]
           k == After(q, changes)
           n == Len(q.fused)
           m == Lesser(q.config.candidates, n)
<1>1. /\ q.at = "reranking" /\ j.at = "scored" /\ Become(r, changes)
      /\ Return(r) /\ UNCHANGED <<settings, clients, store>>
  BY DEF TakeReranked
<1>2. job'[r].at = "none" /\ \A s \in Requests \ {r} : job'[s] = job[s]
  BY <1>1, ReturnFrees
<1>3. /\ Asked(q) /\ Searched(q) /\ Fused(q.lists, q.fused) /\ Ranking(q.fused)
      /\ q.config.rerank /\ j.query = q.query /\ j.top = q.config.topK
      /\ j.shortlist = SubSeq(q.fused, 1, m)
  BY <1>1 DEF QInv, Consistent, Calling, FusedFrom, Fused
<1>4. /\ q.config.topK \in Positive /\ q.config.candidates \in Positive
      /\ q.config.candidates >= q.config.topK
  BY <1>1, <1>3 DEF Asked, Configs
<1>5. n \in Nat /\ m \in 0..n
  <2>1. n \in Nat
    BY <1>3 DEF Ranking, Shortlist
  <2>2. QED  BY <1>4, <2>1 DEF Lesser, Positive
<1>6. Lesser(q.config.topK, m) = Lesser(q.config.topK, n)
  BY <1>4, <1>5 DEF Lesser, Positive
<1> HIDE DEF m
<1>7. /\ Ranking(j.shortlist) /\ Len(j.shortlist) = m
      /\ \A id \in IdsIn(j.shortlist) : id \in IdsIn(q.fused) /\ Held(j.shortlist, id) = Held(q.fused, id)
  BY <1>3, <1>5, ShortlistType
<1>8. /\ Ranking(chunks) /\ Len(chunks) = Lesser(q.config.topK, m)
      /\ Traced(chunks, j.shortlist) /\ Scored(chunks, q.query)
  <2>1. Request(j)
    BY DEF RInv
  <2>2. QED  BY <1>1, <1>3, <1>4, <1>7, <2>1, RerankedType
<1> HIDE DEF chunks, j
<1>9. Traced(chunks, q.fused)
  BY <1>7, <1>8 DEF Traced
<1>10. /\ k.at = "retrieved" /\ k.config = q.config /\ k.query = q.query /\ k.searches = q.searches
       /\ k.lists = q.lists /\ k.fused = q.fused /\ k.chunks = chunks
  BY DEF After, NoRequest
<1> HIDE DEF k
<1>11. Asked(k) /\ Searched(k)
  BY <1>1, <1>3, <1>10 DEF Asked, Searched
<1>12. FusedFrom(k) /\ Taken(k)
  BY <1>3, <1>6, <1>8, <1>9, <1>10 DEF FusedFrom, Taken
<1>13. Calling(k, job'[r]) /\ Composed(k) /\ k.at \in Stages /\ k.at # "idle"
  BY <1>2, <1>10 DEF Calling, Composed, Stages
<1>14. Consistent(k, job'[r])
  BY <1>11, <1>12, <1>13 DEF Consistent
<1> HIDE DEF changes
<1>15. k = After(q, changes)
  BY DEF k
<1>16. QED  BY <1>1, <1>2, <1>14, <1>15, Moves

\* The request fails with what it has.
LEMMA Fails ==
    ASSUME QInv, NEW r \in Requests, request[r].at # "idle",
           NEW changes, changes = [at |-> "failed", blame |-> "backend"], Become(r, changes),
           job'[r].at = "none", \A s \in Requests \ {r} : job'[s] = job[s],
           UNCHANGED <<settings, clients, store>>
    PROVE  QInv'
<1> DEFINE q == request[r]
           k == After(q, changes)
<1>1. Consistent(q, job[r])
  BY DEF QInv
<1>2. k.at = "failed" /\ Same(k, q)
  BY DEF After, NoRequest, Same
<1> HIDE DEF k
<1>3. Composed(k) /\ ~Retrieved(k) /\ k.at \in Stages \ {"idle", "expanding", "searching", "reranking"}
  BY <1>2 DEF Composed, Retrieved, Stages
<1>4. Consistent(k, job'[r])
  BY <1>1, <1>2, <1>3, GoesOn
<1>5. k = After(q, changes)
  BY DEF k
<1>6. QED  BY <1>4, <1>5, Moves

LEMMA RerankingRaisedKept ==
    ASSUME QInv, RInv, NEW r \in Requests, RerankingRaised(r)
    PROVE  QInv'
<1>1. job'[r].at = "none" /\ \A s \in Requests \ {r} : job'[s] = job[s]
  BY ReturnFrees DEF RerankingRaised
<1>2. QED  BY <1>1, Fails DEF RerankingRaised

LEMMA BackendFailsKept ==
    ASSUME QInv, NEW r \in Requests, BackendFails(r)
    PROVE  QInv'
<1>1. /\ request[r].at \notin {"idle", "reranking"}
      /\ Become(r, [at |-> "failed", blame |-> "backend"])
      /\ UNCHANGED <<settings, clients, store>> /\ job' = job
  BY DEF BackendFails, rerankVars
<1>2. job[r].at = "none"
  BY <1>1 DEF QInv, Consistent, Calling
<1>3. QED  BY <1>1, <1>2, Fails

\* The worker threads work on the calls they have.
LEMMA RerankStepKept ==
    ASSUME QInv, RInv, NEW r \in Requests, RerankStep(r)
    PROVE  QInv'
<1>1. /\ Work(r) \/ Raise(r)
      /\ UNCHANGED <<settings, clients, store, request>>
  BY DEF RerankStep
<1>2. job = [s \in Requests |-> job[s]] /\ DOMAIN job[r] = DOMAIN NoJob
  BY DEF RInv, JobsOK
<1>3. /\ job[r].at # "none" /\ job'[r].at # "none" /\ job'[r].query = job[r].query
      /\ job'[r].top = job[r].top /\ job'[r].shortlist = job[r].shortlist
      /\ \A s \in Requests \ {r} : job'[s] = job[s]
  <2> DEFINE Moved(at) == at # "none" /\ job[r].at # "none" /\ job' = [job EXCEPT ![r].at = at]
  <2>1. ASSUME NEW at, Moved(at)
        PROVE  /\ job[r].at # "none" /\ job'[r].at # "none" /\ job'[r].query = job[r].query
               /\ job'[r].top = job[r].top /\ job'[r].shortlist = job[r].shortlist
               /\ \A s \in Requests \ {r} : job'[s] = job[s]
    BY <1>2, <2>1 DEF NoJob
  <2>2. CASE FindModel(r)
    <3>1. Moved(IF loaded THEN "waiting" ELSE "loading")
      BY <2>2 DEF FindModel
    <3> HIDE DEF Moved
    <3>2. QED  BY <2>1, <3>1
  <2>3. CASE Load(r)
    <3>1. Moved("waiting")
      BY <2>3 DEF Load
    <3> HIDE DEF Moved
    <3>2. QED  BY <2>1, <3>1
  <2>4. CASE Acquire(r)
    <3>1. Moved("predicting")
      BY <2>4 DEF Acquire
    <3> HIDE DEF Moved
    <3>2. QED  BY <2>1, <3>1
  <2>5. CASE Raise(r)
    <3>1. Moved("raised")
      BY <2>5 DEF Raise
    <3> HIDE DEF Moved
    <3>2. QED  BY <2>1, <3>1
  <2>6. CASE Predict(r)
    <3>1. PICK at, predicted : /\ at # "none" /\ job[r].at # "none"
                               /\ job' = [job EXCEPT ![r].predicted = predicted, ![r].at = at]
      BY <2>6 DEF Predict
    <3>2. QED  BY <1>2, <3>1 DEF NoJob
  <2>7. CASE Settle(r)
    <3>1. PICK at, scores : /\ at # "none" /\ job[r].at # "none"
                            /\ job' = [job EXCEPT ![r].scores = scores, ![r].at = at]
      BY <2>7 DEF Settle
    <3>2. QED  BY <1>2, <3>1 DEF NoJob
  <2>8. QED  BY <1>1, <2>2, <2>3, <2>4, <2>5, <2>6, <2>7 DEF Work
<1>4. ASSUME NEW s \in Requests PROVE Consistent(request'[s], job'[s])
  <2>1. Consistent(request[s], job[s]) /\ request'[s] = request[s]
    BY <1>1 DEF QInv
  <2>2. CASE s = r
    <3>1. Calling(request[s], job'[s])
      BY <1>3, <2>1, <2>2 DEF Consistent, Calling
    <3>2. QED  BY <2>1, <3>1 DEF Consistent
  <2>3. CASE s # r
    BY <1>3, <2>1, <2>3
  <2>4. QED  BY <2>2, <2>3
<1>5. QED  BY <1>1, <1>4 DEF QInv

\* An answer composed from the chunks that the request has.
LEMMA ComposedAs ==
    ASSUME NEW q, NEW k, k.at = "answered", k.chunks = q.chunks,
           NEW kind, NEW answer \in Answers, k.response = Response(kind, answer, q),
           kind = "refused" => answer = Blank, kind # "refused" => ~Refused(RerankScores(q.chunks))
    PROVE  Composed(k)
<1>1. k.response.kind = kind /\ k.response.answer = answer
  BY DEF Response
<1>2. Response(kind, answer, k) = Response(kind, answer, q)
  BY DEF Response
<1>3. QED  BY <1>1, <1>2 DEF Composed

\* A request with its chunks goes on with them.
LEMMA ChunksKept ==
    ASSUME QInv, NEW r \in Requests, Retrieved(request[r]),
           NEW changes, Become(r, changes), DOMAIN changes \subseteq {"at", "blame", "response"},
           "at" \in DOMAIN changes, changes["at"] \in {"generating", "extracting", "answered"},
           Composed(After(request[r], changes)), UNCHANGED <<settings, clients, store, rerankVars>>
    PROVE  QInv'
<1> DEFINE q == request[r]
           k == After(q, changes)
<1>1. Consistent(q, job[r]) /\ q.at \notin {"idle", "reranking"} /\ job' = job
  BY DEF QInv, Retrieved, rerankVars
<1>2. job'[r].at = "none"
  BY <1>1 DEF Consistent, Calling
<1>3. k.at = changes["at"] /\ Same(k, q)
  <2>1. {"config", "query", "searches", "lists", "fused", "chunks"} \cap DOMAIN changes = {}
    OBVIOUS
  <2>2. QED  BY <2>1 DEF After, NoRequest, Same
<1>4. Composed(k)
  OBVIOUS
<1> HIDE DEF k
<1>5. k.at \in Stages \ {"idle", "expanding", "searching", "reranking"}
  BY <1>3 DEF Stages
<1>6. Consistent(k, job'[r])
  BY <1>1, <1>2, <1>3, <1>4, <1>5, GoesOn
<1>7. k = After(q, changes)
  BY DEF k
<1>8. QED  BY <1>1, <1>6, <1>7, Moves

LEMMA DecideKept ==
    ASSUME QInv, NEW r \in Requests, Decide(r)
    PROVE  QInv'
<1> DEFINE q == request[r]
           refused == Refused(RerankScores(q.chunks))
           response == Response("refused", Blank, q)
           changes == IF refused THEN [at |-> "answered", response |-> response]
                      ELSE [at |-> IF q.config.generates THEN "generating" ELSE "extracting"]
           k == After(q, changes)
<1>1. /\ q.at = "retrieved" /\ Become(r, changes) /\ UNCHANGED <<settings, clients, store, rerankVars>>
  BY DEF Decide
<1>2. Blank \in Answers
  BY DEF Blank, Answers
<1>3. Composed(k)
  <2>1. CASE refused
    <3> HIDE DEF response
    <3>1. k.at = "answered" /\ k.chunks = q.chunks /\ k.response = response
      BY <2>1 DEF After, NoRequest
    <3> HIDE DEF k
    <3>2. QED  BY <1>2, <3>1, ComposedAs DEF response
  <2>2. CASE ~refused
    <3>1. k.at \in {"generating", "extracting"} /\ k.chunks = q.chunks
      BY <2>2 DEF After, NoRequest
    <3> HIDE DEF k
    <3>2. QED  BY <2>2, <3>1 DEF Composed
  <2>3. QED  BY <2>1, <2>2
<1>4. /\ DOMAIN changes \subseteq {"at", "blame", "response"}
      /\ "at" \in DOMAIN changes /\ changes["at"] \in {"generating", "extracting", "answered"}
  <2> HIDE DEF refused, response
  <2>1. QED  OBVIOUS
<1>5. Retrieved(q)
  BY <1>1 DEF Retrieved
<1>6. Composed(After(request[r], changes))
  BY <1>3
<1> HIDE DEF changes, k
<1>7. QED  BY <1>1, <1>4, <1>5, <1>6, ChunksKept

LEMMA GenerateKept ==
    ASSUME QInv, NEW r \in Requests, NEW completion \in Completions, Generate(r, completion)
    PROVE  QInv'
<1> DEFINE q == request[r]
           response == Response("generated", completion, q)
           changes == IF completion = Blank THEN [at |-> "extracting"]
                      ELSE [at |-> "answered", response |-> response]
           k == After(q, changes)
<1>1. /\ q.at = "generating" /\ Become(r, changes) /\ UNCHANGED <<settings, clients, store, rerankVars>>
  BY DEF Generate
<1>2. ~Refused(RerankScores(q.chunks))
  BY <1>1 DEF QInv, Consistent, Composed
<1>3. completion \in Answers
  BY BackendAssumption
<1>4. Composed(k)
  <2>1. CASE completion = Blank
    <3>1. k.at = "extracting" /\ k.chunks = q.chunks
      BY <2>1 DEF After, NoRequest
    <3> HIDE DEF k
    <3>2. QED  BY <1>2, <3>1 DEF Composed
  <2>2. CASE completion # Blank
    <3> HIDE DEF response
    <3>1. k.at = "answered" /\ k.chunks = q.chunks /\ k.response = response
      BY <2>2 DEF After, NoRequest
    <3> HIDE DEF k
    <3>2. QED  BY <1>2, <1>3, <3>1, ComposedAs DEF response
  <2>3. QED  BY <2>1, <2>2
<1>5. /\ DOMAIN changes \subseteq {"at", "blame", "response"}
      /\ "at" \in DOMAIN changes /\ changes["at"] \in {"generating", "extracting", "answered"}
  <2> HIDE DEF response
  <2>1. QED  OBVIOUS
<1>6. Retrieved(q)
  BY <1>1 DEF Retrieved
<1>7. Composed(After(request[r], changes))
  BY <1>4
<1> HIDE DEF changes, k
<1>8. QED  BY <1>1, <1>5, <1>6, <1>7, ChunksKept

LEMMA GenerationUnavailableKept ==
    ASSUME QInv, NEW r \in Requests, GenerationUnavailable(r)
    PROVE  QInv'
<1> DEFINE q == request[r]
           changes == [at |-> "extracting", blame |-> "llm"]
           k == After(q, changes)
<1>1. /\ q.at = "generating" /\ Become(r, changes) /\ UNCHANGED <<settings, clients, store, rerankVars>>
  BY DEF GenerationUnavailable
<1>2. ~Refused(RerankScores(q.chunks))
  BY <1>1 DEF QInv, Consistent, Composed
<1>3. k.at = "extracting" /\ k.chunks = q.chunks
  BY DEF After, NoRequest
<1>4. Composed(k)
  <2> HIDE DEF k
  <2>1. QED  BY <1>2, <1>3 DEF Composed
<1>5. /\ DOMAIN changes \subseteq {"at", "blame", "response"}
      /\ "at" \in DOMAIN changes /\ changes["at"] \in {"generating", "extracting", "answered"}
  OBVIOUS
<1>6. Retrieved(q)
  BY <1>1 DEF Retrieved
<1>7. Composed(After(request[r], changes))
  BY <1>4
<1> HIDE DEF changes, k
<1>8. QED  BY <1>1, <1>5, <1>6, <1>7, ChunksKept

\* The sources are texts of the store.
LEMMA SourcesType ==
    ASSUME NEW chunks, Ranking(chunks)
    PROVE  /\ TextList(chunks) \in Seq(Texts) /\ DOMAIN TextList(chunks) = DOMAIN chunks
           /\ DOMAIN IdList(chunks) = DOMAIN chunks
<1> DEFINE N == Len(chunks)
<1>1. N \in Nat /\ DOMAIN chunks = 1..N /\ \A n \in 1..N : chunks[n].text \in Texts
  <2>1. chunks \in Seq(Found)
    BY DEF Ranking
  <2>2. \A n \in 1..N : chunks[n] \in Found
    BY <2>1
  <2>3. QED  BY <2>1, <2>2 DEF Found
<1> HIDE DEF N
<1>2. TextList(chunks) \in [1..N -> Texts]
  BY <1>1 DEF TextList
<1>3. TextList(chunks) \in Seq(Texts)
  BY <1>1, <1>2, ListOf
<1>4. DOMAIN TextList(chunks) = DOMAIN chunks /\ DOMAIN IdList(chunks) = DOMAIN chunks
  BY DEF TextList, IdList
<1>5. QED  BY <1>3, <1>4

LEMMA ExtractAnswerKept ==
    ASSUME QInv, NEW r \in Requests, ExtractAnswer(r)
    PROVE  QInv'
<1> DEFINE q == request[r]
           answer == Extract(q.query, TextList(q.chunks))
           response == Response("extractive", answer, q)
           changes == [at |-> "answered", response |-> response]
           k == After(q, changes)
<1>1. /\ q.at = "extracting" /\ Become(r, changes) /\ UNCHANGED <<settings, clients, store, rerankVars>>
  BY DEF ExtractAnswer
<1>2. Retrieved(q)
  BY <1>1 DEF Retrieved
<1>3. ~Refused(RerankScores(q.chunks)) /\ Ranking(q.chunks)
  BY <1>1, <1>2 DEF QInv, Consistent, Composed, Taken
<1>4. answer \in Answers
  BY <1>3, SourcesType, ExtractType
<1> HIDE DEF answer
<1>5. k.at = "answered" /\ k.chunks = q.chunks /\ k.response = response
  <2> HIDE DEF response
  <2>1. QED  BY DEF After, NoRequest
<1>6. Composed(k)
  <2> HIDE DEF k
  <2>1. QED  BY <1>3, <1>4, <1>5, ComposedAs DEF response
<1>7. /\ DOMAIN changes \subseteq {"at", "blame", "response"}
      /\ "at" \in DOMAIN changes /\ changes["at"] \in {"generating", "extracting", "answered"}
  <2> HIDE DEF response
  <2>1. QED  OBVIOUS
<1>8. Composed(After(request[r], changes))
  BY <1>6
<1> HIDE DEF changes, k
<1>9. QED  BY <1>1, <1>2, <1>7, <1>8, ChunksKept

LEMMA EditKept ==
    ASSUME QInv, NEW id \in Editable, Edit(id)
    PROVE  QInv'
<1>1. PICK t \in TextsOf[id] \cup {Absent} : store' = [store EXCEPT ![id] = t]
  BY DEF Edit
<1>2. UNCHANGED <<settings, clients, request>> /\ job' = job
  BY DEF Edit, rerankVars
<1>3. store' = [i \in Ids |-> IF i = id THEN t ELSE store[i]]
  BY <1>1 DEF QInv
<1>4. store' = [i \in Ids |-> store'[i]] /\ \A i \in Ids : store'[i] \in TextsOf[i] \cup {Absent}
  BY <1>3 DEF QInv
<1>5. \A s \in Requests : Consistent(request'[s], job'[s])
  BY <1>2 DEF QInv
<1>6. QED  BY <1>2, <1>4, <1>5 DEF QInv

----------------------------------------------------------------------------
\* The invariant holds, and the reranker is called as it allows.

LEMMA QueryInitially == Init => QInv /\ RInv
<1> SUFFICES ASSUME Init PROVE QInv /\ RInv
  OBVIOUS
<1>1. RInv
  BY RerankInitially DEF Init
<1>2. [settings |-> settings, clients |-> clients] \in Workloads
  <2>1. PICK w \in Workloads : settings = w.settings /\ clients = w.clients
    BY DEF Init
  <2>2. w \in [settings : Configs, clients : [Requests -> SUBSET Bodies]]
    BY SettingsAssumption
  <2>3. w = [settings |-> w.settings, clients |-> w.clients]
    BY <2>2
  <2>4. QED  BY <2>1, <2>3
<1>3. /\ store = [id \in Ids |-> store[id]]
      /\ \A id \in Ids : store[id] \in TextsOf[id] \cup {Absent}
  <2>1. \A id \in Ids : (CHOOSE t \in TextsOf[id] : TRUE) \in TextsOf[id]
    BY BackendAssumption
  <2>2. store = [id \in Ids |-> CHOOSE t \in TextsOf[id] : TRUE]
    BY DEF Init
  <2> DEFINE first(id) == CHOOSE t \in TextsOf[id] : TRUE
  <2> HIDE DEF first
  <2>3. store = [id \in Ids |-> first(id)] /\ \A id \in Ids : first(id) \in TextsOf[id]
    BY <2>1, <2>2 DEF first
  <2>4. QED  BY <2>3
<1>4. request = [r \in Requests |-> request[r]] /\ \A r \in Requests : request[r] = NoRequest
  <2>1. request = [r \in Requests |-> NoRequest]
    BY DEF Init
  <2>2. QED  BY <2>1
<1>5. \A r \in Requests : job[r].at = "none"
  BY DEF Init, RerankInit, NoJob
<1>6. ASSUME NEW j, j.at = "none" PROVE Consistent(NoRequest, j)
  <2>1. /\ NoRequest.at = "idle" /\ NoRequest.searches = <<>> /\ NoRequest.lists = <<>>
        /\ NoRequest.fused = <<>> /\ NoRequest.chunks = <<>>
    BY DEF NoRequest
  <2>2. /\ <<>> \in Seq(SearchesFor) /\ Len(<<>>) = 0 /\ DOMAIN <<>> = 1..0
        /\ \A i \in DOMAIN <<>> : FALSE
    OBVIOUS
  <2>3. Searched(NoRequest)
    BY <2>1, <2>2 DEF Searched
  <2>4. Asked(NoRequest) /\ FusedFrom(NoRequest) /\ Composed(NoRequest) /\ ~Retrieved(NoRequest)
    BY <2>1 DEF Asked, FusedFrom, Composed, Retrieved
  <2>5. Calling(NoRequest, j)
    BY <1>6, <2>1 DEF Calling
  <2>6. QED  BY <2>1, <2>3, <2>4, <2>5 DEF Consistent, Stages
<1>7. \A r \in Requests : Consistent(request[r], job[r])
  BY <1>4, <1>5, <1>6
<1>8. QED  BY <1>1, <1>2, <1>3, <1>4, <1>7 DEF QInv

LEMMA QueryKept == QInv /\ RInv /\ [Next]_vars => QInv'
<1> SUFFICES ASSUME QInv, RInv, [Next]_vars PROVE QInv'
  OBVIOUS
<1>1. CASE UNCHANGED vars
  BY <1>1 DEF vars, rerankVars, QInv
<1>2. ASSUME NEW r \in Requests, Serve(r) PROVE QInv'
  BY <1>2, MultiQueryKept, HyDEKept, ExpansionUnavailableKept, AnsweredKept, FuseAndRerankKept,
     FuseOnlyKept, TakeRerankedKept, RerankingRaisedKept, DecideKept, GenerateKept,
     GenerationUnavailableKept, ExtractAnswerKept DEF Serve
<1>3. ASSUME NEW r \in Requests, NEW body \in clients[r], Receive(r, body) PROVE QInv'
  BY <1>3, ReceiveKept
<1>4. ASSUME NEW r \in Requests, RerankStep(r) \/ BackendFails(r) PROVE QInv'
  BY <1>4, RerankStepKept, BackendFailsKept
<1>5. ASSUME NEW id \in Editable, Edit(id) PROVE QInv'
  BY <1>5, EditKept
<1>6. QED  BY <1>1, <1>2, <1>3, <1>4, <1>5 DEF Next

\* What the pipeline does to the reranker.
LEMMA CallsAsAllowed == QInv /\ RInv /\ [Next]_vars => [RerankNext]_rerankVars
<1> SUFFICES ASSUME QInv, RInv, Next PROVE [RerankNext]_rerankVars
  BY DEF vars
<1>1. ASSUME NEW r \in Requests, FuseAndRerank(r) PROVE Call(r)
  <2> DEFINE q == request[r]
             fused == Fuse(q.lists, q.config)
             n == Len(fused)
             m == Lesser(q.config.candidates, n)
             list == SubSeq(fused, 1, m)
  <2>1. /\ q.at = "searching" /\ \A i \in DOMAIN q.lists : q.lists[i] # Waiting
        /\ Begin(r, q.query, list, q.config.topK)
    BY <1>1 DEF FuseAndRerank, AllAnswered
  <2>2. Asked(q) /\ Searched(q)
    BY DEF QInv, Consistent
  <2>3. Ranking(fused)
    BY <2>1, <2>2, AllBack
  <2>4. q.query \in Queries /\ q.config.candidates \in Positive
    BY <2>1, <2>2 DEF Asked, Configs
  <2> HIDE DEF fused
  <2>5. n \in Nat /\ m \in 0..n
    <3>1. n \in Nat
      BY <2>3 DEF Ranking, Shortlist
    <3>2. QED  BY <2>4, <3>1 DEF Lesser, Positive
  <2> HIDE DEF m
  <2>6. Shortlist(list)
    BY <2>3, <2>5, ShortlistType DEF Ranking
  <2>7. job'[r].query = q.query /\ job'[r].shortlist = list /\ job'[r].top = q.config.topK
    <3> HIDE DEF list
    <3>1. job = [s \in Requests |-> job[s]]
      BY DEF RInv, JobsOK
    <3>2. QED  BY <2>1, <3>1 DEF Begin
  <2>8. QED  BY <2>1, <2>4, <2>6, <2>7 DEF Call
<1>2. ASSUME NEW r \in Requests, TakeReranked(r) \/ RerankingRaised(r) PROVE Return(r)
  BY <1>2 DEF TakeReranked, RerankingRaised
<1>3. ASSUME NEW r \in Requests, Serve(r)
      PROVE  Call(r) \/ Return(r) \/ UNCHANGED rerankVars
  BY <1>1, <1>2, <1>3 DEF Serve, MultiQuery, HyDE, ExpansionUnavailable, Answered, FuseOnly, Decide,
                          Generate, GenerationUnavailable, ExtractAnswer
<1>4. ASSUME NEW r \in Requests, NEW body \in clients[r], Receive(r, body) PROVE UNCHANGED rerankVars
  BY <1>4 DEF Receive
<1>5. ASSUME NEW r \in Requests, BackendFails(r) PROVE UNCHANGED rerankVars
  BY <1>5 DEF BackendFails
<1>6. ASSUME NEW r \in Requests, RerankStep(r) PROVE Work(r) \/ Raise(r)
  BY <1>6 DEF RerankStep
<1>7. ASSUME NEW id \in Editable, Edit(id) PROVE UNCHANGED rerankVars
  BY <1>7 DEF Edit
<1>8. QED  BY <1>3, <1>4, <1>5, <1>6, <1>7 DEF Next, RerankNext

LEMMA QueryInvariant == Spec => [](QInv /\ RInv)
<1>1. QInv /\ RInv /\ [Next]_vars => (QInv /\ RInv)'
  BY QueryKept, CallsAsAllowed, RerankKept
<1>2. QED  BY QueryInitially, <1>1, PTL DEF Spec, Safety

----------------------------------------------------------------------------
\* The theorems.

\* The request's slots, searches and chunks keep to their types: a request has at
\* most two searches for each text, what it takes is among what it fused, and it
\* waits for the reranker exactly while the reranker has its call
\* (routes_query.py:44-48, pipeline.py:90-231).
THEOREM QueryTypeCorrect == Spec => []TypeOK
<1>1. QInv => TypeOK
  <2>1. SUFFICES ASSUME QInv PROVE TypeOK
    OBVIOUS
  <2>2. ASSUME NEW r \in Requests, NEW q, q = request[r]
        PROVE  /\ q.at \in Stages /\ Len(q.searches) = Len(q.lists)
               /\ q.at # "idle" => Len(q.searches) <= 2 * (1 + q.config.paraphrases)
               /\ IdsIn(q.fused) \subseteq Ids /\ IdsIn(q.chunks) \subseteq IdsIn(q.fused)
               /\ (q.at = "reranking") = (job[r].at # "none")
    <3>1. Consistent(q, job[r])
      BY <2>1, <2>2 DEF QInv
    <3>2. IdsIn(q.fused) \subseteq Ids
      <4>1. CASE q.fused = <<>>
        BY <4>1 DEF IdsIn
      <4>2. CASE q.fused # <<>>
        <5>1. Ranking(q.fused)
          BY <3>1, <4>2 DEF Consistent, FusedFrom, Fused
        <5>2. QED  BY <5>1, RankOfType
      <4>3. QED  BY <4>1, <4>2
    <3>3. IdsIn(q.chunks) \subseteq IdsIn(q.fused)
      <4>1. CASE q.chunks = <<>>
        BY <4>1 DEF IdsIn
      <4>2. CASE q.chunks # <<>>
        <5>1. Traced(q.chunks, q.fused)
          BY <3>1, <4>2 DEF Consistent, Taken
        <5>2. QED  BY <5>1 DEF Traced, IdsIn
      <4>3. QED  BY <4>1, <4>2
    <3>4. QED  BY <3>1, <3>2, <3>3 DEF Consistent, Searched, Calling
  <2>3. QED  BY <2>1, <2>2 DEF TypeOK, QInv
<1>2. QED  BY <1>1, QueryInvariant, PTL

\* What a retrieved chunk says of how it was found is what happened to it, with any
\* number of searches, either fusion and any cache: the first list with a score or
\* a rank for it, its place among the fused, its final place; and no chunk is lost
\* for want of reranking (fusion.py:25-79, rerank.py:157-168, routes_query.py:44-48).
THEOREM ProvenanceKept == Spec => []Provenance
<1>1. QInv => Provenance
  <2>1. SUFFICES ASSUME QInv, NEW r \in Requests, NEW q, q = request[r], Retrieved(q)
                 PROVE  /\ Len(q.chunks) = Lesser(q.config.topK, Len(q.fused))
                        /\ \A n \in DOMAIN q.chunks :
                              LET c == q.chunks[n]
                              IN  /\ \A f \in Evidence : c.stages[f] = FirstOf(q.lists, c.id, f)
                                  /\ c.stages["fusedRank"] = RankOf(q.fused, c.id)
                                  /\ c.stages["finalRank"] = n
                                  /\ \A m \in DOMAIN q.chunks : q.chunks[m].id = c.id => m = n
    BY DEF Provenance, Evidence
  <2>2. Taken(q) /\ Fused(q.lists, q.fused)
    BY <2>1 DEF QInv, Consistent, FusedFrom
  <2>3. ASSUME NEW n \in DOMAIN q.chunks, NEW c, c = q.chunks[n]
        PROVE  /\ \A f \in Evidence : c.stages[f] = FirstOf(q.lists, c.id, f)
               /\ c.stages["fusedRank"] = RankOf(q.fused, c.id)
               /\ c.stages["finalRank"] = n
               /\ \A m \in DOMAIN q.chunks : q.chunks[m].id = c.id => m = n
    <3>1. /\ c.id \in IdsIn(q.fused) /\ c.stages["finalRank"] = n
          /\ \A f \in Evidence \cup {"fusedRank"} : c.stages[f] = Held(q.fused, c.id).stages[f]
      BY <2>2, <2>3 DEF Taken, Traced
    <3>2. PICK m \in DOMAIN q.fused : m = RankOf(q.fused, c.id)
      BY <2>2, <3>1, RankOfType DEF Fused
    <3>3. Held(q.fused, c.id) = q.fused[m] /\ q.fused[m].id = c.id
      BY <2>2, <3>1, <3>2, RankOfType DEF Fused, Held
    <3>4. /\ q.fused[m].stages["fusedRank"] = m
          /\ \A f \in Evidence : q.fused[m].stages[f] = FirstOf(q.lists, c.id, f)
      BY <2>2, <3>3 DEF Fused
    <3>5. \A m1 \in DOMAIN q.chunks : q.chunks[m1].id = c.id => m1 = n
      BY <2>2, <2>3 DEF Taken, Ranking, Shortlist
    <3>6. QED  BY <3>1, <3>2, <3>3, <3>4, <3>5
  <2>4. QED  BY <2>2, <2>3 DEF Taken
<1>2. QED  BY <1>1, QueryInvariant, PTL

\* A chunk that every list with the other one ranks above it is fused above it
\* unless both score the same, by reciprocal ranks with any constant and by scores
\* with any weight (fusion.py:82-147).
THEOREM DominantFirst == Spec => []Dominance
<1>1. QInv => Dominance
  <2>1. SUFFICES ASSUME QInv, NEW r \in Requests, NEW q, q = request[r],
                        NEW m \in DOMAIN q.fused, NEW n \in DOMAIN q.fused,
                        Above(q.lists, q.fused[m].id, q.fused[n].id)
                 PROVE  m < n \/ q.fused[m].score = q.fused[n].score
    BY DEF Dominance, Above
  <2>2. q.fused # <<>>
    OBVIOUS
  <2>3. Fused(q.lists, q.fused)
    BY <2>1, <2>2 DEF QInv, Consistent, FusedFrom
  <2>4. QED  BY <2>1, <2>3 DEF Fused
<1>2. QED  BY <1>1, QueryInvariant, PTL

\* An answered request has what it answers from.
LEMMA AnsweredFrom ==
    ASSUME QInv, NEW r \in Requests, NEW q, q = request[r], q.at = "answered"
    PROVE  Taken(q) /\ Asked(q) /\ Composed(q)
BY DEF QInv, Consistent, Retrieved

\* An answer called grounded points at no source that is not there, and each of its
\* sentences has a source near enough, whatever the model wrote, extraction chose or
\* the searches found (grounding.py:88-154).
THEOREM GroundedAnswers == Spec => []GroundedIsSupported
<1>1. QInv => GroundedIsSupported
  <2>1. SUFFICES ASSUME QInv, NEW r \in Requests, NEW q, q = request[r], q.at = "answered",
                        q.response.grounding.grounded, NEW n \in DOMAIN Said(q),
                        ~q.response.answer.insufficient
                 PROVE  /\ ToSet(Said(q)[n].marks) \subseteq DOMAIN q.chunks
                        /\ Said(q)[n].says # Nothing =>
                              \E c \in Range(q.chunks) : Likeness[Said(q)[n].says][c.text] >= GroundingThreshold
    BY DEF GroundedIsSupported
  <2> DEFINE kind == q.response.kind
             answer == q.response.answer
             ids == IdList(q.chunks)
             texts == TextList(q.chunks)
  <2>2. /\ Ranking(q.chunks) /\ q.response = Response(kind, answer, q) /\ answer \in Answers
        /\ kind = "refused" => answer = Blank
    BY <2>1, AnsweredFrom DEF Taken, Composed
  <2>3. kind # "refused"
    <3>1. SUFFICES ASSUME answer = Blank PROVE FALSE
      BY <2>2
    <3>2. Said(q) = <<>>
      BY <3>1 DEF Said, Blank
    <3>3. QED  BY <2>1, <3>2
  <2>4. /\ texts \in Seq(Texts) /\ DOMAIN texts = DOMAIN q.chunks /\ DOMAIN ids = DOMAIN q.chunks
        /\ \A i \in DOMAIN q.chunks : texts[i] = q.chunks[i].text
    BY <2>2, SourcesType DEF TextList
  <2>5. q.response.grounding = Verify(answer, ids, texts)
    <3> HIDE DEF kind, answer, ids, texts
    <3>1. Response(kind, answer, q).grounding = Verify(answer, ids, texts)
      BY <2>3 DEF Response, ids, texts
    <3>2. QED  BY <2>2, <3>1
  <2>6. Verify(answer, ids, texts).grounded /\ ~answer.insufficient
    BY <2>1, <2>5
  <2> HIDE DEF answer, ids, texts
  <2>7. \A i \in DOMAIN answer.sentences :
           LET s == answer.sentences[i]
           IN  /\ ToSet(s.marks) \subseteq DOMAIN ids
               /\ s.says # Nothing =>
                     \E m \in DOMAIN texts : Likeness[s.says][texts[m]] >= GroundingThreshold
    BY <2>2, <2>4, <2>6, VerifySound
  <2>8. Said(q) = answer.sentences
    BY DEF Said, answer
  <2>9. ASSUME NEW m \in DOMAIN texts PROVE \E c \in Range(q.chunks) : c.text = texts[m]
    BY <2>4 DEF Range
  <2>10. QED  BY <2>1, <2>4, <2>7, <2>8, <2>9
<1>2. QED  BY <1>1, QueryInvariant, PTL

\* Nothing is answered from chunks that the cross-encoder finds irrelevant, whatever
\* requests share its cache, edit its chunks or evict its scores; the score of a
\* chunk whose text changed may be that of its old text (refusal.py:36-93).
THEOREM WeakIsRefused == Spec => []NeverAnswersWeak
<1>1. QInv => NeverAnswersWeak
  <2>1. SUFFICES ASSUME QInv, NEW r \in Requests, NEW q, q = request[r], q.at = "answered",
                        q.config.rerank, q.response.kind # "refused"
                 PROVE  \E c \in Range(q.chunks) : \/ Relevance[q.query][c.text] >= MinConfidence
                                                   \/ TextsOf[c.id] # {c.text}
    BY DEF NeverAnswersWeak
  <2> DEFINE chunks == q.chunks
             N == Len(chunks)
             scores == RerankScores(chunks)
  <2>2. Ranking(chunks) /\ Scored(chunks, q.query) /\ q.query \in Queries /\ ~Refused(scores)
    BY <2>1, AnsweredFrom DEF Taken, Asked, Composed
  <2>3. N \in Nat /\ DOMAIN chunks = 1..N
    BY <2>2 DEF Ranking, Shortlist
  <2>4. ASSUME NEW n \in 1..N
        PROVE  /\ scores[n] \in Int
               /\ \E t \in TextsOf[chunks[n].id] : scores[n] = Relevance[q.query][t]
    <3>1. PICK t \in TextsOf[chunks[n].id] : chunks[n].stages["rerankScore"] = Relevance[q.query][t]
      BY <2>2, <2>3 DEF Scored
    <3>2. chunks[n].id \in Ids
      BY <2>2, <2>3 DEF Ranking, Shortlist
    <3>3. Relevance[q.query][t] \in Int
      BY <2>2, <3>1, <3>2, ScoreType
    <3>4. scores[n] = chunks[n].stages["rerankScore"]
      BY <2>3, <3>1, <3>3 DEF RerankScores
    <3>5. QED  BY <3>1, <3>3, <3>4
  <2>5. scores = [n \in 1..N |-> scores[n]]
    BY <2>3 DEF RerankScores
  <2> HIDE DEF scores, N
  <2>6. scores \in [1..N -> Int]
    BY <2>4, <2>5
  <2>7. PICK n \in 1..N : scores[n] >= MinConfidence
    BY <2>2, <2>3, <2>6, RefusedSound
  <2>8. chunks[n] \in Range(chunks)
    BY <2>3 DEF Range
  <2>9. PICK t \in TextsOf[chunks[n].id] : scores[n] = Relevance[q.query][t]
    BY <2>4
  <2>10. QED  BY <2>7, <2>8, <2>9
<1>2. QED  BY <1>1, QueryInvariant, PTL

\* The pipeline implements the reranker's caller: every step of a request, of the
\* language model, of the stores and of the worker threads is a step the reranker's
\* specification allows, with a shortlist it takes (pipeline.py:219-231).
THEOREM ReranksAsSpecified == Spec => ImplementsReranker
<1>1. Init => RerankInit
  BY DEF Init
<1>2. QED  BY <1>1, CallsAsAllowed, QueryInvariant, PTL DEF Spec, Safety, ImplementsReranker, RerankSpec
=============================================================================

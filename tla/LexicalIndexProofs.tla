------------------------- MODULE LexicalIndexProofs -------------------------
(***************************************************************************)
(* For every set of chunk ids, texts and queries in flight: a query is     *)
(* scored against the ids it was listed, and never by another chunk's      *)
(* terms, unless persisting the index has failed.  When no chunk is edited *)
(* in place either, it is scored against exactly the chunks listed.        *)
(*                                                                         *)
(* The argument: every list of chunks, in the store, in a query's hands,   *)
(* in the index and in the file, pairs an id with a text of its own        *)
(* (Owned, IndexPaired, FilePaired); and an index is always that of the    *)
(* ids its fingerprint digests (PrintCurrent).                             *)
(***************************************************************************)
EXTENDS LexicalIndex, TLAPS

\* The chunks of a list have texts of their own.
Own(s) == \A i \in DOMAIN s : s[i].text \in TextsOf[s[i].id]

Owned == Own(rows) /\ Own(chunks) /\ \A q \in Queries : Own(listed[q])

\* Position by position, the terms are those of the chunk.
IndexPaired == ~writeFailed => \A i \in DOMAIN scorer : scorer[i] \in TextsOf[chunks[i].id]
FilePaired == disk # NoFile =>
    \A i \in DOMAIN disk.ids : disk.tokens[i] \in TextsOf[disk.ids[i]]

PrintCurrent == ~writeFailed /\ scorer # <<>> => print = IdsOf(chunks)

IInv == /\ TypeOK /\ Owned /\ IndexPaired /\ FilePaired /\ PrintCurrent
        /\ ScoresWhatWasListed /\ NoForeignTerms

\* The invariant holds at the start.
LEMMA InitIInv == Init => IInv
<1> SUFFICES ASSUME Init PROVE IInv
  OBVIOUS
<1>1. TypeOK
  <2>1. scored \in [Queries -> SUBSET [chunk : Chunk, terms : Texts]]
    BY DEF Init
  <2>2. rows \in Seq(Chunk) /\ chunks \in Seq(Chunk) /\ scorer \in Seq(Texts)
        /\ listed \in [Queries -> Seq(Chunk)]
    BY DEF Init
  <2>3. QED  BY <2>1, <2>2 DEF Init, TypeOK
<1>2. Owned /\ IndexPaired /\ FilePaired /\ PrintCurrent
  BY DEF Init, Owned, Own, IndexPaired, FilePaired, PrintCurrent
<1>3. ScoresWhatWasListed /\ NoForeignTerms
  BY DEF Init, ScoresWhatWasListed, NoForeignTerms, OwnTermsOnly
<1>4. QED  BY <1>1, <1>2, <1>3 DEF IInv

\* The empty list is a list of anything.
LEMMA EmptyList == \A S : <<>> \in Seq(S) /\ Len(<<>>) = 0
OBVIOUS

\* Taking a chunk out of the store leaves a list of chunks with their own texts.
LEMMA RowsWithoutOwn ==
    ASSUME rows \in Seq(Chunk), Own(rows), NEW id \in Ids
    PROVE  RowsWithout(id) \in Seq(Chunk) /\ Own(RowsWithout(id))
<1>1. CASE id \notin IdsOf(rows)
  BY <1>1 DEF RowsWithout
<1>2. CASE id \in IdsOf(rows)
  <2> DEFINE at == CHOOSE i \in DOMAIN rows : rows[i].id = id
             rest == [i \in 1..(Len(rows) - 1) |-> IF i < at THEN rows[i] ELSE rows[i + 1]]
  <2>1. RowsWithout(id) = rest
    BY <1>2 DEF RowsWithout
  <2>2. Len(rows) \in Nat \ {0} /\ DOMAIN rows = 1..Len(rows)
    BY <1>2 DEF IdsOf
  <2>3. \A i \in 1..(Len(rows) - 1) : i \in DOMAIN rows /\ i + 1 \in DOMAIN rows
    BY <2>2
  <2>4. \A i \in 1..(Len(rows) - 1) : rest[i] = rows[i] \/ rest[i] = rows[i + 1]
    OBVIOUS
  <2> HIDE DEF at
  <2>5. rest \in Seq(Chunk)
    BY <2>2, <2>3
  <2>6. DOMAIN rest = 1..(Len(rows) - 1)
    OBVIOUS
  <2> HIDE DEF rest
  <2>7. Own(rest)
    BY <2>3, <2>4, <2>6 DEF Own
  <2>8. QED  BY <2>1, <2>5, <2>7
<1>3. QED  BY <1>1, <1>2

\* A step of the store disturbs neither the index nor the queries.
LEMMA StoreIInv ==
    ASSUME IInv, rows' \in Seq(Chunk), Own(rows)', UNCHANGED <<index, disk, queries, writeFailed>>
    PROVE  IInv'
<1> USE DEF index, queries, IInv
<1>1. TypeOK'
  BY DEF TypeOK
<1>2. Owned'
  BY DEF Owned, Own
<1>3. IndexPaired' /\ FilePaired' /\ PrintCurrent'
  BY DEF IndexPaired, FilePaired, PrintCurrent, IdsOf
<1>4. ScoresWhatWasListed' /\ NoForeignTerms'
  BY DEF ScoresWhatWasListed, NoForeignTerms, OwnTermsOnly, IdsOf
<1>5. QED  BY <1>1, <1>2, <1>3, <1>4

\* Ingesting a chunk preserves the invariant.
LEMMA IngestIInv ==
    ASSUME IInv, NEW id \in Ids, NEW text \in TextsOf[id], Ingest(id, text)
    PROVE  IInv'
<1> DEFINE new == [id |-> id, text |-> text]
           rest == RowsWithout(id)
<1>1. new \in Chunk
  BY DEF Chunk, Texts
<1>2. rest \in Seq(Chunk) /\ Own(rest)
  BY RowsWithoutOwn DEF IInv, TypeOK, Owned
<1>3. rows' = Append(rest, new) /\ UNCHANGED <<index, disk, queries, writeFailed>>
  BY DEF Ingest
<1>4. new.id = id /\ new.text = text
  OBVIOUS
<1> HIDE DEF new, rest
<1>5. rows' \in Seq(Chunk)
  BY <1>1, <1>2, <1>3
<1>6. Own(rows)'
  <2>1. DOMAIN rows' = 1..(Len(rest) + 1) /\ rows'[Len(rest) + 1] = new
        /\ \A i \in DOMAIN rest : rows'[i] = rest[i]
    BY <1>1, <1>2, <1>3
  <2>2. \A i \in DOMAIN rows' : i \in DOMAIN rest \/ i = Len(rest) + 1
    BY <1>2, <2>1
  <2>3. QED  BY <1>2, <1>4, <2>1, <2>2 DEF Own
<1>7. QED  BY <1>3, <1>5, <1>6, StoreIInv

\* Removing a chunk preserves the invariant.
LEMMA RemoveIInv == ASSUME IInv, NEW id \in Ids, Remove(id) PROVE IInv'
<1>1. RowsWithout(id) \in Seq(Chunk) /\ Own(RowsWithout(id))
  BY RowsWithoutOwn DEF IInv, TypeOK, Owned
<1>2. rows' = RowsWithout(id) /\ UNCHANGED <<index, disk, queries, writeFailed>>
  BY DEF Remove
<1>3. QED  BY <1>1, <1>2, StoreIInv DEF Own

\* Listing the chunks to a query preserves the invariant.
LEMMA ListIInv == ASSUME IInv, NEW q \in Queries, List(q) PROVE IInv'
<1> USE DEF List, IInv, index
<1>1. TypeOK'
  BY DEF TypeOK
<1>2. Owned'
  BY DEF Owned, Own, TypeOK
<1>3. IndexPaired' /\ FilePaired' /\ PrintCurrent'
  BY DEF IndexPaired, FilePaired, PrintCurrent, IdsOf
<1>4. ScoresWhatWasListed'
  BY DEF ScoresWhatWasListed, IdsOf, TypeOK
<1>5. NoForeignTerms'
  BY DEF NoForeignTerms, OwnTermsOnly, TypeOK
<1>6. QED  BY <1>1, <1>2, <1>3, <1>4, <1>5

\* The index ensure_index leaves for the chunks listed is theirs.
LEMMA EnsureIndexInv ==
    ASSUME IInv, NEW s \in Seq(Chunk), Own(s), EnsureIndex(s), writeFailed' = writeFailed
    PROVE  /\ chunks' \in Seq(Chunk) /\ scorer' \in Seq(Texts) /\ print' \in SUBSET Ids
           /\ ~writeFailed => Len(scorer') = Len(chunks')
           /\ disk' \in [print : SUBSET Ids, ids : Seq(Ids), tokens : Seq(Texts)] \cup {NoFile}
           /\ disk' # NoFile => Len(disk'.tokens) = Len(disk'.ids)
           /\ Own(chunks)' /\ IndexPaired' /\ FilePaired' /\ PrintCurrent'
           /\ ~writeFailed => IdsOf(chunks)' = IdsOf(s)
<1>1. IdsOf(s) \in SUBSET Ids /\ \A i \in DOMAIN s : s[i].text \in Texts /\ s[i].id \in Ids
  <2>1. \A i \in DOMAIN s : s[i] \in Chunk
    OBVIOUS
  <2>2. QED  BY <2>1 DEF IdsOf, Chunk
<1>2. CASE InDate(s) /\ UNCHANGED <<index, disk>>
  BY <1>2 DEF InDate, Fingerprint, index, IInv, TypeOK, Owned, Own, IndexPaired, FilePaired,
              PrintCurrent, IdsOf
<1>3. CASE s = <<>> /\ Use(s, <<>>) /\ UNCHANGED disk
  <2>1. chunks' = s /\ chunks' = <<>> /\ scorer' = <<>> /\ print' = IdsOf(s) /\ disk' = disk
    BY <1>3 DEF Use, Fingerprint
  <2>2. FilePaired' /\ IndexPaired' /\ Own(chunks)'
    BY <2>1 DEF IInv, FilePaired, IndexPaired, Own
  <2>3. chunks' \in Seq(Chunk) /\ scorer' \in Seq(Texts)
    BY <2>1, EmptyList
  <2>4. Len(scorer') = Len(chunks')
    BY <2>1
  <2>5. PrintCurrent' /\ print' \in SUBSET Ids /\ IdsOf(chunks)' = IdsOf(s)
    BY <1>1, <2>1 DEF PrintCurrent, IdsOf
  <2>6. /\ disk' \in [print : SUBSET Ids, ids : Seq(Ids), tokens : Seq(Texts)] \cup {NoFile}
        /\ disk' # NoFile => Len(disk'.tokens) = Len(disk'.ids)
    BY <2>1 DEF IInv, TypeOK
  <2>7. QED  BY <2>2, <2>3, <2>4, <2>5, <2>6
<1>4. CASE s # <<>> /\ Persisted(s) /\ Use(s, Realigned(s)) /\ UNCHANGED disk
  <2> DEFINE at(i) == CHOOSE j \in DOMAIN disk.ids : disk.ids[j] = s[i].id
  <2>1. disk \in [print : SUBSET Ids, ids : Seq(Ids), tokens : Seq(Texts)]
        /\ Len(disk.tokens) = Len(disk.ids)
    BY <1>4 DEF Persisted, IInv, TypeOK
  <2>2. \A i \in DOMAIN s : at(i) \in DOMAIN disk.ids /\ disk.ids[at(i)] = s[i].id
    BY <1>4 DEF Persisted, IdsOf
  <2>3. scorer' = [i \in DOMAIN s |-> disk.tokens[at(i)]] /\ chunks' = s /\ disk' = disk
        /\ print' = IdsOf(s)
    BY <1>4 DEF Use, Realigned, Fingerprint
  <2> HIDE DEF at
  <2>4. \A i \in DOMAIN s : scorer'[i] = disk.tokens[at(i)] /\ at(i) \in DOMAIN disk.tokens
    BY <2>1, <2>2, <2>3
  <2>5. \A i \in DOMAIN s : scorer'[i] \in TextsOf[s[i].id] /\ scorer'[i] \in Texts
    BY <1>4, <2>1, <2>2, <2>4 DEF Persisted, IInv, FilePaired
  <2>6. DOMAIN s = 1..Len(s) /\ Len(s) \in Nat /\ DOMAIN scorer' = DOMAIN s
    BY <2>3
  <2>7. scorer' \in Seq(Texts) /\ Len(scorer') = Len(s)
    BY <2>3, <2>5, <2>6
  <2>8. IndexPaired' /\ PrintCurrent' /\ FilePaired' /\ Own(chunks)'
    BY <2>3, <2>5, <2>6 DEF IndexPaired, PrintCurrent, IInv, FilePaired, Own, IdsOf
  <2>9. QED  BY <1>1, <2>1, <2>3, <2>7, <2>8 DEF IInv, TypeOK, IdsOf
<1>5. CASE /\ s # <<>> /\ Use(s, TextList(s))
           /\ disk' = [print |-> Fingerprint(s), ids |-> IdList(s), tokens |-> TextList(s)]
  <2>1. scorer' = TextList(s) /\ chunks' = s /\ print' = IdsOf(s)
        /\ disk' = [print |-> IdsOf(s), ids |-> IdList(s), tokens |-> TextList(s)]
    BY <1>5 DEF Use, Fingerprint
  <2>2. DOMAIN s = 1..Len(s) /\ Len(s) \in Nat
    OBVIOUS
  <2>3. TextList(s) \in Seq(Texts) /\ Len(TextList(s)) = Len(s)
        /\ \A i \in DOMAIN s : TextList(s)[i] = s[i].text
    BY <1>1, <2>2 DEF TextList
  <2>4. IdList(s) \in Seq(Ids) /\ Len(IdList(s)) = Len(s) /\ DOMAIN IdList(s) = DOMAIN s
        /\ \A i \in DOMAIN s : IdList(s)[i] = s[i].id
    BY <1>1, <2>2 DEF IdList
  <2>5. DOMAIN TextList(s) = DOMAIN s
    BY DEF TextList
  <2>6. IndexPaired' /\ PrintCurrent' /\ FilePaired' /\ Own(chunks)'
    BY <2>1, <2>3, <2>4, <2>5 DEF IndexPaired, PrintCurrent, FilePaired, Own, IdsOf
  <2>7. QED  BY <1>1, <2>1, <2>3, <2>4, <2>6 DEF IdsOf
<1>6. QED  BY <1>2, <1>3, <1>4, <1>5 DEF EnsureIndex

Pairs(c, t) == {[chunk |-> c[i], terms |-> t[i]] : i \in DOMAIN t}

\* Pairs of a list of chunks with their terms: each chunk is in one, beside its own.
LEMMA PairsProperties ==
    ASSUME NEW c \in Seq(Chunk), NEW t \in Seq(Texts), Len(t) = Len(c)
    PROVE  /\ Pairs(c, t) \subseteq [chunk : Chunk, terms : Texts]
           /\ {s.chunk.id : s \in Pairs(c, t)} = IdsOf(c)
           /\ \A s \in Pairs(c, t) : \E i \in DOMAIN t :
                  i \in DOMAIN c /\ s.chunk = c[i] /\ s.terms = t[i]
<1>1. DOMAIN t = DOMAIN c
  OBVIOUS
<1>2. \A i \in DOMAIN t : c[i] \in Chunk /\ t[i] \in Texts
  BY <1>1
<1>3. ASSUME NEW i \in DOMAIN c
      PROVE  \E s \in Pairs(c, t) : s.chunk.id = c[i].id
  <2>1. [chunk |-> c[i], terms |-> t[i]] \in Pairs(c, t)
    BY <1>1 DEF Pairs
  <2>2. QED  BY <2>1
<1>4. \A s \in Pairs(c, t) : \E i \in DOMAIN t : i \in DOMAIN c /\ s.chunk = c[i] /\ s.terms = t[i]
  BY <1>1 DEF Pairs
<1>5. Pairs(c, t) \subseteq [chunk : Chunk, terms : Texts]
  BY <1>2 DEF Pairs
<1>6. {s.chunk.id : s \in Pairs(c, t)} = IdsOf(c)
  BY <1>3, <1>4 DEF IdsOf
<1>7. QED  BY <1>4, <1>5, <1>6

\* Answering a query preserves the invariant.
LEMMA AnswerIInv == ASSUME IInv, NEW q \in Queries, Answer(q) PROVE IInv'
<1>1. listed[q] \in Seq(Chunk) /\ Own(listed[q]) /\ EnsureIndex(listed[q])
      /\ UNCHANGED <<rows, listed, writeFailed>>
  BY DEF Answer, IInv, TypeOK, Owned
<1>2. /\ chunks' \in Seq(Chunk) /\ scorer' \in Seq(Texts) /\ print' \in SUBSET Ids
      /\ ~writeFailed => Len(scorer') = Len(chunks')
      /\ disk' \in [print : SUBSET Ids, ids : Seq(Ids), tokens : Seq(Texts)] \cup {NoFile}
      /\ disk' # NoFile => Len(disk'.tokens) = Len(disk'.ids)
      /\ Own(chunks)' /\ IndexPaired' /\ FilePaired' /\ PrintCurrent'
      /\ ~writeFailed => IdsOf(chunks)' = IdsOf(listed[q])
  BY <1>1, EnsureIndexInv
<1>3. \/ /\ Len(scorer') = Len(chunks')
         /\ status' = [status EXCEPT ![q] = "scored"] /\ scored' = [scored EXCEPT ![q] = Scored']
      \/ status' = [status EXCEPT ![q] = "idle"] /\ scored' = scored
  BY DEF Answer
<1>4. ASSUME Len(scorer') = Len(chunks')
      PROVE  /\ Scored' \subseteq [chunk : Chunk, terms : Texts]
             /\ {s.chunk.id : s \in Scored'} = IdsOf(chunks)'
             /\ ~writeFailed => \A s \in Scored' : s.chunk.text \in TextsOf[s.chunk.id]
                                                   /\ s.terms \in TextsOf[s.chunk.id]
  <2>1. /\ Scored' \subseteq [chunk : Chunk, terms : Texts]
        /\ {s.chunk.id : s \in Scored'} = IdsOf(chunks)'
        /\ \A s \in Scored' : \E i \in DOMAIN scorer' :
               i \in DOMAIN chunks' /\ s.chunk = chunks'[i] /\ s.terms = scorer'[i]
    <3>1. Scored' = Pairs(chunks', scorer')
      BY DEF Scored, Pairs
    <3>2. IdsOf(chunks)' = IdsOf(chunks')
      BY DEF IdsOf
    <3>3. /\ Pairs(chunks', scorer') \subseteq [chunk : Chunk, terms : Texts]
          /\ {s.chunk.id : s \in Pairs(chunks', scorer')} = IdsOf(chunks')
          /\ \A s \in Pairs(chunks', scorer') : \E i \in DOMAIN scorer' :
                 i \in DOMAIN chunks' /\ s.chunk = chunks'[i] /\ s.terms = scorer'[i]
      BY <1>2, <1>4, PairsProperties
    <3>4. QED  BY <3>1, <3>2, <3>3
  <2>2. QED  BY <1>1, <1>2, <2>1 DEF Own, IndexPaired
<1>5. /\ status' \in [Queries -> {"idle", "listed", "scored"}]
      /\ scored' \in [Queries -> SUBSET [chunk : Chunk, terms : Texts]]
  BY <1>3, <1>4 DEF IInv, TypeOK
<1>6. \A x \in Queries \ {q} : status'[x] = status[x] /\ scored'[x] = scored[x]
  BY <1>3 DEF IInv, TypeOK
<1>7. /\ status'[q] = "scored" => scored'[q] = Scored' /\ Len(scorer') = Len(chunks')
      /\ scored'[q] = scored[q] \/ (scored'[q] = Scored' /\ Len(scorer') = Len(chunks'))
  BY <1>3 DEF IInv, TypeOK
<1>8. TypeOK'
  BY <1>1, <1>2, <1>5 DEF IInv, TypeOK
<1>9. Owned'
  BY <1>1, <1>2 DEF IInv, Owned, Own
<1>10. ScoresWhatWasListed'
  <2> SUFFICES ASSUME ~writeFailed, NEW x \in Queries, status'[x] = "scored"
               PROVE  {s.chunk.id : s \in scored'[x]} = IdsOf(listed[x])
    BY <1>1 DEF ScoresWhatWasListed, IdsOf
  <2>1. CASE x = q
    BY <2>1, <1>2, <1>4, <1>7
  <2>2. CASE x # q
    BY <2>2, <1>6 DEF IInv, ScoresWhatWasListed
  <2>3. QED  BY <2>1, <2>2
<1>11. NoForeignTerms'
  <2> SUFFICES ASSUME ~writeFailed, NEW x \in Queries, NEW s \in scored'[x]
               PROVE  s.chunk.text \in TextsOf[s.chunk.id] /\ s.terms \in TextsOf[s.chunk.id]
    BY <1>1 DEF NoForeignTerms, OwnTermsOnly
  <2>1. CASE s \in scored[x]
    BY <2>1 DEF IInv, NoForeignTerms, OwnTermsOnly
  <2>2. CASE s \notin scored[x]
    BY <2>2, <1>4, <1>6, <1>7
  <2>3. QED  BY <2>1, <2>2
<1>12. QED  BY <1>2, <1>8, <1>9, <1>10, <1>11 DEF IInv

\* A failed write preserves the invariant: what depends on the scorer and the chunks
\* agreeing is no longer claimed.
LEMMA WriteFailsIInv == ASSUME IInv, NEW q \in Queries, WriteFails(q) PROVE IInv'
<1>1. /\ chunks' = listed[q] /\ disk' \in {disk, NoFile} /\ writeFailed' = TRUE
      /\ status' = [status EXCEPT ![q] = "idle"]
      /\ UNCHANGED <<rows, scorer, print, listed, scored>>
  BY DEF WriteFails
<1>2. TypeOK'
  BY <1>1 DEF IInv, TypeOK
<1>3. Owned' /\ FilePaired'
  BY <1>1 DEF IInv, Owned, Own, FilePaired
<1>4. IndexPaired' /\ PrintCurrent' /\ ScoresWhatWasListed' /\ NoForeignTerms'
  BY <1>1 DEF IndexPaired, PrintCurrent, ScoresWhatWasListed, NoForeignTerms
<1>5. QED  BY <1>2, <1>3, <1>4 DEF IInv

\* A restart preserves the invariant.
LEMMA RestartIInv == ASSUME IInv, Restart PROVE IInv'
<1> USE DEF Restart
<1>1. scored' \in [Queries -> SUBSET [chunk : Chunk, terms : Texts]]
  OBVIOUS
<1>2. rows' \in Seq(Chunk) /\ chunks' \in Seq(Chunk) /\ scorer' \in Seq(Texts)
      /\ listed' \in [Queries -> Seq(Chunk)]
  <2>1. rows' \in Seq(Chunk)
    BY EmptyList DEF IInv, TypeOK
  <2>2. listed' \in [Queries -> Seq(Chunk)]
    BY EmptyList
  <2>3. chunks' \in Seq(Chunk) /\ scorer' \in Seq(Texts)
    BY EmptyList
  <2>4. QED  BY <2>1, <2>2, <2>3
<1>3. disk' \in {disk, NoFile}
  OBVIOUS
<1>4. TypeOK'
  BY <1>1, <1>2, <1>3 DEF IInv, TypeOK
<1>5. Owned'
  BY DEF IInv, Owned, Own
<1>6. IndexPaired' /\ FilePaired' /\ PrintCurrent'
  BY <1>3 DEF IInv, IndexPaired, FilePaired, PrintCurrent
<1>7. ScoresWhatWasListed' /\ NoForeignTerms'
  BY DEF ScoresWhatWasListed, NoForeignTerms, OwnTermsOnly
<1>8. QED  BY <1>4, <1>5, <1>6, <1>7 DEF IInv

\* The invariant is inductive.
LEMMA NextIInv == IInv /\ [Next]_vars => IInv'
<1> SUFFICES ASSUME IInv, [Next]_vars PROVE IInv'
  OBVIOUS
<1>1. CASE UNCHANGED vars
  BY <1>1, StoreIInv DEF vars, IInv, TypeOK, Owned, Own
<1>2. ASSUME NEW id \in Ids, Remove(id) \/ \E text \in TextsOf[id] : Ingest(id, text)
      PROVE  IInv'
  BY <1>2, RemoveIInv, IngestIInv
<1>3. ASSUME NEW q \in Queries, List(q) \/ Answer(q) \/ WriteFails(q) PROVE IInv'
  BY <1>3, ListIInv, AnswerIInv, WriteFailsIInv
<1>4. CASE Restart
  BY <1>4, RestartIInv
<1>5. QED  BY <1>1, <1>2, <1>3, <1>4 DEF Next

----------------------------------------------------------------------------

\* The inductive invariant holds in every reachable state.
THEOREM IInvHolds == Spec => []IInv
BY InitIInv, NextIInv, PTL DEF Spec

\* The variables keep their types; chunks and terms stay of one length.
THEOREM TypeCorrect == Spec => []TypeOK
<1>1. IInv => TypeOK
  BY DEF IInv
<1>2. QED  BY <1>1, IInvHolds, PTL

\* A query is scored against exactly the ids the store listed to it, whatever other
\* queries made of the index meanwhile (lexical.py:124-128, 182-187).
THEOREM ScoresListed == Spec => []ScoresWhatWasListed
<1>1. IInv => ScoresWhatWasListed
  BY DEF IInv
<1>2. QED  BY <1>1, IInvHolds, PTL

\* No chunk is ever scored by the terms of another (lexical.py:80-86).
THEOREM TermsAreOwn == Spec => []NoForeignTerms
<1>1. IInv => NoForeignTerms
  BY DEF IInv
<1>2. QED  BY <1>1, IInvHolds, PTL

\* If the text of a chunk id never changes, and writing the file does not fail, a
\* query is scored against exactly the chunks the store listed: in-place edits are
\* all that goes wrong with a fingerprint of ids (store/base.py:34-45).
THEOREM SameChunksUnlessEdited ==
    ASSUME \A id \in Ids : \A a, b \in TextsOf[id] : a = b
    PROVE  Spec => []SameChunksAsStore
<1>1. ASSUME IInv, ~writeFailed, NEW q \in Queries, status[q] = "scored"
      PROVE  {s.chunk : s \in scored[q]} = {listed[q][i] : i \in DOMAIN listed[q]}
  <2>1. \A a, b \in Chunk : a.id = b.id /\ a.text = b.text => a = b
    BY DEF Chunk
  <2>2. \A s \in scored[q] : s.chunk \in Chunk /\ s.chunk.text \in TextsOf[s.chunk.id]
    BY <1>1 DEF IInv, TypeOK, NoForeignTerms, OwnTermsOnly
  <2>3. \A i \in DOMAIN listed[q] :
            listed[q][i] \in Chunk /\ listed[q][i].text \in TextsOf[listed[q][i].id]
    BY <1>1 DEF IInv, TypeOK, Owned, Own
  <2>4. \A s \in scored[q], i \in DOMAIN listed[q] :
            s.chunk.id = listed[q][i].id => s.chunk = listed[q][i]
    BY <2>1, <2>2, <2>3 DEF Chunk
  <2>5. {s.chunk.id : s \in scored[q]} = {listed[q][i].id : i \in DOMAIN listed[q]}
    BY <1>1 DEF IInv, ScoresWhatWasListed, IdsOf
  <2>6. \A s \in scored[q] : \E i \in DOMAIN listed[q] : s.chunk = listed[q][i]
    BY <2>4, <2>5
  <2>7. \A i \in DOMAIN listed[q] : \E s \in scored[q] : s.chunk = listed[q][i]
    BY <2>4, <2>5
  <2>8. QED  BY <2>6, <2>7
<1>2. IInv => SameChunksAsStore
  BY <1>1 DEF SameChunksAsStore
<1>3. QED  BY <1>2, IInvHolds, PTL
=============================================================================

---------------------------- MODULE IngestProofs ----------------------------
(***************************************************************************)
(* For every corpus, assignment of document ids, number of overlapping     *)
(* calls and concurrency, and without a bound on what the environment      *)
(* does: a call that nothing disturbs leaves the documents of files with   *)
(* text as they are on disk, and those of blank files as it found them;    *)
(* and, when no two files claim one document id, the next such call embeds *)
(* nothing.                                                                *)
(*                                                                         *)
(* The argument: an undisturbed call is alone (Alone), so the store only   *)
(* departs from its snapshot where it wrote the present content of a file  *)
(* (Written); a task therefore never embeds, skips or reports against a    *)
(* content or a hash that is out of date (UpToDate).                       *)
(***************************************************************************)
EXTENDS Ingest, FiniteSetTheorems, TLAPS

\* No two files have the same document id.
OneFileEach == \A p, q \in Paths : DocOf[p] = DocOf[q] => p = q

\* While a call is undisturbed, no other call is under way.
Alone == \A r, x \in Runs : ~disturbed[r] /\ x # r => ~Live(x)

\* The store is the snapshot, except where a file's present content was written.
Written == \A r \in Runs : ~disturbed[r] =>
               \A d \in Docs : stored[d] = known[r][d] \/ stored[d] \in Files(d)

\* What a task holds or has reported agrees with the file.
UpToDate == \A r \in Runs, p \in Paths : ~disturbed[r] =>
    /\ task[r][p] = "embedding" => loaded[r][p] = file[p]
    /\ task[r][p] = "unchanged" => known[r][DocOf[p]] = file[p]
    /\ task[r][p] = "changed" => file[p] \in Blank \/ stored[DocOf[p]] \in Files(DocOf[p])

\* A call made when there is nothing to do knows the hash of every file with text.
AllKnown == OneFileEach =>
    \A r \in Runs : rerun[r] /\ ~disturbed[r] =>
        \A p \in Paths : file[p] \notin Blank => known[r][DocOf[p]] = file[p]

Idempotent == OneFileEach => NoOpRerun

\* A call that has not created its tasks has none of an earlier one.
Prepared == \A r \in Runs, p \in Paths : phase[r] = "snapshot" => task[r][p] = "none"

IInv == TypeOK /\ Alone /\ Written /\ UpToDate /\ AllKnown /\ Idempotent /\ Prepared

USE PathsAssumption, DocOfAssumption, VersionsAssumption, ConcurrencyAssumption, MaxEventsAssumption
USE DEF InSemaphore, Outcomes, Unfinished, Busy, corpus, history

\* The invariant holds at the start.
LEMMA InitIInv == Init => IInv
<1> SUFFICES ASSUME Init PROVE IInv
  OBVIOUS
<1>1. \A r \in Runs : Holders(r) = {}
  BY DEF Init, Holders
<1>2. TypeOK
  <2>1. \A r \in Runs : Cardinality(Holders(r)) <= Concurrency
    BY <1>1, FS_EmptySet
  <2>2. \A r \in Runs, p \in Paths : task[r][p] # "embedding" /\ loaded[r][p] = Absent
    BY DEF Init
  <2>3. QED  BY <2>1, <2>2 DEF Init, TypeOK, TaskStates, Readings
<1>3. Alone
  BY DEF Init, Alone, Live
<1>4. Written /\ UpToDate /\ AllKnown /\ Idempotent
  BY DEF Init, Written, UpToDate, AllKnown, Idempotent, NoOpRerun
<1>5. Prepared
  BY DEF Init, Prepared
<1>6. QED  BY <1>2, <1>3, <1>4, <1>5 DEF IInv

\* A step that lets no task of any call into the semaphore keeps within it.
LEMMA FewerHolders ==
    ASSUME TypeOK, \A r \in Runs : Holders(r)' \subseteq Holders(r)
    PROVE  \A r \in Runs : Cardinality(Holders(r)') <= Concurrency
<1> SUFFICES ASSUME NEW r \in Runs PROVE Cardinality(Holders(r)') <= Concurrency
  OBVIOUS
<1>1. IsFiniteSet(Holders(r))
  BY FS_Subset DEF Holders
<1>2. IsFiniteSet(Holders(r)') /\ Cardinality(Holders(r)') <= Cardinality(Holders(r))
  BY <1>1, FS_Subset
<1>3. Cardinality(Holders(r)) \in Nat /\ Cardinality(Holders(r)') \in Nat
  BY <1>1, <1>2, FS_CardinalityType
<1>4. Cardinality(Holders(r)) <= Concurrency
  BY DEF TypeOK
<1>5. QED  BY <1>2, <1>3, <1>4

\* Taking a snapshot preserves the invariant.
LEMMA StartIInv == ASSUME IInv, NEW r \in Runs, Start(r) PROVE IInv'
<1> USE DEF Start, IInv, Snapshot
<1>1. TypeOK'
  <2>1. \A x \in Runs : Holders(x)' \subseteq Holders(x)
    BY DEF Holders, TypeOK
  <2>2. \A x \in Runs : Cardinality(Holders(x)') <= Concurrency
    BY <2>1, FewerHolders
  <2>3. \A x \in Runs, p \in Paths : (task[x][p] = "embedding" <=> loaded[x][p] # Absent)'
    BY DEF TypeOK, Live
  <2>4. task' \in [Runs -> [Paths -> TaskStates]]
    BY DEF TypeOK, TaskStates
  <2>5. QED  BY <2>2, <2>3, <2>4 DEF TypeOK, Settled
<1>2. \A x \in Runs \ {r} : disturbed'[x]
  BY DEF TypeOK
<1>3. ~disturbed'[r] => \A x \in Runs : ~Live(x)
  BY DEF TypeOK
<1>4. Alone'
  BY <1>2, <1>3 DEF Alone, Live, TypeOK
<1>5. known'[r] = stored /\ \A p \in Paths : task'[r][p] = "none"
  BY DEF TypeOK
<1>6. Written' /\ UpToDate'
  BY <1>2, <1>5 DEF Written, UpToDate, TypeOK
<1>7. AllKnown'
  <2> SUFFICES ASSUME OneFileEach, rerun'[r], NEW p \in Paths, file[p] \notin Blank
               PROVE  known'[r][DocOf[p]] = file[p]
    BY <1>2 DEF AllKnown
  <2>1. PICK y \in Runs : ~disturbed[y] /\ task[y][p] \in {"unchanged", "changed"}
    BY DEF Settled, TypeOK
  <2>2. stored[DocOf[p]] \in Files(DocOf[p])
    BY <2>1 DEF UpToDate, Written, Files
  <2>3. Files(DocOf[p]) = {file[p]}
    BY DEF Files, OneFileEach
  <2>4. QED  BY <1>5, <2>2, <2>3
<1>8. Idempotent'
  BY <1>2, <1>5 DEF Idempotent, NoOpRerun
<1>9. Prepared'
  BY <1>5 DEF Prepared, TypeOK
<1>10. QED  BY <1>1, <1>4, <1>6, <1>7, <1>8, <1>9

\* Setting the entry of one task leaves the others alone.
LEMMA OneTask ==
    ASSUME NEW S, NEW f \in [Runs -> [Paths -> S]],
           NEW r \in Runs, NEW p \in Paths, NEW s \in S,
           NEW g, g = [f EXCEPT ![r][p] = s]
    PROVE  /\ g \in [Runs -> [Paths -> S]]
           /\ g[r][p] = s
           /\ \A q \in Paths \ {p} : g[r][q] = f[r][q]
           /\ \A x \in Runs \ {r} : g[x] = f[x]
OBVIOUS

\* What the steps of one call have in common: they leave the store, the corpus and
\* the other calls alone.
OfCall(r) ==
    /\ UNCHANGED <<file, stored, known, history>>
    /\ \A x \in Runs \ {r} : phase'[x] = phase[x] /\ task'[x] = task[x] /\ loaded'[x] = loaded[x]

\* Such a step preserves the invariant if each task keeps its state or moves to one
\* that agrees with its file.
LEMMA QuietStep ==
    ASSUME IInv, TypeOK', NEW r \in Runs, Live(r), OfCall(r),
           phase'[r] = "snapshot" => \A p \in Paths : task'[r][p] = "none",
           \A p \in Paths :
               \/ task'[r][p] = task[r][p] /\ loaded'[r][p] = loaded[r][p]
               \/ task'[r][p] \in {"queued", "loading", "crashed"}
               \/ task'[r][p] = "failed" /\ task[r][p] = "embedding"
               \/ task'[r][p] = "unreadable" /\ file[p] = Unreadable
               \/ task'[r][p] = "changed" /\ file[p] \in Blank
               \/ task'[r][p] = "unchanged" /\ known[r][DocOf[p]] = file[p]
               \/ /\ task'[r][p] = "embedding" /\ loaded'[r][p] = file[p]
                  /\ known[r][DocOf[p]] # file[p]
    PROVE  IInv'
<1> USE DEF IInv, OfCall
<1>1. Alone'
  <2> SUFFICES ASSUME NEW x \in Runs, NEW y \in Runs, ~disturbed[x], y # x PROVE ~Live(y)'
    BY DEF Alone
  <2>1. ~Live(y) /\ y # r
    BY DEF Alone
  <2>2. QED  BY <2>1 DEF Live
<1>2. Written'
  BY DEF Written, Files
<1>3. UpToDate'
  <2> SUFFICES ASSUME NEW x \in Runs, NEW p \in Paths, ~disturbed[x]
               PROVE  /\ task'[x][p] = "embedding" => loaded'[x][p] = file[p]
                      /\ task'[x][p] = "unchanged" => known[x][DocOf[p]] = file[p]
                      /\ task'[x][p] = "changed" =>
                            file[p] \in Blank \/ stored[DocOf[p]] \in Files(DocOf[p])
    BY DEF UpToDate, Files
  <2>1. /\ task[x][p] = "embedding" => loaded[x][p] = file[p]
        /\ task[x][p] = "unchanged" => known[x][DocOf[p]] = file[p]
        /\ task[x][p] = "changed" => file[p] \in Blank \/ stored[DocOf[p]] \in Files(DocOf[p])
    BY DEF UpToDate
  <2>2. QED  BY <2>1
<1>4. AllKnown'
  BY DEF AllKnown
<1>5. Idempotent'
  <2> SUFFICES ASSUME OneFileEach, NEW x \in Runs, rerun[x], ~disturbed[x], NEW p \in Paths
               PROVE  \/ task'[x][p] \in {"none", "queued", "loading", "unchanged", "crashed"}
                      \/ task'[x][p] = "changed" /\ file[p] \in Blank
    BY DEF Idempotent, NoOpRerun
  <2>1. \/ task[x][p] \in {"none", "queued", "loading", "unchanged", "crashed"}
        \/ task[x][p] = "changed" /\ file[p] \in Blank
    BY DEF Idempotent, NoOpRerun
  <2>2. file[p] \notin Blank => known[x][DocOf[p]] = file[p]
    BY DEF AllKnown
  <2>3. DocOf[p] \in Docs /\ known[x][DocOf[p]] \in Versions \cup {Absent}
    BY DEF TypeOK
  <2>4. file[p] # Unreadable
    <3>1. file[p] \in Blank => file[p] \in Versions
      OBVIOUS
    <3>2. QED  BY <2>2, <2>3, <3>1
  <2>5. CASE x # r
    BY <2>1, <2>5
  <2>6. CASE x = r /\ file[p] \in Blank
    <3>1. ~(task'[r][p] = "embedding" /\ loaded'[r][p] = file[p])
      <4>1. loaded'[r][p] \in Readings
        BY DEF TypeOK
      <4>2. file[p] \notin Readings
        BY <2>6 DEF Readings
      <4>3. QED  BY <4>1, <4>2
    <3>2. QED  BY <2>1, <2>4, <2>6, <3>1
  <2>7. CASE x = r /\ file[p] \notin Blank
    BY <2>1, <2>2, <2>4, <2>7
  <2>8. QED  BY <2>5, <2>6, <2>7
<1>6. Prepared'
  <2> SUFFICES ASSUME NEW x \in Runs, NEW p \in Paths, phase'[x] = "snapshot"
               PROVE  task'[x][p] = "none"
    BY DEF Prepared
  <2>1. CASE x = r
    BY <2>1
  <2>2. CASE x # r
    BY <2>2 DEF Prepared
  <2>3. QED  BY <2>1, <2>2
<1>7. QED  BY <1>1, <1>2, <1>3, <1>4, <1>5, <1>6

\* The type invariant after a step that takes the tasks of a call no further into
\* the semaphore.
LEMMA TypesKept ==
    ASSUME TypeOK, NEW r \in Runs, OfCall(r), events' \in Nat,
           phase' \in [Runs -> {"idle", "snapshot", "running", "finished", "failed"}],
           task' \in [Runs -> [Paths -> TaskStates]],
           loaded' \in [Runs -> [Paths -> Readings]],
           \A p \in Paths : task'[r][p] \in InSemaphore => task[r][p] \in InSemaphore,
           \A p \in Paths : task'[r][p] = "embedding" <=> loaded'[r][p] # Absent
    PROVE  TypeOK'
<1>1. \A x \in Runs : Holders(x)' \subseteq Holders(x)
  BY DEF Holders, OfCall
<1>2. \A x \in Runs : Cardinality(Holders(x)') <= Concurrency
  BY <1>1, FewerHolders
<1>3. ASSUME NEW x \in Runs, NEW p \in Paths
      PROVE  task'[x][p] = "embedding" <=> loaded'[x][p] # Absent
  <2>1. CASE x = r
    BY <2>1
  <2>2. CASE x # r
    BY <2>2 DEF TypeOK, OfCall
  <2>3. QED  BY <2>1, <2>2
<1>4. QED  BY <1>2, <1>3 DEF TypeOK, OfCall

\* Creating the tasks of a call preserves the invariant.
LEMMA SpawnIInv == ASSUME IInv, NEW r \in Runs, Spawn(r) PROVE IInv'
<1>1. \A p \in Paths : task[r][p] = "none" /\ loaded[r][p] = Absent
  BY DEF Spawn, IInv, Prepared, TypeOK
<1>2. /\ OfCall(r) /\ Live(r) /\ phase'[r] = "running"
      /\ \A p \in Paths : task'[r][p] = "queued" /\ loaded'[r][p] = Absent
      /\ task' \in [Runs -> [Paths -> TaskStates]]
  BY <1>1 DEF Spawn, OfCall, Live, IInv, TypeOK, TaskStates
<1>3. TypeOK'
  BY <1>2, TypesKept DEF Spawn, IInv, TypeOK
<1>4. QED  BY <1>2, <1>3, QuietStep

\* A task that passes the semaphore preserves the invariant: there was a permit.
LEMMA AcquireIInv == ASSUME IInv, NEW r \in Runs, NEW p \in Paths, Acquire(r, p) PROVE IInv'
<1>1. task[r][p] = "queued" /\ Live(r) /\ phase[r] # "snapshot"
  BY DEF Acquire, Queued, Live, IInv, Prepared
<1>2. /\ task' \in [Runs -> [Paths -> TaskStates]]
      /\ task'[r][p] = "loading"
      /\ \A q \in Paths \ {p} : task'[r][q] = task[r][q]
      /\ \A x \in Runs \ {r} : task'[x] = task[x]
  BY OneTask DEF Acquire, IInv, TypeOK, TaskStates
<1>3. OfCall(r) /\ phase' = phase /\ loaded' = loaded /\ events' = events
  BY <1>2 DEF Acquire, OfCall
<1>4. Cardinality(Holders(r)') <= Concurrency
  <2>1. Holders(r)' = Holders(r) \cup {p} /\ p \notin Holders(r)
    BY <1>1, <1>2 DEF Holders
  <2>2. IsFiniteSet(Holders(r))
    BY FS_Subset DEF Holders
  <2>3. Cardinality(Holders(r) \cup {p}) = Cardinality(Holders(r)) + 1
    BY <2>1, <2>2, FS_AddElement
  <2>4. Cardinality(Holders(r)) \in Nat /\ Cardinality(Holders(r)) < Concurrency
    BY <2>2, FS_CardinalityType DEF Acquire, HasPermit
  <2>5. QED  BY <2>1, <2>3, <2>4
<1>5. \A x \in Runs \ {r} : Cardinality(Holders(x)') <= Concurrency
  <2>1. \A x \in Runs \ {r} : Holders(x)' = Holders(x)
    BY <1>2 DEF Holders
  <2>2. QED  BY <2>1 DEF IInv, TypeOK
<1>6. ASSUME NEW x \in Runs, NEW q \in Paths
      PROVE  task'[x][q] = "embedding" <=> loaded'[x][q] # Absent
  <2>1. task[x][q] = "embedding" <=> loaded[x][q] # Absent
    BY DEF IInv, TypeOK
  <2>2. QED  BY <1>1, <1>2, <1>3, <2>1
<1>7. TypeOK'
  BY <1>2, <1>3, <1>4, <1>5, <1>6 DEF OfCall, IInv, TypeOK
<1>8. QED  BY <1>1, <1>2, <1>3, <1>7, QuietStep

\* A task that has read its file preserves the invariant, whichever way it goes on.
LEMMA LoadIInv == ASSUME IInv, NEW r \in Runs, NEW p \in Paths, Load(r, p) PROVE IInv'
<1>1. task[r][p] = "loading" /\ Live(r) /\ phase[r] # "snapshot" /\ loaded[r][p] = Absent
  BY DEF Load, Live, IInv, Prepared, TypeOK
<1>2. known[r][DocOf[p]] \in Versions \cup {Absent} /\ file[p] \in Versions \cup {Unreadable}
  BY DEF IInv, TypeOK
<1>3. PICK s \in TaskStates, v \in Readings :
          /\ task' = [task EXCEPT ![r][p] = s]
          /\ loaded' = [loaded EXCEPT ![r][p] = v]
          /\ \/ s = "unreadable" /\ file[p] = Unreadable /\ v = Absent
             \/ s = "changed" /\ file[p] \in Blank /\ v = Absent
             \/ s = "unchanged" /\ known[r][DocOf[p]] = file[p] /\ v = Absent
             \/ /\ s = "embedding" /\ known[r][DocOf[p]] # file[p]
                /\ v = file[p] /\ v # Absent
  <2>1. loaded = [loaded EXCEPT ![r][p] = Absent]
    BY <1>1 DEF IInv, TypeOK
  <2>2. QED  BY <1>2, <2>1 DEF Load, Unchanged, TaskStates, Readings
<1>4. /\ task' \in [Runs -> [Paths -> TaskStates]]
      /\ task'[r][p] = s
      /\ \A q \in Paths \ {p} : task'[r][q] = task[r][q]
      /\ \A x \in Runs \ {r} : task'[x] = task[x]
  BY <1>3, OneTask DEF IInv, TypeOK
<1>5. /\ loaded' \in [Runs -> [Paths -> Readings]]
      /\ loaded'[r][p] = v
      /\ \A q \in Paths \ {p} : loaded'[r][q] = loaded[r][q]
      /\ \A x \in Runs \ {r} : loaded'[x] = loaded[x]
  BY <1>3, OneTask DEF IInv, TypeOK
<1>6. OfCall(r) /\ phase' = phase /\ events' = events
  BY <1>4, <1>5 DEF Load, OfCall
<1>7. \A q \in Paths : task'[r][q] = "embedding" <=> loaded'[r][q] # Absent
  BY <1>3, <1>4, <1>5 DEF IInv, TypeOK
<1>8. \A q \in Paths : task'[r][q] \in InSemaphore => task[r][q] \in InSemaphore
  BY <1>1, <1>4
<1>9. TypeOK'
  BY <1>4, <1>5, <1>6, <1>7, <1>8, TypesKept DEF IInv, TypeOK
<1>10. \A q \in Paths :
           \/ task'[r][q] = task[r][q] /\ loaded'[r][q] = loaded[r][q]
           \/ task'[r][q] = "unreadable" /\ file[q] = Unreadable
           \/ task'[r][q] = "changed" /\ file[q] \in Blank
           \/ task'[r][q] = "unchanged" /\ known[r][DocOf[q]] = file[q]
           \/ /\ task'[r][q] = "embedding" /\ loaded'[r][q] = file[q]
              /\ known[r][DocOf[q]] # file[q]
  BY <1>3, <1>4, <1>5
<1>11. QED  BY <1>1, <1>6, <1>9, <1>10, QuietStep

\* Storing a document preserves the invariant: nothing is written over what an
\* undisturbed call relies on.
LEMMA UpsertIInv == ASSUME IInv, NEW r \in Runs, NEW p \in Paths, Upsert(r, p) PROVE IInv'
<1>1. /\ task[r][p] = "embedding" /\ Live(r) /\ phase[r] # "snapshot"
      /\ loaded[r][p] \in Versions
  BY DEF Upsert, Live, IInv, Prepared, TypeOK, Readings
<1>2. /\ task' \in [Runs -> [Paths -> TaskStates]]
      /\ task'[r][p] = "changed"
      /\ \A q \in Paths \ {p} : task'[r][q] = task[r][q]
      /\ \A x \in Runs \ {r} : task'[x] = task[x]
  BY OneTask DEF Upsert, IInv, TypeOK, TaskStates
<1>3. /\ loaded' \in [Runs -> [Paths -> Readings]]
      /\ loaded'[r][p] = Absent
      /\ \A q \in Paths \ {p} : loaded'[r][q] = loaded[r][q]
      /\ \A x \in Runs \ {r} : loaded'[x] = loaded[x]
  <2>1. loaded' = [loaded EXCEPT ![r][p] = Absent] /\ Absent \in Readings
    BY DEF Upsert, Readings
  <2>2. QED  BY <2>1, OneTask DEF IInv, TypeOK
<1>4. UNCHANGED <<file, phase, known, history, events>>
  BY DEF Upsert
<1>5. stored' \in [Docs -> Versions \cup {Absent}] /\ stored'[DocOf[p]] = loaded[r][p]
      /\ \A d \in Docs \ {DocOf[p]} : stored'[d] = stored[d]
  BY <1>1 DEF Upsert, IInv, TypeOK
<1>6. TypeOK'
  <2>1. \A x \in Runs : Holders(x)' \subseteq Holders(x)
    BY <1>1, <1>2 DEF Holders
  <2>2. \A x \in Runs : Cardinality(Holders(x)') <= Concurrency
    BY <2>1, FewerHolders DEF IInv
  <2>3. ASSUME NEW x \in Runs, NEW q \in Paths
        PROVE  task'[x][q] = "embedding" <=> loaded'[x][q] # Absent
    <3>1. task[x][q] = "embedding" <=> loaded[x][q] # Absent
      BY DEF IInv, TypeOK
    <3>2. CASE x = r /\ q = p
      BY <3>2, <1>2, <1>3
    <3>3. CASE x # r \/ q # p
      BY <3>1, <3>3, <1>2, <1>3
    <3>4. QED  BY <3>2, <3>3
  <2>4. QED  BY <1>2, <1>3, <1>4, <1>5, <2>2, <2>3 DEF IInv, TypeOK
<1>7. \A x \in Runs \ {r} : disturbed[x]
  BY <1>1 DEF IInv, Alone
<1>8. Alone'
  <2> SUFFICES ASSUME NEW x \in Runs, NEW y \in Runs, ~disturbed[x], y # x PROVE ~Live(y)'
    BY <1>4 DEF Alone
  <2>1. ~Live(y) /\ y # r
    BY <1>7 DEF IInv, Alone
  <2>2. QED  BY <2>1, <1>2, <1>4 DEF Live
<1>9. ~disturbed[r] => loaded[r][p] \in Files(DocOf[p])
  BY <1>1 DEF IInv, UpToDate, Files
<1>10. Written'
  <2> SUFFICES ASSUME ~disturbed[r], NEW d \in Docs
               PROVE  stored'[d] = known[r][d] \/ stored'[d] \in Files(d)
    BY <1>4, <1>7 DEF Written, Files
  <2>1. QED  BY <1>5, <1>9 DEF IInv, Written
<1>11. UpToDate'
  <2>1. ASSUME NEW q \in Paths, ~disturbed[r]
        PROVE  /\ task'[r][q] = "embedding" => loaded'[r][q] = file[q]
               /\ task'[r][q] = "unchanged" => known[r][DocOf[q]] = file[q]
               /\ task'[r][q] = "changed" =>
                     file[q] \in Blank \/ stored'[DocOf[q]] \in Files(DocOf[q])
    <3>1. CASE q = p
      BY <3>1, <2>1, <1>2, <1>5, <1>9
    <3>2. CASE q # p
      BY <3>2, <2>1, <1>2, <1>3, <1>5, <1>9 DEF IInv, UpToDate
    <3>3. QED  BY <3>1, <3>2
  <2>2. \A d : Files(d)' = Files(d)
    BY <1>4 DEF Files
  <2>3. known' = known /\ file' = file /\ disturbed' = disturbed
    BY <1>4
  <2>4. QED  BY <1>7, <2>1, <2>2, <2>3 DEF UpToDate
<1>12. AllKnown'
  BY <1>4 DEF IInv, AllKnown
<1>13. Idempotent'
  <2> SUFFICES ASSUME OneFileEach, NEW x \in Runs, rerun[x], ~disturbed[x] PROVE FALSE
    BY <1>4 DEF Idempotent, NoOpRerun
  <2>1. \/ task[r][p] \in {"none", "queued", "loading", "unchanged", "crashed"}
        \/ task[r][p] = "changed" /\ file[p] \in Blank
    BY <1>7 DEF IInv, Idempotent, NoOpRerun
  <2>2. QED  BY <1>1, <2>1
<1>14. Prepared'
  BY <1>1, <1>2, <1>4 DEF IInv, Prepared
<1>15. QED  BY <1>6, <1>8, <1>10, <1>11, <1>12, <1>13, <1>14 DEF IInv

\* The end of a call preserves the invariant.
LEMMA EndIInv == ASSUME IInv, NEW r \in Runs, Finish(r) \/ Abort(r) PROVE IInv'
<1>1. /\ OfCall(r) /\ Live(r) /\ task' = task /\ loaded' = loaded /\ events' = events
      /\ phase'[r] # "snapshot"
      /\ phase' \in [Runs -> {"idle", "snapshot", "running", "finished", "failed"}]
  BY DEF Finish, Abort, OfCall, Live, IInv, TypeOK
<1>2. TypeOK'
  BY <1>1, TypesKept DEF IInv, TypeOK
<1>3. QED  BY <1>1, <1>2, QuietStep

\* A task that fails or crashes preserves the invariant.
LEMMA FaultIInv ==
    ASSUME IInv, NEW r \in Runs, NEW p \in Paths, Fail(r, p) \/ Crash(r, p)
    PROVE  IInv'
<1>1. PICK s \in {"failed", "crashed"} :
          /\ task' = [task EXCEPT ![r][p] = s]
          /\ s = "failed" => task[r][p] = "embedding"
          /\ task[r][p] \in InSemaphore
  BY DEF Fail, Crash
<1>2. Live(r) /\ phase[r] # "snapshot"
  BY <1>1 DEF Live, IInv, Prepared
<1>3. /\ task' \in [Runs -> [Paths -> TaskStates]]
      /\ task'[r][p] = s
      /\ \A q \in Paths \ {p} : task'[r][q] = task[r][q]
      /\ \A x \in Runs \ {r} : task'[x] = task[x]
  BY <1>1, OneTask DEF IInv, TypeOK, TaskStates
<1>4. /\ loaded' \in [Runs -> [Paths -> Readings]]
      /\ loaded'[r][p] = Absent
      /\ \A q \in Paths \ {p} : loaded'[r][q] = loaded[r][q]
      /\ \A x \in Runs \ {r} : loaded'[x] = loaded[x]
  <2>1. loaded' = [loaded EXCEPT ![r][p] = Absent] /\ Absent \in Readings
    BY DEF Fail, Crash, Readings
  <2>2. QED  BY <2>1, OneTask DEF IInv, TypeOK
<1>5. OfCall(r) /\ phase' = phase /\ events' \in Nat
  BY <1>3, <1>4 DEF Fail, Crash, Event, OfCall, IInv, TypeOK
<1>6. \A q \in Paths : task'[r][q] = "embedding" <=> loaded'[r][q] # Absent
  BY <1>3, <1>4 DEF IInv, TypeOK
<1>7. TypeOK'
  BY <1>3, <1>4, <1>5, <1>6, TypesKept DEF IInv, TypeOK
<1>8. ASSUME NEW q \in Paths
      PROVE  \/ task'[r][q] = task[r][q] /\ loaded'[r][q] = loaded[r][q]
             \/ task'[r][q] = "crashed"
             \/ task'[r][q] = "failed" /\ task[r][q] = "embedding"
  BY <1>1, <1>3, <1>4
<1>9. QED  BY <1>2, <1>5, <1>7, <1>8, QuietStep

\* After an edit, a delete or a restart no call is undisturbed.
LEMMA DisturbedIInv == ASSUME TypeOK', Prepared', \A r \in Runs : disturbed'[r] PROVE IInv'
BY DEF IInv, Alone, Written, UpToDate, AllKnown, Idempotent, NoOpRerun, Prepared

\* Editing a file preserves the invariant.
LEMMA EditIInv ==
    ASSUME IInv, NEW p \in Paths, NEW v \in Versions \cup {Unreadable}, Edit(p, v)
    PROVE  IInv'
<1> USE DEF Edit, Event, DisturbAll
<1>1. \A r \in Runs : Holders(r)' = Holders(r)
  BY DEF Holders
<1>2. TypeOK'
  BY <1>1 DEF IInv, TypeOK
<1>3. Prepared'
  BY DEF IInv, Prepared
<1>4. QED  BY <1>2, <1>3, DisturbedIInv

\* Deleting a document preserves the invariant.
LEMMA DeleteIInv == ASSUME IInv, NEW d \in Docs, Delete(d) PROVE IInv'
<1> USE DEF Delete, Event, DisturbAll
<1>1. \A r \in Runs : Holders(r)' = Holders(r)
  BY DEF Holders
<1>2. TypeOK'
  BY <1>1 DEF IInv, TypeOK
<1>3. Prepared'
  BY DEF IInv, Prepared
<1>4. QED  BY <1>2, <1>3, DisturbedIInv

\* A restart preserves the invariant.
LEMMA RestartIInv == ASSUME IInv, Restart PROVE IInv'
<1>1. \A r \in Runs, p \in Paths : task'[r][p] = "none" /\ loaded'[r][p] = Absent
  BY DEF Restart
<1>2. \A r \in Runs : Holders(r)' \subseteq Holders(r)
  BY <1>1 DEF Holders
<1>3. \A r \in Runs : Cardinality(Holders(r)') <= Concurrency
  BY <1>2, FewerHolders DEF IInv
<1>4. /\ task' \in [Runs -> [Paths -> TaskStates]]
      /\ loaded' \in [Runs -> [Paths -> Readings]]
  BY DEF Restart, TaskStates, Readings
<1>5. TypeOK'
  BY <1>1, <1>3, <1>4 DEF Restart, Event, DisturbAll, IInv, TypeOK
<1>6. Prepared'
  BY DEF Restart, Prepared
<1>7. QED  BY <1>5, <1>6, DisturbedIInv DEF Restart, DisturbAll

\* The invariant is inductive.
LEMMA NextIInv == IInv /\ [Next]_vars => IInv'
<1> SUFFICES ASSUME IInv, [Next]_vars PROVE IInv'
  OBVIOUS
<1>1. CASE UNCHANGED vars
  BY <1>1 DEF vars, IInv, TypeOK, Alone, Written, UpToDate, AllKnown, Idempotent, NoOpRerun,
              Prepared, Live, Holders, Files
<1>2. ASSUME NEW r \in Runs, Start(r) PROVE IInv'
  BY <1>2, StartIInv
<1>3. ASSUME NEW r \in Runs, Step(r) PROVE IInv'
  BY <1>3, SpawnIInv, EndIInv DEF Step
<1>4. ASSUME NEW r \in Runs, NEW p \in Paths, TaskStep(r, p) PROVE IInv'
  BY <1>4, AcquireIInv, LoadIInv, UpsertIInv DEF TaskStep
<1>5. CASE Environment
  BY <1>5, FaultIInv, EditIInv, DeleteIInv, RestartIInv DEF Environment
<1>6. QED  BY <1>1, <1>2, <1>3, <1>4, <1>5 DEF Next

----------------------------------------------------------------------------

\* The inductive invariant holds in every reachable state.
THEOREM IInvHolds == Safety => []IInv
BY InitIInv, NextIInv, PTL DEF Safety

\* The variables keep their types, and no call ever has more tasks past its
\* semaphore than ingest_concurrency allows (pipeline.py:85, 136).
THEOREM TypeCorrect == Safety => []TypeOK
<1>1. IInv => TypeOK
  BY DEF IInv
<1>2. QED  BY <1>1, IInvHolds, PTL

\* A call that nothing disturbed leaves every document it reports as changed or
\* unchanged stored as a file of that document is on disk, or, if the file is blank, as
\* the call found it (pipeline.py:93-119).
THEOREM RunsSync == Safety => []UndisturbedRunSyncs
<1>1. ASSUME IInv, NEW r \in Runs, NEW p \in Paths,
             ~disturbed[r], task[r][p] \in {"unchanged", "changed"}
      PROVE  \/ stored[DocOf[p]] \in Files(DocOf[p])
             \/ file[p] \in Blank /\ stored[DocOf[p]] = known[r][DocOf[p]]
  <2>1. file[p] \in Files(DocOf[p]) /\ DocOf[p] \in Docs
    BY DEF Files
  <2>2. QED  BY <1>1, <2>1 DEF IInv, Written, UpToDate
<1>2. IInv => UndisturbedRunSyncs
  BY <1>1 DEF UndisturbedRunSyncs
<1>3. QED  BY <1>2, IInvHolds, PTL

\* When no two files claim one document id, re-running ingestion over an unchanged
\* corpus embeds nothing and reports no change but of blank files (pipeline.py:3-5, 93-103).
THEOREM RerunIsNoOp == ASSUME OneFileEach PROVE Safety => []NoOpRerun
<1>1. IInv => NoOpRerun
  BY DEF IInv, Idempotent
<1>2. QED  BY <1>1, IInvHolds, PTL
=============================================================================

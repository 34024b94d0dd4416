----------------------------- MODULE Answering ------------------------------
(***************************************************************************)
(* What service.py decides and composes once the chunks are retrieved:     *)
(* whether to refuse (guardrails/refusal.py), an answer extracted without  *)
(* a language model (generate/extractive.py), and the verification of an   *)
(* answer against its sources (guardrails/grounding.py).                   *)
(*                                                                         *)
(* A sentence is a record of what it says and of the [n] markers in it; an *)
(* answer is a list of sentences, and whether it states that the sources   *)
(* are insufficient.  The sources of an answer are the retrieved chunks,   *)
(* numbered from one (generate/prompts.py, render_sources).                *)
(***************************************************************************)
EXTENDS Integers, Sequences, FiniteSets, SequencesExt, Lists

CONSTANTS
    Nothing,        \* what a sentence of markers alone says
    SentencesOf,    \* chunk text -> its sentences
    TooShort,       \* what sentences below MIN_SENTENCE_CHARS say
    Likeness,       \* cosine of what is said, or of a text, with a text or claim
    MinConfidence, MinSources, ExtractiveSentences, GroundingThreshold,
    NoScore         \* None: the chunk has no rerank score, or nothing supports it

Sentence(says, marks) == [says |-> says, marks |-> marks]
Sentences == [says : DOMAIN Likeness \cup {Nothing}, marks : Seq(Nat)]
Answers == [sentences : Seq(Sentences), insufficient : BOOLEAN]

ASSUME AnsweringAssumption ==
    /\ \A t \in DOMAIN SentencesOf : SentencesOf[t] \in Seq(Sentences)
    /\ {MinConfidence, GroundingThreshold} \subseteq Int /\ NoScore \notin Int
    /\ {MinSources, ExtractiveSentences} \subseteq Nat

Insufficient == [sentences |-> <<>>, insufficient |-> TRUE]
Blank == [sentences |-> <<>>, insufficient |-> FALSE]

\* A chosen index of a list: the first that no other betters.
FirstBest(list) ==
    CHOOSE i \in DOMAIN list : /\ \A j \in DOMAIN list : list[j] <= list[i]
                               /\ \A j \in 1..(i - 1) : list[j] < list[i]

----------------------------------------------------------------------------
\* guardrails/refusal.py

\* Mutant: the count of the sources alone decides.
RefusedByCount(scores) == Len(scores) < MinSources

\* The rerank scores decide where there are any, else the number of chunks.
Refused(scores) ==
    LET calibrated == {n \in DOMAIN scores : scores[n] # NoScore}
        usable == {n \in calibrated : scores[n] >= MinConfidence}
    IN  \/ scores = <<>>
        \/ calibrated = {} /\ Len(scores) < MinSources
        \/ calibrated # {} /\ (usable = {} \/ Cardinality(usable) < MinSources)

----------------------------------------------------------------------------
\* generate/extractive.py

\* The sentences that are long enough, by source and position.
Candidates(texts) ==
    UNION {{<<i, p>> : p \in {q \in DOMAIN SentencesOf[texts[i]] :
                                SentencesOf[texts[i]][q].says \notin TooShort}} : i \in DOMAIN texts}

Earlier(a, b) == a[1] < b[1] \/ (a[1] = b[1] /\ a[2] < b[2])

\* The members of a set that have fewer than n of it before them.
Foremost(S, n, Before(_, _)) == {a \in S : Cardinality({b \in S : Before(b, a)}) < n}

InOrder(S, Before(_, _)) ==
    [n \in 1..Cardinality(S) |-> CHOOSE a \in S : Cardinality({b \in S : Before(b, a)}) = n - 1]

\* The sentences nearest to the query, in source order, each with the marker of
\* its source after whatever markers it has of its own.
Extract(query, texts) ==
    LET said(c) == SentencesOf[texts[c[1]]][c[2]]
        nearer(a, b) == LET la == Likeness[query][said(a).says]
                            lb == Likeness[query][said(b).says]
                        IN  la > lb \/ (la = lb /\ Earlier(a, b))
        chosen == InOrder(Foremost(Candidates(texts), ExtractiveSentences, nearer), Earlier)
    IN  IF chosen = <<>> THEN Insufficient
        ELSE [sentences |-> [n \in DOMAIN chosen |->
                                Sentence(said(chosen[n]).says,
                                         Append(said(chosen[n]).marks, chosen[n][1]))],
              insufficient |-> FALSE]

----------------------------------------------------------------------------
\* guardrails/grounding.py

\* Every marker of the answer once, in order of appearance.
Markers(answer) ==
    LET all == FlattenSeq([i \in DOMAIN answer.sentences |-> answer.sentences[i].marks])
    IN  FoldLeft(LAMBDA seen, m : IF Contains(seen, m) THEN seen ELSE Append(seen, m), <<>>, all)

\* The markers with the chunk each points at, if it points at a source.
Citations(answer, ids) ==
    LET marks == Markers(answer)
    IN  [n \in DOMAIN marks |-> [marker |-> marks[n],
                                 id |-> IF marks[n] \in DOMAIN ids THEN ids[marks[n]] ELSE NoScore]]

\* Mutant: a marker that points nowhere is no defect.
IgnoreUnresolved(answer, ids) == {}
Unresolved(answer, ids) ==
    (UNION {ToSet(answer.sentences[n].marks) : n \in DOMAIN answer.sentences}) \ DOMAIN ids

\* A sentence, its best source and whether that is near enough.
Grade(sentence, ids, texts) ==
    LET likeness == [i \in DOMAIN texts |-> Likeness[sentence.says][texts[i]]]
        best == FirstBest(likeness)
        supported == likeness[best] >= GroundingThreshold
    IN  [sentence |-> sentence, grounded |-> supported,
         support |-> IF supported THEN ids[best] ELSE NoScore]

Report(sentences, flagged, unresolved, grounded) ==
    [sentences |-> sentences, flagged |-> flagged, unresolved |-> unresolved, grounded |-> grounded]

\* An admission of insufficiency claims nothing; an answer without sentences or
\* without sources is not grounded; else every sentence and every marker must be.
Verify(answer, ids, texts) ==
    LET spoken == Filtered(answer.sentences, {s \in ToSet(answer.sentences) : s.says = Nothing})
        graded == [n \in DOMAIN spoken |-> Grade(spoken[n], ids, texts)]
        flagged == Filtered(graded, {g \in ToSet(graded) : g.grounded})
        unresolved == Unresolved(answer, ids)
    IN  IF answer.insufficient THEN Report(<<>>, <<>>, unresolved, TRUE)
        ELSE IF spoken = <<>> \/ texts = <<>> THEN Report(<<>>, spoken, unresolved, FALSE)
        ELSE Report(graded, flagged, unresolved, flagged = <<>> /\ unresolved = {})
=============================================================================

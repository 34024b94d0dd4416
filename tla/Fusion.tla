------------------------------- MODULE Fusion -------------------------------
(***************************************************************************)
(* retrieve/fusion.py: combining ranked candidate lists by reciprocal      *)
(* ranks or by weighted scores.  A fused score is an integer, in units of  *)
(* one Scale-th; Scale is a multiple of the denominators that occur.       *)
(***************************************************************************)
EXTENDS Integers, Sequences, FiniteSets, SequencesExt, Lists

CONSTANTS
    Ids,        \* chunk ids
    IdRank,     \* their order as strings, which breaks ties between scores
    None,       \* Python's None
    Scale

ASSUME FusionAssumption ==
    /\ IsFiniteSet(Ids) /\ IdRank \in [Ids -> Int] /\ IsInjective(IdRank)
    /\ None \notin Int /\ Scale \in Nat

StageFields == {"denseScore", "lexicalScore", "fusionScore", "rerankScore",
                "denseRank", "lexicalRank", "fusedRank", "finalRank"}
NoStages == [f \in StageFields |-> None]

\* A set of ids as a list, the one with the most before it last.
Ordered(S, Before(_, _)) ==
    [n \in 1..Cardinality(S) |->
        CHOOSE a \in S : Cardinality({b \in S : Before(b, a)}) = n - 1]

\* Mutant: the worst score first.
ByLowScore(S, score) ==
    Ordered(S, LAMBDA a, b : \/ score[a] < score[b]
                             \/ score[a] = score[b] /\ IdRank[a] < IdRank[b])

\* Descending score, then ascending id.
ByScore(S, score) ==
    Ordered(S, LAMBDA a, b : \/ score[a] > score[b]
                             \/ score[a] = score[b] /\ IdRank[a] < IdRank[b])

----------------------------------------------------------------------------

IdsIn(list) == {list[r].id : r \in DOMAIN list}
AllIds(lists) == UNION {IdsIn(lists[i]) : i \in DOMAIN lists}
RankOf(list, id) == CHOOSE r \in DOMAIN list : list[r].id = id

\* Mutant: the second list's evidence is dropped.
KeepFirst(first, second) == first

\* Whichever value is present, the first record's before the second's.
MergeStages(first, second) ==
    [f \in StageFields |-> IF first[f] # None THEN first[f] ELSE second[f]]

Candidate(id, text, score, stages) == [id |-> id, text |-> text, score |-> score, stages |-> stages]
Held(list, id) == list[RankOf(list, id)]

\* Every candidate by its id, as the first list that has it has it, with the
\* stages of all.
Collect(lists) ==
    LET collected[i \in 0..Len(lists)] ==
            IF i = 0 THEN <<>>
            ELSE LET before == collected[i - 1]
                     merged(c, d) == Candidate(c.id, c.text, c.score, MergeStages(c.stages, d.stages))
                 IN  [id \in DOMAIN before \cup IdsIn(lists[i]) |->
                         IF id \notin DOMAIN before THEN Held(lists[i], id)
                         ELSE IF id \notin IdsIn(lists[i]) THEN before[id]
                         ELSE merged(before[id], Held(lists[i], id))]
    IN  collected[Len(lists)]

\* Per id, the sum over the lists of what its rank there is worth.
Totals(lists, worth) ==
    [id \in AllIds(lists) |->
        Total([i \in DOMAIN lists |-> IF id \in IdsIn(lists[i]) THEN worth[i][RankOf(lists[i], id)] ELSE 0])]

\* The fused list, with the fused score and rank stamped on it.
Finalise(scores, candidates) ==
    LET order == ByScore(DOMAIN scores, scores)
    IN  [n \in DOMAIN order |->
            LET c == candidates[order[n]]
                score == scores[order[n]]
            IN  Candidate(c.id, c.text, score,
                          [c.stages EXCEPT !["fusionScore"] = score, !["fusedRank"] = n])]

ReciprocalRankFusion(lists, k) ==
    Finalise(Totals(lists, [i \in DOMAIN lists |-> [rank \in DOMAIN lists[i] |-> Scale \div (k + rank)]]),
             Collect(lists))

\* The weighted score at a rank of the list, scaled to 0..1; a list of equals is
\* all ones.
MinMax(list, rank, weight) ==
    LET scores == {list[r].score : r \in DOMAIN list}
        spread == Max(scores) - Min(scores)
    IN  IF spread = 0 THEN (Scale * weight[1]) \div weight[2]
        ELSE (Scale * weight[1] * (list[rank].score - Min(scores))) \div (weight[2] * spread)

WeightedScoreFusion(lists, weights) ==
    Finalise(Totals(lists, [i \in DOMAIN lists |-> [rank \in DOMAIN lists[i] |->
                                MinMax(lists[i], rank, weights[i])]]),
             Collect(lists))

\* With exactly two lists the configured weight is the first one's.
Weights(lists, config) ==
    IF Len(lists) = 2
    THEN <<config.denseWeight, <<config.denseWeight[2] - config.denseWeight[1], config.denseWeight[2]>> >>
    ELSE [i \in DOMAIN lists |-> <<1, Len(lists)>>]

\* Mutant: one list after the other.
Concatenate(lists, config) == FlattenSeq(lists)

Fuse(lists, config) ==
    IF config.fusion = "rrf" THEN ReciprocalRankFusion(lists, config.rrfK)
    ELSE WeightedScoreFusion(lists, Weights(lists, config))
=============================================================================

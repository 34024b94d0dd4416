------------------------------- MODULE Metrics -------------------------------
(***************************************************************************)
(* eval/metrics.py: what is relevant to a golden question, and what a      *)
(* ranking is worth.                                                       *)
(*                                                                         *)
(* A text is a list of characters with its whitespace already collapsed, a *)
(* chunk is a record of its document, its start and its text, a question   *)
(* has the set of its verbatim spans and the set of documents it names.    *)
(* Metrics are fractions <<numerator, denominator>>.                       *)
(***************************************************************************)
EXTENDS Integers, Sequences, FiniteSets, SequencesExt, Lists

CONSTANTS
    MinOverlap,     \* how much of a span a chunk has to share
    Discount        \* position -> 1 / log2(position + 1), scaled to integers

ASSUME MetricsAssumption ==
    /\ MinOverlap \in Nat \ {0} /\ Discount \in Seq(Int)
    /\ \A n \in DOMAIN Discount : Discount[n] > 0 /\ (n > 1 => Discount[n] < Discount[n - 1])

Within(needle, haystack) ==
    \E at \in 0..(Len(haystack) - Len(needle)) : SubSeq(haystack, at + 1, at + Len(needle)) = needle

OverlapsSpan(chunkText, span) ==
    /\ chunkText # <<>> /\ span # <<>>
    /\ \/ Within(span, chunkText)
       \/ \E start \in 0..(Len(span) - MinOverlap) :
              Within(SubSeq(span, start + 1, start + MinOverlap), chunkText)

\* The document need not be one the question names.
MatchesGolden(chunk, entry) == \E span \in entry.spans : OverlapsSpan(chunk.text, span)

RelevanceFlags(ranking, entry) == [n \in DOMAIN ranking |-> MatchesGolden(ranking[n], entry)]

CountRelevant(scope, entry) == Cardinality({chunk \in scope : MatchesGolden(chunk, entry)})

----------------------------------------------------------------------------

Top(flags, k) == 1..Min({k, Len(flags)})

Found(flags, k) == Cardinality({n \in Top(flags, k) : flags[n]})

Recall(flags, total, k) == IF total = 0 THEN <<0, 1>> ELSE <<Min({Found(flags, k), total}), total>>

Precision(flags, k) == <<Found(flags, k), k>>

HitRate(flags, k) == <<IF Found(flags, k) > 0 THEN 1 ELSE 0, 1>>

ReciprocalRank(flags) ==
    LET relevant == {n \in DOMAIN flags : flags[n]}
    IN  IF relevant = {} THEN <<0, 1>> ELSE <<1, Min(relevant)>>

\* The sum of the discounts of these positions.
Gain(positions) == Total([n \in DOMAIN Discount |-> IF n \in positions THEN Discount[n] ELSE 0])

DCG(flags, k) == Gain({n \in Top(flags, k) : flags[n]})

\* Mutant: the ideal ordering has only what was retrieved.
OfRetrieved(positive, total) == positive
\* How many relevant chunks the ideal ordering starts with: those that were never
\* retrieved count too.
IdealLength(positive, total) == Max({positive, total})

NDCG(flags, total, k) ==
    LET ideal == Gain(1..Min({k, IdealLength(Found(flags, Len(flags)), total)}))
    IN  IF ideal = 0 THEN <<0, 1>> ELSE <<DCG(flags, k), ideal>>

\* refusal_accuracy, citation_precision: the share of TRUE, none of nothing.
Share(flags) == <<Found(flags, Len(flags)), Max({1, Len(flags)})>>
=============================================================================

------------------------------ MODULE Chunking ------------------------------
(***************************************************************************)
(* ingest/chunker.py: splitting a document into chunks.                    *)
(*                                                                         *)
(* A text is a list of pieces, each of a kind: a word, a word that ends a  *)
(* sentence, a heading line, a rule whose tokens consume no characters.    *)
(* Whitespace is what lies between pieces, so that a range of pieces is    *)
(* always trimmed; some kinds are followed by a blank line.  A loader      *)
(* records labelled spans over the text, from each HTML, docx or markdown  *)
(* heading to the next or over each PDF page; some kinds open a span.      *)
(***************************************************************************)
EXTENDS Lists, SequencesExt

CONSTANTS
    Kinds,          \* kinds of pieces
    HeadingLevel,   \* kind -> how many # a heading line has, 0 for other text
    Title,          \* kind -> heading title
    Label,          \* kind -> the label of the span that it opens, or NoLabel
    NoLabel,
    EndsSentence,   \* kinds that end a sentence
    EndsParagraph,  \* kinds followed by a blank line
    Tokens,         \* kind -> how many tokens it is counted as
    Sliceable,      \* kinds whose token consumes characters, one each
    Bodies,         \* the texts chunked
    Strategies,     \* {"fixed", "recursive", "semantic"}
    Sizes,          \* the chunk sizes configured
    Overlap

ASSUME ChunkingAssumption ==
    /\ HeadingLevel \in [Kinds -> Nat] /\ DOMAIN Title = Kinds /\ DOMAIN Label = Kinds
    /\ Tokens \in [Kinds -> Nat] /\ \A kind \in Sliceable : Tokens[kind] = 1
    /\ Bodies # {} /\ Bodies \subseteq Seq(Kinds) /\ Strategies # {} /\ Sizes # {}
    /\ Overlap \in Nat /\ \A n \in Sizes : n \in Nat /\ n > Overlap

VARIABLES
    text,           \* the document's
    strategy,
    size,           \* in tokens
    chunked,        \* chunk has returned
    chunkList       \* what it returned

chunkVars == <<text, strategy, size, chunked, chunkList>>

\* A candidate, or a chunk: a range of pieces and the section it came from.
Piece(first, last, section) == [first |-> first, last |-> last, section |-> section]

\* Tokenizer.count_tokens and token_spans: the positions that can be cut at, or all
\* of them when none can.
CountTokens(t, first, last) ==
    Total([n \in 1..(last - first + 1) |-> Tokens[t[first + n - 1]]])

TokenSpans(t, first, last) ==
    LET usable == {p \in first..last : t[p] \in Sliceable}
    IN  PlacesIn(t, IF usable = {} THEN first..last ELSE usable)

\* Windows over that many tokens, up to the first that reaches the last token.
TokenWindows(count, width, stride) ==
    LET reaches == {n \in 1..count : (n - 1) * stride + width >= count}
        final == CHOOSE n \in reaches : \A m \in reaches : n <= m
    IN  [n \in 1..(IF count = 0 THEN 0 ELSE final) |->
            <<(n - 1) * stride + 1, Min({(n - 1) * stride + width, count})>>]

\* An oversized range in pieces that do not overlap.  The true count decides, the
\* sliceable spans cut.
HardSplit(t, range, max) ==
    LET spans == TokenSpans(t, range.first, range.last)
        windows == TokenWindows(Len(spans), max, max)
    IN  IF CountTokens(t, range.first, range.last) <= max THEN <<range>>
        ELSE [n \in DOMAIN windows |->
                 Piece(spans[windows[n][1]], spans[windows[n][2]], range.section)]

\* _span_at: the label, as a path, of the span a piece lies in.
LabelAt(t, place) ==
    LET path[p \in 0..Len(t)] ==
            IF p = 0 THEN <<>>
            ELSE IF Label[t[p]] # NoLabel THEN <<Label[t[p]]>> ELSE path[p - 1]
    IN  path[place]

\* A chunk without a section takes the label of the span it starts in.
Labelled(t, piece) ==
    IF piece.section = <<>> THEN [piece EXCEPT !.section = LabelAt(t, piece.first)] ELSE piece

\* Candidates are split where they are over the cap; of the pieces that start together
\* the first one stays.
Picked(t, candidates, max) ==
    LET pieces == Flat([n \in DOMAIN candidates |-> HardSplit(t, candidates[n], max)])
        fresh == {n \in DOMAIN pieces : \A m \in 1..(n - 1) : pieces[m].first # pieces[n].first}
        kept == PlacesIn(pieces, fresh)
    IN  [n \in DOMAIN kept |-> pieces[kept[n]]]

\* They become chunks.  The page number, from the same span as the label, is left out.
Finalise(t, candidates, max) ==
    LET picked == Picked(t, candidates, max)
    IN  [n \in DOMAIN picked |-> Labelled(t, picked[n])]

----------------------------------------------------------------------------
\* FixedTokenChunker

FixedToken(t, max) ==
    LET spans == TokenSpans(t, 1, Len(t))
        windows == TokenWindows(Len(spans), max, max - Overlap)
    IN  Finalise(t, [n \in DOMAIN windows |->
                        Piece(spans[windows[n][1]], spans[windows[n][2]], <<>>)], max)

----------------------------------------------------------------------------
\* RecursiveStructuralChunker

IsHeading(kind) == HeadingLevel[kind] > 0

\* The stack of titles after a piece: a heading keeps as many of the titles before it as
\* its level is deep, whatever levels these were of.
Under(stack, kind) ==
    IF IsHeading(kind)
    THEN Append(SubSeq(stack, 1, Min({HeadingLevel[kind] - 1, Len(stack)})), Title[kind])
    ELSE stack

Section(t, place) ==
    LET stack[p \in 0..Len(t)] == IF p = 0 THEN <<>> ELSE Under(stack[p - 1], t[p])
    IN  stack[place]

\* A block starts at a heading and after a blank line.
StartsBlock(t, p) == p = 1 \/ IsHeading(t[p]) \/ t[p - 1] \in EndsParagraph

\* The ranges from each of these starts to the next, or to the last piece.
Between(t, starts, last, section) ==
    LET from == PlacesIn(t, starts)
    IN  [n \in DOMAIN from |->
            Piece(from[n], IF n = Len(from) THEN last ELSE from[n + 1] - 1, section[from[n]])]

Blocks(t) ==
    Between(t, {p \in DOMAIN t : StartsBlock(t, p)}, Len(t), [p \in DOMAIN t |-> Section(t, p)])

SentenceStarts(t, first, last) ==
    {p \in first..last : p = first \/ t[p - 1] \in EndsSentence}

\* The list with one more range: a range of its own, or the end of the last one.
Extended(list, range, joins) ==
    IF joins THEN Append(Front(list), [Last(list) EXCEPT !.last = range.last]) ELSE Append(list, range)

\* The sentence joins the group if the target allows it, else it starts the next;
\* groups are sized by the sum of their sentences.
Group(t, target, groups, sentence) ==
    Extended(groups, sentence,
        /\ groups # <<>>
        /\ CountTokens(t, Last(groups).first, Last(groups).last)
           + CountTokens(t, sentence.first, sentence.last) <= target)

SplitLarge(t, block, target) ==
    LET sentences == Between(t, SentenceStarts(t, block.first, block.last), block.last,
                             [p \in DOMAIN t |-> block.section])
        groups[n \in 0..Len(sentences)] ==
            IF n = 0 THEN <<>> ELSE Group(t, target, groups[n - 1], sentences[n])
    IN  groups[Len(sentences)]

\* Mutant: the sections are not compared.
AnySection(current, block) == TRUE
SameSection(current, block) == current.section = block.section

Merge(t, target, merged, block) ==
    Extended(merged, block,
        /\ merged # <<>>
        /\ SameSection(Last(merged), block)
        /\ CountTokens(t, Last(merged).first, block.last) <= target)

Fitting(t, block, target) ==
    IF CountTokens(t, block.first, block.last) > target THEN SplitLarge(t, block, target) ELSE <<block>>

RecursiveStructural(t, target) ==
    LET blocks == Blocks(t)
        fitting == Flat([n \in DOMAIN blocks |-> Fitting(t, blocks[n], target)])
        merged[n \in 0..Len(fitting)] ==
            IF n = 0 THEN <<>> ELSE Merge(t, target, merged[n - 1], fitting[n])
    IN  Finalise(t, merged[Len(fitting)], target)

----------------------------------------------------------------------------
\* SemanticChunker

\* The sentences that are further from the one before than the percentile of all
\* distances: any but all of them, as the least distance never is.
Divergent(t) ==
    LET later == SentenceStarts(t, 1, Len(t)) \ {1}
    IN  {far \in SUBSET later : later # {} => far # later}

Semantic(t, max, far) ==
    Finalise(t, Between(t, {1} \cup far, Len(t), [p \in DOMAIN t |-> <<>>]), max)

----------------------------------------------------------------------------

ChunkStart(t, s, n) == text = t /\ strategy = s /\ size = n /\ chunked = FALSE /\ chunkList = <<>>

ChunkInit == \E t \in Bodies, s \in Strategies, n \in Sizes : ChunkStart(t, s, n)

\* A text without pieces has no chunks.
Chunk ==
    /\ ~chunked
    /\ chunked' = TRUE
    /\ \/ strategy = "fixed" /\ chunkList' = FixedToken(text, size)
       \/ strategy = "recursive" /\ chunkList' = RecursiveStructural(text, size)
       \/ /\ strategy = "semantic"
          /\ \E far \in Divergent(text) : chunkList' = Semantic(text, size, far)
    /\ UNCHANGED <<text, strategy, size>>

ChunkSpec == ChunkInit /\ [][Chunk]_chunkVars

----------------------------------------------------------------------------

\* The section a reader finds a piece in: that of the markdown headings, else the
\* page or heading whose span it lies in.
SectionOf(t, p) == IF Section(t, p) = <<>> THEN LabelAt(t, p) ELSE Section(t, p)

\* What list should be as the chunks of t.
Sound(t, s, max, list) ==
    /\ \A n \in DOMAIN list : list[n].first \in DOMAIN t /\ list[n].last \in list[n].first..Len(t)
    /\ \A m, n \in DOMAIN list : m < n =>
          /\ list[m].first < list[n].first
          /\ s # "fixed" => list[m].last < list[n].first
    /\ \A p \in DOMAIN t : t[p] \in Sliceable =>
          \E n \in DOMAIN list : p \in list[n].first..list[n].last
    /\ \A n \in DOMAIN list :
          \/ CountTokens(t, list[n].first, list[n].last) <= max
          \/ Cardinality({p \in list[n].first..list[n].last : t[p] \in Sliceable}) <= max
             /\ \E p \in list[n].first..list[n].last : t[p] \notin Sliceable
    /\ s = "recursive" =>
          \A n \in DOMAIN list :
              /\ list[n].section = SectionOf(t, list[n].first)
              /\ \A p \in list[n].first..list[n].last : Section(t, p) = Section(t, list[n].first)

\* Whatever the strategy: the chunks are ranges of the text, in order, no two share
\* the start their ids are made of, and together they have every piece that has
\* characters of its own; only fixed windows overlap.  No chunk exceeds the cap unless tokens that
\* consume no characters take it there.  A recursive chunk keeps to one section of
\* markdown headings, whose path it carries; with none, it carries the label of the
\* page or heading it starts under, which need not be that of the rest of its text
\* (chunker.py:126-190; SectionsHonest).
ChunksSound == chunked => Sound(text, strategy, size, chunkList)

\* "Structural chunking never merges across a heading boundary" (chunker.py:14-16), "so
\* that every chunk's section_path is literally true of all its text"
\* (chunker.py:231-235).
SectionsHonest ==
    chunked /\ strategy = "recursive" =>
        \A n \in DOMAIN chunkList : \A p \in chunkList[n].first..chunkList[n].last :
            chunkList[n].section = SectionOf(text, p)
=============================================================================

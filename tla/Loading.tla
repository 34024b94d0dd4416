------------------------------- MODULE Loading -------------------------------
(***************************************************************************)
(* ingest/loaders.py: the text of a document laid out from the blocks of   *)
(* its file, with the spans of pages and headings recorded on the way.     *)
(*                                                                         *)
(* A file is a list of blocks, each a record of its text, as a list of     *)
(* characters, and whether it is a heading.  Offsets count from zero.      *)
(***************************************************************************)
EXTENDS Lists, SequencesExt

CONSTANTS
    Characters,
    Files,          \* the lists of blocks
    Formats,        \* {"docx", "pdf"}: how a file is laid out; HTML is as docx
    Separator       \* the characters between blocks

FileBlocks == [text : Seq(Characters), heading : BOOLEAN]

ASSUME LoadingAssumption ==
    /\ Files # {} /\ Files \subseteq Seq(FileBlocks)
    /\ Formats # {} /\ Formats \subseteq {"docx", "pdf"}
    /\ Separator \in Seq(Characters)

VARIABLES
    file, format,
    loaded,         \* load has returned
    document        \* the text and its spans

loadVars == <<file, format, loaded, document>>

Span(page, start, end, label) == [page |-> page, start |-> start, end |-> end, label |-> label]

\* Blocks without text are not laid out; the others have the numbers Laid in the file.
Laid(blocks) == PlacesIn(blocks, {n \in DOMAIN blocks : blocks[n].text # <<>>})
WithText(blocks) == [i \in DOMAIN Laid(blocks) |-> blocks[Laid(blocks)[i]]]

\* str.join.
Joined(blocks) ==
    LET body[n \in 0..Len(blocks)] ==
            IF n = 0 THEN <<>>
            ELSE IF n = 1 THEN blocks[1].text
            ELSE body[n - 1] \o Separator \o blocks[n].text
    IN  body[Len(blocks)]

\* Mutant: the separators are not counted.
WithoutSeparators(blocks, place) ==
    LET cursor[n \in 0..Len(blocks)] == IF n = 0 THEN 0 ELSE cursor[n - 1] + Len(blocks[n].text)
    IN  cursor[place - 1]

\* The running offset at which the block at a place starts.
StartOf(blocks, place) ==
    LET cursor[n \in 0..Len(blocks)] ==
            IF n = 0 THEN 0 ELSE cursor[n - 1] + Len(blocks[n].text) + Len(Separator)
    IN  cursor[place - 1]

\* _assemble: one span per heading, up to the next heading of any level.
Assemble(blocks) ==
    LET body == Joined(blocks)
        headings == PlacesIn(blocks, {n \in DOMAIN blocks : blocks[n].heading})
    IN  [text |-> body,
         spans |-> [i \in DOMAIN headings |->
            Span(i, StartOf(blocks, headings[i]),
                 IF i = Len(headings) THEN Len(body) ELSE StartOf(blocks, headings[i + 1]),
                 blocks[headings[i]].text)]]

\* PdfLoader: one span per page that has text, with the number it has in the file.
Paged(blocks) ==
    LET pages == WithText(blocks)
    IN  [text |-> Joined(pages),
         spans |-> [i \in DOMAIN pages |->
            Span(Laid(blocks)[i], StartOf(pages, i), StartOf(pages, i) + Len(pages[i].text), <<>>)]]

LoadStart(blocks, kind) ==
    file = blocks /\ format = kind /\ loaded = FALSE /\ document = [text |-> <<>>, spans |-> <<>>]

LoadInit == \E blocks \in Files, kind \in Formats : LoadStart(blocks, kind)

Load == /\ ~loaded
        /\ loaded' = TRUE
        /\ \/ format = "pdf" /\ document' = Paged(file)
           \/ format = "docx" /\ document' = Assemble(WithText(file))
        /\ UNCHANGED <<file, format>>

----------------------------------------------------------------------------

Cut(text, start, end) == SubSeq(text, start + 1, end)

\* The spans land exactly on the joined text: a heading's span begins with its
\* heading, each span ends where the next begins, and a page's span is its text
\* and carries its number in the file (loaders.py:134-161, 308-325).
SpansExact ==
    loaded => \A i \in DOMAIN document.spans :
        LET span == document.spans[i]
            covered == Cut(document.text, span.start, span.end)
        IN  /\ format = "pdf" => covered = file[span.page].text
            /\ format = "docx" =>
                  /\ SubSeq(covered, 1, Len(span.label)) = span.label
                  /\ i < Len(document.spans) => span.end = document.spans[i + 1].start
                  /\ i = Len(document.spans) => span.end = Len(document.text)
                  /\ span.start > 0 => Cut(document.text, span.start - Len(Separator), span.start) = Separator
=============================================================================

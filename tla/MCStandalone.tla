---------------------------- MODULE MCStandalone ----------------------------
(***************************************************************************)
(* Small instances of the parts that stand alone.                          *)
(***************************************************************************)
EXTENDS Standalone

\* The store: two documents, two start offsets, two texts.  The uploads re-ingest
\* document 1 with the same ids and another text, with one chunk more, and with one
\* less; document 2 carries other metadata; one upload comes from an embedder of
\* another width.
MCDocs == {1, 2}
MCStarts == {0, 5}
MCTexts == {"x", "y"}
MCDimOf == [s \in {"bge", "other"} |-> IF s = "bge" THEN 3 ELSE 4]
MCScore == [t \in MCTexts |-> IF t = "x" THEN 1 ELSE 2]
MCIdRank == [c \in MCDocs \X MCStarts |-> 10 * c[1] - c[2]]
Rec(s, t) == [start |-> s, text |-> t]
MCUploads == {
    [doc |-> 1, hash |-> "h1", meta |-> "m", dim |-> 3, records |-> <<Rec(0, "x")>>],
    [doc |-> 1, hash |-> "h2", meta |-> "m", dim |-> 3, records |-> <<Rec(0, "y")>>],
    [doc |-> 1, hash |-> "h3", meta |-> "n", dim |-> 3, records |-> <<Rec(0, "x"), Rec(5, "y")>>],
    [doc |-> 2, hash |-> "h1", meta |-> "n", dim |-> 3, records |-> <<Rec(0, "x"), Rec(5, "x")>>],
    [doc |-> 2, hash |-> "h2", meta |-> "n", dim |-> 4, records |-> <<Rec(5, "y")>>]}
MCQueries == {[dim |-> 3, zero |-> FALSE], [dim |-> 4, zero |-> FALSE], [dim |-> 3, zero |-> TRUE]}

\* Chunking: words, a rule, headings of two levels that markdown spans start at, at most
\* four pieces; and blocks of an HTML text, at most four, some of them headings, which
\* carry no mark in the text.
MCMarkdown == {"w", "w.", "w|", "rule", "A", "B", "b"}
MCHtml == {"w|", "H1|", "H2|"}
MCKinds == MCMarkdown \cup MCHtml
MCLevel == [k \in MCKinds |-> IF k \in {"A", "B"} THEN 1 ELSE IF k = "b" THEN 2 ELSE 0]
MCTitle == [k \in MCKinds |-> k]
MCLabel == [k \in MCKinds |-> IF k \in {"A", "B", "b", "H1|", "H2|"} THEN k ELSE "none"]
MCTokens == [k \in MCKinds |-> IF k = "rule" THEN 2 ELSE 1]
MCSliceable == MCKinds \ {"rule"}
MCBodies == UNION {[1..n -> MCMarkdown] \cup [1..n -> MCHtml] : n \in 0..4}

\* Loading: blocks of up to two characters, some of them headings.
MCCharacters == {"x", "y", "n"}
MCBlocks == [text : {<<>>, <<"x">>, <<"x", "y">>}, heading : BOOLEAN]
MCFiles == UNION {[1..n -> MCBlocks] : n \in 0..3}
MCSeparator == <<"n", "n">>

\* Evaluation: two documents, cut into chunks in two ways.
Cut2(doc, whole, at) == {[doc |-> doc, start |-> 0, text |-> SubSeq(whole, 1, at)],
                        [doc |-> doc, start |-> at, text |-> SubSeq(whole, at + 1, Len(whole))]}
Doc1 == <<1, 2, 3, 4, 5>>
Doc2 == <<6, 4, 5, 7>>
MCIndexOf == [s \in {"fixed", "recursive"} |->
    IF s = "fixed" THEN Cut2("d1", Doc1, 2) \cup Cut2("d2", Doc2, 1)
    ELSE Cut2("d1", Doc1, 4) \cup {[doc |-> "d2", start |-> 0, text |-> Doc2]}]
MCCorpus == [d \in {"d1", "d2"} |-> IF d = "d1" THEN Doc1 ELSE Doc2]
Ask(qid, negative, spans, docs) == [qid |-> qid, negative |-> negative, spans |-> spans, docs |-> docs]
Split == Ask("split", FALSE, {<<1, 2, 3, 4>>}, {"d1"})
Quoted == Ask("quoted", FALSE, {<<4, 5>>}, {"d1"})
Nowhere == Ask("none", TRUE, {}, {})
Orders(s, n) == UNION {{r \in [1..m -> MCIndexOf[s]] : IsInjective(r)} : m \in 0..n}
Some(s) == LET first(doc) == CHOOSE c \in MCIndexOf[s] : c.doc = doc /\ c.start = 0
           IN  {<<first("d1"), first("d2")>>, <<first("d2")>>}
Ranked(golden, configs, few) ==
    [golden |-> golden, plan |-> configs,
     rankings |-> [s \in DOMAIN MCIndexOf |-> IF few THEN Some(s) ELSE Orders(s, 3)]]
MCWorkloads == {Ranked(<<Split>>, <<"fixed">>, FALSE), Ranked(<<Quoted>>, <<"recursive">>, FALSE),
                Ranked(<<Split, Nowhere, Quoted>>, <<"recursive">>, TRUE),
                Ranked(<<Split, Quoted>>, <<"fixed", "recursive">>, TRUE),
                Ranked(<<Split, [Quoted EXCEPT !.qid = "split"]>>, <<"fixed">>, TRUE),
                Ranked(<<>>, <<"fixed">>, TRUE)}
MCDiscount == <<1000, 631, 500>>

\* Download: the archive lists three wanted papers and one of another category.
MCPageLists == {<<<<"p1", "other">>, <<"p1", "p2">>>>, <<<<"p3", "p2", "p1">>>>, <<<<"other">>>>}

\* Migration: two files.
MCSqlFiles == <<"001", "002">>
=============================================================================

------------------------------ MODULE Download ------------------------------
(***************************************************************************)
(* scripts/download_corpus.py: harvesting a list of papers page by page,   *)
(* fetching each one's full text, and keeping a manifest of what is on     *)
(* disk.  The run may be killed at any step and started again; a file that *)
(* was being written then is torn.                                         *)
(*                                                                         *)
(* arXiv is any server: every request may be answered, refused, asked to   *)
(* wait or lost, and what a page lists may change from run to run.         *)
(***************************************************************************)
EXTENDS Integers, Sequences, FiniteSets, SequencesExt

CONSTANTS
    Papers,         \* the papers of the archive
    Wanted,         \* those in the category that have an abstract
    PageLists,      \* the sequences of pages a harvest can be answered with, a page
                    \* being a sequence of papers
    Limit,          \* --limit
    WithHtml,       \* --with-html
    MaxRetries,
    MaxRuns,        \* bound on the times the script is started
    Nothing,        \* no file, no manifest, no entry
    Half            \* a file whose writing was interrupted

\* What a paper is rendered to; its digest stands for itself.
Renderings == {"abstract", "full text"}

Manifests == [Papers -> Renderings \cup {Nothing}]

ASSUME DownloadAssumption ==
    /\ MaxRetries > 0 /\ Limit \in Nat \ {0} /\ WithHtml \in BOOLEAN
    /\ PageLists \subseteq Seq(Seq(Papers))
    /\ Nothing # Half /\ {Nothing, Half} \cap (Renderings \cup Manifests) = {}

VARIABLES
    files,          \* paper -> the file on disk
    manifest,       \* the manifest on disk: Nothing, Half, or paper -> digest
    entries,        \* the manifest in memory
    stage,          \* "idle", "harvesting", "papers", "fetching", "rendering", "filing",
                    \* "recording", "rewriting", "closing"
    pages,          \* the pages left to ask for
    kept,           \* the papers harvested, in order
    next,           \* the place of the next paper
    attempt,        \* of the request being made
    body,           \* what the paper at hand is rendered to
    runs,           \* how often the script was started
    written,        \* papers whose file was once written whole
    lostBefore,     \* of these, the ones a run started now would fetch again
    everTorn        \* the manifest was once torn

downloadVars == <<files, manifest, entries, stage, pages, kept, next, attempt, body, runs,
                  written, lostBefore, everTorn>>

NoEntries == [p \in Papers |-> Nothing]

\* load_manifest: one that cannot be read starts fresh.
LoadManifest == IF manifest \in {Nothing, Half} THEN NoEntries ELSE manifest

\* A run skips the paper: its file is there with the digest that is recorded.
Intact(p, listed) == files[p] # Nothing /\ listed[p] # Nothing /\ files[p] = listed[p]

\* What was written and would be fetched again by a run started now.
Lost == {p \in written : ~Intact(p, LoadManifest)}

DownloadInit ==
    /\ files = NoEntries /\ manifest = Nothing /\ entries = NoEntries
    /\ stage = "idle" /\ pages = <<>> /\ kept = <<>> /\ next = 1 /\ attempt = 1
    /\ body = Nothing /\ runs = 0
    /\ written = {} /\ lostBefore = {} /\ everTorn = FALSE

StartRun ==
    /\ stage = "idle" /\ runs < MaxRuns
    /\ runs' = runs + 1
    /\ entries' = LoadManifest
    /\ stage' = "harvesting"
    /\ pages' \in PageLists
    /\ kept' = <<>> /\ next' = 1 /\ attempt' = 1 /\ body' = Nothing
    /\ lostBefore' = Lost
    /\ UNCHANGED <<files, manifest, written, everTorn>>

----------------------------------------------------------------------------
\* get_with_backoff

\* A lost request, a 429 or a 503 is tried again; the last attempt gives up, and so
\* does any other error.
GivesUp == attempt = MaxRetries

Retry(stages) ==
    /\ stage \in stages /\ ~GivesUp
    /\ attempt' = attempt + 1
    /\ UNCHANGED <<files, manifest, entries, stage, pages, kept, next, body, runs, written,
                   lostBefore, everTorn>>

----------------------------------------------------------------------------
\* harvest

Keep(sofar, p) ==
    IF Len(sofar) >= Limit \/ p \notin Wanted \/ Contains(sofar, p) THEN sofar ELSE Append(sofar, p)

\* A page is scanned up to the limit; papers seen before or not wanted are passed over.
Scan(sofar, page) ==
    LET scanned[n \in 0..Len(page)] == IF n = 0 THEN sofar ELSE Keep(scanned[n - 1], page[n])
    IN  scanned[Len(page)]

\* Nothing harvested ends the script.
Harvested(papers) == IF papers = <<>> THEN "idle" ELSE "papers"

\* A page without a resumption token, or one that fills the limit, is the last.
GetPage ==
    /\ stage = "harvesting" /\ pages # <<>>
    /\ kept' = Scan(kept, Head(pages))
    /\ pages' = Tail(pages)
    /\ attempt' = 1
    /\ stage' = IF pages' = <<>> \/ Len(kept') >= Limit THEN Harvested(kept') ELSE stage
    /\ UNCHANGED <<files, manifest, entries, next, body, runs, written, lostBefore, everTorn>>

\* A request given up, at the first attempt too: what was kept so far is the harvest.
HarvestCut ==
    /\ stage = "harvesting"
    /\ stage' = Harvested(kept) /\ attempt' = 1
    /\ UNCHANGED <<files, manifest, entries, pages, kept, next, body, runs, written,
                   lostBefore, everTorn>>

----------------------------------------------------------------------------
\* main

Skip ==
    /\ stage = "papers" /\ next <= Len(kept) /\ Intact(kept[next], entries)
    /\ next' = next + 1
    /\ UNCHANGED <<files, manifest, entries, stage, pages, kept, attempt, body, runs, written,
                   lostBefore, everTorn>>

Take ==
    /\ stage = "papers" /\ next <= Len(kept) /\ ~Intact(kept[next], entries)
    /\ stage' = IF WithHtml THEN "fetching" ELSE "rendering"
    /\ attempt' = 1 /\ body' = "abstract"
    /\ UNCHANGED <<files, manifest, entries, pages, kept, next, runs, written, lostBefore, everTorn>>

\* The full text, or a 404, an empty page or a request given up: the abstract alone.
Fetch ==
    /\ stage = "fetching"
    /\ stage' = "rendering"
    /\ body' \in Renderings
    /\ UNCHANGED <<files, manifest, entries, pages, kept, next, attempt, runs, written,
                   lostBefore, everTorn>>

\* target.write_text truncates the file before it writes.
OpenFile ==
    /\ stage = "rendering"
    /\ stage' = "filing"
    /\ files' = [files EXCEPT ![kept[next]] = Half]
    /\ UNCHANGED <<manifest, entries, pages, kept, next, attempt, body, runs, written,
                   lostBefore, everTorn>>

WriteFile ==
    /\ stage = "filing"
    /\ stage' = "recording"
    /\ files' = [files EXCEPT ![kept[next]] = body]
    /\ entries' = [entries EXCEPT ![kept[next]] = body]
    /\ written' = written \cup {kept[next]}
    /\ UNCHANGED <<manifest, pages, kept, next, attempt, body, runs, lostBefore, everTorn>>

\* Mutant: the manifest is written once, at the end.
AtTheEnd == next > Len(kept)
\* When the manifest is written: after every document, and at the end.
Rewritten == TRUE

\* write_manifest, which truncates the file before it writes.
OpenManifest ==
    /\ \/ stage = "recording" /\ stage' = "rewriting"
       \/ stage = "papers" /\ next > Len(kept) /\ stage' = "closing"
    /\ manifest' = IF Rewritten THEN Half ELSE manifest
    /\ UNCHANGED <<files, entries, pages, kept, next, attempt, body, runs, written,
                   lostBefore, everTorn>>

WriteManifest ==
    /\ stage \in {"rewriting", "closing"}
    /\ stage' = IF stage = "closing" THEN "idle" ELSE "papers"
    /\ manifest' = IF Rewritten THEN entries ELSE manifest
    /\ next' = IF stage = "closing" THEN next ELSE next + 1
    /\ UNCHANGED <<files, entries, pages, kept, attempt, body, runs, written, lostBefore, everTorn>>

Interrupt ==
    /\ stage # "idle"
    /\ stage' = "idle"
    /\ everTorn' = (everTorn \/ manifest = Half)
    /\ UNCHANGED <<files, manifest, entries, pages, kept, next, attempt, body, runs, written,
                   lostBefore>>

DownloadNext ==
    \/ StartRun \/ Retry({"harvesting", "fetching"}) \/ GetPage \/ HarvestCut
    \/ Skip \/ Take \/ Fetch \/ OpenFile \/ WriteFile \/ OpenManifest \/ WriteManifest
    \/ Interrupt

----------------------------------------------------------------------------

\* "An interrupted run loses at most one paper" (download_corpus.py:18-20): whenever
\* the script is killed, at most one of the papers that were whole on disk would be
\* fetched again that the run had not lost already, unless a kill tore the manifest
\* itself.  A finished run has lost none of what it kept, and no run keeps a paper
\* twice or more of them than asked for.
DownloadLosesOne ==
    /\ ~everTorn /\ manifest # Half => Cardinality(Lost \ lostBefore) <= 1
    /\ Len(kept) <= Limit /\ IsInjective(kept)
    /\ stage = "closing" => \A n \in DOMAIN kept : Intact(kept[n], entries)
=============================================================================

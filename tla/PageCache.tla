----------------------------- MODULE PageCache -----------------------------
(***************************************************************************)
(* The page runner (conversion/multi_page.py) over the directory and the   *)
(* page_conversions rows of one note, through edits of the note, runs that *)
(* Gemini makes fail, and crashes between any two writes.                  *)
(*                                                                         *)
(* A page is named by the image it is rendered to, which is what its md5   *)
(* tells apart; a page's transcription by the page.  A slot is a page      *)
(* number: its files are page-NN.png and page-NN.md.                       *)
(***************************************************************************)
EXTENDS Naturals, Sequences

CONSTANTS
    Pages,      \* the page images a note can hold
    MaxPages,   \* the longest note
    NoPage,     \* in the place of a file or row that is not there
    Edits,      \* how often the note changes
    Failures,   \* how often Gemini fails past its retries
    Crashes     \* how often the process dies

ASSUME NoPageAssumption == NoPage \notin Pages
ASSUME MaxPagesAssumption == MaxPages \in Nat \ {0}
ASSUME BoundsAssumption == Edits \in Nat /\ Failures \in Nat /\ Crashes \in Nat

Slots == 1..MaxPages
Page == Pages \cup {NoPage}

(* A note has at least one page. *)
Notes == UNION {[1..n -> Pages] : n \in Slots}

VARIABLES
    note,    \* the pages of the note in Drive
    done,    \* the content of the SUCCESS record, or <<>>
    png,     \* the image file of each slot
    md,      \* whose transcription the text file of each slot holds
    row,     \* the md5 of each slot's page_conversions row
    run,     \* the conversion under way
    edits, failures, crashes

disk == <<png, md>>
counters == <<edits, failures, crashes>>
vars == <<note, done, png, md, row, run, edits, failures, crashes>>

Steps == {"idle", "stage", "stagetext", "page", "text", "row", "finalize",
          "prune", "pruneimage"}

Empty == [i \in Slots |-> NoPage]
NothingCached == [p \in Pages |-> NoPage]

Idle == [pc |-> "idle", note |-> <<>>, cache |-> NothingCached, at |-> 1]

RunStates == [pc : Steps, note : Notes \cup {<<>>},
              cache : [Pages -> Page], at : Slots]

TypeOK ==
    /\ note \in Notes
    /\ done \in Notes \cup {<<>>}
    /\ {png, md, row} \subseteq [Slots -> Page]
    /\ run \in RunStates
    /\ edits \in 0..Edits /\ failures \in 0..Failures /\ crashes \in 0..Crashes

Init ==
    /\ note \in Notes
    /\ done = <<>>
    /\ png = Empty /\ md = Empty /\ row = Empty
    /\ run = Idle
    /\ edits = 0 /\ failures = 0 /\ crashes = 0

-----------------------------------------------------------------------------
(* _preload_cached_pages.                                                  *)

(* Mutant of Recorded: a row is believed whatever image stands beside it.  *)
RecordedUnchecked(i) == row[i] # NoPage /\ md[i] # NoPage

(* First pass: a row counts if its slot's text is there and its image is   *)
(* the row's or missing.                                                   *)
Recorded(i) ==
    /\ row[i] # NoPage /\ md[i] # NoPage
    /\ png[i] \in {NoPage, row[i]}

(* Second pass: of the other slots, the text counts as the image's.        *)
Orphan(i) == ~ Recorded(i) /\ md[i] # NoPage /\ png[i] # NoPage

(* The bodies page p can be given: that of its first row, else that of any *)
(* orphan of its image, for the directory is listed in no order.           *)
Bodies(p) ==
    LET recorded == {i \in Slots : Recorded(i) /\ row[i] = p}
        orphans == {i \in Slots : Orphan(i) /\ png[i] = p}
        first == {i \in recorded : \A o \in recorded : i <= o}
    IN  IF recorded # {} THEN {md[i] : i \in first}
        ELSE IF orphans # {} THEN {md[i] : i \in orphans}
        ELSE {NoPage}

Cached(p) == Bodies(p) # {NoPage}

Caches == {c \in [Pages -> Page] : \A p \in Pages : c[p] \in Bodies(p)}

-----------------------------------------------------------------------------
(* One conversion.                                                         *)

Slot == run.at
Current == run.note[run.at]
HasBody == run.cache[Current] # NoPage
Last == run.at = Len(run.note)
Goto(pc, at) == run' = [run EXCEPT !.pc = pc, !.at = at]

(* The first slot from i on whose page is cached gets staged; past the     *)
(* last, the pages are gone through from the first.                        *)
ToStage(i, n, cache) ==
    {s \in i..Len(n) : cache[n[s]] # NoPage
                       /\ \A o \in i..(s - 1) : cache[n[o]] = NoPage}

Staging(i, n, cache) ==
    IF \A s \in i..Len(n) : cache[n[s]] = NoPage THEN {<<"page", 1>>}
    ELSE {<<"stage", s>> : s \in ToStage(i, n, cache)}

(* Mutant of Start: the record is not taken to PENDING. *)
StartKeepsSuccess ==
    /\ run.pc = "idle"
    /\ done # note
    /\ \E cache \in Caches :
        \E s \in Staging(1, note, cache) :
            run' = [pc |-> s[1], note |-> note, cache |-> cache, at |-> s[2]]
    /\ UNCHANGED <<note, done, disk, row, counters>>

(* Mutant of Start: nothing is staged, a cached page waits for its turn.   *)
StartWithoutStaging ==
    /\ run.pc = "idle"
    /\ done # note
    /\ done' = <<>>
    /\ \E cache \in Caches :
        run' = [pc |-> "page", note |-> note, cache |-> cache, at |-> 1]
    /\ UNCHANGED <<note, disk, row, counters>>

(* A note that is not up to date is downloaded, its record goes to PENDING *)
(* and the prior bodies are indexed.                                       *)
Start ==
    /\ run.pc = "idle"
    /\ done # note
    /\ done' = <<>>
    /\ \E cache \in Caches :
        \E s \in Staging(1, note, cache) :
            run' = [pc |-> s[1], note |-> note, cache |-> cache, at |-> s[2]]
    /\ UNCHANGED <<note, disk, row, counters>>

(* A cached page is written to its slot, image first, before any other     *)
(* page is transcribed.                                                    *)
StageImage ==
    /\ run.pc = "stage"
    /\ png' = [png EXCEPT ![Slot] = Current]
    /\ Goto("stagetext", Slot)
    /\ UNCHANGED <<note, done, md, row, counters>>

StageText ==
    /\ run.pc = "stagetext"
    /\ md' = [md EXCEPT ![Slot] = run.cache[Current]]
    /\ \E s \in Staging(Slot + 1, run.note, run.cache) : Goto(s[1], s[2])
    /\ UNCHANGED <<note, done, png, row, counters>>

(* A page that is not cached is transcribed and its image written ...      *)
Transcribe ==
    /\ run.pc = "page"
    /\ ~ HasBody
    /\ png' = [png EXCEPT ![Slot] = Current]
    /\ Goto("text", Slot)
    /\ UNCHANGED <<note, done, md, row, counters>>

(* ... and then its text. *)
WriteText ==
    /\ run.pc = "text"
    /\ md' = [md EXCEPT ![Slot] = Current]
    /\ Goto("row", Slot)
    /\ UNCHANGED <<note, done, png, row, counters>>

(* Gemini fails past its last retry: the conversion ends, its record at    *)
(* ERROR.                                                                  *)
GeminiFails ==
    /\ run.pc = "page"
    /\ ~ HasBody
    /\ failures < Failures
    /\ failures' = failures + 1
    /\ run' = Idle
    /\ UNCHANGED <<note, done, disk, row, edits, crashes>>

SkipCached ==
    /\ run.pc = "page"
    /\ HasBody
    /\ Goto("row", Slot)
    /\ UNCHANGED <<note, done, disk, row, counters>>

(* Mutant of PersistPage: the page counter goes on past the last page.     *)
PersistPagePastEnd ==
    /\ run.pc = "row"
    /\ row' = [row EXCEPT ![Slot] = Current]
    /\ Goto(IF Last THEN "finalize" ELSE "page", Slot + 1)
    /\ UNCHANGED <<note, done, disk, counters>>

(* on_page_done: the row of the page just gone through is upserted. *)
PersistPage ==
    /\ run.pc = "row"
    /\ row' = [row EXCEPT ![Slot] = Current]
    /\ IF Last THEN Goto("finalize", Slot) ELSE Goto("page", Slot + 1)
    /\ UNCHANGED <<note, done, disk, counters>>

(* The transaction of _persist_finalize: SUCCESS, and the rows beyond the  *)
(* last page go.                                                           *)
Finalize ==
    /\ run.pc = "finalize"
    /\ done' = run.note
    /\ row' = [i \in Slots |-> IF i > Len(run.note) THEN NoPage ELSE row[i]]
    /\ Goto("prune", Slot)
    /\ UNCHANGED <<note, disk, counters>>

(* _cleanup_stale_pages: the files beyond the last page, one by one.       *)
Beyond == {i \in Slots : i > Len(run.note)}

(* First pass: a text, in any order of slots ... *)
PruneText ==
    /\ run.pc = "prune"
    /\ \E i \in Beyond :
        /\ md[i] # NoPage
        /\ md' = [md EXCEPT ![i] = NoPage]
        /\ Goto("pruneimage", i)
    /\ UNCHANGED <<note, done, png, row, counters>>

(* ... and then the image beside it, if it is there. *)
PruneImage ==
    /\ run.pc = "pruneimage"
    /\ png' = [png EXCEPT ![Slot] = NoPage]
    /\ Goto("prune", 1)
    /\ UNCHANGED <<note, done, md, row, counters>>

(* Second pass: the images that had no text. *)
PruneOrphan ==
    /\ run.pc = "prune"
    /\ \A i \in Beyond : md[i] = NoPage
    /\ \E i \in Beyond :
        /\ png[i] # NoPage
        /\ png' = [png EXCEPT ![i] = NoPage]
    /\ UNCHANGED <<note, done, md, row, run, counters>>

(* Nothing is left beyond the last page, and the conversion ends. *)
PruneEnds ==
    /\ run.pc = "prune"
    /\ \A i \in Beyond : md[i] = NoPage /\ png[i] = NoPage
    /\ run' = Idle
    /\ UNCHANGED <<note, done, disk, row, counters>>

Prune == PruneText \/ PruneImage \/ PruneOrphan \/ PruneEnds

-----------------------------------------------------------------------------
(* The world around.                                                       *)

(* Pages of the note are drawn on, inserted, removed or reordered. *)
Edit ==
    /\ edits < Edits
    /\ edits' = edits + 1
    /\ \E n \in Notes \ {note} : note' = n
    /\ UNCHANGED <<done, disk, row, run, failures, crashes>>

(* The process dies and DBOS will run the conversion again. *)
Crash ==
    /\ run.pc # "idle"
    /\ crashes < Crashes
    /\ crashes' = crashes + 1
    /\ run' = Idle
    /\ UNCHANGED <<note, done, disk, row, edits, failures>>

Runner ==
    \/ Start \/ StageImage \/ StageText \/ Transcribe \/ WriteText \/ GeminiFails
    \/ SkipCached \/ PersistPage \/ Finalize \/ Prune

Next == Runner \/ Edit \/ Crash

Spec == Init /\ [][Next]_vars

-----------------------------------------------------------------------------
(* A note at SUCCESS has, slot by slot, the image and the row of its page  *)
(* and some text, and no row beyond its last page, whichever runs failed   *)
(* or died before.                                                         *)
SuccessShowsNote ==
    done # <<>> =>
        \A i \in Slots :
            IF i <= Len(done)
            THEN png[i] = done[i] /\ row[i] = done[i] /\ md[i] # NoPage
            ELSE row[i] = NoPage

(* The text beside each page at SUCCESS is that page's transcription.      *)
TextIsOfItsPage == \A i \in 1..Len(done) : md[i] = done[i]

(* As long as the process has not died, edits and failed runs never give a *)
(* page the text of another, and leave no file of a page the note lost.    *)
RunsWithoutCrashAreExact ==
    crashes = 0 =>
        /\ TextIsOfItsPage
        /\ done # <<>> /\ run.pc = "idle" =>
              \A i \in Slots : i > Len(done) => png[i] = NoPage /\ md[i] = NoPage

(* When Gemini fails, every page of the note that was cached when the run  *)
(* began, or that the run has gone through, is found again by the next.    *)
GoneThrough(p) ==
    \E i \in 1..Len(run.note) :
        /\ run.note[i] = p
        /\ run.cache[p] # NoPage \/ i < run.at

FailureKeepsTranscriptions ==
    [][failures' # failures =>
          \A p \in Pages : GoneThrough(p) => Cached(p)']_vars
=============================================================================

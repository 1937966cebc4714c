-------------------------- MODULE PageCacheProofs --------------------------
(***************************************************************************)
(* Theorems about PageCache: what SUCCESS says of a note's files and rows, *)
(* and what a run that Gemini made fail keeps for the next.                *)
(***************************************************************************)
EXTENDS PageCache, TLAPS

(* A slot shows a page of n when its image and some text are there.        *)
Shown(i, n) == png[i] = n[i] /\ md[i] # NoPage

(* What a run has done by the time it is at each of its steps.             *)
RunIsPlaced ==
    /\ run.pc # "idle" => run.note \in Notes
    /\ run.pc \notin {"idle", "pruneimage"} => run.at \in 1..Len(run.note)

RunHasRecord ==
    /\ run.pc \notin {"idle", "prune", "pruneimage"} => done = <<>>
    /\ run.pc \in {"prune", "pruneimage"} => done = run.note

RunPrunes == run.pc = "pruneimage" => run.at \in Beyond /\ md[run.at] = NoPage

RunStages ==
    /\ run.pc \in {"stage", "stagetext"} =>
          /\ HasBody
          /\ \A s \in 1..(run.at - 1) :
                run.cache[run.note[s]] # NoPage => Shown(s, run.note)
    /\ run.pc = "stagetext" => png[run.at] = Current

RunHasStaged ==
    run.pc \in {"page", "text", "row", "finalize"} =>
        \A s \in 1..Len(run.note) :
            run.cache[run.note[s]] # NoPage => Shown(s, run.note)

RunHasShown ==
    /\ run.pc \in {"page", "text", "row", "finalize"} =>
          \A s \in 1..(run.at - 1) :
              Shown(s, run.note) /\ row[s] = run.note[s]
    /\ run.pc = "text" => png[run.at] = Current /\ ~ HasBody
    /\ run.pc = "row" => Shown(run.at, run.note)
    /\ run.pc = "finalize" =>
          Last /\ Shown(run.at, run.note) /\ row[run.at] = Current

RunInv ==
    /\ RunIsPlaced /\ RunHasRecord /\ RunStages /\ RunHasStaged /\ RunHasShown
    /\ RunPrunes

IInv == TypeOK /\ RunInv /\ SuccessShowsNote

-----------------------------------------------------------------------------
(* A note is a sequence of pages no longer than the slots. *)
LEMMA NotePages ==
    ASSUME NEW n \in Notes
    PROVE  /\ n \in Seq(Pages)
           /\ Len(n) \in Slots
           /\ \A i \in 1..Len(n) : i \in Slots /\ n[i] \in Pages
           /\ n # <<>>
<1>1. PICK k \in Slots : n \in [1..k -> Pages]
  BY DEF Notes
<1>2. k \in Nat /\ k >= 1 /\ k <= MaxPages
  BY MaxPagesAssumption DEF Slots
<1>3. n \in Seq(Pages) /\ Len(n) = k
  BY <1>1, <1>2
<1> QED
  BY <1>1, <1>2, <1>3, MaxPagesAssumption DEF Slots

(* A page is never the missing page. *)
LEMMA PageIsThere == \A p \in Pages : p # NoPage
BY NoPageAssumption

(* An idle run is well formed. *)
LEMMA IdleType ==
    /\ Idle.pc = "idle"
    /\ Idle \in RunStates
BY MaxPagesAssumption DEF Idle, RunStates, Steps, NothingCached, Page, Slots

(* Where staging leads from slot i: to a cached slot before which no other *)
(* from i on is cached, or to the first page when none is left.            *)
LEMMA StagingLeads ==
    ASSUME NEW n \in Notes, NEW cache, NEW i \in Nat \ {0},
           NEW s \in Staging(i, n, cache)
    PROVE  \/ /\ s = <<"page", 1>>
              /\ \A o \in i..Len(n) : cache[n[o]] = NoPage
           \/ \E t \in i..Len(n) :
                 /\ s = <<"stage", t>>
                 /\ cache[n[t]] # NoPage
                 /\ \A o \in i..(t - 1) : cache[n[o]] = NoPage
BY DEF Staging, ToStage

(* The initial states satisfy the invariant. *)
LEMMA InvInit == Init => IInv
<1> SUFFICES ASSUME Init PROVE IInv
  OBVIOUS
<1>1. TypeOK
  BY IdleType, BoundsAssumption DEF Init, TypeOK, Empty, Page
<1>2. RunInv
  BY IdleType DEF Init, RunInv, RunIsPlaced, RunHasRecord, RunStages,
                  RunHasStaged, RunHasShown, RunPrunes
<1>3. SuccessShowsNote
  BY DEF Init, SuccessShowsNote
<1> QED
  BY <1>1, <1>2, <1>3 DEF IInv

(* A step of the run changes its program counter and slot, and no more. *)
LEMMA GotoType ==
    ASSUME TypeOK, NEW pc \in Steps, NEW at \in Slots, Goto(pc, at)
    PROVE  /\ run' \in RunStates
           /\ run'.pc = pc /\ run'.at = at
           /\ run'.note = run.note /\ run'.cache = run.cache
BY DEF TypeOK, RunStates, Goto

(* A run that is under way has a note, and its slot is one of its pages,   *)
(* until it prunes.                                                        *)
LEMMA RunPage ==
    ASSUME TypeOK, RunIsPlaced, run.pc \notin {"idle", "pruneimage"}
    PROVE  /\ run.note \in Notes
           /\ Len(run.note) \in Slots
           /\ run.at \in 1..Len(run.note)
           /\ run.at \in Slots
           /\ \A i \in 1..Len(run.note) : i \in Slots /\ run.note[i] \in Pages
           /\ Current \in Pages /\ Current # NoPage
           /\ run.cache \in [Pages -> Page]
BY NotePages, PageIsThere DEF TypeOK, RunStates, RunIsPlaced, Current

(* A run begins with the bodies it found and stages, or transcribes, its    *)
(* first page.                                                             *)
LEMMA StartStep == IInv /\ Start => IInv'
<1> SUFFICES ASSUME IInv, Start PROVE IInv'
  OBVIOUS
<1> USE DEF IInv, RunInv
<1>0. PICK cache \in Caches :
          \E s \in Staging(1, note, cache) :
              run' = [pc |-> s[1], note |-> note, cache |-> cache, at |-> s[2]]
  BY DEF Start
<1>1. PICK s \in Staging(1, note, cache) :
          run' = [pc |-> s[1], note |-> note, cache |-> cache, at |-> s[2]]
  BY <1>0
<1>2. /\ note \in Notes /\ cache \in [Pages -> Page]
      /\ note \in Seq(Pages) /\ Len(note) \in Slots
      /\ \A i \in 1..Len(note) : i \in Slots /\ note[i] \in Pages
  BY <1>1, NotePages DEF TypeOK, Caches
<1>3. /\ run'.note = note /\ run'.cache = cache
      /\ run'.pc = s[1] /\ run'.at = s[2]
  BY <1>1
<1>4. \/ /\ s = <<"page", 1>>
         /\ \A o \in 1..Len(note) : cache[note[o]] = NoPage
      \/ \E t \in 1..Len(note) :
            /\ s = <<"stage", t>>
            /\ cache[note[t]] # NoPage
            /\ \A o \in 1..(t - 1) : cache[note[o]] = NoPage
  BY <1>1, <1>2, StagingLeads
<1>5. done' = <<>> /\ UNCHANGED <<note, png, md, row, edits, failures, crashes>>
  BY DEF Start, disk, counters
<1>6. s[1] \in Steps /\ s[2] \in 1..Len(note) /\ s[2] \in Slots
  BY <1>2, <1>4, MaxPagesAssumption DEF Steps, Slots
<1>7. TypeOK'
  BY <1>1, <1>2, <1>5, <1>6 DEF TypeOK, RunStates
<1>8. RunIsPlaced' /\ RunHasRecord' /\ RunPrunes'
  BY <1>2, <1>3, <1>4, <1>5, <1>6 DEF RunIsPlaced, RunPrunes, RunHasRecord
<1>9. RunStages' /\ RunHasStaged' /\ RunHasShown'
  <2>1. CASE s = <<"page", 1>> /\ \A o \in 1..Len(note) : cache[note[o]] = NoPage
    BY <2>1, <1>3 DEF RunStages, RunHasStaged, RunHasShown
  <2>2. ASSUME NEW t \in 1..Len(note), s = <<"stage", t>>,
               cache[note[t]] # NoPage,
               \A o \in 1..(t - 1) : cache[note[o]] = NoPage
        PROVE  RunStages' /\ RunHasStaged' /\ RunHasShown'
    BY <2>2, <1>3 DEF RunStages, RunHasStaged, RunHasShown, HasBody, Current
  <2> QED
    BY <2>1, <2>2, <1>4
<1>10. SuccessShowsNote'
  BY <1>5 DEF SuccessShowsNote
<1> QED
  BY <1>7, <1>8, <1>9, <1>10

(* A cached page's image is written. *)
LEMMA StageImageStep == IInv /\ StageImage => IInv'
<1> SUFFICES ASSUME IInv, StageImage PROVE IInv'
  OBVIOUS
<1> USE DEF IInv, RunInv
<1>1. run.pc = "stage" /\ run.pc # "idle" /\ done = <<>>
  BY DEF StageImage, RunHasRecord
<1>2. /\ png' = [png EXCEPT ![run.at] = Current]
      /\ Goto("stagetext", run.at)
      /\ UNCHANGED <<note, done, md, row, edits, failures, crashes>>
  BY DEF StageImage, Slot, counters
<1>3. /\ run' \in RunStates /\ run'.pc = "stagetext" /\ run'.at = run.at
      /\ run'.note = run.note /\ run'.cache = run.cache
  BY <1>1, <1>2, RunPage, GotoType DEF Steps
<1>4. png' \in [Slots -> Page]
  BY <1>1, <1>2, RunPage DEF TypeOK, Page
<1>5. TypeOK'
  BY <1>2, <1>3, <1>4 DEF TypeOK
<1>6. RunIsPlaced' /\ RunHasRecord' /\ RunPrunes' /\ RunHasStaged' /\ RunHasShown'
  BY <1>1, <1>2, <1>3, RunPage
  DEF RunIsPlaced, RunPrunes, RunHasRecord, RunHasStaged, RunHasShown
<1>7. png'[run.at] = Current /\ Current' = Current /\ HasBody' = HasBody
  BY <1>1, <1>2, <1>3, RunPage DEF TypeOK, Current, HasBody
<1>8. ASSUME NEW o \in 1..(run.at - 1), run.cache[run.note[o]] # NoPage
      PROVE  Shown(o, run.note)'
  BY <1>1, <1>2, <1>3, <1>8, RunPage DEF RunStages, Shown, TypeOK, Slots
<1>9. RunStages'
  BY <1>1, <1>3, <1>7, <1>8 DEF RunStages
<1>10. SuccessShowsNote'
  BY <1>1, <1>2 DEF SuccessShowsNote
<1> QED
  BY <1>5, <1>6, <1>9, <1>10

(* A cached page's text is written, and the next one staged. *)
LEMMA StageTextStep == IInv /\ StageText => IInv'
<1> SUFFICES ASSUME IInv, StageText PROVE IInv'
  OBVIOUS
<1> USE DEF IInv, RunInv
<1>1. run.pc = "stagetext" /\ run.pc # "idle" /\ done = <<>>
  BY DEF StageText, RunHasRecord
<1>2. /\ md' = [md EXCEPT ![run.at] = run.cache[Current]]
      /\ UNCHANGED <<note, done, png, row, edits, failures, crashes>>
  BY DEF StageText, Slot, counters
<1>3. PICK s \in Staging(run.at + 1, run.note, run.cache) : Goto(s[1], s[2])
  BY DEF StageText, Slot
<1>4. \/ /\ s = <<"page", 1>>
         /\ \A o \in (run.at + 1)..Len(run.note) :
                run.cache[run.note[o]] = NoPage
      \/ \E t \in (run.at + 1)..Len(run.note) :
            /\ s = <<"stage", t>>
            /\ run.cache[run.note[t]] # NoPage
            /\ \A o \in (run.at + 1)..(t - 1) :
                  run.cache[run.note[o]] = NoPage
  <2>1. run.at + 1 \in Nat \ {0} /\ run.note \in Notes
    BY <1>1, RunPage DEF Slots
  <2> QED
    BY <1>3, <2>1, StagingLeads
<1>5. s[1] \in Steps /\ s[2] \in 1..Len(run.note) /\ s[2] \in Slots
  BY <1>1, <1>4, RunPage, MaxPagesAssumption DEF Steps, Slots
<1>6. /\ run' \in RunStates /\ run'.pc = s[1] /\ run'.at = s[2]
      /\ run'.note = run.note /\ run'.cache = run.cache
  BY <1>3, <1>5, GotoType
<1>7. md' \in [Slots -> Page]
  BY <1>1, <1>2, RunPage DEF TypeOK
<1>8. TypeOK'
  BY <1>2, <1>6, <1>7 DEF TypeOK
<1>9. RunIsPlaced' /\ RunHasRecord' /\ RunPrunes'
  BY <1>1, <1>2, <1>4, <1>5, <1>6, RunPage DEF RunIsPlaced, RunPrunes, RunHasRecord
<1>10. ASSUME NEW o \in 1..run.at, run.cache[run.note[o]] # NoPage
       PROVE  Shown(o, run.note)'
  <2>1. CASE o = run.at
    BY <1>1, <1>2, <1>6, <2>1, RunPage
    DEF RunStages, HasBody, Current, Shown, TypeOK
  <2>2. CASE o \in 1..(run.at - 1)
    BY <1>1, <1>2, <1>6, <1>10, <2>2, RunPage
    DEF RunStages, Shown, TypeOK, Slots
  <2> QED
    BY <1>1, <2>1, <2>2, RunPage DEF Slots
<1>11. RunStages' /\ RunHasStaged' /\ RunHasShown'
  <2>1. CASE s = <<"page", 1>>
    <3>1. \A o \in 1..Len(run.note) :
             run.cache[run.note[o]] # NoPage => Shown(o, run.note)'
      BY <1>1, <1>4, <1>10, <2>1, RunPage DEF Slots
    <3> QED
      BY <2>1, <3>1, <1>6 DEF RunStages, RunHasStaged, RunHasShown
  <2>2. ASSUME NEW t \in (run.at + 1)..Len(run.note), s = <<"stage", t>>,
               run.cache[run.note[t]] # NoPage,
               \A o \in (run.at + 1)..(t - 1) : run.cache[run.note[o]] = NoPage
        PROVE  RunStages' /\ RunHasStaged' /\ RunHasShown'
    <3>1. \A o \in 1..(t - 1) :
             run.cache[run.note[o]] # NoPage => Shown(o, run.note)'
      BY <1>1, <1>10, <2>2, RunPage DEF Slots
    <3> QED
      BY <2>2, <3>1, <1>6
      DEF RunStages, RunHasStaged, RunHasShown, HasBody, Current
  <2> QED
    BY <1>4, <2>1, <2>2
<1>12. SuccessShowsNote'
  BY <1>1, <1>2 DEF SuccessShowsNote
<1> QED
  BY <1>8, <1>9, <1>11, <1>12

(* A page no cached one is staged for gets its image. *)
LEMMA TranscribeStep == IInv /\ Transcribe => IInv'
<1> SUFFICES ASSUME IInv, Transcribe PROVE IInv'
  OBVIOUS
<1> USE DEF IInv, RunInv
<1>1. run.pc = "page" /\ run.pc # "idle" /\ done = <<>> /\ ~ HasBody
  BY DEF Transcribe, RunHasRecord
<1>2. /\ png' = [png EXCEPT ![run.at] = Current]
      /\ Goto("text", run.at)
      /\ UNCHANGED <<note, done, md, row, edits, failures, crashes>>
  BY DEF Transcribe, Slot, counters
<1>3. /\ run' \in RunStates /\ run'.pc = "text" /\ run'.at = run.at
      /\ run'.note = run.note /\ run'.cache = run.cache
  BY <1>1, <1>2, RunPage, GotoType DEF Steps
<1>4. TypeOK'
  BY <1>1, <1>2, <1>3, RunPage DEF TypeOK, Page
<1>5. RunIsPlaced' /\ RunHasRecord' /\ RunPrunes' /\ RunStages'
  BY <1>1, <1>2, <1>3, RunPage DEF RunIsPlaced, RunPrunes, RunHasRecord, RunStages
<1>6. png'[run.at] = Current /\ Current' = Current /\ HasBody' = HasBody
  BY <1>1, <1>2, <1>3, RunPage DEF TypeOK, Current, HasBody
<1>7. ASSUME NEW o \in 1..Len(run.note), o # run.at, Shown(o, run.note)
      PROVE  Shown(o, run.note)'
  BY <1>1, <1>2, <1>3, <1>7, RunPage DEF Shown, TypeOK
<1>8. RunHasStaged'
  BY <1>1, <1>3, <1>7 DEF RunHasStaged, HasBody, Current
<1>9. ASSUME NEW o \in 1..(run.at - 1)
      PROVE  Shown(o, run.note)' /\ row'[o] = run.note[o]
  BY <1>1, <1>2, <1>7, RunPage DEF RunHasShown, Slots
<1>10. RunHasShown'
  BY <1>1, <1>3, <1>6, <1>9 DEF RunHasShown
<1>11. SuccessShowsNote'
  BY <1>1, <1>2 DEF SuccessShowsNote
<1> QED
  BY <1>4, <1>5, <1>8, <1>10, <1>11

(* Then its text. *)
LEMMA WriteTextStep == IInv /\ WriteText => IInv'
<1> SUFFICES ASSUME IInv, WriteText PROVE IInv'
  OBVIOUS
<1> USE DEF IInv, RunInv
<1>1. run.pc = "text" /\ run.pc # "idle" /\ done = <<>>
  BY DEF WriteText, RunHasRecord
<1>2. /\ md' = [md EXCEPT ![run.at] = Current]
      /\ Goto("row", run.at)
      /\ UNCHANGED <<note, done, png, row, edits, failures, crashes>>
  BY DEF WriteText, Slot, counters
<1>3. /\ run' \in RunStates /\ run'.pc = "row" /\ run'.at = run.at
      /\ run'.note = run.note /\ run'.cache = run.cache
  BY <1>1, <1>2, RunPage, GotoType DEF Steps
<1>4. TypeOK'
  BY <1>1, <1>2, <1>3, RunPage DEF TypeOK, Page
<1>5. RunIsPlaced' /\ RunHasRecord' /\ RunPrunes' /\ RunStages'
  BY <1>1, <1>2, <1>3, RunPage DEF RunIsPlaced, RunPrunes, RunHasRecord, RunStages
<1>6. ASSUME NEW o \in 1..Len(run.note), Shown(o, run.note)
      PROVE  Shown(o, run.note)'
  BY <1>1, <1>2, <1>3, <1>6, RunPage DEF Shown, TypeOK
<1>7. Shown(run.at, run.note)'
  BY <1>1, <1>2, <1>3, RunPage DEF RunHasShown, Shown, Current, TypeOK
<1>8. RunHasStaged'
  BY <1>1, <1>3, <1>6 DEF RunHasStaged
<1>9. ASSUME NEW o \in 1..(run.at - 1)
      PROVE  Shown(o, run.note)' /\ row'[o] = run.note[o]
  BY <1>1, <1>2, <1>6, RunPage DEF RunHasShown, Slots
<1>10. RunHasShown'
  BY <1>1, <1>3, <1>7, <1>9 DEF RunHasShown
<1>11. SuccessShowsNote'
  BY <1>1, <1>2 DEF SuccessShowsNote
<1> QED
  BY <1>4, <1>5, <1>8, <1>10, <1>11

(* A cached page is passed over, for it was staged. *)
LEMMA SkipCachedStep == IInv /\ SkipCached => IInv'
<1> SUFFICES ASSUME IInv, SkipCached PROVE IInv'
  OBVIOUS
<1> USE DEF IInv, RunInv
<1>1. run.pc = "page" /\ run.pc # "idle" /\ done = <<>> /\ HasBody
  BY DEF SkipCached, RunHasRecord
<1>2. /\ Goto("row", run.at)
      /\ UNCHANGED <<note, done, png, md, row, edits, failures, crashes>>
  BY DEF SkipCached, Slot, counters, disk
<1>3. /\ run' \in RunStates /\ run'.pc = "row" /\ run'.at = run.at
      /\ run'.note = run.note /\ run'.cache = run.cache
  BY <1>1, <1>2, RunPage, GotoType DEF Steps
<1>4. TypeOK'
  BY <1>2, <1>3 DEF TypeOK
<1>5. RunIsPlaced' /\ RunHasRecord' /\ RunPrunes' /\ RunStages' /\ RunHasStaged'
  BY <1>1, <1>2, <1>3, RunPage
  DEF RunIsPlaced, RunPrunes, RunHasRecord, RunStages, RunHasStaged, Shown
<1>6. Shown(run.at, run.note)
  BY <1>1, RunPage DEF RunHasStaged, HasBody, Current
<1>7. RunHasShown'
  BY <1>1, <1>2, <1>3, <1>6 DEF RunHasShown, Shown
<1>8. SuccessShowsNote'
  BY <1>1, <1>2 DEF SuccessShowsNote
<1> QED
  BY <1>4, <1>5, <1>7, <1>8

(* The row of the page gone through is upserted. *)
LEMMA PersistPageStep == IInv /\ PersistPage => IInv'
<1> SUFFICES ASSUME IInv, PersistPage PROVE IInv'
  OBVIOUS
<1> USE DEF IInv, RunInv
<1>1. run.pc = "row" /\ run.pc # "idle" /\ done = <<>>
  BY DEF PersistPage, RunHasRecord
<1>2. /\ row' = [row EXCEPT ![run.at] = Current]
      /\ UNCHANGED <<note, done, png, md, edits, failures, crashes>>
  BY DEF PersistPage, Slot, counters, disk
<1>3. \/ Last /\ Goto("finalize", run.at)
      \/ ~ Last /\ Goto("page", run.at + 1)
  BY DEF PersistPage, Slot
<1>4. Last \/ run.at + 1 \in 1..Len(run.note)
  BY <1>1, RunPage DEF Last, Slots
<1>5. PICK pc \in Steps, at \in 1..Len(run.note) :
          /\ Goto(pc, at)
          /\ \/ pc = "finalize" /\ at = run.at /\ Last
             \/ pc = "page" /\ at = run.at + 1
  BY <1>1, <1>3, <1>4, RunPage DEF Steps
<1>6. /\ run' \in RunStates /\ run'.pc = pc /\ run'.at = at
      /\ run'.note = run.note /\ run'.cache = run.cache
  BY <1>1, <1>5, RunPage, GotoType
<1>7. TypeOK'
  BY <1>1, <1>2, <1>6, RunPage DEF TypeOK, Page
<1>8. RunIsPlaced' /\ RunHasRecord' /\ RunPrunes' /\ RunStages' /\ RunHasStaged'
  BY <1>1, <1>2, <1>5, <1>6, RunPage
  DEF RunIsPlaced, RunPrunes, RunHasRecord, RunStages, RunHasStaged, Shown
<1>9. ASSUME NEW o \in 1..run.at
      PROVE  Shown(o, run.note)' /\ row'[o] = run.note[o]
  <2>1. CASE o = run.at
    BY <1>1, <1>2, <1>6, <2>1, RunPage
    DEF RunHasShown, Shown, Current, TypeOK
  <2>2. CASE o \in 1..(run.at - 1)
    BY <1>1, <1>2, <1>6, <2>2, RunPage DEF RunHasShown, Shown, TypeOK, Slots
  <2> QED
    BY <1>1, <2>1, <2>2, RunPage DEF Slots
<1>10. RunHasShown'
  BY <1>1, <1>5, <1>6, <1>9, RunPage DEF RunHasShown, Current, Last, Slots
<1>11. SuccessShowsNote'
  BY <1>1, <1>2 DEF SuccessShowsNote
<1> QED
  BY <1>7, <1>8, <1>10, <1>11

(* SUCCESS is recorded when every page has been gone through. *)
LEMMA FinalizeStep == IInv /\ Finalize => IInv'
<1> SUFFICES ASSUME IInv, Finalize PROVE IInv'
  OBVIOUS
<1> USE DEF IInv, RunInv
<1>1. run.pc = "finalize" /\ run.pc # "idle" /\ done = <<>>
  BY DEF Finalize, RunHasRecord
<1>2. /\ done' = run.note
      /\ row' = [i \in Slots |-> IF i > Len(run.note) THEN NoPage ELSE row[i]]
      /\ Goto("prune", run.at)
      /\ UNCHANGED <<note, png, md, edits, failures, crashes>>
  BY DEF Finalize, Slot, counters, disk
<1>3. /\ run' \in RunStates /\ run'.pc = "prune" /\ run'.at = run.at
      /\ run'.note = run.note /\ run'.cache = run.cache
  BY <1>1, <1>2, RunPage, GotoType DEF Steps
<1>4. TypeOK'
  BY <1>1, <1>2, <1>3, RunPage DEF TypeOK, Page
<1>5. RunInv'
  BY <1>1, <1>2, <1>3, RunPage
  DEF RunIsPlaced, RunPrunes, RunHasRecord, RunStages, RunHasStaged, RunHasShown
<1>6. ASSUME NEW i \in Slots, i <= Len(run.note)
      PROVE  png[i] = run.note[i] /\ row[i] = run.note[i] /\ md[i] # NoPage
  <2>1. run.at = Len(run.note) /\ Shown(run.at, run.note)
        /\ row[run.at] = run.note[run.at]
    BY <1>1 DEF RunHasShown, Last, Current
  <2>2. i = run.at \/ i \in 1..(run.at - 1)
    BY <1>1, <1>6, <2>1, RunPage DEF Slots
  <2> QED
    BY <1>1, <2>1, <2>2 DEF RunHasShown, Shown
<1>7. SuccessShowsNote'
  BY <1>1, <1>2, <1>6, RunPage DEF SuccessShowsNote, Slots
<1> QED
  BY <1>4, <1>5, <1>7

(* Files beyond the last page go, text by text and image by image. *)
LEMMA PruneFileStep == IInv /\ (PruneText \/ PruneImage \/ PruneOrphan) => IInv'
<1> SUFFICES ASSUME IInv, PruneText \/ PruneImage \/ PruneOrphan PROVE IInv'
  OBVIOUS
<1> USE DEF IInv, RunInv
<1>1. /\ UNCHANGED <<note, done, row, edits, failures, crashes>>
      /\ run.pc \in {"prune", "pruneimage"} /\ done = run.note
      /\ run.note \in Notes /\ Len(run.note) \in Slots
  BY NotePages
  DEF PruneText, PruneImage, PruneOrphan, counters, RunIsPlaced, RunHasRecord
<1>2. CASE PruneText
  <2>1. PICK i \in Beyond : md' = [md EXCEPT ![i] = NoPage] /\ Goto("pruneimage", i)
    BY <1>2 DEF PruneText
  <2>2. /\ run' \in RunStates /\ run'.pc = "pruneimage" /\ run'.at = i
        /\ run'.note = run.note /\ i \in Slots /\ i > Len(run.note)
    BY <2>1, GotoType DEF Beyond, Steps
  <2>3. md' \in [Slots -> Page] /\ png' = png /\ md'[i] = NoPage
    BY <1>2, <2>1, <2>2 DEF PruneText, TypeOK, Page
  <2>4. TypeOK'
    BY <1>1, <2>2, <2>3 DEF TypeOK
  <2>5. RunInv'
    BY <1>1, <2>1, <2>2, <2>3
    DEF RunIsPlaced, RunHasRecord, RunPrunes, Beyond, RunStages, RunHasStaged,
        RunHasShown
  <2>6. SuccessShowsNote'
    BY <1>1, <2>1, <2>2, <2>3 DEF SuccessShowsNote, TypeOK, Slots
  <2> QED
    BY <2>4, <2>5, <2>6
<1>3. CASE PruneImage
  <2>1. /\ png' = [png EXCEPT ![run.at] = NoPage] /\ md' = md /\ Goto("prune", 1)
        /\ run.at \in Slots /\ run.at > Len(run.note)
    BY <1>3 DEF PruneImage, Slot, RunPrunes, Beyond
  <2>2. /\ run' \in RunStates /\ run'.pc = "prune" /\ run'.at = 1
        /\ run'.note = run.note
    BY <2>1, GotoType, MaxPagesAssumption DEF Steps, Slots
  <2>3. TypeOK'
    BY <1>1, <2>1, <2>2 DEF TypeOK, Page
  <2>4. RunInv'
    BY <1>1, <2>2
    DEF RunIsPlaced, RunHasRecord, RunPrunes, RunStages, RunHasStaged,
        RunHasShown, Slots
  <2>5. SuccessShowsNote'
    BY <1>1, <2>1 DEF SuccessShowsNote, TypeOK, Slots
  <2> QED
    BY <2>3, <2>4, <2>5
<1>4. CASE PruneOrphan
  <2>1. PICK i \in Beyond : png' = [png EXCEPT ![i] = NoPage]
    BY <1>4 DEF PruneOrphan
  <2>2. i \in Slots /\ i > Len(run.note) /\ UNCHANGED <<md, run>>
    BY <1>4 DEF PruneOrphan, Beyond
  <2>3. TypeOK'
    BY <1>1, <2>1, <2>2 DEF TypeOK, Page
  <2>4. RunInv'
    BY <1>1, <1>4, <2>2
    DEF PruneOrphan, RunIsPlaced, RunHasRecord, RunPrunes, RunStages,
        RunHasStaged, RunHasShown
  <2>5. SuccessShowsNote'
    BY <1>1, <2>1, <2>2 DEF SuccessShowsNote, TypeOK, Slots
  <2> QED
    BY <2>3, <2>4, <2>5
<1> QED
  BY <1>2, <1>3, <1>4

(* A run that is given up leaves files, rows and record as they are.       *)
LEMMA GivenUp ==
    ASSUME IInv, run' = Idle, UNCHANGED <<note, done, png, md, row>>,
           edits' \in 0..Edits, failures' \in 0..Failures, crashes' \in 0..Crashes
    PROVE  IInv'
<1>1. TypeOK'
  BY IdleType DEF IInv, TypeOK
<1>2. RunInv'
  BY IdleType
  DEF RunInv, RunPrunes, RunIsPlaced, RunHasRecord, RunStages, RunHasStaged, RunHasShown
<1>3. SuccessShowsNote'
  BY DEF IInv, SuccessShowsNote
<1> QED
  BY <1>1, <1>2, <1>3 DEF IInv

(* Every step keeps the invariant. *)
LEMMA InvStep == IInv /\ [Next]_vars => IInv'
<1> SUFFICES ASSUME IInv, [Next]_vars PROVE IInv'
  OBVIOUS
<1>1. CASE Start
  BY <1>1, StartStep
<1>2. CASE StageImage
  BY <1>2, StageImageStep
<1>3. CASE StageText
  BY <1>3, StageTextStep
<1>4. CASE Transcribe
  BY <1>4, TranscribeStep
<1>5. CASE WriteText
  BY <1>5, WriteTextStep
<1>6. CASE GeminiFails
  <2>1. failures' \in 0..Failures
    BY <1>6, BoundsAssumption DEF IInv, TypeOK, GeminiFails
  <2> QED
    BY <1>6, <2>1, GivenUp DEF IInv, TypeOK, GeminiFails, disk
<1>7. CASE SkipCached
  BY <1>7, SkipCachedStep
<1>8. CASE PersistPage
  BY <1>8, PersistPageStep
<1>9. CASE Finalize
  BY <1>9, FinalizeStep
<1>10. CASE Prune
  <2>1. CASE PruneEnds
    BY <2>1, GivenUp DEF IInv, TypeOK, PruneEnds, disk, counters
  <2> QED
    BY <1>10, <2>1, PruneFileStep DEF Prune
<1>11. CASE Edit
  <2>1. note' \in Notes /\ edits' \in 0..Edits
    BY <1>11, BoundsAssumption DEF IInv, TypeOK, Edit
  <2>2. UNCHANGED <<done, png, md, row, run, failures, crashes>>
    BY <1>11 DEF Edit, disk
  <2> QED
    BY <2>1, <2>2
    DEF IInv, TypeOK, RunInv, RunIsPlaced, RunHasRecord, RunStages, RunHasStaged,
        RunHasShown, RunPrunes, Beyond, Shown, HasBody, Current, Last, SuccessShowsNote
<1>12. CASE Crash
  <2>1. crashes' \in 0..Crashes
    BY <1>12, BoundsAssumption DEF IInv, TypeOK, Crash
  <2> QED
    BY <1>12, <2>1, GivenUp DEF IInv, TypeOK, Crash, disk
<1>13. CASE UNCHANGED vars
  BY <1>13
  DEF vars, IInv, TypeOK, RunInv, RunIsPlaced, RunHasRecord, RunStages,
      RunHasStaged, RunHasShown, RunPrunes, Beyond, Shown, HasBody, Current, Last,
      SuccessShowsNote
<1> QED
  BY <1>1, <1>2, <1>3, <1>4, <1>5, <1>6, <1>7, <1>8, <1>9, <1>10, <1>11, <1>12,
     <1>13 DEF Next, Runner

(* The invariant holds in every behaviour. *)
LEMMA InvAlways == Spec => []IInv
BY InvInit, InvStep, PTL DEF Spec

(* A record at SUCCESS names a note whose every page has its image, its    *)
(* row and some text in its slot, and no row stands beyond its last page,  *)
(* whatever runs failed or died before (run_multi_page, _persist_finalize). *)
THEOREM SuccessIsComplete == Spec => []SuccessShowsNote
<1>1. IInv => SuccessShowsNote
  BY DEF IInv
<1> QED
  BY <1>1, InvAlways, PTL

(* Files, rows, the run and the record are well typed in every behaviour.  *)
THEOREM PagesTypeCorrect == Spec => []TypeOK
<1>1. IInv => TypeOK
  BY DEF IInv
<1> QED
  BY <1>1, InvAlways, PTL

-----------------------------------------------------------------------------
(* As long as the process has not died, the text in a slot is that of the  *)
(* image in it, except between the two writes of the slot at hand.         *)
Writing(i) == run.pc \in {"stagetext", "text", "pruneimage"} /\ run.at = i

SlotsMatch == \A i \in Slots : md[i] = png[i] \/ Writing(i)

CacheIsExact == \A p \in Pages : run.cache[p] \in {p, NoPage}

NothingStaysBeyond ==
    done # <<>> /\ run.pc = "idle" =>
        \A i \in Slots : i > Len(done) => png[i] = NoPage /\ md[i] = NoPage

ExactInv == crashes = 0 => SlotsMatch /\ CacheIsExact /\ NothingStaysBeyond

LEMMA ExactInit == Init => ExactInv
BY DEF Init, ExactInv, SlotsMatch, CacheIsExact, NothingStaysBeyond, Empty, Idle,
       NothingCached

(* What the preload finds for a page is the page's own text. *)
LEMMA PreloadIsExact ==
    ASSUME SlotsMatch, run.pc = "idle", NEW p \in Pages, NEW b \in Bodies(p)
    PROVE  b \in {p, NoPage}
<1> DEFINE recorded == {i \in Slots : Recorded(i) /\ row[i] = p}
           orphans == {i \in Slots : Orphan(i) /\ png[i] = p}
<1>1. \A i \in Slots : md[i] = png[i]
  BY DEF SlotsMatch, Writing
<1>2. \A i \in recorded \cup orphans : md[i] = p
  BY <1>1 DEF Recorded, Orphan
<1>3. \/ b \in {md[i] : i \in {s \in recorded : \A t \in recorded : s <= t}}
      \/ b \in {md[i] : i \in orphans}
      \/ b = NoPage
  BY DEF Bodies
<1> QED
  BY <1>2, <1>3

(* A step that writes no file, and neither ends a run nor leaves the two   *)
(* writes of a slot, keeps what holds.                                     *)
LEMMA ExactKept ==
    ASSUME ExactInv, UNCHANGED <<png, md, crashes>>,
           ~ \E i \in Slots : Writing(i), run'.cache = run.cache,
           run'.pc = "idle" => UNCHANGED <<run, done>>
    PROVE  ExactInv'
BY DEF ExactInv, SlotsMatch, CacheIsExact, NothingStaysBeyond, Writing

(* A run that writes a slot's image does so beside no other open slot.     *)
LEMMA ImageStep ==
    ASSUME IInv, ExactInv, run.pc \in {"stage", "page"},
           NEW pc \in {"stagetext", "text"}, Goto(pc, run.at),
           png' = [png EXCEPT ![run.at] = Current], UNCHANGED <<md, crashes>>
    PROVE  ExactInv'
<1>1. /\ run'.pc = pc /\ run'.at = run.at /\ run'.cache = run.cache
      /\ run.at \in Slots
  BY RunPage, GotoType DEF IInv, RunInv, Steps
<1>2. crashes = 0 => \A i \in Slots : md'[i] = png'[i] \/ i = run.at
  BY <1>1 DEF ExactInv, SlotsMatch, Writing, IInv, TypeOK
<1> QED
  BY <1>1, <1>2
  DEF ExactInv, SlotsMatch, CacheIsExact, NothingStaysBeyond, Writing

(* The text that follows is the image's. *)
LEMMA TextStep ==
    ASSUME IInv, ExactInv, run.pc \in {"stagetext", "text"},
           NEW pc \in Steps \ {"idle", "stagetext", "text", "pruneimage"}, NEW at \in Slots,
           Goto(pc, at), NEW b,
           crashes = 0 => b = Current,
           md' = [md EXCEPT ![run.at] = b], UNCHANGED <<png, crashes>>
    PROVE  ExactInv'
<1>1. /\ run'.pc = pc /\ run'.cache = run.cache
      /\ run.at \in Slots /\ png[run.at] = Current
  BY RunPage, GotoType DEF IInv, RunInv, Steps, RunStages, RunHasShown
<1>2. crashes = 0 => \A i \in Slots : md'[i] = png'[i]
  BY <1>1 DEF ExactInv, SlotsMatch, Writing, IInv, TypeOK
<1> QED
  BY <1>1, <1>2
  DEF ExactInv, SlotsMatch, CacheIsExact, NothingStaysBeyond, Writing

LEMMA ExactStep == IInv /\ ExactInv /\ [Next]_vars => ExactInv'
<1> SUFFICES ASSUME IInv, ExactInv, [Next]_vars PROVE ExactInv'
  OBVIOUS
<1>1. CASE Start
  <2>1. PICK cache \in Caches : \E s \in Staging(1, note, cache) :
            run' = [pc |-> s[1], note |-> note, cache |-> cache, at |-> s[2]]
    BY <1>1 DEF Start
  <2>2. /\ run.pc = "idle" /\ done' = <<>> /\ run'.cache = cache
        /\ UNCHANGED <<png, md, crashes>>
    BY <1>1, <2>1 DEF Start, disk, counters
  <2>3. crashes = 0 => CacheIsExact'
    BY <2>1, <2>2, PreloadIsExact DEF ExactInv, CacheIsExact, Caches
  <2>4. crashes = 0 => SlotsMatch'
    BY <2>2 DEF ExactInv, SlotsMatch, Writing
  <2> QED
    BY <2>2, <2>3, <2>4 DEF ExactInv, NothingStaysBeyond
<1>2. CASE StageImage
  BY <1>2, ImageStep DEF StageImage, Slot, counters
<1>3. CASE StageText
  <2>1. PICK s \in Staging(run.at + 1, run.note, run.cache) : Goto(s[1], s[2])
    BY <1>3 DEF StageText, Slot
  <2>2. run.pc = "stagetext"
    BY <1>3 DEF StageText
  <2>3. /\ Len(run.note) \in Slots /\ run.at \in 1..Len(run.note)
        /\ run.note \in Notes /\ Current \in Pages /\ HasBody
    BY <2>2, RunPage DEF IInv, RunInv, RunStages
  <2>4. \/ s = <<"page", 1>>
        \/ \E t \in (run.at + 1)..Len(run.note) : s = <<"stage", t>>
    BY <2>1, <2>3, StagingLeads DEF Slots
  <2>5. s[1] \in Steps \ {"idle", "stagetext", "text", "pruneimage"} /\ s[2] \in Slots
    BY <2>3, <2>4, MaxPagesAssumption DEF Steps, Slots
  <2>6. crashes = 0 => run.cache[Current] = Current
    BY <2>3 DEF ExactInv, CacheIsExact, HasBody
  <2> QED
    BY <1>3, <2>1, <2>2, <2>5, <2>6, TextStep DEF StageText, Slot, counters
<1>4. CASE Transcribe
  BY <1>4, ImageStep DEF Transcribe, Slot, counters
<1>5. CASE WriteText
  <2>1. run.pc = "text" /\ run.at \in Slots
    BY <1>5, RunPage DEF WriteText, IInv, RunInv
  <2> QED
    BY <1>5, <2>1, TextStep DEF WriteText, Slot, counters, Steps
<1>6. CASE GeminiFails
  <2>1. run.pc = "page" /\ done = <<>> /\ run' = Idle
    BY <1>6 DEF GeminiFails, IInv, RunInv, RunHasRecord
  <2>2. UNCHANGED <<png, md, crashes, done>>
    BY <1>6 DEF GeminiFails, disk
  <2> QED
    BY <2>1, <2>2 DEF ExactInv, SlotsMatch, CacheIsExact, NothingStaysBeyond,
                      Writing, Idle, NothingCached
<1>7. CASE SkipCached
  BY <1>7, ExactKept, RunPage, GotoType
  DEF SkipCached, IInv, RunInv, Writing, Steps, disk, counters, Slot
<1>8. CASE PersistPage
  <2>1. run.pc = "row" /\ UNCHANGED <<png, md, crashes>>
    BY <1>8 DEF PersistPage, disk, counters
  <2>2. run'.cache = run.cache /\ run'.pc \in {"finalize", "page"}
    BY <1>8 DEF PersistPage, Goto, IInv, TypeOK, RunStates
  <2> QED
    BY <2>1, <2>2, ExactKept DEF Writing
<1>9. CASE Finalize
  BY <1>9, ExactKept, RunPage, GotoType
  DEF Finalize, IInv, RunInv, Writing, Steps, disk, counters, Slot
<1>10. CASE Prune
  <2>1. CASE PruneText
    <3>1. PICK i \in Beyond : /\ md' = [md EXCEPT ![i] = NoPage]
                              /\ Goto("pruneimage", i)
      BY <2>1 DEF PruneText
    <3>2. /\ run'.pc = "pruneimage" /\ run'.at = i /\ run'.cache = run.cache
          /\ run.pc = "prune" /\ UNCHANGED <<png, crashes>>
      BY <2>1, <3>1, GotoType DEF IInv, PruneText, Beyond, Steps, counters
    <3> QED
      BY <3>1, <3>2 DEF ExactInv, SlotsMatch, CacheIsExact, NothingStaysBeyond,
                        Writing, IInv, TypeOK
  <2>2. CASE PruneImage
    <3>1. /\ run'.pc = "prune" /\ run'.cache = run.cache
          /\ md[run.at] = NoPage /\ run.pc = "pruneimage"
          /\ png' = [png EXCEPT ![run.at] = NoPage] /\ UNCHANGED <<md, crashes>>
      BY <2>2, GotoType, MaxPagesAssumption
      DEF IInv, RunInv, RunPrunes, PruneImage, Slot, Slots, Steps, counters
    <3> QED
      BY <3>1 DEF ExactInv, SlotsMatch, CacheIsExact, NothingStaysBeyond, Writing,
                  IInv, TypeOK
  <2>3. CASE PruneOrphan
    <3>1. PICK i \in Beyond : md[i] = NoPage /\ png' = [png EXCEPT ![i] = NoPage]
      BY <2>3 DEF PruneOrphan
    <3>2. UNCHANGED <<md, run, done, crashes>>
      BY <2>3 DEF PruneOrphan, counters
    <3> QED
      BY <3>1, <3>2 DEF ExactInv, SlotsMatch, CacheIsExact, NothingStaysBeyond,
                        Writing, IInv, TypeOK
  <2>4. CASE PruneEnds
    <3>1. /\ run.pc = "prune" /\ done = run.note /\ run' = Idle
          /\ UNCHANGED <<png, md, done, crashes>>
      BY <2>4 DEF PruneEnds, IInv, RunInv, RunHasRecord, disk, counters
    <3> QED
      BY <2>4, <3>1
      DEF PruneEnds, Beyond, ExactInv, SlotsMatch, CacheIsExact,
          NothingStaysBeyond, Writing, Idle, NothingCached
  <2> QED
    BY <1>10, <2>1, <2>2, <2>3, <2>4 DEF Prune
<1>11. CASE Edit
  BY <1>11 DEF Edit, disk, ExactInv, SlotsMatch, CacheIsExact,
               NothingStaysBeyond, Writing
<1>12. CASE Crash
  BY <1>12 DEF Crash, ExactInv, IInv, TypeOK
<1>13. CASE UNCHANGED vars
  BY <1>13 DEF vars, ExactInv, SlotsMatch, CacheIsExact, NothingStaysBeyond,
               Writing
<1> QED
  BY <1>1, <1>2, <1>3, <1>4, <1>5, <1>6, <1>7, <1>8, <1>9, <1>10, <1>11, <1>12,
     <1>13 DEF Next, Runner

(* Until the process dies, every page at SUCCESS has its own text beside   *)
(* it, and no file of a page the note has lost stays: edits that shift     *)
(* pages and runs that Gemini makes fail do not mix the cache up           *)
(* (_preload_cached_pages, run_multi_page, _cleanup_stale_pages).          *)
THEOREM RunsAreExact == Spec => []RunsWithoutCrashAreExact
<1>1. ASSUME IInv, ExactInv, crashes = 0 PROVE TextIsOfItsPage
  <2>1. CASE done = <<>>
    BY <2>1 DEF TextIsOfItsPage
  <2>2. CASE done # <<>>
    <3>1. done \in Notes /\ Len(done) \in Slots
      BY <1>1, <2>2, NotePages DEF IInv, TypeOK
    <3>2. \A i \in 1..Len(done) : i \in Slots /\ png[i] = done[i]
      BY <1>1, <2>2, <3>1, NotePages DEF IInv, SuccessShowsNote, Slots
    <3>3. \A i \in 1..Len(done) : ~ Writing(i)
      BY <1>1, <2>2, <3>1
      DEF IInv, RunInv, RunHasRecord, RunPrunes, Beyond, Writing, Slots
    <3> QED
      BY <1>1, <3>2, <3>3 DEF TextIsOfItsPage, ExactInv, SlotsMatch
  <2> QED
    BY <2>1, <2>2
<1>2. IInv /\ ExactInv => RunsWithoutCrashAreExact
  BY <1>1 DEF RunsWithoutCrashAreExact, ExactInv, NothingStaysBeyond
<1> QED
  BY <1>2, ExactInit, ExactStep, InvAlways, PTL DEF Spec

-----------------------------------------------------------------------------
(* A page shown in some slot is found by the next preload: its text counts *)
(* as the row's if the row is the image's, and as the image's otherwise.   *)
LEMMA ShownIsCached ==
    ASSUME NEW i \in Slots, NEW n, Shown(i, n), n[i] # NoPage
    PROVE  Cached(n[i])
<1> DEFINE recorded == {o \in Slots : Recorded(o) /\ row[o] = n[i]}
           orphans == {o \in Slots : Orphan(o) /\ png[o] = n[i]}
<1>1. i \in recorded \/ i \in orphans
  BY DEF Recorded, Orphan, Shown
<1>2. \A o \in recorded \cup orphans : md[o] # NoPage
  BY DEF Recorded, Orphan
<1>3. CASE recorded # {}
  <2>1. Bodies(n[i]) = {md[o] : o \in {s \in recorded : \A t \in recorded : s <= t}}
    BY <1>3 DEF Bodies
  <2> QED
    BY <1>2, <2>1 DEF Cached
<1>4. CASE recorded = {}
  <2>1. Bodies(n[i]) = {md[o] : o \in orphans}
    BY <1>1, <1>4 DEF Bodies
  <2> QED
    BY <1>1, <1>2, <1>4, <2>1 DEF Cached
<1> QED
  BY <1>3, <1>4

(* When Gemini fails, the next run finds every page of the note that this  *)
(* one had found cached or had gone through: staging has put the former in *)
(* their slots before the first call (run_multi_page).                     *)
THEOREM FailedRunsKeepPages == Spec => FailureKeepsTranscriptions
<1>1. ASSUME IInv, [Next]_vars, failures' # failures,
             NEW p \in Pages, GoneThrough(p)
      PROVE  Cached(p)'
  <2>1. GeminiFails
    BY <1>1 DEF Next, Runner, Edit, Crash, vars, Start, StageImage, StageText,
                Transcribe, WriteText, SkipCached, PersistPage, Finalize, Prune,
                PruneText, PruneImage, PruneOrphan, PruneEnds, counters
  <2>2. run.pc = "page" /\ UNCHANGED <<png, md, row>>
    BY <2>1 DEF GeminiFails, disk
  <2>3. PICK i \in 1..Len(run.note) :
            run.note[i] = p /\ (run.cache[p] # NoPage \/ i < run.at)
    BY <1>1 DEF GoneThrough
  <2>4. Shown(i, run.note)
    BY <1>1, <2>2, <2>3, RunPage
    DEF IInv, RunInv, RunHasStaged, RunHasShown, Slots
  <2>5. Cached(p)
    BY <1>1, <2>2, <2>3, <2>4, RunPage, ShownIsCached, PageIsThere
    DEF IInv, RunInv
  <2> QED
    BY <2>2, <2>5 DEF Cached, Bodies, Recorded, Orphan
<1>2. IInv /\ [Next]_vars
        => [failures' # failures =>
               \A p \in Pages : GoneThrough(p) => Cached(p)']_vars
  BY <1>1 DEF vars
<1> QED
  BY <1>2, InvAlways, PTL DEF Spec, FailureKeepsTranscriptions
=============================================================================

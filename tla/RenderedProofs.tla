--------------------------- MODULE RenderedProofs ---------------------------
(***************************************************************************)
(* What a reader of the vault may rely on, for any number of files, keys   *)
(* and workers.  A note that conversions skip as up to date is shown as it *)
(* is in Drive, unless contents were copied; and where notes stay where    *)
(* they are, being replaced, edited, trashed and restored but not moved,   *)
(* no conversion under way loses its directory, none is orphaned, and the  *)
(* rendering of a live note stays.                                         *)
(***************************************************************************)
EXTENDS DirectoryProofs

-----------------------------------------------------------------------------
(* What one step does to one conversion.                                   *)

Same(j) ==
    /\ convert'[j].md5 = convert[j].md5 /\ convert'[j].at = convert[j].at
    /\ convert'[j].content = convert[j].content
    /\ convert'[j].stale = convert[j].stale

(* Who enqueues: the poller and the sweep, for a note in its place, and a  *)
(* delete that found a twin.                                               *)
Enqueued(j) ==
    \/ UNCHANGED driveVars /\ Live(File(j)) /\ drive[File(j)].at = Key(j)
    \/ \E d \in Deleters :
          delete[d].pc = "enqueue" /\ j = <<delete[d].twin, delete[d].target>>

JobStep(j) ==
    \/ convert'[j] = convert[j]
    \/ convert'[j] = NewJob("idle")
    \/ convert'[j] = NewJob("queued") /\ (convert[j].pc # "idle" \/ Enqueued(j))
    \/ /\ UNCHANGED driveVars
       /\ \/ /\ <<convert[j].pc, convert'[j].pc>> \in
                    {<<"queued", "started">>, <<"pending", "pages">>,
                     <<"pages", "write">>, <<"write", "finalize">>,
                     <<"finalize", "moved">>}
             /\ Same(j)
          \/ /\ convert[j].pc = "started" /\ convert'[j].pc = "check"
             /\ Live(File(j))
             /\ convert'[j].md5 = drive[File(j)].content
             /\ convert'[j].at = drive[File(j)].at
             /\ convert'[j].stale = convert[j].stale
          \/ /\ convert[j].pc = "check" /\ convert'[j].pc = "download"
             /\ convert'[j].md5 = convert[j].md5
             /\ convert'[j].at = convert[j].at
             /\ convert'[j].stale = RowsOf(rows, File(j)) \ {Key(j)}
          \/ /\ convert[j].pc = "download" /\ convert'[j].pc = "pending"
             /\ convert'[j].md5 = convert[j].md5
             /\ convert'[j].at = convert[j].at
             /\ convert'[j].content = drive[File(j)].content
             /\ convert'[j].stale = convert[j].stale
          \/ /\ convert[j].pc = "moved" /\ convert'[j].pc \in {"moved", "oldrows"}
             /\ convert[j].stale # {}
          \/ convert[j].pc = "oldrows" /\ convert'[j].pc = "moved"

(* Each handler's assignments, as one conversion sees them. *)
LEMMA JobSteps ==
    ASSUME TypeOK, [Next]_vars, NEW j \in Jobs
    PROVE  JobStep(j)
<1> USE DEF queues
<1>1. ASSUME NEW f, NEW k, EnqueueConvert(f, k)
      PROVE  \/ convert'[j] = convert[j]
             \/ convert'[j] = NewJob("queued") /\ j = <<f, k>>
  BY <1>1 DEF TypeOK, EnqueueConvert
<1>2. CASE UNCHANGED vars \/ DriveStep \/ CursorExpires
  BY <1>2 DEF vars, DriveStep, Create, Move, Copy, Edit, Trash, Restore, Remove, Change,
              CursorExpires, JobStep
<1>3. CASE \E f \in Files : Dispatch(f) \/ Sweep(f) \/ DispatchFails(f)
  <2> PICK f \in Files : Dispatch(f) \/ Sweep(f) \/ DispatchFails(f)
    BY <1>3
  <2>1. UNCHANGED driveVars
    BY DEF Dispatch, Sweep, DispatchFails
  <2>2. \/ convert' = convert
        \/ Live(f) /\ EnqueueConvert(f, drive[f].at)
    BY DEF Dispatch, Sweep, DispatchFails, ResolvedToConvert
  <2>3. \A k : j = <<f, k>> => File(j) = f /\ Key(j) = k
    BY DEF File, Key
  <2> QED
    BY <1>1, <2>1, <2>2, <2>3 DEF JobStep, Enqueued
<1>4. CASE \/ \E d \in Deleters : DeleteStep(d) \/ DeleteLookupFails(d)
           \/ \E d \in Deleters, f \in Files : DeleteStart(d, f)
  <2>1. \/ convert' = convert
        \/ \E d \in Deleters :
              /\ delete[d].pc = "enqueue"
              /\ EnqueueConvert(delete[d].twin, delete[d].target)
    BY <1>4
    DEF DeleteStep, DeleteLookupFails, DeleteStart, DeleteFirstRead, DeleteReread,
        DeleteLookup, DeleteRepoint, DeleteEnqueue, DeleteRmtree, DeleteRows, Deleting
  <2> QED
    BY <1>1, <2>1 DEF JobStep, Enqueued
<1>5. CASE Crash \/ Upgrade
  BY <1>5 DEF Crash, Upgrade, At, JobStep
<1>6. CASE \E i \in Jobs : ConvertStart(i) \/ ConvertStep(i) \/ ConvertFails(i)
  <2> PICK i \in Jobs : ConvertStart(i) \/ ConvertStep(i) \/ ConvertFails(i)
    BY <1>6
  <2>0. UNCHANGED driveVars
    BY DEF ConvertStart, ConvertStep, ConvertFails, ConvertMetadata, ConvertCheck,
           ConvertDownload, ConvertPending, ConvertPages, ConvertWrite, ConvertFinalize,
           CleanupOld, CleanupOldRows, ConvertEnd
  <2>i. convert[i] \in JobStates
    BY DEF TypeOK
  <2>c. ASSUME NEW v, convert' = [convert EXCEPT ![i] = v]
        PROVE  convert'[i] = v /\ (j # i => convert'[j] = convert[j])
    BY <2>c DEF TypeOK
  <2>s. CASE j # i /\ convert'[j] = convert[j]
    BY <2>s DEF JobStep
  <2>f. CASE Finish(i)
    BY <2>f, <2>c DEF Finish, JobStep
  <2>g. ASSUME NEW pc, Goto(i, pc),
               <<convert[i].pc, pc>> \in
                    {<<"queued", "started">>, <<"pending", "pages">>,
                     <<"pages", "write">>, <<"write", "finalize">>,
                     <<"finalize", "moved">>}
        PROVE  JobStep(j)
    <3>1. convert' = [convert EXCEPT ![i] = [convert[i] EXCEPT !.pc = pc]]
      BY <2>g DEF Goto
    <3>2. convert'[i] = [convert[i] EXCEPT !.pc = pc] /\ (j # i => convert'[j] = convert[j])
      BY <2>c, <3>1
    <3>3. CASE j = i
      <4>1. Same(j) /\ convert'[j].pc = pc
        BY <2>i, <3>2, <3>3 DEF JobStates, Same
      <4> QED
        BY <2>0, <2>g, <3>3, <4>1 DEF JobStep
    <3> QED
      BY <2>s, <3>2, <3>3
  <2>1. CASE ConvertStart(i) \/ ConvertPending(i) \/ ConvertPages(i) \/ ConvertFinalize(i)
    <3>1. \/ convert[i].pc = "queued" /\ Goto(i, "started")
          \/ convert[i].pc = "pending" /\ Goto(i, "pages")
          \/ convert[i].pc = "pages" /\ Goto(i, "write")
          \/ convert[i].pc = "finalize" /\ Goto(i, "moved")
      BY <2>1 DEF ConvertStart, ConvertPending, ConvertPages, ConvertFinalize, At
    <3> QED
      BY <2>g, <3>1
  <2>2. CASE ConvertWrite(i) \/ ConvertEnd(i) \/ ConvertFails(i)
    <3>1. (convert[i].pc = "write" /\ Goto(i, "finalize")) \/ Finish(i)
      BY <2>2 DEF ConvertWrite, ConvertEnd, ConvertFails, PersistFailure, At
    <3> QED
      BY <2>f, <2>g, <3>1
  <2>3. CASE ConvertMetadata(i) /\ ~ Finish(i)
    <3> DEFINE v == [convert[i] EXCEPT !.pc = "check", !.md5 = drive[File(i)].content,
                                       !.at = drive[File(i)].at]
    <3>1. /\ convert[i].pc = "started" /\ Live(File(i))
          /\ convert' = [convert EXCEPT ![i] = v]
      BY <2>3 DEF ConvertMetadata, At
    <3>2. /\ v.pc = "check" /\ v.md5 = drive[File(i)].content
          /\ v.at = drive[File(i)].at /\ v.stale = convert[i].stale
      BY <2>i DEF JobStates
    <3> HIDE DEF v
    <3> QED
      BY <2>0, <2>c, <2>s, <3>1, <3>2 DEF JobStep
  <2>4. CASE ConvertCheck(i) /\ ~ Finish(i)
    <3> DEFINE stale == RowsOf(rows, File(i)) \ {Key(i)}
               v == [convert[i] EXCEPT !.pc = "download", !.stale = stale]
    <3>1. convert[i].pc = "check" /\ convert' = [convert EXCEPT ![i] = v]
      BY <2>4 DEF ConvertCheck, At
    <3>2. /\ v.pc = "download" /\ v.md5 = convert[i].md5
          /\ v.at = convert[i].at /\ v.stale = stale
      BY <2>i DEF JobStates
    <3> HIDE DEF v
    <3> QED
      BY <2>0, <2>c, <2>s, <3>1, <3>2 DEF JobStep
  <2>5. CASE ConvertDownload(i) /\ ~ Finish(i)
    <3> DEFINE v == [convert[i] EXCEPT !.pc = "pending",
                                       !.content = drive[File(i)].content]
    <3>1. convert[i].pc = "download" /\ convert' = [convert EXCEPT ![i] = v]
      BY <2>5 DEF ConvertDownload, At
    <3>2. /\ v.pc = "pending" /\ v.md5 = convert[i].md5 /\ v.at = convert[i].at
          /\ v.content = drive[File(i)].content /\ v.stale = convert[i].stale
      BY <2>i DEF JobStates
    <3> HIDE DEF v
    <3> QED
      BY <2>0, <2>c, <2>s, <3>1, <3>2 DEF JobStep
  <2>6. CASE CleanupOld(i)
    <3>1. PICK old \in convert[i].stale :
             \/ convert' = [convert EXCEPT ![i] = [@ EXCEPT !.pc = "oldrows", !.old = old]]
             \/ convert' = [convert EXCEPT ![i].stale = @ \ {old}]
      <4>1. CASE \E o \in convert[i].stale : o \in RowsOf(rows, File(i)) /\ rows[o].out
        BY <2>6 DEF CleanupOld
      <4> QED
        BY <2>6, <4>1 DEF CleanupOld
    <3>2. convert[i].pc = "moved"
      BY <2>6 DEF CleanupOld, At
    <3> DEFINE v1 == [convert[i] EXCEPT !.pc = "oldrows", !.old = old]
               v2 == [convert[i] EXCEPT !.stale = @ \ {old}]
    <3>3. v1.pc = "oldrows" /\ v2.pc = "moved"
      BY <2>i, <3>2 DEF JobStates
    <3>4. convert' = [convert EXCEPT ![i] = v1] \/ convert' = [convert EXCEPT ![i] = v2]
      BY <3>1
    <3> HIDE DEF v1, v2
    <3>5. j = i => convert'[j].pc \in {"moved", "oldrows"} /\ convert[j].stale # {}
      BY <2>c, <3>1, <3>3, <3>4
    <3>6. j # i => convert'[j] = convert[j]
      BY <2>c, <3>4
    <3> QED
      BY <2>0, <2>s, <3>2, <3>5, <3>6 DEF JobStep
  <2>7. CASE CleanupOldRows(i)
    <3> DEFINE v == [convert[i] EXCEPT !.pc = "moved",
                                       !.stale = convert[i].stale \ {convert[i].old}]
    <3>1. convert[i].pc = "oldrows" /\ convert' = [convert EXCEPT ![i] = v]
      BY <2>7 DEF CleanupOldRows, At
    <3>2. v.pc = "moved"
      BY <2>i DEF JobStates
    <3> HIDE DEF v
    <3> QED
      BY <2>0, <2>c, <2>s, <3>1, <3>2 DEF JobStep
  <2> QED
    BY <2>1, <2>2, <2>f, <2>3, <2>4, <2>5, <2>6, <2>7 DEF ConvertStep
<1> QED
  BY <1>2, <1>3, <1>4, <1>5, <1>6 DEF Next, WorkerStep, Failure

-----------------------------------------------------------------------------
(* What one step does to the record of one key.                            *)

SameRow(k) ==
    /\ rows'[k].status = rows[k].status /\ rows'[k].md5 = rows[k].md5
    /\ rows'[k].file = rows[k].file
    /\ rows'[k].parent = rows[k].parent /\ rows'[k].name = rows[k].name

(* A conversion of the key marks the row PENDING, ERROR or SUCCESS.        *)
MarksPending(j, k) ==
    /\ convert[j].pc = "pending" /\ rows'[k].status = "PENDING"
    /\ rows'[k].file = File(j)
    /\ rows'[k].parent = Folder(convert[j].at)
    /\ rows'[k].name = Name(convert[j].at)

MarksError(j, k) ==
    /\ rows'[k].status = "ERROR" /\ rows'[k].file = File(j)
    /\ rows'[k].parent = IF HasRow(rows, k) THEN rows[k].parent ELSE NoFolder
    /\ \/ /\ convert[j].pc = "started" /\ lock[k] = Nobody
          /\ rows'[k].name = Name(k)
       \/ /\ convert[j].pc \in {"download", "pages", "write"}
          /\ rows'[k].name = Name(convert[j].at)

MarksSuccess(j, k) ==
    /\ convert[j].pc = "finalize" /\ rows'[k].status = "SUCCESS"
    /\ HasRow(rows, k)
    /\ rows'[k].md5 = convert[j].md5
    /\ rows'[k].file = rows[k].file
    /\ rows'[k].parent = rows[k].parent /\ rows'[k].name = rows[k].name

Repoints(d, k) ==
    /\ delete[d].pc = "repoint" /\ delete[d].target = k
    /\ HasRow(rows, k) /\ HasRow(rows', k)
    /\ rows'[k].status = rows[k].status /\ rows'[k].md5 = rows[k].md5
    /\ rows'[k].file = delete[d].twin
    /\ rows'[k].parent = rows[k].parent /\ rows'[k].name = rows[k].name

RowStep(k) ==
    \/ SameRow(k)
    \/ /\ UNCHANGED <<driveVars, vault>>
       /\ \/ \E j \in Jobs :
                /\ Key(j) = k
                /\ MarksPending(j, k) \/ MarksError(j, k) \/ MarksSuccess(j, k)
          \/ \E d \in Deleters : Repoints(d, k)
          \/ /\ ~ HasRow(rows', k)
             /\ \/ \E d \in Deleters : delete[d].pc = "rows" /\ delete[d].target = k
                \/ \E j \in Jobs : convert[j].pc = "oldrows" /\ convert[j].old = k

(* Each handler's transaction, as one record sees it. *)
LEMMA RowSteps ==
    ASSUME TypeOK, [Next]_vars, NEW k \in Keys
    PROVE  RowStep(k)
<1> USE DEF stores
<1>t. rows \in Tables
  BY DEF TypeOK
<1>0. CASE rows' = rows
  BY <1>0 DEF RowStep, SameRow
<1>1. CASE rows' # rows
  <2>1. \/ \E j \in Jobs : \/ ConvertPending(j) \/ ConvertWrite(j) \/ ConvertFails(j)
                           \/ ConvertFinalize(j) \/ CleanupOldRows(j)
        \/ \E d \in Deleters : DeleteRepoint(d) \/ DeleteRows(d)
    BY <1>1
    DEF Next, vars, DriveStep, Create, Move, Copy, Edit, Trash, Restore, Remove, Change,
        WorkerStep, Failure, Dispatch, Sweep, DispatchFails, CursorExpires, ConvertStart,
        ConvertStep, ConvertMetadata, ConvertCheck, ConvertDownload, ConvertPages,
        CleanupOld, ConvertEnd, DeleteStart, DeleteStep, DeleteFirstRead, DeleteReread,
        DeleteLookup, DeleteLookupFails, DeleteEnqueue, DeleteRmtree, Crash, Upgrade
  <2>j. ASSUME NEW j \in Jobs
        PROVE  /\ Key(j) \in Keys /\ File(j) \in Files /\ convert[j].at \in Places
               /\ convert[j].md5 \in Md5s /\ convert[j].old \in Keys
               /\ Name(Key(j)) \in Names /\ Name(convert[j].at) \in Names
    <3>1. Key(j) \in Keys /\ File(j) \in Files /\ convert[j] \in JobStates
      BY DEF TypeOK, Jobs, Key, File
    <3> QED
      BY <3>1, PlaceParts, KeysAssumption DEF JobStates
  <2>d. ASSUME NEW d \in Deleters
        PROVE  delete[d].target \in Keys /\ delete[d].twin \in Files \cup {NoFile}
    BY DEF TypeOK, DeleteStates
  <2>2. CASE \E j \in Jobs : ConvertPending(j)
    <3> PICK j \in Jobs : ConvertPending(j)
      BY <2>2
    <3>1. /\ convert[j].pc = "pending" /\ UNCHANGED <<driveVars, vault>>
          /\ rows' = UpsertPending(rows, Key(j), File(j), convert[j].at)
      BY DEF ConvertPending, At
    <3> QED
      BY <1>t, <2>j, <3>1, UpsertPendingType DEF RowStep, SameRow, MarksPending
  <2>3. CASE \E j \in Jobs : ConvertFails(j) \/ ConvertWrite(j)
    <3> PICK j \in Jobs : ConvertFails(j) \/ ConvertWrite(j)
      BY <2>3
    <3>1. /\ UNCHANGED <<driveVars, vault>>
          /\ \E name \in Names :
                /\ rows' = RecordFailure(rows, Key(j), File(j), name)
                /\ \/ /\ convert[j].pc = "started" /\ lock[Key(j)] = Nobody
                      /\ name = Name(Key(j))
                   \/ /\ convert[j].pc \in {"download", "pages", "write"}
                      /\ name = Name(convert[j].at)
      BY <1>1, <2>j DEF ConvertFails, ConvertWrite, PersistFailure, At
    <3> QED
      BY <1>t, <2>j, <3>1, RecordFailureType DEF RowStep, SameRow, MarksError
  <2>4. CASE \E j \in Jobs : ConvertFinalize(j)
    <3> PICK j \in Jobs : ConvertFinalize(j)
      BY <2>4
    <3>1. /\ convert[j].pc = "finalize" /\ UNCHANGED <<driveVars, vault>>
          /\ rows' = MarkSuccess(rows, Key(j), convert[j].md5)
      BY DEF ConvertFinalize, At
    <3> QED
      BY <1>t, <1>1, <2>j, <3>1, MarkSuccessType DEF RowStep, SameRow, MarksSuccess
  <2>5. CASE \E j \in Jobs : CleanupOldRows(j)
    <3> PICK j \in Jobs : CleanupOldRows(j)
      BY <2>5
    <3>1. /\ convert[j].pc = "oldrows" /\ UNCHANGED <<driveVars, vault>>
          /\ rows' = DeleteByLogicalKey(rows, convert[j].old)
      BY <1>1 DEF CleanupOldRows, At
    <3> QED
      BY <1>t, <2>j, <3>1, DeleteByLogicalKeyType DEF RowStep, SameRow, HasRow
  <2>6. CASE \E d \in Deleters : DeleteRepoint(d)
    <3> PICK d \in Deleters : DeleteRepoint(d)
      BY <2>6
    <3>1. /\ delete[d].pc = "repoint" /\ UNCHANGED <<driveVars, vault>>
          /\ rows' = SetCurrentFileId(rows, delete[d].target, delete[d].twin)
      BY DEF DeleteRepoint, Deleting
    <3>2. HasRow(rows, delete[d].target)
      BY <1>1, <3>1 DEF SetCurrentFileId
    <3> QED
      BY <1>t, <2>d, <3>1, <3>2, SetCurrentFileIdType
      DEF RowStep, SameRow, Repoints, HasRow
  <2>7. CASE \E d \in Deleters : DeleteRows(d)
    <3> PICK d \in Deleters : DeleteRows(d)
      BY <2>7
    <3>1. /\ delete[d].pc = "rows" /\ UNCHANGED <<driveVars, vault>>
          /\ rows' = DeleteByLogicalKey(rows, delete[d].target)
      BY DEF DeleteRows, Deleting
    <3> QED
      BY <1>t, <2>d, <3>1, DeleteByLogicalKeyType DEF RowStep, SameRow, HasRow
  <2> QED
    BY <2>1, <2>2, <2>3, <2>4, <2>5, <2>6, <2>7
<1> QED
  BY <1>0, <1>1

-----------------------------------------------------------------------------
(* An up-to-date note is shown as it is.  The md5 of a run is read before  *)
(* the bytes, so a claim may name an older content than the directory      *)
(* shows.  Such a claim is harmless while the content it names is gone for *)
(* good: no file has it, and without a copy none will have it again.       *)

Superseded(m) ==
    \A f \in Files : drive[f].state # "absent" => drive[f].content # m

Known(m, c) == m <= top /\ (c = m \/ Superseded(m))

ContentsDiffer ==
    \A f, g \in Files :
        f # g /\ drive[f].state # "absent" /\ drive[g].state # "absent"
        => drive[f].content # drive[g].content

JobKnows(j) ==
    /\ convert[j].pc \in {"check", "download"} =>
          Known(convert[j].md5, drive[File(j)].content)
    /\ convert[j].pc \in {"pending", "pages", "write", "finalize"} =>
          Known(convert[j].md5, convert[j].content)

KeyKnows(k) ==
    rows[k].status = "SUCCESS" /\ vault[k].state = "whole" =>
        Known(rows[k].md5, vault[k].content)

ClaimsAreKnown ==
    /\ ContentsDiffer
    /\ \A j \in Jobs : JobKnows(j)
    /\ \A k \in Keys : KeyKnows(k)

FreshInv == spent["copy"] = 0 => ClaimsAreKnown

(* The strengthening implies the property. *)
LEMMA FreshInvSuffices ==
    TypeOK /\ WholeInv /\ FreshInv => UpToDateIsRendered
<1> SUFFICES ASSUME TypeOK, WholeInv, FreshInv, spent["copy"] = 0,
                    NEW f \in Files, NEW k \in Keys,
                    Live(f), UpToDate(rows, k, f, drive[f].content),
                    vault[k].state # "none"
             PROVE  vault[k] = Whole(drive[f].content)
  BY DEF UpToDateIsRendered
<1>1. vault[k] \in Dirs
  BY DEF TypeOK
<1>2. /\ rows[k].status = "SUCCESS" /\ rows[k].md5 = drive[f].content
      /\ drive[f].state = "live"
  BY DEF UpToDate, Live
<1>3. vault[k].state = "whole"
  BY <1>1, <1>2 DEF WholeInv, KeyInv, Dirs
<1>4. vault[k].content = drive[f].content
  BY <1>2, <1>3 DEF FreshInv, ClaimsAreKnown, KeyKnows, Known, Superseded
<1> QED
  BY <1>1, <1>3, <1>4 DEF Dirs, Whole

(* The strengthening holds of the empty tables and directories. *)
LEMMA FreshInit == Init => FreshInv
<1> SUFFICES ASSUME Init PROVE ClaimsAreKnown
  BY DEF FreshInv
<1>1. \A f \in Files : drive[f].state = "absent"
  BY DEF Init
<1>2. \A j \in Jobs : convert[j].pc = "idle"
  BY DEF Init, NewJob
<1>3. \A k \in Keys : rows[k].status = "ABSENT"
  BY DEF Init, NoRow
<1> QED
  BY <1>1, <1>2, <1>3 DEF ClaimsAreKnown, ContentsDiffer, JobKnows, KeyKnows

(* Without a copy, Drive changes the content of one file at a time, and to *)
(* one that was never there.                                               *)
LEMMA ContentsAreNew ==
    ASSUME TypeOK, [Next]_vars, spent'["copy"] = 0
    PROVE  /\ spent["copy"] = 0
           /\ \/ /\ top' = top
                 /\ \A f \in Files :
                       /\ drive'[f].content = drive[f].content
                       /\ drive'[f].state = "absent" <=> drive[f].state = "absent"
              \/ /\ top' = top + 1
                 /\ \E g \in Files :
                       /\ drive'[g].content = top + 1
                       /\ \A f \in Files \ {g} : drive'[f] = drive[f]
<1>t. /\ spent \in [Kinds -> Nat] /\ "copy" \in Kinds
      /\ drive \in [Files -> DriveFiles]
      /\ \A f \in Files : drive[f] \in DriveFiles
  BY DEF TypeOK, Kinds
<1>s. ASSUME NEW kind, Spend(kind)
      PROVE  kind # "copy" /\ spent["copy"] = 0
  BY <1>s, <1>t DEF Spend
<1>1. CASE UNCHANGED driveVars
  <2>1. spent["copy"] = 0
    <3>1. CASE UNCHANGED spent
      BY <3>1
    <3>2. CASE ~ UNCHANGED spent
      <4>1. \E kind : Spend(kind)
        BY <3>2
        DEF Next, vars, DriveStep, Create, Move, Copy, Edit, Trash, Restore, Remove,
            Change, WorkerStep, Failure, Dispatch, Sweep, DispatchFails, CursorExpires,
            ConvertStart, ConvertFails, ConvertStep, ConvertMetadata, ConvertCheck,
            ConvertDownload, ConvertPending, ConvertPages, ConvertWrite, ConvertFinalize,
            CleanupOld, CleanupOldRows, ConvertEnd, DeleteStart, DeleteStep,
            DeleteFirstRead, DeleteReread, DeleteLookup, DeleteLookupFails,
            DeleteRepoint, DeleteEnqueue, DeleteRmtree, DeleteRows, Crash, Upgrade
      <4> QED
        BY <4>1, <1>s
    <3> QED
      BY <3>1, <3>2
  <2> QED
    BY <1>1, <2>1 DEF driveVars
<1>2. CASE DriveStep
  <2>1. CASE \E f \in Files, p \in Places : Create(f, p)
    <3> PICK f \in Files, p \in Places : Create(f, p)
      BY <2>1
    <3>1. Spend("create") /\ top' = top + 1
          /\ drive' = [drive EXCEPT ![f] =
                          [state |-> "live", at |-> p, content |-> top + 1]]
      BY DEF Create, Upload, Change
    <3> QED
      BY <1>s, <1>t, <3>1
  <2>2. CASE \E f \in Files, p \in Places : Move(f, p)
    <3> PICK f \in Files, p \in Places : Move(f, p)
      BY <2>2
    <3>1. /\ Spend("move") /\ top' = top
          /\ drive' = [drive EXCEPT ![f] = [@ EXCEPT !.at = p]]
      BY DEF Move, Change
    <3> QED
      BY <1>s, <1>t, <3>1 DEF DriveFiles
  <2>3. CASE \E f, g \in Files, p \in Places : Copy(f, p, g)
    BY <2>3, <1>s DEF Copy, Change
  <2>4. CASE \E f \in Files : Edit(f)
    <3> PICK f \in Files : Edit(f)
      BY <2>4
    <3>1. /\ Spend("edit") /\ top' = top + 1
          /\ drive' = [drive EXCEPT ![f] = [@ EXCEPT !.content = top + 1]]
      BY DEF Edit, Change
    <3> QED
      BY <1>s, <1>t, <3>1 DEF DriveFiles
  <2>5. CASE \E f \in Files : Trash(f) \/ Restore(f) \/ Remove(f)
    <3> PICK f \in Files : Trash(f) \/ Restore(f) \/ Remove(f)
      BY <2>5
    <3>1. /\ \E kind : Spend(kind)
          /\ top' = top /\ drive[f].state # "absent"
          /\ \E s \in DriveStates \ {"absent"} :
                drive' = [drive EXCEPT ![f] = [@ EXCEPT !.state = s]]
      BY DEF Trash, Restore, Remove, Change, Live, Readable, DriveStates
    <3> QED
      BY <1>s, <1>t, <3>1 DEF DriveFiles
  <2> QED
    BY <1>2, <2>1, <2>2, <2>3, <2>4, <2>5 DEF DriveStep
<1> QED
  BY <1>1, <1>2
  DEF Next, vars, driveVars, WorkerStep, Failure, Dispatch, Sweep, DispatchFails,
      CursorExpires, ConvertStart, ConvertFails, ConvertStep, ConvertMetadata,
      ConvertCheck, ConvertDownload, ConvertPending, ConvertPages, ConvertWrite,
      ConvertFinalize, CleanupOld, CleanupOldRows, ConvertEnd, DeleteStart, DeleteStep,
      DeleteFirstRead, DeleteReread, DeleteLookup, DeleteLookupFails, DeleteRepoint,
      DeleteEnqueue, DeleteRmtree, DeleteRows, Crash, Upgrade

(* So a content that is gone stays gone, and what is known stays known.    *)
LEMMA KnownStays ==
    ASSUME TypeOK, ContentsAreNumbered, [Next]_vars, spent'["copy"] = 0,
           NEW m \in Nat, NEW c, Known(m, c)
    PROVE  m <= top' /\ (c = m \/ Superseded(m)')
<1>t. top \in Nat
  BY DEF TypeOK
<1>1. \/ /\ top' = top
         /\ \A f \in Files :
               /\ drive'[f].content = drive[f].content
               /\ drive'[f].state = "absent" <=> drive[f].state = "absent"
      \/ /\ top' = top + 1
         /\ \E g \in Files :
               /\ drive'[g].content = top + 1
               /\ \A f \in Files \ {g} : drive'[f] = drive[f]
  BY ContentsAreNew
<1>2. m <= top /\ (c = m \/ Superseded(m))
  BY DEF Known
<1>3. ASSUME Superseded(m) PROVE Superseded(m)'
  BY <1>t, <1>1, <1>2, <1>3 DEF Superseded
<1> QED
  BY <1>t, <1>1, <1>2, <1>3

(* The contents of different files stay different. *)
LEMMA ContentsDifferStep ==
    ASSUME TypeOK, ContentsAreNumbered, [Next]_vars, spent'["copy"] = 0,
           ContentsDiffer
    PROVE  ContentsDiffer'
<1>t. top \in Nat /\ \A f \in Files : drive[f].content \in Nat
  BY DEF TypeOK, DriveFiles
<1> QED
  BY <1>t, ContentsAreNew DEF ContentsDiffer, ContentsAreNumbered

(* An edit between the metadata and the download supersedes the md5 read.  *)
LEMMA ReadStaysKnown ==
    ASSUME TypeOK, ContentsAreNumbered, [Next]_vars, spent'["copy"] = 0,
           ContentsDiffer, NEW m \in Nat, NEW f \in Files,
           drive[f].state # "absent", Known(m, drive[f].content)
    PROVE  m <= top' /\ (drive'[f].content = m \/ Superseded(m)')
<1>t. top \in Nat
  BY DEF TypeOK
<1>1. m <= top' /\ (drive[f].content = m \/ Superseded(m)')
  BY KnownStays
<1>2. CASE drive'[f].content = drive[f].content
  BY <1>1, <1>2
<1>3. CASE drive[f].content = m /\ drive'[f].content # drive[f].content
  <2>1. /\ drive'[f].content = top + 1
        /\ \A g \in Files \ {f} : drive'[g] = drive[g]
    BY <1>3, ContentsAreNew
  <2>2. m <= top
    BY DEF Known
  <2> QED
    BY <1>t, <1>1, <1>3, <2>1, <2>2 DEF ContentsDiffer, Superseded
<1> QED
  BY <1>1, <1>2, <1>3

(* What a run has read and downloaded stays known. *)
LEMMA JobKnowsStep ==
    ASSUME TypeOK, WholeInv, ClaimsAreKnown, [Next]_vars, spent'["copy"] = 0,
           NEW j \in Jobs
    PROVE  JobKnows(j)'
<1>j. /\ File(j) \in Files /\ convert[j].md5 \in Nat
      /\ drive[File(j)].content \in Nat
  BY DEF TypeOK, JobStates, DriveFiles, Md5s, Jobs, File
<1> PICK m \in Nat : m = convert[j].md5
  BY <1>j
<1>k. /\ JobKnows(j) /\ ContentsDiffer /\ ContentsAreNumbered
      /\ convert[j].pc \in {"check", "download"} => drive[File(j)].state # "absent"
  BY DEF ClaimsAreKnown, WholeInv, JobInv, DownloadIsNewer
<1>r. ASSUME convert[j].pc \in {"check", "download"}
      PROVE  m <= top' /\ (drive'[File(j)].content = m \/ Superseded(m)')
  <2>1. Known(m, drive[File(j)].content)
    BY <1>r, <1>k DEF JobKnows
  <2> QED
    BY <1>r, <1>j, <1>k, <2>1, ReadStaysKnown
<1>d. ASSUME convert[j].pc \in {"pending", "pages", "write", "finalize"}
      PROVE  m <= top' /\ (convert[j].content = m \/ Superseded(m)')
  <2>1. Known(m, convert[j].content)
    BY <1>d, <1>k DEF JobKnows
  <2> QED
    BY <1>k, <2>1, KnownStays
<1>1. CASE convert'[j].pc \in {"check", "download"}
  <2>1. /\ convert'[j].md5 <= top'
        /\ \/ drive'[File(j)].content = convert'[j].md5
           \/ convert'[j].md5 = m /\ Superseded(m)'
    <3>1. CASE convert[j].pc \in {"check", "download"} /\ convert'[j].md5 = m
      BY <1>r, <3>1
    <3>2. CASE drive' = drive /\ convert'[j].md5 = drive[File(j)].content /\ top' = top
      BY <1>j, <1>k, <3>2 DEF ContentsAreNumbered
    <3> QED
      BY <1>1, <3>1, <3>2, JobSteps DEF JobStep, Same, NewJob, driveVars
  <2> QED
    BY <1>1, <2>1 DEF JobKnows, Known, Superseded
<1>2. CASE convert'[j].pc \in {"pending", "pages", "write", "finalize"}
  <2>1. convert'[j].md5 = m /\ m <= top' /\ (convert'[j].content = m \/ Superseded(m)')
    <3>1. CASE /\ convert[j].pc \in {"pending", "pages", "write", "finalize"}
               /\ convert'[j].md5 = m /\ convert'[j].content = convert[j].content
      BY <1>d, <3>1
    <3>2. CASE /\ convert[j].pc = "download" /\ drive' = drive
               /\ convert'[j].md5 = m /\ convert'[j].content = drive[File(j)].content
      BY <1>r, <3>2
    <3> QED
      BY <1>2, <3>1, <3>2, JobSteps DEF JobStep, Same, NewJob, driveVars
  <2> QED
    BY <1>2, <2>1 DEF JobKnows, Known, Superseded
<1> QED
  BY <1>1, <1>2 DEF JobKnows

(* What a record claims stays known: a claim is made at the end of a run,  *)
(* and its directory is not written to while it stands.                    *)
LEMMA KeyKnowsStep ==
    ASSUME TypeOK, TypeOK', WholeInv, ClaimsAreKnown, [Next]_vars,
           spent'["copy"] = 0, NEW k \in Keys,
           rows'[k].status = "SUCCESS", vault'[k].state = "whole"
    PROVE  KeyKnows(k)'
<1>k. ContentsAreNumbered /\ KeyInv(k) /\ KeyKnows(k)
  BY DEF WholeInv, ClaimsAreKnown
<1>m. rows'[k].md5 \in Nat
  BY DEF TypeOK, Tables, Rows, Md5s
<1> PICK m \in Nat : m = rows'[k].md5
  BY <1>m
<1>s. ASSUME Known(m, vault'[k].content) PROVE KeyKnows(k)'
  <2>1. m <= top' /\ (vault'[k].content = m \/ Superseded(m)')
    BY <1>k, <1>s, KnownStays
  <2> QED
    BY <2>1 DEF KeyKnows, Known, Superseded
<1>1. CASE vault'[k] = vault[k]
  <2>1. CASE rows[k].status = "SUCCESS" /\ rows'[k].md5 = rows[k].md5
    BY <1>1, <1>k, <1>s, <2>1 DEF KeyKnows
  <2>2. CASE \E j \in Jobs : /\ Key(j) = k /\ convert[j].pc = "finalize"
                             /\ rows'[k].md5 = convert[j].md5
    <3> PICK j \in Jobs : /\ Key(j) = k /\ convert[j].pc = "finalize"
                          /\ rows'[k].md5 = convert[j].md5
      BY <2>2
    <3>1. Known(m, convert[j].content)
      BY DEF ClaimsAreKnown, JobKnows
    <3>2. vault[k] \in {NoDir, Whole(convert[j].content)}
      BY DEF WholeInv, JobInv, RunIsWhole
    <3>3. vault'[k].content = convert[j].content
      BY <1>1, <3>2 DEF NoDir, Whole
    <3> QED
      BY <1>s, <3>1, <3>3
  <2> QED
    BY <2>1, <2>2, RowSteps
    DEF RowStep, SameRow, MarksPending, MarksError, MarksSuccess, Repoints, HasRow
<1>2. CASE vault'[k] # vault[k]
  <2>1. /\ rows' = rows
        /\ \/ \E j \in Jobs : Key(j) = k /\ convert[j].pc \in InRun
           \/ k \notin paged
    BY <1>2, VaultFootprint DEF NoDir
  <2>2. \A j \in Jobs : Key(j) = k /\ convert[j].pc \in InRun
                          => rows[k].status # "SUCCESS"
    BY DEF WholeInv, JobInv, RunIsPending, InRun
  <2> QED
    BY <1>k, <2>1, <2>2 DEF KeyInv
<1> QED
  BY <1>1, <1>2

(* A note that conversions skip as up to date is shown in the vault as it  *)
(* is in Drive, whatever was edited between the metadata and the download, *)
(* crashed, failed, repointed or upgraded, unless a content was copied.    *)
THEOREM UpToDateNotesAreRendered == Spec => []UpToDateIsRendered
<1> DEFINE IInv == TypeOK /\ LockOwnership /\ WholeInv /\ FreshInv
<1>1. Init => IInv
  BY TypeInit, LockInit, WholeInit, FreshInit
<1>2. IInv /\ [Next]_vars => IInv'
  <2> SUFFICES ASSUME IInv, [Next]_vars PROVE IInv'
    OBVIOUS
  <2>1. TypeOK' /\ LockOwnership' /\ WholeInv'
    BY TypeStep, LockStep, WholeStep
  <2>2. ASSUME spent'["copy"] = 0 PROVE ClaimsAreKnown'
    <3>1. ClaimsAreKnown /\ ContentsAreNumbered
      BY <2>2, ContentsAreNew DEF FreshInv, WholeInv
    <3>2. ContentsDiffer'
      BY <2>2, <3>1, ContentsDifferStep DEF ClaimsAreKnown
    <3>3. \A j \in Jobs : JobKnows(j)'
      BY <2>2, <3>1, JobKnowsStep
    <3>4. \A k \in Keys : KeyKnows(k)'
      BY <2>1, <2>2, <3>1, KeyKnowsStep DEF KeyKnows
    <3> QED
      BY <3>2, <3>3, <3>4 DEF ClaimsAreKnown
  <2> QED
    BY <2>1, <2>2 DEF FreshInv
<1>3. IInv => UpToDateIsRendered
  BY FreshInvSuffices
<1> QED
  BY <1>1, <1>2, <1>3, PTL DEF Spec

-----------------------------------------------------------------------------
(* What one step does to one delete, and to a file's queued deletes.       *)

Keeps(d) ==
    /\ delete'[d].file = delete[d].file /\ delete'[d].key = delete[d].key
    /\ delete'[d].row = delete[d].row /\ delete'[d].target = delete[d].target

(* The step of a delete that reads: the first read, the read under the     *)
(* lock, and the lookup in Drive.                                          *)
DeleteReads(d) ==
    \/ /\ delete[d].pc = "read" /\ delete'[d].pc = "reread"
       /\ delete'[d].file = delete[d].file
       /\ delete'[d].key \in RowsOf(rows, delete[d].file)
    \/ /\ delete[d].pc = "reread"
       /\ lock[delete[d].key] = Nobody
       /\ delete'[d].file = delete[d].file /\ delete'[d].key = delete[d].key
       /\ delete'[d].target \in RowsOf(rows, delete[d].file)
       /\ delete'[d].row = rows[delete'[d].target]
       /\ \/ delete'[d].pc = "rmtree"
          \/ delete'[d].pc = "lookup" /\ delete'[d].row.parent # NoFolder
    \/ /\ delete[d].pc = "lookup" /\ delete'[d].pc = "repoint" /\ Keeps(d)
       /\ delete'[d].twin \in Twins(delete[d].row)

DeleteMove(d) ==
    \/ delete'[d] = delete[d]
    \/ delete'[d] = NewDelete("idle", NoFile)
    \/ /\ delete'[d] = NewDelete("read", delete'[d].file)
       /\ \/ delete[d].pc # "idle" /\ delete'[d].file = delete[d].file
          \/ \E f \in Files : deletes[f] > 0 /\ delete'[d].file = f
    \/ UNCHANGED <<driveVars, rows>> /\ DeleteReads(d)
    \/ /\ <<delete[d].pc, delete'[d].pc>> \in
             {<<"lookup", "rmtree">>, <<"repoint", "enqueue">>, <<"rmtree", "rows">>}
       /\ Keeps(d)
       /\ delete'[d].twin = delete[d].twin

(* Each handler's assignments, as one delete sees them. *)
LEMMA DeleteMoveSteps ==
    ASSUME TypeOK, [Next]_vars, NEW d \in Deleters
    PROVE  DeleteMove(d)
<1> USE DEF queues, stores
<1>1. CASE delete'[d] = delete[d]
  BY <1>1 DEF DeleteMove
<1>2. CASE delete'[d] # delete[d]
  <2>0. delete' # delete
    BY <1>2
  <2>1. PICK e \in Deleters :
           \/ DeleteStep(e) \/ DeleteLookupFails(e)
           \/ \E f \in Files : DeleteStart(e, f)
           \/ Crash \/ Upgrade
    BY <2>0
    DEF Next, vars, DriveStep, Create, Move, Copy, Edit, Trash, Restore, Remove, Change,
        WorkerStep, Failure, Dispatch, Sweep, DispatchFails, CursorExpires, ConvertStart,
        ConvertStep, ConvertFails, ConvertMetadata, ConvertCheck, ConvertDownload,
        ConvertPending, ConvertPages, ConvertWrite, ConvertFinalize, CleanupOld,
        CleanupOldRows, ConvertEnd
  <2>n. \A pc, f : NewDelete(pc, f).file = f
    BY DEF NewDelete
  <2>2. CASE Crash
    <3>1. delete'[d] \in AfterCrash(d)
      BY <2>2 DEF Crash
    <3>2. /\ AfterCrash(d) \subseteq {delete[d], NewDelete("read", delete[d].file)}
          /\ delete[d].pc = "idle" => AfterCrash(d) = {delete[d]}
      BY SMT DEF AfterCrash, Deleting
    <3> QED
      BY <1>2, <2>n, <3>1, <3>2 DEF DeleteMove
  <2>3. CASE Upgrade
    BY <2>3 DEF Upgrade, DeleteMove
  <2>u. ASSUME NEW v, Update(e, v) PROVE e = d /\ delete'[d] = v
    BY <1>2, <2>u DEF TypeOK, Update
  <2>e. delete[e] \in DeleteStates
    BY DEF TypeOK
  <2>4. CASE DeleteEnds(e)
    BY <2>4, <2>u DEF DeleteEnds, DeleteMove
  <2>5. CASE \E f \in Files : DeleteStart(e, f)
    <3> PICK f \in Files : DeleteStart(e, f)
      BY <2>5
    <3>1. Update(e, NewDelete("read", f)) /\ deletes[f] > 0
      BY DEF DeleteStart
    <3> QED
      BY <3>1, <2>n, <2>u DEF DeleteMove
  <2>6. CASE DeleteFirstRead(e) /\ ~ DeleteEnds(e)
    <3>1. PICK k \in Earliest(rows, RowsOf(rows, delete[e].file)) :
             Update(e, [delete[e] EXCEPT !.pc = "reread", !.key = k])
      BY <2>6 DEF DeleteFirstRead
    <3> DEFINE v == [delete[e] EXCEPT !.pc = "reread", !.key = k]
    <3>2. v.pc = "reread" /\ v.key = k /\ v.file = delete[e].file
      BY <2>e DEF DeleteStates
    <3>3. /\ delete[e].pc = "read" /\ UNCHANGED <<driveVars, rows>>
          /\ k \in RowsOf(rows, delete[e].file)
      BY <2>6 DEF DeleteFirstRead, Deleting, Earliest
    <3>4. e = d /\ delete'[d] = v
      BY <2>u, <3>1
    <3> HIDE DEF v
    <3> QED
      BY <3>2, <3>3, <3>4 DEF DeleteMove, DeleteReads
  <2>7. CASE DeleteReread(e) /\ ~ DeleteEnds(e)
    <3> DEFINE v(k) == [delete[e] EXCEPT
                           !.pc = IF rows[k].parent = NoFolder
                                  THEN "rmtree" ELSE "lookup",
                           !.row = rows[k], !.target = k]
    <3>1. PICK k \in Earliest(rows, RowsOf(rows, delete[e].file)) : Update(e, v(k))
      BY <2>7 DEF DeleteReread
    <3>2. /\ v(k).pc = IF rows[k].parent = NoFolder THEN "rmtree" ELSE "lookup"
          /\ v(k).row = rows[k] /\ v(k).target = k
          /\ v(k).file = delete[e].file /\ v(k).key = delete[e].key
      BY <2>e DEF DeleteStates
    <3>3. /\ delete[e].pc = "reread" /\ UNCHANGED <<driveVars, rows>>
          /\ lock[delete[e].key] = Nobody
          /\ k \in RowsOf(rows, delete[e].file)
      BY <2>7 DEF DeleteReread, Deleting, Earliest
    <3>4. e = d /\ delete'[d] = v(k)
      BY <2>u, <3>1
    <3> HIDE DEF v
    <3> QED
      BY <3>2, <3>3, <3>4 DEF DeleteMove, DeleteReads
  <2>8. CASE DeleteLookup(e) /\ \E f \in Twins(delete[e].row) :
                Update(e, [delete[e] EXCEPT !.pc = "repoint", !.twin = f])
    <3> PICK f \in Twins(delete[e].row) :
                Update(e, [delete[e] EXCEPT !.pc = "repoint", !.twin = f])
      BY <2>8
    <3> DEFINE v == [delete[e] EXCEPT !.pc = "repoint", !.twin = f]
    <3>1. /\ v.pc = "repoint" /\ v.twin = f /\ v.file = delete[e].file
          /\ v.key = delete[e].key /\ v.row = delete[e].row
          /\ v.target = delete[e].target
      BY <2>e DEF DeleteStates
    <3>2. delete[e].pc = "lookup" /\ UNCHANGED <<driveVars, rows>>
      BY <2>8 DEF DeleteLookup, Deleting
    <3>3. e = d /\ delete'[d] = v
      BY <2>u
    <3> HIDE DEF v
    <3> QED
      BY <3>1, <3>2, <3>3 DEF DeleteMove, DeleteReads, Keeps
  <2>9. ASSUME NEW pc, Update(e, [delete[e] EXCEPT !.pc = pc]),
               <<delete[e].pc, pc>> \in {<<"lookup", "rmtree">>, <<"repoint", "enqueue">>,
                                         <<"rmtree", "rows">>}
        PROVE  DeleteMove(d)
    <3> DEFINE v == [delete[e] EXCEPT !.pc = pc]
    <3>1. /\ v.pc = pc /\ v.twin = delete[e].twin /\ v.file = delete[e].file
          /\ v.key = delete[e].key /\ v.row = delete[e].row
          /\ v.target = delete[e].target
      BY <2>e DEF DeleteStates
    <3>2. e = d /\ delete'[d] = v
      BY <2>u, <2>9
    <3> HIDE DEF v
    <3> QED
      BY <2>9, <3>1, <3>2 DEF DeleteMove, Keeps
  <2>10. \/ DeleteEnds(e)
         \/ DeleteFirstRead(e) \/ DeleteReread(e)
         \/ DeleteLookup(e) /\ \E f \in Twins(delete[e].row) :
                Update(e, [delete[e] EXCEPT !.pc = "repoint", !.twin = f])
         \/ \E pc : /\ Update(e, [delete[e] EXCEPT !.pc = pc])
                    /\ <<delete[e].pc, pc>> \in
                          {<<"lookup", "rmtree">>, <<"repoint", "enqueue">>,
                           <<"rmtree", "rows">>}
         \/ \E f \in Files : DeleteStart(e, f)
         \/ Crash \/ Upgrade
    BY <2>1
    DEF DeleteStep, DeleteLookupFails, DeleteLookup, DeleteRepoint, DeleteEnqueue,
        DeleteRmtree, DeleteRows, Deleting
  <2> QED
    BY <2>2, <2>3, <2>4, <2>5, <2>6, <2>7, <2>8, <2>9, <2>10
<1> QED
  BY <1>1, <1>2

(* A delete of a note is pending from its enqueue to its end.              *)
InSource(f) == Live(f) /\ drive[f].at \in Keys

Pending(f) ==
    \/ deletes[f] > 0
    \/ \E d \in Deleters : delete[d].pc # "idle" /\ delete[d].file = f

(* The poller enqueues it, for a note that is not in the source folder.    *)
LEMMA DeletesQueued ==
    ASSUME TypeOK, [Next]_vars, NEW f \in Files, deletes'[f] > 0
    PROVE  deletes[f] > 0 \/ (~ InSource(f) /\ UNCHANGED driveVars)
<1> USE DEF queues
<1>1. CASE deletes' = deletes
  BY <1>1
<1>2. CASE deletes' # deletes
  <2>1. \/ \E g \in Files : Dispatch(g)
        \/ \E d \in Deleters, g \in Files : DeleteStart(d, g)
        \/ Upgrade
    BY <1>2
    DEF Next, vars, DriveStep, Create, Move, Copy, Edit, Trash, Restore, Remove, Change,
        WorkerStep, Failure, Sweep, DispatchFails, CursorExpires, ConvertStart,
        ConvertStep, ConvertFails, ConvertMetadata, ConvertCheck, ConvertDownload,
        ConvertPending, ConvertPages, ConvertWrite, ConvertFinalize, CleanupOld,
        CleanupOldRows, ConvertEnd, DeleteStep, DeleteFirstRead, DeleteReread,
        DeleteLookup, DeleteLookupFails, DeleteRepoint, DeleteEnqueue, DeleteRmtree,
        DeleteRows, Crash
  <2>2. CASE \E g \in Files : Dispatch(g)
    <3> PICK g \in Files : Dispatch(g)
      BY <2>2
    <3>1. /\ ResolvedToDelete(g) /\ UNCHANGED driveVars
          /\ deletes' = [deletes EXCEPT ![g] = @ + 1]
      BY <1>2 DEF Dispatch
    <3> QED
      BY <3>1 DEF TypeOK, ResolvedToDelete, InSource
  <2>3. CASE \E d \in Deleters, g \in Files : DeleteStart(d, g)
    <3> PICK d \in Deleters, g \in Files : DeleteStart(d, g)
      BY <2>3
    <3>1. deletes' = [deletes EXCEPT ![g] = @ - 1] /\ deletes[g] > 0
      BY DEF DeleteStart
    <3> QED
      BY <3>1 DEF TypeOK
  <2>4. CASE Upgrade
    BY <2>4 DEF Upgrade
  <2> QED
    BY <2>1, <2>2, <2>3, <2>4
<1> QED
  BY <1>1, <1>2

(* A delete never becomes pending of a note in the source folder. *)
LEMMA PendingBegins ==
    ASSUME TypeOK, [Next]_vars, NEW f \in Files, Pending(f)'
    PROVE  Pending(f) \/ (~ InSource(f) /\ UNCHANGED driveVars)
<1>1. CASE deletes'[f] > 0
  BY <1>1, DeletesQueued DEF Pending
<1>2. CASE \E d \in Deleters : delete'[d].pc # "idle" /\ delete'[d].file = f
  <2> PICK d \in Deleters : delete'[d].pc # "idle" /\ delete'[d].file = f
    BY <1>2
  <2>1. DeleteMove(d)
    BY DeleteMoveSteps
  <2> QED
    BY <2>1 DEF DeleteMove, DeleteReads, Keeps, NewDelete, Pending
<1> QED
  BY <1>1, <1>2 DEF Pending

-----------------------------------------------------------------------------
(* Notes that stay where they are.                                         *)

(* No note in the source folder is moved or renamed; it may be edited,     *)
(* trashed, restored, removed, replaced by another one and moved in.       *)
NotesStay ==
    \A f \in Files : InSource(f) => drive'[f].at = drive[f].at

(* Where a file is, or was when it left. *)
Home(f, k) == f \in Files /\ drive[f].state # "absent" /\ drive[f].at = k

(* Then every conversion works on the key its file is at, and has nothing  *)
(* to clean up;                                                            *)
JobHome(j) ==
    /\ convert[j].pc # "idle" => Home(File(j), Key(j))
    /\ convert[j].pc \in OwnSection => convert[j].at = Key(j)
    /\ convert[j].stale = {} /\ convert[j].pc # "oldrows"

(* every row is under the key its file is at, with that place's columns;   *)
RowHome(k) ==
    HasRow(rows, k) =>
        /\ Home(rows[k].file, k)
        /\ rows[k].parent \in {NoFolder, Folder(k)} /\ rows[k].name = Name(k)

(* and both reads of a delete find the one row its file has.               *)
DeleteHome(d) ==
    /\ delete[d].pc \in DeleteSection \cup {"reread"} =>
          Home(delete[d].file, delete[d].key)
    /\ delete[d].pc \in DeleteSection \cup {"enqueue"} =>
          Home(delete[d].file, delete[d].target)
    /\ delete[d].pc \in {"repoint", "enqueue"} =>
          Home(delete[d].twin, delete[d].target)
    /\ delete[d].pc = "lookup" =>
          <<delete[d].row.parent, delete[d].row.name>> = delete[d].target
    /\ delete[d].pc \in {"lookup", "rmtree"} =>
          delete[d].target \in RowsOf(rows, delete[d].file)

HomeInv ==
    /\ \A j \in Jobs : JobHome(j)
    /\ \A k \in Keys : RowHome(k)
    /\ \A d \in Deleters : DeleteHome(d)

(* The invariant holds while nothing is under way. *)
LEMMA HomeInit == Init => HomeInv
<1> SUFFICES ASSUME Init PROVE HomeInv
  OBVIOUS
<1>1. \A j \in Jobs : convert[j].pc = "idle" /\ convert[j].stale = {}
  BY DEF Init, NewJob
<1>2. \A k \in Keys : ~ HasRow(rows, k)
  BY DEF Init, NoRow, HasRow
<1>3. \A d \in Deleters : delete[d].pc = "idle"
  BY DEF Init, NewDelete
<1> QED
  BY <1>1, <1>2, <1>3
  DEF HomeInv, JobHome, RowHome, DeleteHome, OwnSection, DeleteSection

(* A file keeps its home. *)
LEMMA HomeStays ==
    ASSUME TypeOK, [Next]_vars, NotesStay, NEW f \in Files, NEW k \in Keys, Home(f, k)
    PROVE  Home(f, k)'
<1>t. drive[f] \in DriveFiles /\ drive \in [Files -> DriveFiles]
  BY DEF TypeOK
<1>1. CASE UNCHANGED drive
  BY <1>1 DEF Home
<1>2. CASE ~ UNCHANGED drive
  <2>1. DriveStep
    BY <1>2
    DEF Next, vars, driveVars, WorkerStep, Failure, Dispatch, Sweep, DispatchFails,
        CursorExpires, ConvertStart, ConvertFails, ConvertStep, ConvertMetadata,
        ConvertCheck, ConvertDownload, ConvertPending, ConvertPages, ConvertWrite,
        ConvertFinalize, CleanupOld, CleanupOldRows, ConvertEnd, DeleteStart, DeleteStep,
        DeleteFirstRead, DeleteReread, DeleteLookup, DeleteLookupFails, DeleteRepoint,
        DeleteEnqueue, DeleteRmtree, DeleteRows, Crash, Upgrade
  <2>2. CASE \E g \in Files, p \in Places : Create(g, p) \/ \E h \in Files : Copy(g, p, h)
    BY <2>2, <1>t DEF Create, Copy, Upload, Home
  <2>3. CASE \E g \in Files, p \in Places : Move(g, p)
    <3> PICK g \in Files, p \in Places : Move(g, p)
      BY <2>3
    <3>1. /\ Live(g) /\ p # drive[g].at
          /\ drive' = [drive EXCEPT ![g] = [@ EXCEPT !.at = p]]
      BY DEF Move
    <3>2. drive'[g].at = p
      BY <3>1, <1>t DEF TypeOK, DriveFiles
    <3>3. f # g
      BY <3>1, <3>2 DEF NotesStay, InSource, Home
    <3> QED
      BY <3>1, <3>3, <1>t DEF Home
  <2>4. CASE \E g \in Files : Edit(g) \/ Trash(g) \/ Restore(g) \/ Remove(g)
    <3> PICK g \in Files : Edit(g) \/ Trash(g) \/ Restore(g) \/ Remove(g)
      BY <2>4
    <3>1. \/ \E c : drive' = [drive EXCEPT ![g] = [@ EXCEPT !.content = c]]
          \/ \E s \in {"trashed", "live", "gone"} :
                drive' = [drive EXCEPT ![g] = [@ EXCEPT !.state = s]]
      BY DEF Edit, Trash, Restore, Remove
    <3> QED
      BY <3>1, <1>t DEF Home, DriveFiles
  <2> QED
    BY <2>1, <2>2, <2>3, <2>4 DEF DriveStep
<1> QED
  BY <1>1, <1>2

(* A conversion is enqueued at home, and finds no other row of its file. *)
LEMMA JobHomeStep ==
    ASSUME TypeOK, HomeInv, [Next]_vars, NotesStay, NEW j \in Jobs
    PROVE  JobHome(j)'
<1>j. j = <<File(j), Key(j)>> /\ File(j) \in Files /\ Key(j) \in Keys /\ JobHome(j)
  BY DEF Jobs, File, Key, HomeInv
<1>s. JobStep(j)
  BY JobSteps
<1>h. Home(File(j), Key(j)) => Home(File(j), Key(j))'
  BY <1>j, HomeStays
<1>r. Home(File(j), Key(j)) => RowsOf(rows, File(j)) \ {Key(j)} = {}
  BY DEF HomeInv, RowHome, Home, RowsOf
<1>1. convert'[j].pc # "idle" => Home(File(j), Key(j))'
  <2>1. CASE convert[j].pc # "idle"
    BY <1>h, <1>j, <2>1 DEF JobHome
  <2>2. CASE UNCHANGED driveVars /\ Live(File(j)) /\ drive[File(j)].at = Key(j)
    BY <1>j, <2>2 DEF Live, Home, driveVars
  <2>3. CASE \E d \in Deleters :
                delete[d].pc = "enqueue" /\ j = <<delete[d].twin, delete[d].target>>
    <3>1. Home(File(j), Key(j))
      BY <2>3 DEF HomeInv, DeleteHome, File, Key
    <3> QED
      BY <1>h, <3>1
  <2> QED
    BY <1>s, <2>1, <2>2, <2>3 DEF JobStep, NewJob, Enqueued
<1>2. convert'[j].pc \in OwnSection => convert'[j].at = Key(j)
  BY <1>s, <1>j DEF JobStep, NewJob, Same, JobHome, OwnSection, Home
<1>3. convert'[j].stale = {} /\ convert'[j].pc # "oldrows"
  BY <1>s, <1>j, <1>r DEF JobStep, NewJob, Same, JobHome
<1> QED
  BY <1>1, <1>2, <1>3 DEF JobHome

(* Every writer of a row is at home at its key. *)
LEMMA RowHomeStep ==
    ASSUME TypeOK, HomeInv, [Next]_vars, NotesStay, NEW k \in Keys, HasRow(rows', k)
    PROVE  RowHome(k)'
<1>h. \A f \in Files : Home(f, k) => Home(f, k)'
  BY HomeStays
<1>k. RowHome(k)
  BY DEF HomeInv
<1>1. CASE SameRow(k) \/ \E j \in Jobs : MarksSuccess(j, k)
  <2>1. /\ HasRow(rows, k) /\ rows'[k].file = rows[k].file
        /\ rows'[k].parent = rows[k].parent /\ rows'[k].name = rows[k].name
    BY <1>1 DEF SameRow, MarksSuccess, HasRow
  <2> QED
    BY <1>h, <1>k, <2>1 DEF RowHome, Home
<1>2. CASE \E j \in Jobs : Key(j) = k /\ (MarksPending(j, k) \/ MarksError(j, k))
  <2> PICK j \in Jobs : Key(j) = k /\ (MarksPending(j, k) \/ MarksError(j, k))
    BY <1>2
  <2>1. JobHome(j)
    BY DEF HomeInv
  <2>2. Home(File(j), k) /\ rows'[k].file = File(j)
    BY <2>1 DEF JobHome, MarksPending, MarksError
  <2>3. rows'[k].name = Name(k) /\ rows'[k].parent \in {NoFolder, Folder(k)}
    BY <1>k, <2>1 DEF JobHome, MarksPending, MarksError, OwnSection, RowHome
  <2> QED
    BY <1>h, <2>2, <2>3 DEF RowHome, Home
<1>3. CASE \E d \in Deleters : Repoints(d, k)
  <2> PICK d \in Deleters : Repoints(d, k)
    BY <1>3
  <2>1. Home(delete[d].twin, k) /\ rows'[k].file = delete[d].twin
    BY DEF HomeInv, DeleteHome, Repoints
  <2>2. rows'[k].name = Name(k) /\ rows'[k].parent \in {NoFolder, Folder(k)}
    BY <1>k DEF Repoints, RowHome
  <2> QED
    BY <1>h, <2>1, <2>2 DEF RowHome, Home
<1> QED
  BY <1>1, <1>2, <1>3, RowSteps DEF RowStep

(* So a delete works on the key it locked. *)
LEMMA LocksItsHome == HomeInv => DeletesWhatItLocked
BY DEF HomeInv, DeleteHome, Home, DeletesWhatItLocked

(* Nobody touches the row a delete has found under its lock. *)
LEMMA FoundRowStays ==
    ASSUME TypeOK, LockOwnership, HomeInv, [Next]_vars,
           NEW d \in Deleters, delete[d].pc \in {"lookup", "rmtree"}
    PROVE  /\ HasRow(rows', delete[d].target)
           /\ rows'[delete[d].target].file = delete[d].file
<1> DEFINE k == delete[d].target
<1>k. k \in Keys /\ d # Nobody /\ d \notin Jobs
  BY NobodyAssumption, WorkersAssumption DEF TypeOK, DeleteStates, Workers
<1>d. HasRow(rows, k) /\ rows[k].file = delete[d].file
  BY DEF HomeInv, DeleteHome, RowsOf
<1>l. \A e \in Deleters : delete[e].pc \in DeleteSection => delete[e].target = delete[e].key
  BY LocksItsHome DEF DeletesWhatItLocked
<1>1. lock[k] = d
  BY <1>k, <1>l, DeleteHolds DEF DeleteSection
<1>2. \A j \in Jobs : Key(j) = k => convert[j].pc \notin OwnSection
  BY <1>1, <1>k, JobHolds
<1>3. \A e \in Deleters : delete[e].pc \in DeleteSection /\ delete[e].target = k => e = d
  BY <1>1, <1>k, <1>l, DeleteHolds
<1>4. \A j \in Jobs : convert[j].pc # "oldrows"
  BY DEF HomeInv, JobHome
<1> HIDE DEF k
<1>5. SameRow(k)
  <2>1. ASSUME NEW j \in Jobs, Key(j) = k
        PROVE  ~ (MarksPending(j, k) \/ MarksError(j, k) \/ MarksSuccess(j, k))
    BY <1>1, <1>2, <1>k, <2>1 DEF MarksPending, MarksError, MarksSuccess, OwnSection
  <2>2. \A e \in Deleters : ~ Repoints(e, k)
    BY <1>3 DEF Repoints, DeleteSection
  <2>3. \A e \in Deleters : ~ (delete[e].pc = "rows" /\ delete[e].target = k)
    BY <1>3 DEF DeleteSection
  <2> QED
    BY <1>k, <1>4, <2>1, <2>2, <2>3, RowSteps DEF RowStep
<1> QED
  BY <1>5, <1>d DEF SameRow, HasRow, k

(* Both reads of a delete find the row of its file, and the twin it finds  *)
(* is at the same key.                                                     *)
LEMMA DeleteHomeStep ==
    ASSUME TypeOK, LockOwnership, HomeInv, [Next]_vars, NotesStay, NEW d \in Deleters
    PROVE  DeleteHome(d)'
<1>d. DeleteHome(d) /\ delete[d] \in DeleteStates
  BY DEF HomeInv, TypeOK
<1>m. DeleteMove(d)
  BY DeleteMoveSteps
<1>h. \A f \in Files, k \in Keys : Home(f, k) => Home(f, k)'
  BY HomeStays
<1>r. \A f, k : k \in RowsOf(rows, f) => /\ k \in Keys /\ Home(f, k)
                                        /\ rows[k].parent \in {NoFolder, Folder(k)}
                                        /\ rows[k].name = Name(k)
  BY DEF HomeInv, RowHome, RowsOf
<1> USE DEF DeleteSection
<1>1. CASE delete'[d].pc \in {"idle", "read"}
  BY <1>1 DEF DeleteHome
<1>2. CASE delete'[d].pc = "reread"
  <2>1. CASE delete'[d] = delete[d]
    BY <1>2, <1>d, <1>h, <2>1 DEF DeleteHome, DeleteStates, Home
  <2>2. CASE /\ delete'[d].file = delete[d].file
             /\ delete'[d].key \in RowsOf(rows, delete[d].file)
    BY <1>2, <1>r, <1>h, <2>2 DEF DeleteHome, Home
  <2> QED
    BY <1>2, <1>m, <2>1, <2>2 DEF DeleteMove, DeleteReads, NewDelete
<1>3. CASE delete[d].pc = "reread" /\ delete'[d].pc \in {"lookup", "rmtree"}
  <2>1. /\ rows' = rows
        /\ delete'[d].file = delete[d].file /\ delete'[d].key = delete[d].key
        /\ delete'[d].target \in RowsOf(rows, delete[d].file)
        /\ delete'[d].row = rows[delete'[d].target]
        /\ delete'[d].pc = "lookup" => delete'[d].row.parent # NoFolder
    BY <1>3, <1>m DEF DeleteMove, DeleteReads, NewDelete
  <2>2. PICK k \in Keys : k = delete'[d].target
    BY <2>1 DEF RowsOf
  <2>3. PICK f \in Files : f = delete[d].file
    BY <1>3, <1>d DEF DeleteHome, Home
  <2>4. Home(f, delete[d].key) /\ Home(f, k)
    BY <1>3, <1>d, <1>r, <2>1, <2>2, <2>3 DEF DeleteHome
  <2>5. Home(f, k)' /\ delete'[d].key = k
    BY <1>h, <2>1, <2>4 DEF Home
  <2>6. delete'[d].pc = "lookup" =>
           <<delete'[d].row.parent, delete'[d].row.name>> = k
    <3>1. k = <<Folder(k), Name(k)>>
      BY PlacesAssumption, KeysAssumption
    <3> QED
      BY <1>r, <2>1, <2>2, <3>1
  <2>7. k \in RowsOf(rows, f)'
    BY <2>1, <2>2, <2>3 DEF RowsOf, HasRow
  <2> QED
    BY <1>3, <2>1, <2>2, <2>3, <2>5, <2>6, <2>7 DEF DeleteHome, Home, RowsOf
<1>4. CASE delete'[d].pc \in {"lookup", "repoint", "rmtree", "rows", "enqueue"}
           /\ ~ (delete[d].pc = "reread")
  <2>1. /\ delete[d].pc \in {"lookup", "repoint", "rmtree", "rows", "enqueue"}
        /\ delete[d].pc = "enqueue" => delete'[d].pc = "enqueue"
        /\ Keeps(d)
        /\ delete'[d].pc = "lookup" => delete[d].pc = "lookup"
        /\ delete'[d].pc = "rmtree" => delete[d].pc \in {"lookup", "rmtree"}
        /\ \/ /\ delete'[d].twin = delete[d].twin
              /\ delete'[d].pc \in {"repoint", "enqueue"} =>
                    delete[d].pc \in {"repoint", "enqueue"}
           \/ /\ delete[d].pc = "lookup" /\ delete'[d].pc = "repoint"
              /\ delete'[d].twin \in Twins(delete[d].row)
    BY <1>4, <1>m DEF DeleteMove, DeleteReads, NewDelete, Keeps
  <2>2. delete[d].key \in Keys /\ delete[d].target \in Keys
    BY <1>d DEF DeleteStates
  <2>3. /\ delete'[d].pc # "enqueue" => /\ delete[d].pc # "enqueue"
                                        /\ Home(delete[d].file, delete[d].key)
        /\ Home(delete[d].file, delete[d].target)
    BY <1>d, <2>1 DEF DeleteHome
  <2>4. delete'[d].pc \in {"repoint", "enqueue"} =>
           Home(delete'[d].twin, delete[d].target)
    <3>1. CASE delete'[d].twin \in Twins(delete[d].row) /\ delete[d].pc = "lookup"
      BY <1>d, <3>1 DEF DeleteHome, Twins, LiveAt, Live, Home
    <3>2. CASE /\ delete'[d].twin = delete[d].twin
               /\ delete[d].pc \in {"repoint", "enqueue"}
      BY <1>d, <3>2 DEF DeleteHome
    <3> QED
      BY <2>1, <3>1, <3>2
  <2>5. delete'[d].pc \in {"lookup", "rmtree"} =>
           delete'[d].target \in RowsOf(rows', delete'[d].file)
    BY <2>1, <2>2, FoundRowStays DEF RowsOf, Keeps
  <2>6. delete'[d].pc = "lookup" =>
           <<delete'[d].row.parent, delete'[d].row.name>> = delete'[d].target
    BY <1>d, <2>1 DEF DeleteHome, Keeps
  <2>7. /\ delete'[d].pc # "enqueue" =>
              /\ delete'[d].file \in Files
              /\ drive'[delete'[d].file].state # "absent"
              /\ drive'[delete'[d].file].at = delete'[d].key
        /\ delete'[d].file \in Files
        /\ drive'[delete'[d].file].state # "absent"
        /\ drive'[delete'[d].file].at = delete'[d].target
        /\ delete'[d].pc \in {"repoint", "enqueue"} =>
              /\ delete'[d].twin \in Files
              /\ drive'[delete'[d].twin].state # "absent"
              /\ drive'[delete'[d].twin].at = delete'[d].target
    BY <1>h, <2>1, <2>2, <2>3, <2>4 DEF Home, Keeps
  <2> QED
    BY <1>4, <2>5, <2>6, <2>7 DEF DeleteHome, Home, RowsOf, HasRow
<1>5. delete'[d].pc \in DeleteSteps /\ (delete[d].pc = "reread" =>
          delete'[d].pc \in {"idle", "read", "reread", "lookup", "rmtree"})
  BY <1>d, <1>m DEF DeleteMove, DeleteReads, NewDelete, DeleteSteps, DeleteStates
<1> QED
  BY <1>1, <1>2, <1>3, <1>4, <1>5 DEF DeleteSteps

(* Where notes stay, every step keeps everything at home. *)
LEMMA HomeStep ==
    TypeOK /\ LockOwnership /\ HomeInv /\ [Next]_vars /\ NotesStay => HomeInv'
<1> SUFFICES ASSUME TypeOK, LockOwnership, HomeInv, [Next]_vars, NotesStay
             PROVE  HomeInv'
  OBVIOUS
<1>1. \A k \in Keys : RowHome(k)'
  BY RowHomeStep DEF RowHome, HasRow
<1> QED
  BY <1>1, JobHomeStep, DeleteHomeStep DEF HomeInv

(* Where notes stay, a delete works on the key it locked, although both    *)
(* its reads go by file id: a file has one row, at its home.               *)
THEOREM StayingNotesLock == Spec /\ [][NotesStay]_vars => []DeletesWhatItLocked
<1> DEFINE IInv == TypeOK /\ LockOwnership /\ HomeInv
<1>1. Init => IInv
  BY TypeInit, LockInit, HomeInit
<1>2. IInv /\ [Next]_vars /\ [NotesStay]_vars => IInv'
  <2>1. UNCHANGED vars => NotesStay
    BY DEF vars, NotesStay
  <2> QED
    BY <2>1, TypeStep, LockStep, HomeStep
<1>3. IInv => DeletesWhatItLocked
  BY LocksItsHome
<1> QED
  BY <1>1, <1>2, <1>3, PTL DEF Spec

(* Where notes stay, a file never has a second row, which a delete, taking *)
(* the first that find_by_file_id gives, would leave behind.               *)
OneRowPerFile ==
    \A f \in Files : \A k, l \in RowsOf(rows, f) : k = l

THEOREM StayingNotesHaveOneRow == Spec /\ [][NotesStay]_vars => []OneRowPerFile
<1> DEFINE IInv == TypeOK /\ LockOwnership /\ HomeInv
<1>1. Init => IInv
  BY TypeInit, LockInit, HomeInit
<1>2. IInv /\ [Next]_vars /\ [NotesStay]_vars => IInv'
  <2>1. UNCHANGED vars => NotesStay
    BY DEF vars, NotesStay
  <2> QED
    BY <2>1, TypeStep, LockStep, HomeStep
<1>3. IInv => OneRowPerFile
  BY DEF HomeInv, RowHome, Home, RowsOf, OneRowPerFile
<1> QED
  BY <1>1, <1>2, <1>3, PTL DEF Spec

(* So a conversion under way is never robbed of its directory, of however  *)
(* many keys.                                                              *)
THEOREM StayingNotesInFlight == Spec /\ [][NotesStay]_vars => []InFlightKeepsDir
BY StayingNotesLock, InFlightStays, PTL

(* And no directory outlives its record: nothing is seeded from another    *)
(* place, and a delete removes the row of the directory it removed.        *)
THEOREM StayingNotesNoOrphan == Spec /\ [][NotesStay]_vars => []NoOrphanDir
<1> DEFINE IInv == /\ TypeOK /\ LockOwnership /\ HomeInv
                   /\ RunHasRow /\ RemovedFirst /\ DirHasRow
<1>1. Init => IInv
  <2>1. Init => RunHasRow /\ RemovedFirst /\ DirHasRow
    BY DEF Init, NewJob, NewDelete, RunHasRow, RemovedFirst, DirHasRow, InRun
  <2> QED
    BY <2>1, TypeInit, LockInit, HomeInit
<1>2. IInv /\ [Next]_vars /\ [NotesStay]_vars => IInv'
  <2> SUFFICES ASSUME IInv, [Next]_vars, [NotesStay]_vars PROVE IInv'
    OBVIOUS
  <2>1. NotesStay
    BY DEF vars, NotesStay
  <2>2. DeletesWhatItLocked
    BY LocksItsHome
  <2>3. \A j \in Jobs :
           convert[j].pc = "check" => RowsOf(rows, File(j)) \ {Key(j)} = {}
    BY DEF HomeInv, JobHome, RowHome, Home, RowsOf
  <2> QED
    BY <2>1, <2>2, <2>3, TypeStep, LockStep, HomeStep, RunHasRowStep,
       RemovedFirstStep, DirHasRowStep
<1>3. IInv => NoOrphanDir
  BY DEF DirHasRow, NoOrphanDir
<1> QED
  BY <1>1, <1>2, <1>3, PTL DEF Spec

-----------------------------------------------------------------------------
(* A rendering stays as it is.                                             *)

(* A note that comes to the source folder, again or for the first time,    *)
(* does so when no delete of it is pending any more.                       *)
ReturnsWait == \A f \in Files : InSource(f)' /\ ~ InSource(f) => ~ Pending(f)

(* Then what is being deleted is not there. *)
PendingIsGone == \A f \in Files : Pending(f) => ~ InSource(f)

LEMMA PendingIsGoneStep ==
    TypeOK /\ PendingIsGone /\ [Next]_vars /\ ReturnsWait => PendingIsGone'
<1> SUFFICES ASSUME TypeOK, PendingIsGone, [Next]_vars, ReturnsWait,
                    NEW f \in Files, Pending(f)', InSource(f)'
             PROVE  FALSE
  BY DEF PendingIsGone
<1>1. CASE Pending(f)
  BY <1>1 DEF PendingIsGone, ReturnsWait
<1>2. CASE ~ InSource(f) /\ UNCHANGED driveVars
  BY <1>2 DEF InSource, Live, driveVars
<1> QED
  BY <1>1, <1>2, PendingBegins

(* No writer is left for the directory of an up-to-date live note: a run   *)
(* would have made its record PENDING, a seed would have no pages on       *)
(* record, a cleanup has nothing to clean, and a delete is of a note that  *)
(* is gone.                                                                *)
LEMMA RenderedStep ==
    ASSUME TypeOK, WholeInv, HomeInv, PendingIsGone, [Next]_vars,
           NEW f \in Files, NEW k \in Keys, LiveAt(k) = {f}, Rendered(f, k)
    PROVE  vault'[k] = vault[k]
<1> SUFFICES ASSUME vault'[k] # vault[k] PROVE FALSE
  OBVIOUS
<1>1. rows[k].status = "SUCCESS" /\ rows[k].file = f /\ InSource(f)
  BY DEF Rendered, UpToDate, LiveAt, Live, InSource
<1>2. \A j \in Jobs : Key(j) = k => convert[j].pc \notin InRun
  BY <1>1 DEF WholeInv, JobInv, RunIsPending, InRun
<1>3. k \in paged
  BY <1>1 DEF WholeInv, KeyInv
<1>4. \A j \in Jobs : k \notin convert[j].stale
  BY DEF HomeInv, JobHome
<1>5. ASSUME NEW d \in Deleters, delete[d].pc = "rmtree", delete[d].target = k
      PROVE  FALSE
  <2>1. delete[d].file = f
    BY <1>1, <1>5 DEF HomeInv, DeleteHome, RowsOf
  <2> QED
    BY <1>1, <1>5, <2>1 DEF PendingIsGone, Pending
<1> QED
  BY <1>2, <1>3, <1>4, <1>5, VaultFootprint

(* The rendering of a live note stays as long as the note does, where      *)
(* notes are neither moved nor brought back under a pending delete.        *)
THEOREM StayingNotesStayRendered ==
    Spec /\ [][NotesStay /\ ReturnsWait]_vars => RenderedStays
<1> DEFINE IInv == TypeOK /\ LockOwnership /\ WholeInv /\ HomeInv /\ PendingIsGone
           Stay == \A f \in Files, k \in Keys :
                      /\ LiveAt(k) = {f} /\ Rendered(f, k)
                      /\ drive'[f] = drive[f]
                      => vault'[k] = vault[k]
<1>1. Init => IInv
  <2>1. Init => PendingIsGone
    BY DEF Init, NewDelete, PendingIsGone, Pending
  <2> QED
    BY <2>1, TypeInit, LockInit, WholeInit, HomeInit
<1>2. IInv /\ [Next]_vars /\ [NotesStay /\ ReturnsWait]_vars => IInv'
  <2>1. UNCHANGED vars => NotesStay /\ ReturnsWait
    BY DEF vars, NotesStay, ReturnsWait, InSource, Live
  <2> QED
    BY <2>1, TypeStep, LockStep, WholeStep, HomeStep, PendingIsGoneStep
<1>3. IInv /\ [Next]_vars => [Stay]_vars
  BY RenderedStep
<1>4. RenderedStays <=> [][Stay]_vars
  BY DEF RenderedStays
<1> QED
  BY <1>1, <1>2, <1>3, <1>4, PTL DEF Spec
=============================================================================

-------------------------- MODULE DirectoryProofs --------------------------
(***************************************************************************)
(* Who may remove a directory of NoteSync, and when.  A conversion under   *)
(* way keeps its directory as long as every delete works on the key whose  *)
(* lock it took; with a single key both that and the absence of orphaned   *)
(* directories hold of every behaviour.                                    *)
(***************************************************************************)
EXTENDS NoteSyncProofs

(* The read under the lock found the row whose key is locked.  The code    *)
(* does not ensure it: both reads of delete_output go by file id.          *)
DeletesWhatItLocked ==
    \A d \in Deleters :
        delete[d].pc \in DeleteSection => delete[d].target = delete[d].key

InRun == {"pages", "write", "finalize"}

(* A run past its PENDING row has a row. *)
RunHasRow ==
    \A j \in Jobs : convert[j].pc \in InRun => HasRow(rows, Key(j))

(* Where the rows of a key are about to go, the directory has gone.        *)
RemovedFirst ==
    /\ \A d \in Deleters :
          delete[d].pc = "rows" => vault[delete[d].target] = NoDir
    /\ \A j \in Jobs :
          convert[j].pc = "oldrows" => vault[convert[j].old] = NoDir

(* No directory stands without a record, not even during a run. *)
DirHasRow == \A k \in Keys : vault[k] # NoDir => HasRow(rows, k)

-----------------------------------------------------------------------------
(* What a step may do to one worker, one directory and one record.         *)

(* Where a conversion holds no lock and has begun nothing. *)
Resting == {"idle", "queued", "started"}

(* The producers of jobs, the restarts and the deletes leave a conversion  *)
(* as it is or at rest.                                                    *)
LEMMA JobsRest ==
    ASSUME TypeOK, [Next]_vars, NEW j \in Jobs,
           ~ \E i \in Jobs : ConvertStart(i) \/ ConvertStep(i) \/ ConvertFails(i)
    PROVE  convert'[j] = convert[j] \/ convert'[j].pc \in Resting
<1> USE DEF queues
<1>1. ASSUME NEW f, NEW k, EnqueueConvert(f, k)
      PROVE  convert'[j] = convert[j] \/ convert'[j].pc = "queued"
  BY <1>1 DEF TypeOK, EnqueueConvert, NewJob
<1>2. CASE UNCHANGED vars \/ DriveStep
  BY <1>2 DEF vars, DriveStep, Create, Move, Copy, Edit, Trash, Restore, Remove, Change
<1>3. CASE \E f \in Files : Dispatch(f) \/ Sweep(f) \/ DispatchFails(f)
  BY <1>1, <1>3 DEF Dispatch, Sweep, DispatchFails, Resting
<1>4. CASE \/ \E d \in Deleters : DeleteStep(d) \/ DeleteLookupFails(d)
           \/ \E d \in Deleters, f \in Files : DeleteStart(d, f)
  BY <1>1, <1>4
  DEF DeleteStep, DeleteLookupFails, DeleteStart, DeleteFirstRead, DeleteReread,
      DeleteLookup, DeleteRepoint, DeleteEnqueue, DeleteRmtree, DeleteRows, Resting
<1>5. CASE CursorExpires \/ Crash \/ Upgrade
  BY <1>5 DEF CursorExpires, Crash, Upgrade, NewJob, Resting
<1> QED
  BY <1>2, <1>3, <1>4, <1>5 DEF Next, WorkerStep, Failure

(* A run begins with its PENDING row and its directory with its first      *)
(* pages; the rows of an old place are taken after its directory.          *)
LEMMA JobFootprint ==
    ASSUME TypeOK, [Next]_vars, NEW j \in Jobs
    PROVE  /\ convert'[j].pc \in InRun => convert[j].pc \in InRun \/ ConvertPending(j)
           /\ convert'[j].pc \in {"write", "finalize"} =>
                 convert[j].pc \in {"write", "finalize"} \/ ConvertPages(j)
           /\ convert'[j].pc = "oldrows" =>
                 \/ convert[j].pc = "oldrows" /\ convert'[j].old = convert[j].old
                 \/ vault'[convert'[j].old] = NoDir
<1> USE DEF InRun
<1>1. CASE ~ \E i \in Jobs : ConvertStart(i) \/ ConvertStep(i) \/ ConvertFails(i)
  BY <1>1, JobsRest DEF Resting
<1>2. CASE \E i \in Jobs : ConvertStart(i) \/ ConvertStep(i) \/ ConvertFails(i)
  <2> PICK i \in Jobs : ConvertStart(i) \/ ConvertStep(i) \/ ConvertFails(i)
    BY <1>2
  <2>i. convert[i] \in JobStates
    BY DEF TypeOK
  <2>c. ASSUME NEW v, convert' = [convert EXCEPT ![i] = v]
        PROVE  convert'[i] = v /\ (j # i => convert'[j] = convert[j])
    BY <2>c DEF TypeOK
  <2>g. ASSUME NEW pc, Goto(i, pc)
        PROVE  convert'[i].pc = pc /\ (j # i => convert'[j] = convert[j])
    BY <2>g, <2>i, <2>c DEF Goto, JobStates
  <2>f. ASSUME Finish(i)
        PROVE  convert'[i].pc = "idle" /\ (j # i => convert'[j] = convert[j])
    BY <2>f, <2>c DEF Finish, NewJob
  <2>1. CASE ConvertPending(i) \/ ConvertPages(i)
    <3>1. CASE ConvertPending(i)
      <4>1. Goto(i, "pages")
        BY <3>1 DEF ConvertPending
      <4> QED
        BY <2>g, <3>1, <4>1
    <3>2. CASE ConvertPages(i)
      <4>1. convert[i].pc = "pages" /\ Goto(i, "write")
        BY <3>2 DEF ConvertPages, At
      <4> QED
        BY <2>g, <3>2, <4>1
    <3> QED
      BY <2>1, <3>1, <3>2
  <2>2. CASE ConvertWrite(i)
    <3>1. convert[i].pc = "write" /\ (Goto(i, "finalize") \/ Finish(i))
      BY <2>2 DEF ConvertWrite, At, PersistFailure
    <3> QED
      BY <2>f, <2>g, <3>1
  <2>3. CASE ConvertStart(i) \/ ConvertFinalize(i) \/ ConvertEnd(i) \/ ConvertFails(i)
    <3>1. Goto(i, "started") \/ Goto(i, "moved") \/ Finish(i)
      BY <2>3 DEF ConvertStart, ConvertFinalize, ConvertEnd, ConvertFails, PersistFailure
    <3> QED
      BY <2>f, <2>g, <3>1
  <2>4. CASE ConvertMetadata(i) \/ ConvertCheck(i) \/ ConvertDownload(i) \/ CleanupOldRows(i)
    <3> DEFINE stale == RowsOf(rows, File(i)) \ {Key(i)}
               v1 == [convert[i] EXCEPT !.pc = "check", !.md5 = drive[File(i)].content,
                                        !.at = drive[File(i)].at]
               v2 == [convert[i] EXCEPT !.pc = "download", !.stale = stale]
               v3 == [convert[i] EXCEPT !.pc = "pending",
                                        !.content = drive[File(i)].content]
               v4 == [convert[i] EXCEPT !.pc = "moved",
                                        !.stale = convert[i].stale \ {convert[i].old}]
    <3>1. v1.pc = "check" /\ v2.pc = "download" /\ v3.pc = "pending" /\ v4.pc = "moved"
      BY <2>i DEF JobStates
    <3>2. Finish(i) \/ \E v \in {v1, v2, v3, v4} : convert' = [convert EXCEPT ![i] = v]
      BY <2>4 DEF ConvertMetadata, ConvertCheck, ConvertDownload, CleanupOldRows
    <3> HIDE DEF v1, v2, v3, v4
    <3> QED
      BY <2>f, <2>c, <3>1, <3>2
  <2>5. CASE CleanupOld(i)
    <3>1. PICK old \in convert[i].stale :
             \/ /\ vault' = [vault EXCEPT ![old] = NoDir]
                /\ convert' = [convert EXCEPT ![i] =
                                  [@ EXCEPT !.pc = "oldrows", !.old = old]]
             \/ convert' = [convert EXCEPT ![i].stale = @ \ {old}]
      <4>1. CASE \E o \in convert[i].stale : o \in RowsOf(rows, File(i)) /\ rows[o].out
        BY <2>5 DEF CleanupOld
      <4> QED
        BY <2>5, <4>1 DEF CleanupOld
    <3>2. convert[i].pc = "moved" /\ old \in Keys
      BY <2>5, <2>i DEF CleanupOld, At, JobStates
    <3> DEFINE v1 == [convert[i] EXCEPT !.pc = "oldrows", !.old = old]
               v2 == [convert[i] EXCEPT !.stale = @ \ {old}]
    <3>3. v1.pc = "oldrows" /\ v1.old = old /\ v2.pc = "moved"
      BY <3>2, <2>i DEF JobStates
    <3>4. \/ vault' = [vault EXCEPT ![old] = NoDir] /\ convert' = [convert EXCEPT ![i] = v1]
          \/ convert' = [convert EXCEPT ![i] = v2]
      BY <3>1
    <3> HIDE DEF v1, v2
    <3>5. vault' = [vault EXCEPT ![old] = NoDir] => vault'[old] = NoDir
      BY <3>2 DEF TypeOK
    <3> QED
      BY <2>c, <3>3, <3>4, <3>5
  <2> QED
    BY <2>1, <2>2, <2>3, <2>4, <2>5 DEF ConvertStep
<1> QED
  BY <1>1, <1>2

(* A delete reaches its transaction by removing the directory. *)
LEMMA DeleteFootprint ==
    ASSUME TypeOK, [Next]_vars, NEW d \in Deleters, delete'[d].pc = "rows"
    PROVE  \/ delete[d].pc = "rows" /\ delete'[d].target = delete[d].target
           \/ vault'[delete'[d].target] = NoDir
<1> USE DEF queues
<1>d. delete[d] \in DeleteStates
  BY DEF TypeOK
<1>1. CASE delete'[d] = delete[d]
  BY <1>1
<1>2. CASE delete'[d] # delete[d]
  <2>0. delete' # delete
    BY <1>2
  <2>1. PICK e \in Deleters :
           \/ DeleteStep(e) \/ DeleteLookupFails(e)
           \/ \E f \in Files : DeleteStart(e, f)
           \/ Crash \/ Upgrade
    BY <2>0
    DEF Next, vars, DriveStep, Create, Move, Copy, Edit, Trash, Restore, Remove, Change,
        WorkerStep, Failure, Dispatch, Sweep, DispatchFails, CursorExpires, ConvertStart,
        ConvertStep, ConvertFails, ConvertMetadata, ConvertCheck, ConvertDownload,
        ConvertPending, ConvertPages, ConvertWrite, ConvertFinalize, CleanupOld,
        CleanupOldRows, ConvertEnd
  <2>2. CASE Crash
    <3>1. delete'[d] \in AfterCrash(d)
      BY <2>2 DEF Crash
    <3>2. AfterCrash(d) \subseteq {delete[d], NewDelete("read", delete[d].file)}
      BY SMT DEF AfterCrash
    <3> QED
      BY <1>2, <3>1, <3>2 DEF NewDelete
  <2>3. CASE Upgrade
    BY <2>3 DEF Upgrade, NewDelete
  <2>u. ASSUME NEW v, Update(e, v) PROVE e = d /\ delete'[d] = v
    BY <1>2, <2>u DEF TypeOK, Update
  <2>n. \A pc, f : NewDelete(pc, f).pc = pc
    BY DEF NewDelete
  <2>p. ASSUME NEW v, Update(e, v), v.pc # "rows" PROVE FALSE
    BY <2>u, <2>p
  <2>e. delete[e] \in DeleteStates
    BY DEF TypeOK
  <2>4. CASE DeleteEnds(e)
    BY <2>4, <2>n, <2>p DEF DeleteEnds
  <2>s. CASE \E f \in Files : DeleteStart(e, f)
    <3> PICK f \in Files : DeleteStart(e, f)
      BY <2>s
    <3>1. Update(e, NewDelete("read", f))
      BY DEF DeleteStart
    <3> QED
      BY <3>1, <2>n, <2>p
  <2>5. CASE (DeleteFirstRead(e) \/ DeleteLookup(e) \/ DeleteRepoint(e)) /\ ~ DeleteEnds(e)
    <3> DEFINE v1(k) == [delete[e] EXCEPT !.pc = "reread", !.key = k]
               v2(f) == [delete[e] EXCEPT !.pc = "repoint", !.twin = f]
               v3 == [delete[e] EXCEPT !.pc = "rmtree"]
               v4 == [delete[e] EXCEPT !.pc = "enqueue"]
    <3>1. /\ \A k : v1(k).pc = "reread"
          /\ \A f : v2(f).pc = "repoint"
          /\ v3.pc = "rmtree" /\ v4.pc = "enqueue"
      BY <2>e DEF DeleteStates
    <3>2. \/ \E k : Update(e, v1(k))
          \/ \E f : Update(e, v2(f))
          \/ Update(e, v3) \/ Update(e, v4)
      BY <2>5 DEF DeleteFirstRead, DeleteLookup, DeleteRepoint
    <3> HIDE DEF v1, v2, v3, v4
    <3> QED
      BY <2>p, <3>1, <3>2
  <2>6. CASE DeleteReread(e) /\ ~ DeleteEnds(e)
    <3> DEFINE v(k) == [delete[e] EXCEPT
                           !.pc = IF rows[k].parent = NoFolder
                                  THEN "rmtree" ELSE "lookup",
                           !.row = rows[k], !.target = k]
    <3>1. \A k : v(k).pc # "rows"
      BY <2>e DEF DeleteStates
    <3>2. \E k : Update(e, v(k))
      BY <2>6 DEF DeleteReread
    <3> HIDE DEF v
    <3> QED
      BY <2>p, <3>1, <3>2
  <2>7. CASE DeleteRmtree(e) /\ ~ DeleteEnds(e)
    <3>1. /\ vault' = [vault EXCEPT ![delete[e].target] = NoDir]
          /\ Update(e, [delete[e] EXCEPT !.pc = "rows"])
      BY <2>7 DEF DeleteRmtree
    <3>2. delete'[d].target = delete[d].target /\ e = d /\ delete[d].target \in Keys
      BY <3>1, <2>u, <1>d DEF DeleteStates
    <3> QED
      BY <3>1, <3>2 DEF TypeOK
  <2> QED
    BY <2>1, <2>2, <2>3, <2>4, <2>s, <2>5, <2>6, <2>7
    DEF DeleteStep, DeleteEnqueue, DeleteRows, DeleteLookupFails
<1> QED
  BY <1>1, <1>2

(* A directory grows under its key's lock, in a run or by a seed, and goes *)
(* by a delete or the cleanup of an old place.                             *)
LEMMA VaultFootprint ==
    ASSUME TypeOK, [Next]_vars, NEW k \in Keys, vault'[k] # vault[k]
    PROVE  \/ \E j \in Jobs :
                 /\ Key(j) = k /\ vault'[k] # NoDir /\ rows' = rows
                 /\ \/ convert[j].pc \in InRun
                    \/ /\ convert[j].pc = "check" /\ k \notin paged
                       /\ RowsOf(rows, File(j)) \ {k} # {}
           \/ /\ vault'[k] = NoDir
              /\ \/ lock[k] = Nobody /\ \E j \in Jobs : k \in convert[j].stale
                 \/ \E d \in Deleters :
                       delete[d].pc = "rmtree" /\ delete[d].target = k
<1> USE DEF stores
<1>n. /\ Torn # NoDir /\ \A v : Whole(v) # NoDir
  BY DEF Torn, Whole, NoDir
<1>1. \/ \E j \in Jobs : \/ ConvertCheck(j) \/ ConvertPages(j) \/ ConvertWrite(j)
                         \/ CleanupOld(j)
      \/ \E d \in Deleters : DeleteRmtree(d)
  BY DEF Next, vars, DriveStep, Create, Move, Copy, Edit, Trash, Restore, Remove, Change,
         WorkerStep, Failure, Dispatch, Sweep, DispatchFails, CursorExpires, ConvertStart,
         ConvertStep, ConvertFails, ConvertMetadata, ConvertDownload, ConvertPending,
         ConvertFinalize, CleanupOldRows, ConvertEnd, DeleteStart, DeleteStep,
         DeleteFirstRead, DeleteReread, DeleteLookup, DeleteLookupFails, DeleteRepoint,
         DeleteEnqueue, DeleteRows, Crash, Upgrade
<1>2. CASE \E j \in Jobs : ConvertCheck(j)
  <2> PICK j \in Jobs : ConvertCheck(j)
    BY <1>2
  <2>1. /\ convert[j].pc = "check" /\ rows' = rows /\ Key(j) \notin paged
        /\ RowsOf(rows, File(j)) \ {Key(j)} # {}
        /\ vault' = [vault EXCEPT ![Key(j)] = Torn]
    BY DEF ConvertCheck, Seeds, Seeded, At
  <2> QED
    BY <1>n, <2>1 DEF TypeOK
<1>3. CASE \E j \in Jobs : ConvertPages(j) \/ ConvertWrite(j)
  <2> PICK j \in Jobs : ConvertPages(j) \/ ConvertWrite(j)
    BY <1>3
  <2>1. /\ convert[j].pc \in InRun /\ rows' = rows
        /\ \E v : v # NoDir /\ vault' = [vault EXCEPT ![Key(j)] = v]
    BY <1>n DEF ConvertPages, ConvertWrite, InRun, At
  <2> QED
    BY <2>1 DEF TypeOK
<1>4. CASE \E j \in Jobs : CleanupOld(j)
  <2> PICK j \in Jobs : CleanupOld(j)
    BY <1>4
  <2>1. PICK old \in convert[j].stale :
           lock[old] = Nobody /\ vault' = [vault EXCEPT ![old] = NoDir]
    BY DEF CleanupOld
  <2> QED
    BY <2>1 DEF TypeOK
<1>5. CASE \E d \in Deleters : DeleteRmtree(d)
  BY <1>5 DEF TypeOK, DeleteRmtree, Deleting
<1> QED
  BY <1>1, <1>2, <1>3, <1>4, <1>5

(* A record goes only by the transaction of a delete or of a cleanup. *)
LEMMA RecordFootprint ==
    ASSUME TypeOK, [Next]_vars, NEW k \in Keys, HasRow(rows, k), ~ HasRow(rows', k)
    PROVE  \/ \E d \in Deleters :
                 /\ delete[d].pc = "rows" /\ delete[d].target = k
                 /\ vault' = vault
           \/ \E j \in Jobs :
                 /\ convert[j].pc = "oldrows" /\ convert[j].old = k
                 /\ vault' = vault
<1> USE DEF stores, HasRow
<1>0. rows' # rows
  OBVIOUS
<1>1. \/ \E j \in Jobs : \/ ConvertPending(j) \/ ConvertWrite(j) \/ ConvertFails(j)
                         \/ ConvertFinalize(j) \/ CleanupOldRows(j)
      \/ \E d \in Deleters : DeleteRepoint(d) \/ DeleteRows(d)
  BY <1>0
  DEF Next, vars, DriveStep, Create, Move, Copy, Edit, Trash, Restore, Remove, Change,
         WorkerStep, Failure, Dispatch, Sweep, DispatchFails, CursorExpires, ConvertStart,
         ConvertStep, ConvertMetadata, ConvertCheck, ConvertDownload, ConvertPages,
         CleanupOld, ConvertEnd, DeleteStart, DeleteStep, DeleteFirstRead, DeleteReread,
         DeleteLookup, DeleteLookupFails, DeleteEnqueue, DeleteRmtree, Crash, Upgrade
<1>t. rows \in Tables
  BY DEF TypeOK
<1>2. CASE \E j \in Jobs : \/ ConvertPending(j) \/ ConvertWrite(j) \/ ConvertFails(j)
                           \/ ConvertFinalize(j)
  <2> PICK j \in Jobs : \/ ConvertPending(j) \/ ConvertWrite(j) \/ ConvertFails(j)
                        \/ ConvertFinalize(j)
    BY <1>2
  <2>j. /\ Key(j) \in Keys /\ File(j) \in Files /\ convert[j].at \in Places
        /\ convert[j].md5 \in Md5s
        /\ Name(Key(j)) \in Names /\ Name(convert[j].at) \in Names
    <3>1. Key(j) \in Keys /\ File(j) \in Files /\ convert[j] \in JobStates
      BY DEF TypeOK, Jobs, Key, File
    <3> QED
      BY <3>1, PlaceParts, KeysAssumption DEF JobStates
  <2>1. \/ rows' = rows
        \/ rows' = UpsertPending(rows, Key(j), File(j), convert[j].at)
        \/ \E name \in Names : rows' = RecordFailure(rows, Key(j), File(j), name)
        \/ rows' = MarkSuccess(rows, Key(j), convert[j].md5)
    BY <2>j DEF ConvertPending, ConvertWrite, ConvertFails, ConvertFinalize, PersistFailure
  <2>2. CASE rows' = rows
    BY <2>2, <1>0
  <2>3. CASE rows' = UpsertPending(rows, Key(j), File(j), convert[j].at)
    BY <1>t, <2>j, <2>3, UpsertPendingType
  <2>4. CASE \E name \in Names : rows' = RecordFailure(rows, Key(j), File(j), name)
    BY <1>t, <2>j, <2>4, RecordFailureType
  <2>5. CASE rows' = MarkSuccess(rows, Key(j), convert[j].md5)
    BY <1>t, <2>j, <2>5, MarkSuccessType
  <2> QED
    BY <2>1, <2>2, <2>3, <2>4, <2>5
<1>3. CASE \E d \in Deleters : DeleteRepoint(d)
  <2> PICK d \in Deleters : DeleteRepoint(d)
    BY <1>3
  <2>1. delete[d].target \in Keys /\ delete[d].twin \in Files \cup {NoFile}
    BY DEF TypeOK, DeleteStates
  <2> QED
    BY <1>t, <2>1, SetCurrentFileIdType DEF DeleteRepoint
<1>4. CASE \E d \in Deleters : DeleteRows(d)
  <2> PICK d \in Deleters : DeleteRows(d)
    BY <1>4
  <2>1. delete[d].target \in Keys
    BY DEF TypeOK, DeleteStates
  <2> QED
    BY <1>t, <2>1, DeleteByLogicalKeyType DEF DeleteRows, Deleting
<1>5. CASE \E j \in Jobs : CleanupOldRows(j)
  <2> PICK j \in Jobs : CleanupOldRows(j)
    BY <1>5
  <2>1. convert[j].old \in Keys
    BY DEF TypeOK, JobStates
  <2> QED
    BY <1>t, <2>1, DeleteByLogicalKeyType DEF CleanupOldRows, At
<1> QED
  BY <1>1, <1>2, <1>3, <1>4, <1>5

-----------------------------------------------------------------------------
(* The invariants.                                                         *)

(* One worker at a time is inside the section of a key. *)
LEMMA OneInside ==
    ASSUME LockOwnership, NEW j \in Jobs, convert[j].pc \in OwnSection
    PROVE  /\ lock[Key(j)] # Nobody
           /\ \A d \in Deleters :
                 ~ (delete[d].key = Key(j) /\ delete[d].pc \in DeleteSection)
           /\ \A i \in Jobs : ~ (convert[i].old = Key(j) /\ convert[i].pc = "oldrows")
<1>1. Key(j) \in Keys /\ j # Nobody
  BY NobodyAssumption DEF Jobs, Key, Workers
<1>2. lock[Key(j)] = j
  BY <1>1, JobHolds
<1>3. \A d \in Deleters : d # j
  BY WorkersAssumption
<1>4. ASSUME NEW i \in Jobs, convert[i].old = Key(j), convert[i].pc = "oldrows"
      PROVE  FALSE
  <2>1. lock[Key(j)] = i
    BY <1>1, <1>4, JobHolds
  <2> QED
    BY <1>2, <1>4, <2>1 DEF OwnSection
<1> QED
  BY <1>1, <1>2, <1>3, <1>4, DeleteHolds

(* A conversion keeps its directory from its first pages to its end. *)
LEMMA InFlightStep ==
    ASSUME TypeOK, LockOwnership, DeletesWhatItLocked, InFlightKeepsDir, [Next]_vars
    PROVE  InFlightKeepsDir'
<1> SUFFICES ASSUME NEW j \in Jobs, convert'[j].pc \in {"write", "finalize"}
             PROVE  vault'[Key(j)] # NoDir
  BY DEF InFlightKeepsDir, InFlight
<1>k. Key(j) \in Keys
  BY DEF Jobs, Key
<1>1. CASE ConvertPages(j)
  BY <1>1, <1>k DEF ConvertPages, TypeOK, Torn, NoDir
<1>2. CASE convert[j].pc \in {"write", "finalize"}
  <2>1. vault[Key(j)] # NoDir
    BY <1>2, <1>k DEF InFlightKeepsDir, InFlight
  <2>2. /\ lock[Key(j)] # Nobody
        /\ \A d \in Deleters :
              ~ (delete[d].pc = "rmtree" /\ delete[d].target = Key(j))
    BY <1>2, OneInside DEF OwnSection, DeletesWhatItLocked, DeleteSection
  <2> QED
    BY <1>k, <2>1, <2>2, VaultFootprint
<1> QED
  BY <1>1, <1>2, JobFootprint

(* While a key's rows wait to go, nobody writes its directory. *)
LEMMA RemovedFirstStep ==
    ASSUME TypeOK, LockOwnership, DeletesWhatItLocked, RemovedFirst, [Next]_vars
    PROVE  RemovedFirst'
<1>1. ASSUME NEW k \in Keys, vault[k] = NoDir,
             \/ \E d \in Deleters : delete[d].pc = "rows" /\ delete[d].target = k
             \/ \E i \in Jobs : convert[i].pc = "oldrows" /\ convert[i].old = k
      PROVE  vault'[k] = NoDir
  <2>1. \A j \in Jobs : Key(j) = k => convert[j].pc \notin OwnSection
    BY <1>1, OneInside DEF DeletesWhatItLocked, DeleteSection
  <2>2. CASE vault'[k] = vault[k]
    BY <1>1, <2>2
  <2>3. CASE vault'[k] # vault[k]
    BY <2>1, <2>3, VaultFootprint DEF InRun, OwnSection
  <2> QED
    BY <2>2, <2>3
<1>2. ASSUME NEW d \in Deleters, delete'[d].pc = "rows"
      PROVE  vault'[delete'[d].target] = NoDir
  <2>1. delete[d].target \in Keys
    BY DEF TypeOK, DeleteStates
  <2> QED
    BY <1>1, <1>2, <2>1, DeleteFootprint DEF RemovedFirst
<1>3. ASSUME NEW j \in Jobs, convert'[j].pc = "oldrows"
      PROVE  vault'[convert'[j].old] = NoDir
  <2>1. convert[j].old \in Keys
    BY DEF TypeOK, JobStates
  <2> QED
    BY <1>1, <1>3, <2>1, JobFootprint DEF RemovedFirst
<1> QED
  BY <1>2, <1>3 DEF RemovedFirst

(* The row a run has written stays for the length of the run. *)
LEMMA RunHasRowStep ==
    ASSUME TypeOK, LockOwnership, DeletesWhatItLocked, RunHasRow, [Next]_vars
    PROVE  RunHasRow'
<1> SUFFICES ASSUME NEW j \in Jobs, convert'[j].pc \in InRun
             PROVE  HasRow(rows', Key(j))
  BY DEF RunHasRow, HasRow
<1>k. Key(j) \in Keys /\ File(j) \in Files /\ convert[j].at \in Places
  BY DEF TypeOK, JobStates, Jobs, Key, File
<1>1. CASE ConvertPending(j)
  BY <1>1, <1>k, UpsertPendingType DEF ConvertPending, TypeOK, HasRow
<1>2. CASE convert[j].pc \in InRun
  <2>1. HasRow(rows, Key(j))
    BY <1>2 DEF RunHasRow
  <2>2. /\ \A d \in Deleters :
              ~ (delete[d].pc = "rows" /\ delete[d].target = Key(j))
        /\ \A i \in Jobs : ~ (convert[i].pc = "oldrows" /\ convert[i].old = Key(j))
    BY <1>2, OneInside DEF InRun, OwnSection, DeletesWhatItLocked, DeleteSection
  <2> QED
    BY <1>k, <2>1, <2>2, RecordFootprint
<1> QED
  BY <1>1, <1>2, JobFootprint

(* Without a place to seed from, a directory has a row as long as it is    *)
(* there.                                                                  *)
LEMMA DirHasRowStep ==
    ASSUME TypeOK, RunHasRow, RemovedFirst, DirHasRow, [Next]_vars,
           \A j \in Jobs :
              convert[j].pc = "check" => RowsOf(rows, File(j)) \ {Key(j)} = {}
    PROVE  DirHasRow'
<1> SUFFICES ASSUME NEW k \in Keys, vault'[k] # NoDir PROVE HasRow(rows', k)
  BY DEF DirHasRow, HasRow
<1>1. CASE vault'[k] = vault[k]
  <2>1. HasRow(rows, k)
    BY <1>1 DEF DirHasRow
  <2> QED
    BY <1>1, <2>1, RecordFootprint DEF RemovedFirst
<1>2. CASE vault'[k] # vault[k] /\ \E j \in Jobs :
              /\ Key(j) = k /\ rows' = rows
              /\ \/ convert[j].pc \in InRun
                 \/ convert[j].pc = "check" /\ RowsOf(rows, File(j)) \ {k} # {}
  <2> QED
    BY <1>2 DEF RunHasRow
<1> QED
  BY <1>1, <1>2, VaultFootprint

-----------------------------------------------------------------------------
(* A conversion under way keeps its directory, whatever else runs, crashes *)
(* or is retried, in every behaviour whose deletes work on the key they    *)
(* locked: the one way to lose it is the gap between delete_output's two   *)
(* reads.                                                                  *)
THEOREM InFlightStays == Spec /\ []DeletesWhatItLocked => []InFlightKeepsDir
<1> DEFINE IInv == TypeOK /\ LockOwnership /\ InFlightKeepsDir
<1>1. Init => IInv
  <2>1. Init => InFlightKeepsDir
    BY DEF Init, NewJob, InFlightKeepsDir, InFlight
  <2> QED
    BY <2>1, TypeInit, LockInit
<1>2. IInv /\ DeletesWhatItLocked /\ [Next]_vars => IInv'
  BY TypeStep, LockStep, InFlightStep
<1> QED
  BY <1>1, <1>2, PTL DEF Spec

(* With a single key there is only one to lock. *)
LEMMA OneKeyLocks ==
    ASSUME NEW k, Keys = {k}, TypeOK
    PROVE  /\ DeletesWhatItLocked
           /\ \A j \in Jobs : RowsOf(rows, File(j)) \ {Key(j)} = {}
<1>1. \A d \in Deleters : delete[d].target = k /\ delete[d].key = k
  BY DEF TypeOK, DeleteStates
<1> QED
  BY <1>1 DEF DeletesWhatItLocked, RowsOf, Jobs, Key

(* Of one key, a conversion under way is never robbed of its directory.    *)
THEOREM OneKeyInFlightStays ==
    ASSUME NEW CONSTANT k, Keys = {k}
    PROVE  Spec => []InFlightKeepsDir
<1>1. TypeOK => DeletesWhatItLocked
  BY OneKeyLocks
<1> QED
  BY <1>1, TypeCorrect, InFlightStays, PTL

(* Of one key, a directory never outlives its record: whatever crashes,    *)
(* fails or is upgraded between the steps, /status can still see it and a  *)
(* delete can still find it.                                               *)
THEOREM OneKeyNoOrphan ==
    ASSUME NEW CONSTANT k, Keys = {k}
    PROVE  Spec => []NoOrphanDir
<1> DEFINE IInv == /\ TypeOK /\ LockOwnership
                   /\ RunHasRow /\ RemovedFirst /\ DirHasRow
<1>1. Init => IInv
  <2>1. Init => RunHasRow /\ RemovedFirst /\ DirHasRow
    BY DEF Init, NewJob, NewDelete, RunHasRow, RemovedFirst, DirHasRow, InRun
  <2> QED
    BY <2>1, TypeInit, LockInit
<1>2. IInv /\ [Next]_vars => IInv'
  <2>1. TypeOK => /\ DeletesWhatItLocked
                  /\ \A j \in Jobs : RowsOf(rows, File(j)) \ {Key(j)} = {}
    BY OneKeyLocks
  <2> QED
    BY <2>1, TypeStep, LockStep, RunHasRowStep, RemovedFirstStep, DirHasRowStep
<1>3. IInv => NoOrphanDir
  BY DEF DirHasRow, NoOrphanDir
<1> QED
  BY <1>1, <1>2, <1>3, PTL DEF Spec
=============================================================================

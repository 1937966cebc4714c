------------------------------ MODULE NoteSync ------------------------------
(***************************************************************************)
(* The worker's core: how changes in a Drive folder of notes reach the     *)
(* vault.  Drive moves on its own and reports which files changed; the     *)
(* poller turns each report into a convert_note or a delete_output job;    *)
(* the daily sweep enqueues conversions for every note that lacks an       *)
(* up-to-date record; the jobs of both kinds run concurrently over the     *)
(* conversion_records table and the vault directories, serialised per      *)
(* logical key by file locks; the process may die at any moment, after     *)
(* which DBOS runs the unfinished workflows again.                         *)
(*                                                                         *)
(* Contents are numbered in the order they are uploaded, and a content's   *)
(* number is its md5.  A vault directory is not there, torn (some pages of *)
(* a run that has not finished), or the whole rendering of one content.    *)
(***************************************************************************)
EXTENDS ConversionTable, FiniteSets

CONSTANTS
    Deleters,            \* the workers of delete_queue
    ConvertConcurrency,  \* how many convert_note workflows run at once
    Nobody,              \* the holder of a lock that is free
    Budget               \* how often each thing outside the worker may happen

Jobs == Files \X Keys    \* a convert_note(file_id, source_path)
Workers == Jobs \cup Deleters

(* What happens outside the worker, each kind at most Budget[kind] times.  *)
Kinds == {"create", "copy", "edit", "move", "trash", "restore", "remove",
          "fault", "expire", "crash", "upgrade"}

ASSUME BudgetAssumption == Budget \in [Kinds -> Nat]
ASSUME ConcurrencyAssumption == ConvertConcurrency \in Nat \ {0}
ASSUME NobodyAssumption == Nobody \notin Workers
ASSUME WorkersAssumption == Jobs \cap Deleters = {}

VARIABLES
    drive,    \* each file's state, place and content in Drive
    top,      \* the number of the last content uploaded
    feed,     \* the files with a change the poller has not dispatched
    rows,     \* conversion_records
    paged,    \* the keys that have page_conversions rows
    vault,    \* the directory of each key
    lock,     \* the file lock of each key
    convert,  \* each convert_note: its program counter and locals
    deletes,  \* how many delete_output workflows are enqueued per file
    delete,   \* each delete worker: its program counter and locals
    spent     \* how much of each budget is used

driveVars == <<drive, top>>
stores == <<rows, paged, vault>>
queues == <<convert, deletes, delete>>
vars == <<drive, top, feed, rows, paged, vault, lock, convert, deletes,
          delete, spent>>

-----------------------------------------------------------------------------
(* Types.                                                                  *)

DriveStates == {"absent", "live", "trashed", "gone"}

NoDir == [state |-> "none", content |-> 0]
Torn == [state |-> "torn", content |-> 0]
Whole(v) == [state |-> "whole", content |-> v]

ConvertSteps == {"idle", "queued", "started", "check", "download", "pending",
                 "pages", "write", "finalize", "moved", "oldrows"}

(* The steps inside `with lock_for(key)` for the job's own key, and those  *)
(* inside the lock of an old key (field old).                              *)
OwnSection == {"check", "download", "pending", "pages", "write", "finalize"}

DeleteSteps == {"idle", "read", "reread", "lookup", "repoint", "rmtree",
                "rows", "enqueue"}

DeleteSection == {"lookup", "repoint", "rmtree", "rows"}

AnyKey == CHOOSE k \in Keys : TRUE

NewJob(pc) == [pc |-> pc, md5 |-> 0, at |-> AnyKey, stale |-> {},
               content |-> 0, old |-> AnyKey]

NewDelete(pc, f) == [pc |-> pc, file |-> f, key |-> AnyKey, row |-> NoRow,
                     target |-> AnyKey, twin |-> NoFile]

DriveFiles == [state : DriveStates, at : Places, content : Nat]
Dirs == [state : {"none", "torn", "whole"}, content : Nat]
JobStates == [pc : ConvertSteps, md5 : Md5s, at : Places,
              stale : SUBSET Keys, content : Nat, old : Keys]
DeleteStates == [pc : DeleteSteps, file : Files \cup {NoFile}, key : Keys,
                 row : Rows, target : Keys, twin : Files \cup {NoFile}]

TypeOK ==
    /\ drive \in [Files -> DriveFiles]
    /\ top \in Nat
    /\ feed \subseteq Files
    /\ rows \in Tables
    /\ paged \subseteq Keys
    /\ vault \in [Keys -> Dirs]
    /\ lock \in [Keys -> Workers \cup {Nobody}]
    /\ convert \in [Jobs -> JobStates]
    /\ deletes \in [Files -> Nat]
    /\ delete \in [Deleters -> DeleteStates]
    /\ spent \in [Kinds -> Nat]

Spend(kind) ==
    /\ spent[kind] < Budget[kind]
    /\ spent' = [spent EXCEPT ![kind] = @ + 1]

Init ==
    /\ drive = [f \in Files |->
                    [state |-> "absent", at |-> AnyKey, content |-> 0]]
    /\ top = 0
    /\ feed = {}
    /\ rows = [k \in Keys |-> NoRow]
    /\ paged = {}
    /\ vault = [k \in Keys |-> NoDir]
    /\ lock = [k \in Keys |-> Nobody]
    /\ convert = [j \in Jobs |-> NewJob("idle")]
    /\ deletes = [f \in Files |-> 0]
    /\ delete = [d \in Deleters |-> NewDelete("idle", NoFile)]
    /\ spent = [kind \in Kinds |-> 0]

-----------------------------------------------------------------------------
(* Drive.  Every change puts the file in the feed; several changes of one  *)
(* file between two polls are reported as one, with the file's last state. *)

Live(f) == drive[f].state = "live"
LiveAt(p) == {f \in Files : Live(f) /\ drive[f].at = p}
Readable(f) == drive[f].state \in {"live", "trashed"}

Change(f, kind) ==
    /\ Spend(kind)
    /\ feed' = feed \cup {f}
    /\ UNCHANGED <<stores, lock, queues>>

(* A note with a content never seen is uploaded.  The Supernote replaces a *)
(* note by uploading a new file at its place and trashing the old one, in  *)
(* either order.                                                           *)
Upload(f, p, v) ==
    /\ drive[f].state = "absent"
    /\ drive' = [drive EXCEPT ![f] =
                    [state |-> "live", at |-> p, content |-> v]]

Create(f, p) ==
    /\ Upload(f, p, top + 1)
    /\ top' = top + 1
    /\ Change(f, "create")

(* The content of another file is uploaded again under a new file id. *)
Copy(f, p, g) ==
    /\ Readable(g)
    /\ Upload(f, p, drive[g].content)
    /\ UNCHANGED top
    /\ Change(f, "copy")

(* A note is overwritten in place and keeps its file id. *)
Edit(f) ==
    /\ Live(f)
    /\ drive' = [drive EXCEPT ![f].content = top + 1]
    /\ top' = top + 1
    /\ Change(f, "edit")

(* A note is moved or renamed, into, inside or out of the source folder. *)
Move(f, p) ==
    /\ Live(f)
    /\ p # drive[f].at
    /\ drive' = [drive EXCEPT ![f].at = p]
    /\ UNCHANGED top
    /\ Change(f, "move")

Trash(f) ==
    /\ Live(f)
    /\ drive' = [drive EXCEPT ![f].state = "trashed"]
    /\ UNCHANGED top
    /\ Change(f, "trash")

Restore(f) ==
    /\ drive[f].state = "trashed"
    /\ drive' = [drive EXCEPT ![f].state = "live"]
    /\ UNCHANGED top
    /\ Change(f, "restore")

(* A file is deleted for good, or the service account loses access to it. *)
Remove(f) ==
    /\ Readable(f)
    /\ drive' = [drive EXCEPT ![f].state = "gone"]
    /\ UNCHANGED top
    /\ Change(f, "remove")

-----------------------------------------------------------------------------
(* The producers of jobs.                                                  *)

(* enqueue_workflow with the deduplication id file_id:source_path: while a *)
(* job with that id is queued or running, the enqueue is dropped.          *)
EnqueueConvert(f, k) ==
    convert' = IF convert[<<f, k>>].pc = "idle"
               THEN [convert EXCEPT ![<<f, k>>] = NewJob("queued")]
               ELSE convert

(* Mutant of ResolvedToDelete: a note moved out of the folder is ignored. *)
ResolvedToDeleteIfGone(f) == ~ Live(f)

(* _resolve_change_action and _enqueue_action for one reported change: the *)
(* file's state is the one Drive reports now, not the one at the change.   *)
ResolvedToDelete(f) ==
    \/ ~ Live(f)
    \/ drive[f].at \notin Keys /\ RowsOf(rows, f) # {}

ResolvedToConvert(f) == Live(f) /\ drive[f].at \in Keys

Dispatch(f) ==
    /\ f \in feed
    /\ feed' = feed \ {f}
    /\ \/ /\ ResolvedToDelete(f)
          /\ deletes' = [deletes EXCEPT ![f] = @ + 1]
          /\ UNCHANGED convert
       \/ /\ ResolvedToConvert(f)
          /\ EnqueueConvert(f, drive[f].at)
          /\ UNCHANGED deletes
       \/ /\ ~ ResolvedToDelete(f)
          /\ ~ ResolvedToConvert(f)
          /\ UNCHANGED <<convert, deletes>>
    /\ UNCHANGED <<driveVars, stores, lock, delete, spent>>

(* The metadata walk of a change that is not a removal gets a 4xx: the     *)
(* change is counted as errored and the cursor passes it.                  *)
DispatchFails(f) ==
    /\ f \in feed
    /\ Live(f)
    /\ Spend("fault")
    /\ feed' = feed \ {f}
    /\ UNCHANGED <<driveVars, stores, lock, queues>>

(* changes.list refuses the cursor: it restarts from now, and what was     *)
(* unread is lost.  The backfill enqueued then is a Sweep.                 *)
CursorExpires ==
    /\ feed # {}
    /\ Spend("expire")
    /\ feed' = {}
    /\ UNCHANGED <<driveVars, stores, lock, queues>>

(* One listed note of a backfill, at startup or from the daily sweep.      *)
Sweep(f) ==
    /\ Live(f)
    /\ drive[f].at \in Keys
    /\ ~ UpToDate(rows, drive[f].at, f, drive[f].content)
    /\ EnqueueConvert(f, drive[f].at)
    /\ convert' # convert
    /\ UNCHANGED <<driveVars, feed, stores, lock, deletes, delete, spent>>

-----------------------------------------------------------------------------
(* convert_note, one action per stretch between two effects another worker *)
(* can see.  j = <<f, k>>: the file to convert and the key of its path.    *)

File(j) == j[1]
Key(j) == j[2]
At(j, pc) == convert[j].pc = pc

Running == {j \in Jobs : convert[j].pc \notin {"idle", "queued"}}

Goto(j, pc) == convert' = [convert EXCEPT ![j].pc = pc]
Acquire(k, w) == lock[k] = Nobody /\ lock' = [lock EXCEPT ![k] = w]
Release(k) == lock' = [lock EXCEPT ![k] = Nobody]

(* The workflow ends, in success or in error: its deduplication id is free *)
(* and DBOS does not run it again.                                         *)
Finish(j) == convert' = [convert EXCEPT ![j] = NewJob("idle")]

ConvertStart(j) ==
    /\ At(j, "queued")
    /\ Cardinality(Running) < ConvertConcurrency
    /\ Goto(j, "started")
    /\ UNCHANGED <<driveVars, feed, stores, lock, deletes, delete, spent>>

(* The lock is taken and the metadata read: a trashed note is skipped, and *)
(* so is one that Drive does not know any more.                            *)
ConvertMetadata(j) ==
    /\ At(j, "started")
    /\ lock[Key(j)] = Nobody
    /\ \/ /\ Live(File(j))
          /\ convert' = [convert EXCEPT ![j] =
                [@ EXCEPT !.pc = "check", !.md5 = drive[File(j)].content,
                          !.at = drive[File(j)].at]]
          /\ Acquire(Key(j), j)
       \/ /\ ~ Live(File(j))
          /\ Finish(j)
          /\ UNCHANGED lock
    /\ UNCHANGED <<driveVars, feed, stores, deletes, delete, spent>>

(* Mutant of Seeds: seeding over pages that are already there. *)
SeedsAlways(j, stale) == stale # {}

(* _seed_from_prior_location: with no page of its own on record, the new   *)
(* directory starts as a copy of the pages of the place the note left.     *)
Seeds(j, stale) == Key(j) \notin paged /\ stale # {}

Seeded(j, stale) ==
    \E old \in Earliest(rows, stale) :
        vault' = IF rows[old].out /\ vault[old] # NoDir
                 THEN [vault EXCEPT ![Key(j)] = Torn]
                 ELSE vault

(* Skip an up-to-date note; else look for the records the same file left   *)
(* under other keys, and seed the cache.                                   *)
ConvertCheck(j) ==
    LET stale == RowsOf(rows, File(j)) \ {Key(j)} IN
    /\ At(j, "check")
    /\ \/ /\ UpToDate(rows, Key(j), File(j), convert[j].md5)
          /\ Finish(j)
          /\ Release(Key(j))
          /\ UNCHANGED vault
       \/ /\ ~ UpToDate(rows, Key(j), File(j), convert[j].md5)
          /\ convert' = [convert EXCEPT ![j] =
                            [@ EXCEPT !.pc = "download", !.stale = stale]]
          /\ IF Seeds(j, stale) THEN Seeded(j, stale) ELSE UNCHANGED vault
          /\ UNCHANGED lock
    /\ UNCHANGED <<driveVars, feed, rows, paged, deletes, delete, spent>>

(* The bytes downloaded are the content of this moment, which may be newer *)
(* than the md5 read before; a trashed file still downloads.               *)
ConvertDownload(j) ==
    /\ At(j, "download")
    /\ \/ /\ Readable(File(j))
          /\ convert' = [convert EXCEPT ![j] =
                [@ EXCEPT !.pc = "pending", !.content = drive[File(j)].content]]
          /\ UNCHANGED lock
       \/ /\ ~ Readable(File(j))
          /\ Finish(j)
          /\ Release(Key(j))
    /\ UNCHANGED <<driveVars, feed, stores, deletes, delete, spent>>

(* _persist_pending_start *)
ConvertPending(j) ==
    /\ At(j, "pending")
    /\ rows' = UpsertPending(rows, Key(j), File(j), convert[j].at)
    /\ Goto(j, "pages")
    /\ UNCHANGED <<driveVars, feed, paged, vault, lock, deletes, delete, spent>>

(* run_multi_page creates the directory and writes the first pages.        *)
ConvertPages(j) ==
    /\ At(j, "pages")
    /\ vault' = [vault EXCEPT ![Key(j)] = Torn]
    /\ paged' = paged \cup {Key(j)}
    /\ Goto(j, "write")
    /\ UNCHANGED <<driveVars, feed, rows, lock, deletes, delete, spent>>

(* Mutants of PersistFailure: the lock is not released, and the exception  *)
(* is swallowed so that the run goes on to finalize.                       *)
PersistFailureKeepsLock(j, name) ==
    /\ rows' = RecordFailure(rows, Key(j), File(j), name)
    /\ Finish(j)
    /\ UNCHANGED lock

PersistFailureSwallowed(j, name) ==
    /\ rows' = RecordFailure(rows, Key(j), File(j), name)
    /\ Goto(j, "finalize")
    /\ UNCHANGED lock

(* The exception paths: the row is marked ERROR and the workflow ends.     *)
PersistFailure(j, name) ==
    /\ rows' = RecordFailure(rows, Key(j), File(j), name)
    /\ Finish(j)
    /\ Release(Key(j))

(* The last pages and the index.  A directory removed under the run makes  *)
(* the next write fail.                                                    *)
ConvertWrite(j) ==
    /\ At(j, "write")
    /\ \/ /\ vault[Key(j)] # NoDir
          /\ vault' = [vault EXCEPT ![Key(j)] = Whole(convert[j].content)]
          /\ Goto(j, "finalize")
          /\ UNCHANGED <<rows, lock>>
       \/ /\ vault[Key(j)] = NoDir
          /\ PersistFailure(j, Name(convert[j].at))
          /\ UNCHANGED vault
    /\ UNCHANGED <<driveVars, feed, paged, deletes, delete, spent>>

(* Drive or Gemini fails for good, or past the last retry, at any step     *)
(* that calls them.  Before the metadata is there the name is the key's.   *)
ConvertFails(j) ==
    /\ Spend("fault")
    /\ \/ /\ At(j, "started")
          /\ lock[Key(j)] = Nobody
          /\ rows' = RecordFailure(rows, Key(j), File(j), Name(Key(j)))
          /\ Finish(j)
          /\ UNCHANGED lock
       \/ /\ convert[j].pc \in {"download", "pages", "write"}
          /\ PersistFailure(j, Name(convert[j].at))
    /\ UNCHANGED <<driveVars, feed, paged, vault, deletes, delete>>

(* Mutant of ConvertFinalize: the md5 is read again at the end. *)
ConvertFinalizeFresh(j) ==
    /\ At(j, "finalize")
    /\ rows' = MarkSuccess(rows, Key(j), drive[File(j)].content)
    /\ Goto(j, "moved")
    /\ Release(Key(j))
    /\ UNCHANGED <<driveVars, feed, paged, vault, deletes, delete, spent>>

(* _persist_finalize, and the end of the lock's block.                     *)
ConvertFinalize(j) ==
    /\ At(j, "finalize")
    /\ rows' = MarkSuccess(rows, Key(j), convert[j].md5)
    /\ Goto(j, "moved")
    /\ Release(Key(j))
    /\ UNCHANGED <<driveVars, feed, paged, vault, deletes, delete, spent>>

(* Mutant of CleanupOld: the old key's lock is not waited for. *)
CleanupOldUnlocked(j) ==
    /\ At(j, "moved")
    /\ \E old \in convert[j].stale :
        /\ old \in RowsOf(rows, File(j)) /\ rows[old].out
        /\ vault' = [vault EXCEPT ![old] = NoDir]
        /\ lock' = [lock EXCEPT ![old] = j]
        /\ convert' = [convert EXCEPT ![j] =
                          [@ EXCEPT !.pc = "oldrows", !.old = old]]
    /\ UNCHANGED <<driveVars, feed, rows, paged, deletes, delete, spent>>

(* _cleanup_moved_record for the next stale key: under its lock, the       *)
(* record must still be this file's and have a directory to remove.        *)
CleanupOld(j) ==
    /\ At(j, "moved")
    /\ \E old \in convert[j].stale :
        /\ lock[old] = Nobody
        /\ IF old \in RowsOf(rows, File(j)) /\ rows[old].out
           THEN /\ vault' = [vault EXCEPT ![old] = NoDir]
                /\ Acquire(old, j)
                /\ convert' = [convert EXCEPT ![j] =
                                  [@ EXCEPT !.pc = "oldrows", !.old = old]]
           ELSE /\ convert' = [convert EXCEPT ![j].stale = @ \ {old}]
                /\ UNCHANGED <<vault, lock>>
    /\ UNCHANGED <<driveVars, feed, rows, paged, deletes, delete, spent>>

(* Mutant of CleanupOldRows: only the directory of the old place goes. *)
CleanupOldDirOnly(j) ==
    /\ At(j, "oldrows")
    /\ convert' = [convert EXCEPT ![j] =
                      [@ EXCEPT !.pc = "moved",
                                !.stale = convert[j].stale \ {convert[j].old}]]
    /\ Release(convert[j].old)
    /\ UNCHANGED <<driveVars, feed, rows, paged, vault, deletes, delete, spent>>

(* Its transaction: the row goes only if it is still this file's.          *)
CleanupOldRows(j) ==
    LET old == convert[j].old IN
    /\ At(j, "oldrows")
    /\ IF old \in RowsOf(rows, File(j))
       THEN /\ rows' = DeleteByLogicalKey(rows, old)
            /\ paged' = paged \ {old}
       ELSE UNCHANGED <<rows, paged>>
    /\ convert' = [convert EXCEPT ![j] =
                      [@ EXCEPT !.pc = "moved",
                                !.stale = convert[j].stale \ {old}]]
    /\ Release(old)
    /\ UNCHANGED <<driveVars, feed, vault, deletes, delete, spent>>

ConvertEnd(j) ==
    /\ At(j, "moved")
    /\ convert[j].stale = {}
    /\ Finish(j)
    /\ UNCHANGED <<driveVars, feed, stores, lock, deletes, delete, spent>>

ConvertStep(j) ==
    \/ ConvertMetadata(j) \/ ConvertCheck(j) \/ ConvertDownload(j)
    \/ ConvertPending(j) \/ ConvertPages(j) \/ ConvertWrite(j)
    \/ ConvertFinalize(j) \/ CleanupOld(j) \/ CleanupOldRows(j) \/ ConvertEnd(j)

-----------------------------------------------------------------------------
(* delete_output.                                                          *)

Deleting(d, pc) == delete[d].pc = pc
Update(d, fields) == delete' = [delete EXCEPT ![d] = fields]
DeleteEnds(d) == Update(d, NewDelete("idle", NoFile))

(* Mutant of DeleteStart: dequeuing from an empty queue. *)
DeleteStartUnguarded(d, f) ==
    /\ Deleting(d, "idle")
    /\ deletes' = [deletes EXCEPT ![f] = @ - 1]
    /\ Update(d, NewDelete("read", f))
    /\ UNCHANGED <<driveVars, feed, stores, lock, convert, spent>>

DeleteStart(d, f) ==
    /\ Deleting(d, "idle")
    /\ deletes[f] > 0
    /\ deletes' = [deletes EXCEPT ![f] = @ - 1]
    /\ Update(d, NewDelete("read", f))
    /\ UNCHANGED <<driveVars, feed, stores, lock, convert, spent>>

(* The first read, outside any lock, decides which lock to take.           *)
DeleteFirstRead(d) ==
    LET f == delete[d].file IN
    /\ Deleting(d, "read")
    /\ \/ /\ RowsOf(rows, f) = {}
          /\ DeleteEnds(d)
       \/ \E k \in Earliest(rows, RowsOf(rows, f)) :
             Update(d, [delete[d] EXCEPT !.pc = "reread", !.key = k])
    /\ UNCHANGED <<driveVars, feed, stores, lock, convert, deletes, spent>>

(* Mutant of DeleteReread: no lock is taken. *)
DeleteRereadUnlocked(d) ==
    /\ Deleting(d, "reread")
    /\ \E k \in Earliest(rows, RowsOf(rows, delete[d].file)) :
          Update(d, [delete[d] EXCEPT
              !.pc = IF rows[k].parent = NoFolder THEN "rmtree" ELSE "lookup",
              !.row = rows[k], !.target = k])
    /\ UNCHANGED <<driveVars, feed, stores, lock, convert, deletes, spent>>

(* The read again under the lock: again by file id, so the row it finds    *)
(* need not be the one whose key is locked.                                *)
DeleteReread(d) ==
    LET f == delete[d].file IN
    /\ Deleting(d, "reread")
    /\ lock[delete[d].key] = Nobody
    /\ \/ /\ RowsOf(rows, f) = {}
          /\ DeleteEnds(d)
          /\ UNCHANGED lock
       \/ \E k \in Earliest(rows, RowsOf(rows, f)) :
             /\ Update(d, [delete[d] EXCEPT
                     !.pc = IF rows[k].parent = NoFolder
                            THEN "rmtree" ELSE "lookup",
                     !.row = rows[k], !.target = k])
             /\ Acquire(delete[d].key, d)
    /\ UNCHANGED <<driveVars, feed, stores, convert, deletes, spent>>

(* find_live_note: some live file with the row's parent and name, if any.  *)
Twins(row) == LiveAt(<<row.parent, row.name>>)

DeleteLookup(d) ==
    LET twins == Twins(delete[d].row) IN
    /\ Deleting(d, "lookup")
    /\ \/ \E twin \in twins \ {delete[d].file} :
             Update(d, [delete[d] EXCEPT !.pc = "repoint", !.twin = twin])
       \/ /\ twins = {} \/ delete[d].file \in twins
          /\ Update(d, [delete[d] EXCEPT !.pc = "rmtree"])
    /\ UNCHANGED <<driveVars, feed, stores, lock, convert, deletes, spent>>

(* A permanent error skips the delete and a transient one ends the         *)
(* workflow in ERROR: either way nothing is deleted and nothing retries.   *)
DeleteLookupFails(d) ==
    /\ Deleting(d, "lookup")
    /\ Spend("fault")
    /\ DeleteEnds(d)
    /\ Release(delete[d].key)
    /\ UNCHANGED <<driveVars, feed, stores, convert, deletes>>

DeleteRepoint(d) ==
    /\ Deleting(d, "repoint")
    /\ rows' = SetCurrentFileId(rows, delete[d].target, delete[d].twin)
    /\ Update(d, [delete[d] EXCEPT !.pc = "enqueue"])
    /\ Release(delete[d].key)
    /\ UNCHANGED <<driveVars, feed, paged, vault, convert, deletes, spent>>

(* After the step, the workflow enqueues the twin's conversion.            *)
DeleteEnqueue(d) ==
    /\ Deleting(d, "enqueue")
    /\ EnqueueConvert(delete[d].twin, delete[d].target)
    /\ DeleteEnds(d)
    /\ UNCHANGED <<driveVars, feed, stores, lock, deletes, spent>>

(* _delete_from_vault: a row with no output path is refused and stays.     *)
DeleteRmtree(d) ==
    /\ Deleting(d, "rmtree")
    /\ \/ /\ delete[d].row.out
          /\ vault' = [vault EXCEPT ![delete[d].target] = NoDir]
          /\ Update(d, [delete[d] EXCEPT !.pc = "rows"])
          /\ UNCHANGED lock
       \/ /\ ~ delete[d].row.out
          /\ DeleteEnds(d)
          /\ Release(delete[d].key)
          /\ UNCHANGED vault
    /\ UNCHANGED <<driveVars, feed, rows, paged, convert, deletes, spent>>

DeleteRows(d) ==
    /\ Deleting(d, "rows")
    /\ rows' = DeleteByLogicalKey(rows, delete[d].target)
    /\ paged' = paged \ {delete[d].target}
    /\ DeleteEnds(d)
    /\ Release(delete[d].key)
    /\ UNCHANGED <<driveVars, feed, vault, convert, deletes, spent>>

DeleteStep(d) ==
    \/ DeleteFirstRead(d) \/ DeleteReread(d) \/ DeleteLookup(d)
    \/ DeleteRepoint(d) \/ DeleteEnqueue(d) \/ DeleteRmtree(d) \/ DeleteRows(d)

-----------------------------------------------------------------------------
(* The process dies.  Locks go with it; the tables, the vault and DBOS's   *)
(* own rows stay.  DBOS runs every unfinished workflow again: a conversion *)
(* from its beginning, and a delete from its beginning too unless its step *)
(* had been recorded and only the enqueue was left.                        *)

AfterCrash(d) ==
    CASE Deleting(d, "idle") -> {delete[d]}
      [] Deleting(d, "enqueue") ->
            {delete[d], NewDelete("read", delete[d].file)}
      [] OTHER -> {NewDelete("read", delete[d].file)}

Crash ==
    /\ Spend("crash")
    /\ convert' = [j \in Jobs |->
                      IF At(j, "idle") THEN convert[j] ELSE NewJob("queued")]
    /\ delete' \in {w \in [Deleters -> UNION {AfterCrash(d) : d \in Deleters}] :
                       \A d \in Deleters : w[d] \in AfterCrash(d)}
    /\ lock' = [k \in Keys |-> Nobody]
    /\ UNCHANGED <<driveVars, feed, stores, deletes>>

(* Mutant of Upgrade: the old version's conversions are not cancelled, so  *)
(* they never run and keep their deduplication ids.                        *)
UpgradeWithoutCancel ==
    /\ Spend("upgrade")
    /\ convert' = [j \in Jobs |->
                      IF At(j, "idle") THEN convert[j] ELSE NewJob("cancelled")]
    /\ deletes' = [f \in Files |-> 0]
    /\ delete' = [d \in Deleters |-> NewDelete("idle", NoFile)]
    /\ lock' = [k \in Keys |-> Nobody]
    /\ UNCHANGED <<driveVars, feed, stores>>

(* A restart under another application version cancels every workflow that *)
(* is enqueued or unfinished.                                              *)
Upgrade ==
    /\ Spend("upgrade")
    /\ convert' = [j \in Jobs |-> NewJob("idle")]
    /\ deletes' = [f \in Files |-> 0]
    /\ delete' = [d \in Deleters |-> NewDelete("idle", NoFile)]
    /\ lock' = [k \in Keys |-> Nobody]
    /\ UNCHANGED <<driveVars, feed, stores>>

-----------------------------------------------------------------------------
DriveStep ==
    \/ \E f \in Files, p \in Places : Create(f, p) \/ Move(f, p)
    \/ \E f, g \in Files, p \in Places : Copy(f, p, g)
    \/ \E f \in Files : Edit(f) \/ Trash(f) \/ Restore(f) \/ Remove(f)

WorkerStep ==
    \/ \E f \in Files : Dispatch(f) \/ Sweep(f)
    \/ \E j \in Jobs : ConvertStart(j) \/ ConvertStep(j)
    \/ \E d \in Deleters : DeleteStep(d)
    \/ \E d \in Deleters, f \in Files : DeleteStart(d, f)

Failure ==
    \/ \E f \in Files : DispatchFails(f)
    \/ \E j \in Jobs : ConvertFails(j)
    \/ \E d \in Deleters : DeleteLookupFails(d)
    \/ CursorExpires \/ Crash \/ Upgrade

Next == DriveStep \/ WorkerStep \/ Failure

Spec == Init /\ [][Next]_vars

(* DBOS dequeues and runs what is enqueued, the poller and the sweep come  *)
(* round again, and a lock is polled until it is taken.                    *)
Fairness ==
    /\ \A f \in Files : WF_vars(Dispatch(f)) /\ WF_vars(Sweep(f))
    /\ \A j \in Jobs : WF_vars(ConvertStart(j) \/ ConvertStep(j))
    /\ \A d \in Deleters :
          WF_vars(DeleteStep(d) \/ \E f \in Files : DeleteStart(d, f))

FairSpec == Spec /\ Fairness

-----------------------------------------------------------------------------
(* Safety.                                                                 *)

(* The locks a worker is inside of.                                        *)
Inside(w, k) ==
    \/ /\ w \in Jobs
       /\ \/ k = Key(w) /\ convert[w].pc \in OwnSection
          \/ k = convert[w].old /\ convert[w].pc = "oldrows"
    \/ /\ w \in Deleters
       /\ k = delete[w].key /\ delete[w].pc \in DeleteSection

(* The block a lock protects is entered by one worker at a time, also      *)
(* across conversions that clean up other keys, exceptions and restarts.   *)
LockOwnership ==
    \A k \in Keys, w \in Workers : Inside(w, k) <=> lock[k] = w

(* A record that says SUCCESS never stands beside a half-written directory *)
(* nor beside one older than its md5, whichever job died or failed.        *)
SuccessIsWhole ==
    \A k \in Keys : rows[k].status = "SUCCESS" =>
        /\ vault[k].state # "torn"
        /\ vault[k].state = "whole" => vault[k].content >= rows[k].md5

(* A live note that conversions and backfills skip as up to date has been  *)
(* rendered: its directory, if it has one, shows the content in Drive, as  *)
(* long as no content was uploaded twice.  The md5 is read before the      *)
(* bytes, which may be newer; a copy of the content that the md5 names     *)
(* could take over such a row and be skipped for ever.                     *)
UpToDateIsRendered ==
    spent["copy"] = 0 =>
        \A f \in Files, k \in Keys :
            /\ Live(f) /\ UpToDate(rows, k, f, drive[f].content)
            /\ vault[k].state # "none"
            => vault[k] = Whole(drive[f].content)

(* A key's directory is removed by nobody else while a conversion of that  *)
(* key is between its PENDING row and the end of its run.                  *)
InFlight(k) ==
    \E j \in Jobs : Key(j) = k /\ convert[j].pc \in {"write", "finalize"}
InFlightKeepsDir == \A k \in Keys : InFlight(k) => vault[k] # NoDir

(* A directory without a record belongs to a conversion still under way.   *)
NoOrphanDir ==
    \A k \in Keys : vault[k] # NoDir /\ ~ HasRow(rows, k) =>
        \E j \in Jobs : Key(j) = k /\ convert[j].pc # "idle"

-----------------------------------------------------------------------------
(* What the worker promises of each key.                                   *)

(* The records and the vault, all that outlives the process of a key's     *)
(* conversions and deletes, behave as VaultMirror says.                    *)
Status == [k \in Keys |-> rows[k].status]
Claimed == [k \in Keys |-> IF HasRow(rows, k) THEN rows[k].md5 ELSE NoMd5]

Mirror == INSTANCE VaultMirror
              WITH status <- Status, md5 <- Claimed, output <- vault

MirrorsVault == Mirror!Spec

-----------------------------------------------------------------------------
(* Liveness.                                                               *)

(* When Drive comes to rest with one live note at a key, its rendering is  *)
(* what the vault ends up with, under a SUCCESS record of that file.       *)
Rendered(f, k) ==
    /\ UpToDate(rows, k, f, drive[f].content)
    /\ vault[k] = Whole(drive[f].content)

LiveNoteConverges ==
    \A f \in Files, k \in Keys :
        <>[](LiveAt(k) = {f}) => <>[]Rendered(f, k)

(* When Drive comes to rest with no live note at a key, neither record nor *)
(* directory remains there.                                                *)
RemovedNoteDisappears ==
    \A k \in Keys :
        <>[](LiveAt(k) = {}) => <>[](~ HasRow(rows, k) /\ vault[k] = NoDir)

(* When Drive comes to rest with a note at one key, it has left no record  *)
(* at another.                                                             *)
OldPlaceIsCleared ==
    \A f \in Files, k \in Keys :
        <>[](Live(f) /\ drive[f].at \in Keys \ {k})
            => <>[](k \notin RowsOf(rows, f))

(* A note whose conversions had ended before it left Drive does disappear, *)
(* unless another one comes to its place.                                  *)
LeftSettled(f, k) ==
    /\ f \notin LiveAt(k) /\ f \in feed
    /\ RowsOf(rows, f) = {k} /\ rows[k].status = "SUCCESS"
    /\ \A j \in Jobs : File(j) = f \/ Key(j) = k => At(j, "idle")

SettledNoteDisappears ==
    \A f \in Files, k \in Keys :
        LeftSettled(f, k) ~>
            \/ rows[k].file # f /\ vault[k] = NoDir
            \/ LiveAt(k) # {}

(* The rendering of the one live note at a key stays as it is while the    *)
(* note does.                                                              *)
RenderedStays ==
    [][\A f \in Files, k \in Keys :
          /\ LiveAt(k) = {f} /\ Rendered(f, k)
          /\ drive'[f] = drive[f]
          => vault'[k] = vault[k]]_vars
=============================================================================

--------------------------- MODULE NoteSyncProofs ---------------------------
(***************************************************************************)
(* What holds of NoteSync for any number of files, places, keys and        *)
(* workers, and any budgets: its types, the ownership of the file locks,   *)
(* and that a SUCCESS record never stands beside a torn directory.         *)
(***************************************************************************)
EXTENDS NoteSync, ConversionTableProofs

(* The records the workers keep are well formed when they begin.           *)
LEMMA AnyKeyType == AnyKey \in Keys /\ AnyKey \in Places
BY KeysAssumption DEF AnyKey

(* A job that begins is well formed, at whichever step it begins. *)
LEMMA NewJobType ==
    ASSUME NEW pc \in ConvertSteps
    PROVE  NewJob(pc) \in JobStates
BY AnyKeyType DEF NewJob, JobStates, Md5s

(* A delete that begins is well formed. *)
LEMMA NewDeleteType ==
    ASSUME NEW pc \in DeleteSteps, NEW f \in Files \cup {NoFile}
    PROVE  NewDelete(pc, f) \in DeleteStates
BY AnyKeyType, NoRowType DEF NewDelete, DeleteStates

(* The records of an idle, queued or starting worker are well formed.      *)
LEMMA InitialSteps ==
    /\ NewJob("idle") \in JobStates /\ NewJob("queued") \in JobStates
    /\ NewDelete("idle", NoFile) \in DeleteStates
    /\ \A f \in Files \cup {NoFile} : NewDelete("read", f) \in DeleteStates
<1>1. "idle" \in ConvertSteps /\ "queued" \in ConvertSteps
  BY DEF ConvertSteps
<1>2. "idle" \in DeleteSteps /\ "read" \in DeleteSteps
  BY DEF DeleteSteps
<1> QED
  BY <1>1, <1>2, NewJobType, NewDeleteType

(* The three values a directory takes are directories. *)
LEMMA DirsType ==
    NoDir \in Dirs /\ Torn \in Dirs /\ \A v \in Nat : Whole(v) \in Dirs
BY DEF NoDir, Torn, Whole, Dirs

(* The initial state is well typed. *)
LEMMA TypeInit == Init => TypeOK
<1> SUFFICES ASSUME Init PROVE TypeOK
  OBVIOUS
<1>1. [state |-> "absent", at |-> AnyKey, content |-> 0] \in DriveFiles
  BY AnyKeyType DEF DriveFiles, DriveStates
<1>2. NoRow \in Rows
  BY NoRowType
<1> QED
  BY <1>1, <1>2, InitialSteps, DirsType DEF Init, TypeOK, Tables

(* A budget is spent one by one, and a change in Drive touches no job.     *)
LEMMA SpendType ==
    ASSUME TypeOK, NEW kind \in Kinds, Spend(kind)
    PROVE  spent' \in [Kinds -> Nat]
BY DEF TypeOK, Spend

(* A change in Drive feeds the poller and touches no job. *)
LEMMA ChangeType ==
    ASSUME TypeOK, NEW f \in Files, NEW kind \in Kinds, Change(f, kind)
    PROVE  spent' \in [Kinds -> Nat] /\ feed' \subseteq Files
BY SpendType DEF TypeOK, Change

(* Enqueueing a conversion leaves well-typed jobs. *)
LEMMA EnqueueType ==
    ASSUME TypeOK, NEW f, NEW k, EnqueueConvert(f, k)
    PROVE  convert' \in [Jobs -> JobStates]
BY InitialSteps DEF TypeOK, EnqueueConvert

(* Every step keeps the types. *)
LEMMA TypeStep == TypeOK /\ [Next]_vars => TypeOK'
<1> SUFFICES ASSUME TypeOK, [Next]_vars PROVE TypeOK'
  OBVIOUS
<1> USE DEF driveVars, stores, queues
<1>1. CASE \E f \in Files, p \in Places : Create(f, p)
  <2> PICK f \in Files, p \in Places : Create(f, p)
    BY <1>1
  <2>1. [state |-> "live", at |-> p, content |-> top + 1] \in DriveFiles
    BY DEF TypeOK, DriveFiles, DriveStates
  <2> QED
    BY <2>1, ChangeType DEF TypeOK, Create, Upload, Change, Kinds
<1>2. CASE \E f \in Files, p \in Places : Move(f, p)
  <2> PICK f \in Files, p \in Places : Move(f, p)
    BY <1>2
  <2>1. [drive[f] EXCEPT !.at = p] \in DriveFiles
    BY DEF TypeOK, DriveFiles
  <2> QED
    BY <2>1, ChangeType DEF TypeOK, Move, Change, Kinds
<1>3. CASE \E f, g \in Files, p \in Places : Copy(f, p, g)
  <2> PICK f \in Files, g \in Files, p \in Places : Copy(f, p, g)
    BY <1>3
  <2>1. [state |-> "live", at |-> p, content |-> drive[g].content] \in DriveFiles
    BY DEF TypeOK, DriveFiles, DriveStates
  <2> QED
    BY <2>1, ChangeType DEF TypeOK, Copy, Upload, Change, Kinds
<1>4. CASE \E f \in Files : Edit(f)
  <2> PICK f \in Files : Edit(f)
    BY <1>4
  <2>1. [drive[f] EXCEPT !.content = top + 1] \in DriveFiles
    BY DEF TypeOK, DriveFiles
  <2> QED
    BY <2>1, ChangeType DEF TypeOK, Edit, Change, Kinds
<1>5. CASE \E f \in Files : Trash(f) \/ Restore(f) \/ Remove(f)
  <2> PICK f \in Files : Trash(f) \/ Restore(f) \/ Remove(f)
    BY <1>5
  <2>1. \A s \in DriveStates : [drive[f] EXCEPT !.state = s] \in DriveFiles
    BY DEF TypeOK, DriveFiles
  <2>2. drive' \in [Files -> DriveFiles]
    BY <2>1 DEF TypeOK, Trash, Restore, Remove, DriveStates
  <2> QED
    BY <2>2, ChangeType DEF TypeOK, Trash, Restore, Remove, Change, Kinds
<1>6. CASE \E f \in Files : Dispatch(f)
  BY <1>6, EnqueueType DEF TypeOK, Dispatch
<1>7. CASE \E f \in Files : Sweep(f)
  BY <1>7, EnqueueType DEF TypeOK, Sweep
<1>8. CASE \E f \in Files : DispatchFails(f)
  BY <1>8, SpendType DEF TypeOK, DispatchFails, Kinds
<1>9. CASE CursorExpires
  BY <1>9, SpendType DEF TypeOK, CursorExpires, Kinds
<1>10. CASE \E j \in Jobs : ConvertStart(j)
  <2> PICK j \in Jobs : ConvertStart(j)
    BY <1>10
  <2>1. [convert[j] EXCEPT !.pc = "started"] \in JobStates
    BY DEF TypeOK, JobStates, ConvertSteps
  <2> QED
    BY <2>1 DEF TypeOK, ConvertStart, Goto
<1>11. CASE \E j \in Jobs : ConvertStep(j)
  <2> SUFFICES ASSUME NEW j \in Jobs, ConvertStep(j) PROVE TypeOK'
    BY <1>11
  <2> DEFINE job == convert[j]
  <2>j. job \in JobStates /\ File(j) \in Files /\ Key(j) \in Keys
    BY DEF TypeOK, Jobs, File, Key
  <2>1. CASE ConvertMetadata(j)
    <3>1. [job EXCEPT !.pc = "check", !.md5 = drive[File(j)].content,
                      !.at = drive[File(j)].at] \in JobStates
      BY <2>j DEF TypeOK, JobStates, ConvertSteps, Md5s, DriveFiles
    <3>2. convert' \in [Jobs -> JobStates]
      BY <2>1, <3>1, InitialSteps DEF TypeOK, ConvertMetadata, Finish
    <3>3. lock' \in [Keys -> Workers \cup {Nobody}]
      BY <2>1 DEF TypeOK, ConvertMetadata, Acquire, Workers
    <3> QED
      BY <2>1, <3>2, <3>3 DEF TypeOK, ConvertMetadata
  <2>2. CASE ConvertCheck(j)
    <3> DEFINE stale == RowsOf(rows, File(j)) \ {Key(j)}
    <3>1. [job EXCEPT !.pc = "download", !.stale = stale] \in JobStates
      BY <2>j DEF JobStates, ConvertSteps, RowsOf
    <3>2. convert' \in [Jobs -> JobStates]
      BY <2>2, <3>1, InitialSteps DEF TypeOK, ConvertCheck, Finish
    <3>3. vault' \in [Keys -> Dirs]
      BY <2>2, DirsType DEF TypeOK, ConvertCheck, Seeded
    <3>4. lock' \in [Keys -> Workers \cup {Nobody}]
      BY <2>2 DEF TypeOK, ConvertCheck, Release
    <3> QED
      BY <2>2, <3>2, <3>3, <3>4 DEF TypeOK, ConvertCheck
  <2>3. CASE ConvertDownload(j)
    <3>1. [job EXCEPT !.pc = "pending", !.content = drive[File(j)].content] \in JobStates
      BY <2>j DEF TypeOK, JobStates, ConvertSteps, DriveFiles
    <3>2. convert' \in [Jobs -> JobStates]
      BY <2>3, <3>1, InitialSteps DEF TypeOK, ConvertDownload, Finish
    <3> QED
      BY <2>3, <3>2 DEF TypeOK, ConvertDownload, Release
  <2>4. CASE ConvertPending(j)
    <3>1. rows' \in Tables
      BY <2>4, <2>j, UpsertPendingType DEF TypeOK, ConvertPending, JobStates
    <3>2. convert' \in [Jobs -> JobStates]
      BY <2>4, <2>j DEF TypeOK, ConvertPending, Goto, JobStates, ConvertSteps
    <3> QED
      BY <2>4, <3>1, <3>2 DEF TypeOK, ConvertPending
  <2>5. CASE ConvertPages(j)
    <3>1. convert' \in [Jobs -> JobStates]
      BY <2>5, <2>j DEF TypeOK, ConvertPages, Goto, JobStates, ConvertSteps
    <3> QED
      BY <2>5, <2>j, <3>1, DirsType DEF TypeOK, ConvertPages
  <2>6. CASE ConvertWrite(j)
    <3>1. Name(job.at) \in Names /\ job.content \in Nat
      BY <2>j, PlaceParts DEF JobStates
    <3>2. rows' \in Tables
      BY <2>6, <2>j, <3>1, RecordFailureType DEF TypeOK, ConvertWrite, PersistFailure
    <3>3. convert' \in [Jobs -> JobStates]
      BY <2>6, <2>j, InitialSteps
      DEF TypeOK, ConvertWrite, PersistFailure, Finish, Goto, JobStates, ConvertSteps
    <3>4. vault' \in [Keys -> Dirs] /\ lock' \in [Keys -> Workers \cup {Nobody}]
      BY <2>6, <3>1, DirsType DEF TypeOK, ConvertWrite, PersistFailure, Release
    <3> QED
      BY <2>6, <3>2, <3>3, <3>4 DEF TypeOK, ConvertWrite
  <2>7. CASE ConvertFinalize(j)
    <3>1. rows' \in Tables
      BY <2>7, <2>j, MarkSuccessType DEF TypeOK, ConvertFinalize, JobStates
    <3>2. convert' \in [Jobs -> JobStates]
      BY <2>7, <2>j DEF TypeOK, ConvertFinalize, Goto, JobStates, ConvertSteps
    <3> QED
      BY <2>7, <3>1, <3>2 DEF TypeOK, ConvertFinalize, Release
  <2>8. CASE CleanupOld(j)
    <3> PICK old \in job.stale :
          IF old \in RowsOf(rows, File(j)) /\ rows[old].out
          THEN /\ vault' = [vault EXCEPT ![old] = NoDir]
               /\ Acquire(old, j)
               /\ convert' = [convert EXCEPT ![j] =
                                 [@ EXCEPT !.pc = "oldrows", !.old = old]]
          ELSE /\ convert' = [convert EXCEPT ![j].stale = @ \ {old}]
               /\ UNCHANGED <<vault, lock>>
      BY <2>8 DEF CleanupOld
    <3>1. old \in Keys
      BY <2>j DEF JobStates
    <3>2. /\ [job EXCEPT !.pc = "oldrows", !.old = old] \in JobStates
          /\ [job EXCEPT !.stale = @ \ {old}] \in JobStates
      BY <2>j, <3>1 DEF JobStates, ConvertSteps
    <3>3. convert' \in [Jobs -> JobStates]
      BY <3>2 DEF TypeOK
    <3>4. vault' \in [Keys -> Dirs] /\ lock' \in [Keys -> Workers \cup {Nobody}]
      BY DirsType DEF TypeOK, Acquire, Workers
    <3> QED
      BY <2>8, <3>3, <3>4 DEF TypeOK, CleanupOld
  <2>9. CASE CleanupOldRows(j)
    <3>1. job.old \in Keys
      BY <2>j DEF JobStates
    <3>2. rows' \in Tables /\ paged' \subseteq Keys
      BY <2>9, <3>1, DeleteByLogicalKeyType DEF TypeOK, CleanupOldRows
    <3>3. [job EXCEPT !.pc = "moved", !.stale = @ \ {job.old}] \in JobStates
      BY <2>j DEF JobStates, ConvertSteps
    <3>4. convert' \in [Jobs -> JobStates]
      BY <2>9, <3>3 DEF TypeOK, CleanupOldRows
    <3> QED
      BY <2>9, <3>2, <3>4 DEF TypeOK, CleanupOldRows, Release
  <2>10. CASE ConvertEnd(j)
    <3>1. convert' \in [Jobs -> JobStates]
      BY <2>10, InitialSteps DEF TypeOK, ConvertEnd, Finish
    <3> QED
      BY <2>10, <3>1 DEF TypeOK, ConvertEnd
  <2> QED
    BY <2>1, <2>2, <2>3, <2>4, <2>5, <2>6, <2>7, <2>8, <2>9, <2>10 DEF ConvertStep
<1>12. CASE \E j \in Jobs : ConvertFails(j)
  <2> PICK j \in Jobs : ConvertFails(j)
    BY <1>12
  <2>1. File(j) \in Files /\ Key(j) \in Keys /\ convert[j].at \in Places
    BY DEF TypeOK, Jobs, File, Key, JobStates
  <2>2. Name(convert[j].at) \in Names /\ Name(Key(j)) \in Names
    BY <2>1, PlaceParts, KeysAssumption
  <2>3. rows' \in Tables
    BY <2>1, <2>2, RecordFailureType DEF TypeOK, ConvertFails, PersistFailure
  <2>4. convert' \in [Jobs -> JobStates]
    BY InitialSteps DEF TypeOK, ConvertFails, PersistFailure, Finish
  <2>5. lock' \in [Keys -> Workers \cup {Nobody}]
    BY DEF TypeOK, ConvertFails, PersistFailure, Release
  <2>6. spent' \in [Kinds -> Nat]
    BY SpendType DEF ConvertFails, Kinds
  <2> QED
    BY <2>3, <2>4, <2>5, <2>6 DEF TypeOK, ConvertFails
<1>13. CASE \E d \in Deleters, f \in Files : DeleteStart(d, f)
  <2> PICK d \in Deleters, f \in Files : DeleteStart(d, f)
    BY <1>13
  <2>1. deletes' \in [Files -> Nat]
    BY DEF TypeOK, DeleteStart
  <2>2. delete' \in [Deleters -> DeleteStates]
    BY InitialSteps DEF TypeOK, DeleteStart, Update
  <2> QED
    BY <2>1, <2>2 DEF TypeOK, DeleteStart
<1>14. CASE \E d \in Deleters : DeleteStep(d)
  <2> SUFFICES ASSUME NEW d \in Deleters, DeleteStep(d) PROVE TypeOK'
    BY <1>14
  <2> DEFINE w == delete[d]
  <2>d. w \in DeleteStates
    BY DEF TypeOK
  <2>w. ASSUME NEW v \in DeleteStates, Update(d, v)
        PROVE  delete' \in [Deleters -> DeleteStates]
    BY <2>w DEF TypeOK, Update
  <2>1. CASE DeleteFirstRead(d)
    <3>1. \A k \in Keys : [w EXCEPT !.pc = "reread", !.key = k] \in DeleteStates
      BY <2>d DEF DeleteStates, DeleteSteps
    <3>2. delete' \in [Deleters -> DeleteStates]
      BY <2>1, <2>w, <3>1, InitialSteps
      DEF DeleteFirstRead, DeleteEnds, Earliest, RowsOf
    <3> QED
      BY <2>1, <3>2 DEF TypeOK, DeleteFirstRead
  <2>2. CASE DeleteReread(d)
    <3>1. \A k \in Keys, pc \in DeleteSteps :
             [w EXCEPT !.pc = pc, !.row = rows[k], !.target = k] \in DeleteStates
      BY <2>d DEF TypeOK, Tables, DeleteStates
    <3>2. "rmtree" \in DeleteSteps /\ "lookup" \in DeleteSteps
      BY DEF DeleteSteps
    <3>3. delete' \in [Deleters -> DeleteStates]
      BY <2>2, <2>w, <3>1, <3>2, InitialSteps
      DEF DeleteReread, DeleteEnds, Earliest, RowsOf
    <3>4. lock' \in [Keys -> Workers \cup {Nobody}]
      BY <2>2 DEF TypeOK, DeleteReread, Acquire, Workers
    <3> QED
      BY <2>2, <3>3, <3>4 DEF TypeOK, DeleteReread
  <2>3. CASE DeleteLookup(d)
    <3>1. /\ \A twin \in Files :
                [w EXCEPT !.pc = "repoint", !.twin = twin] \in DeleteStates
          /\ [w EXCEPT !.pc = "rmtree"] \in DeleteStates
      BY <2>d DEF DeleteStates, DeleteSteps
    <3>2. delete' \in [Deleters -> DeleteStates]
      BY <2>3, <2>w, <3>1 DEF DeleteLookup, Twins, LiveAt
    <3> QED
      BY <2>3, <3>2 DEF TypeOK, DeleteLookup
  <2>4. CASE DeleteRepoint(d)
    <3>1. w.target \in Keys /\ w.twin \in Files \cup {NoFile}
          /\ [w EXCEPT !.pc = "enqueue"] \in DeleteStates
      BY <2>d DEF DeleteStates, DeleteSteps
    <3>2. rows' \in Tables
      BY <2>4, <3>1, SetCurrentFileIdType DEF TypeOK, DeleteRepoint
    <3>3. delete' \in [Deleters -> DeleteStates]
      BY <2>4, <2>w, <3>1 DEF DeleteRepoint
    <3> QED
      BY <2>4, <3>2, <3>3 DEF TypeOK, DeleteRepoint, Release
  <2>5. CASE DeleteEnqueue(d)
    <3>1. delete' \in [Deleters -> DeleteStates]
      BY <2>5, <2>w, InitialSteps DEF DeleteEnqueue, DeleteEnds
    <3> QED
      BY <2>5, <3>1, EnqueueType DEF TypeOK, DeleteEnqueue
  <2>6. CASE DeleteRmtree(d)
    <3>1. [w EXCEPT !.pc = "rows"] \in DeleteStates
      BY <2>d DEF DeleteStates, DeleteSteps
    <3>2. delete' \in [Deleters -> DeleteStates]
      BY <2>6, <2>w, <3>1, InitialSteps DEF DeleteRmtree, DeleteEnds
    <3>3. vault' \in [Keys -> Dirs]
      BY <2>6, DirsType DEF TypeOK, DeleteRmtree
    <3> QED
      BY <2>6, <3>2, <3>3 DEF TypeOK, DeleteRmtree, Release
  <2>7. CASE DeleteRows(d)
    <3>1. w.target \in Keys
      BY <2>d DEF DeleteStates
    <3>2. rows' \in Tables /\ paged' \subseteq Keys
      BY <2>7, <3>1, DeleteByLogicalKeyType DEF TypeOK, DeleteRows
    <3>3. delete' \in [Deleters -> DeleteStates]
      BY <2>7, <2>w, InitialSteps DEF DeleteRows, DeleteEnds
    <3> QED
      BY <2>7, <3>2, <3>3 DEF TypeOK, DeleteRows, Release
  <2> QED
    BY <2>1, <2>2, <2>3, <2>4, <2>5, <2>6, <2>7 DEF DeleteStep
<1>15. CASE \E d \in Deleters : DeleteLookupFails(d)
  <2> PICK d \in Deleters : DeleteLookupFails(d)
    BY <1>15
  <2>1. delete' \in [Deleters -> DeleteStates]
    BY InitialSteps DEF TypeOK, DeleteLookupFails, DeleteEnds, Update
  <2>2. spent' \in [Kinds -> Nat]
    BY SpendType DEF DeleteLookupFails, Kinds
  <2> QED
    BY <2>1, <2>2 DEF TypeOK, DeleteLookupFails, Release
<1>16. CASE Crash
  <2>1. \A d \in Deleters : AfterCrash(d) \subseteq DeleteStates
    BY InitialSteps DEF TypeOK, AfterCrash, Deleting, DeleteStates
  <2>2. delete' \in [Deleters -> DeleteStates]
    BY <1>16, <2>1 DEF Crash
  <2>3. convert' \in [Jobs -> JobStates]
    BY <1>16, InitialSteps DEF TypeOK, Crash
  <2>4. lock' \in [Keys -> Workers \cup {Nobody}]
    BY <1>16 DEF Crash
  <2>5. spent' \in [Kinds -> Nat]
    BY <1>16, SpendType DEF Crash, Kinds
  <2> QED
    BY <1>16, <2>2, <2>3, <2>4, <2>5 DEF TypeOK, Crash
<1>17. CASE Upgrade
  <2>1. spent' \in [Kinds -> Nat]
    BY <1>17, SpendType DEF Upgrade, Kinds
  <2> QED
    BY <1>17, <2>1, InitialSteps DEF TypeOK, Upgrade
<1>18. CASE UNCHANGED vars
  BY <1>18 DEF TypeOK, vars
<1> QED
  BY <1>1, <1>2, <1>3, <1>4, <1>5, <1>6, <1>7, <1>8, <1>9, <1>10, <1>11, <1>12,
     <1>13, <1>14, <1>15, <1>16, <1>17, <1>18
  DEF Next, DriveStep, WorkerStep, Failure

(* Every behaviour is well typed. *)
THEOREM TypeCorrect == Spec => []TypeOK
BY TypeInit, TypeStep, PTL DEF Spec

-----------------------------------------------------------------------------
(* The locks.                                                              *)

(* At the start every lock is free and every worker outside. *)
LEMMA LockInit == Init => LockOwnership
<1> SUFFICES ASSUME Init, NEW k \in Keys, NEW w \in Workers
             PROVE  Inside(w, k) <=> lock[k] = w
  BY DEF LockOwnership
<1>1. lock[k] # w
  BY NobodyAssumption DEF Init
<1>2. ASSUME w \in Jobs PROVE convert[w].pc = "idle"
  BY <1>2 DEF Init, NewJob
<1>3. ASSUME w \in Deleters PROVE delete[w].pc = "idle"
  BY <1>3 DEF Init, NewDelete
<1> QED
  BY <1>1, <1>2, <1>3 DEF Inside, OwnSection, DeleteSection

(* A step that moves no worker in or out of a section. *)
LEMMA SameSections ==
    ASSUME TypeOK, LockOwnership, lock' = lock,
           \A i \in Jobs :
              /\ convert'[i].pc \in OwnSection <=> convert[i].pc \in OwnSection
              /\ convert'[i].pc = "oldrows" <=> convert[i].pc = "oldrows"
              /\ convert[i].pc = "oldrows" => convert'[i].old = convert[i].old,
           \A d \in Deleters :
              /\ delete'[d].pc \in DeleteSection <=> delete[d].pc \in DeleteSection
              /\ delete[d].pc \in DeleteSection => delete'[d].key = delete[d].key
    PROVE  LockOwnership'
<1>1. \A k \in Keys, w \in Workers : Inside(w, k)' <=> Inside(w, k)
  BY DEF Inside
<1> QED
  BY <1>1 DEF LockOwnership

(* A step of one conversion, and one of one delete. *)
LEMMA JobMoves ==
    ASSUME TypeOK, LockOwnership, NEW j \in Jobs, delete' = delete,
           \A i \in Jobs \ {j} : convert'[i] = convert[i],
           \A k \in Keys, w \in Workers \ {j} : lock'[k] = w <=> lock[k] = w,
           \A k \in Keys :
              (\/ k = Key(j) /\ convert'[j].pc \in OwnSection
               \/ k = convert'[j].old /\ convert'[j].pc = "oldrows") <=> lock'[k] = j
    PROVE  LockOwnership'
<1>1. \A k \in Keys, w \in Workers \ {j} : Inside(w, k)' <=> Inside(w, k)
  BY DEF Inside
<1>2. \A k \in Keys : Inside(j, k)' <=> lock'[k] = j
  BY WorkersAssumption DEF Inside
<1> QED
  BY <1>1, <1>2 DEF LockOwnership

(* A step of one delete worker, all others keeping what they hold. *)
LEMMA DeleteMoves ==
    ASSUME TypeOK, LockOwnership, NEW d \in Deleters, convert' = convert,
           \A e \in Deleters \ {d} : delete'[e] = delete[e],
           \A k \in Keys, w \in Workers \ {d} : lock'[k] = w <=> lock[k] = w,
           \A k \in Keys :
              k = delete'[d].key /\ delete'[d].pc \in DeleteSection <=> lock'[k] = d
    PROVE  LockOwnership'
<1>1. \A k \in Keys, w \in Workers \ {d} : Inside(w, k)' <=> Inside(w, k)
  BY DEF Inside
<1>2. \A k \in Keys : Inside(d, k)' <=> lock'[k] = d
  BY WorkersAssumption DEF Inside
<1> QED
  BY <1>1, <1>2 DEF LockOwnership, Workers

(* Which locks a worker holds after taking one and after releasing one.    *)
LEMMA AfterAcquire ==
    ASSUME TypeOK, NEW k \in Keys, NEW w \in Workers, Acquire(k, w)
    PROVE  /\ \A o \in Keys, x \in Workers \ {w} : lock'[o] = x <=> lock[o] = x
           /\ \A o \in Keys : lock'[o] = w <=> o = k \/ lock[o] = w
BY NobodyAssumption DEF TypeOK, Acquire

(* Releasing a lock frees it for everybody and leaves the others alone.    *)
LEMMA AfterRelease ==
    ASSUME TypeOK, NEW k \in Keys, NEW w \in Workers, lock[k] = w, Release(k)
    PROVE  /\ \A o \in Keys, x \in Workers \ {w} : lock'[o] = x <=> lock[o] = x
           /\ \A o \in Keys : lock'[o] = w <=> o # k /\ lock[o] = w
BY NobodyAssumption DEF TypeOK, Release

(* The locks a worker holds in a state, by its program counter. *)
LEMMA JobHolds ==
    ASSUME LockOwnership, NEW j \in Jobs, NEW k \in Keys
    PROVE  lock[k] = j <=> \/ k = Key(j) /\ convert[j].pc \in OwnSection
                           \/ k = convert[j].old /\ convert[j].pc = "oldrows"
BY WorkersAssumption DEF LockOwnership, Inside, Workers

(* A delete worker holds its key's lock exactly inside its section. *)
LEMMA DeleteHolds ==
    ASSUME LockOwnership, NEW d \in Deleters, NEW k \in Keys
    PROVE  lock[k] = d <=> k = delete[d].key /\ delete[d].pc \in DeleteSection
BY WorkersAssumption DEF LockOwnership, Inside, Workers

(* An enqueue wakes an idle job, which holds nothing before or after.      *)
LEMMA EnqueueKeepsSections ==
    ASSUME TypeOK, NEW f, NEW k, EnqueueConvert(f, k), NEW i \in Jobs
    PROVE  /\ convert'[i].pc \in OwnSection <=> convert[i].pc \in OwnSection
           /\ convert'[i].pc = "oldrows" <=> convert[i].pc = "oldrows"
           /\ convert[i].pc = "oldrows" => convert'[i].old = convert[i].old
BY DEF TypeOK, EnqueueConvert, NewJob, OwnSection

(* Every step keeps the locks with the workers that are inside. *)
LEMMA LockStep == TypeOK /\ LockOwnership /\ [Next]_vars => LockOwnership'
<1> SUFFICES ASSUME TypeOK, LockOwnership, [Next]_vars PROVE LockOwnership'
  OBVIOUS
<1> USE DEF driveVars, stores, queues
<1>1. CASE DriveStep
  <2>1. UNCHANGED <<lock, convert, delete>>
    BY <1>1 DEF DriveStep, Create, Move, Copy, Edit, Trash, Restore, Remove, Change
  <2> QED
    BY <2>1, SameSections
<1>2. CASE \E f \in Files : Dispatch(f) \/ Sweep(f)
  <2> PICK f \in Files : Dispatch(f) \/ Sweep(f)
    BY <1>2
  <2>1. UNCHANGED <<lock, delete>>
    BY DEF Dispatch, Sweep
  <2>2. convert' = convert \/ EnqueueConvert(f, drive[f].at)
    BY DEF Dispatch, Sweep
  <2> QED
    BY <2>1, <2>2, EnqueueKeepsSections, SameSections
<1>3. CASE \/ \E f \in Files : DispatchFails(f)
           \/ CursorExpires \/ UNCHANGED vars
  <2>1. UNCHANGED <<lock, convert, delete>>
    BY <1>3 DEF DispatchFails, CursorExpires, vars
  <2> QED
    BY <2>1, SameSections
<1>4. CASE \E j \in Jobs : ConvertStart(j)
  <2> PICK j \in Jobs : ConvertStart(j)
    BY <1>4
  <2>1. /\ convert[j].pc = "queued" /\ convert'[j].pc = "started"
        /\ \A i \in Jobs \ {j} : convert'[i] = convert[i]
    BY DEF TypeOK, ConvertStart, At, Goto, JobStates
  <2>2. UNCHANGED <<lock, delete>>
    BY DEF ConvertStart
  <2> QED
    BY <2>1, <2>2, SameSections DEF OwnSection
<1>5. CASE \E j \in Jobs : ConvertStep(j)
  <2> SUFFICES ASSUME NEW j \in Jobs, ConvertStep(j) PROVE LockOwnership'
    BY <1>5
  <2>j. j \in Workers /\ Key(j) \in Keys /\ convert[j] \in JobStates
    BY DEF TypeOK, Workers, Jobs, Key
  <2>1. CASE ConvertMetadata(j) /\ Live(File(j))
    <3>1. Acquire(Key(j), j) /\ delete' = delete
      BY <2>1 DEF ConvertMetadata
    <3>2. convert'[j].pc = "check" /\ \A i \in Jobs \ {j} : convert'[i] = convert[i]
      BY <2>1, <2>j DEF TypeOK, ConvertMetadata, JobStates
    <3>3. convert[j].pc = "started"
      BY <2>1 DEF ConvertMetadata, At
    <3> QED
      BY <2>j, <3>1, <3>2, <3>3, AfterAcquire, JobHolds, JobMoves DEF OwnSection
  <2>2. CASE (ConvertMetadata(j) /\ ~ Live(File(j))) \/ ConvertEnd(j)
    <3>1. UNCHANGED <<lock, delete>> /\ Finish(j)
      BY <2>2 DEF ConvertMetadata, ConvertEnd
    <3>2. convert[j].pc \in {"started", "moved"}
      BY <2>2 DEF ConvertMetadata, ConvertEnd, At
    <3> QED
      BY <3>1, <3>2, SameSections DEF TypeOK, Finish, NewJob, OwnSection
  <2>3. ASSUME convert[j].pc \in OwnSection, Finish(j), Release(Key(j)), delete' = delete
        PROVE  LockOwnership'
    <3>1. convert'[j].pc = "idle" /\ \A i \in Jobs \ {j} : convert'[i] = convert[i]
      BY <2>3 DEF TypeOK, Finish, NewJob
    <3>2. lock[Key(j)] = j
      BY <2>3, <2>j, JobHolds
    <3> QED
      BY <2>3, <2>j, <3>1, <3>2, AfterRelease, JobHolds, JobMoves DEF OwnSection
  <2>4. ASSUME convert[j].pc \in OwnSection, convert'[j].pc \in OwnSection,
               \A i \in Jobs \ {j} : convert'[i] = convert[i],
               UNCHANGED <<lock, delete>>
        PROVE  LockOwnership'
    BY <2>4, SameSections DEF OwnSection
  <2>5. CASE ConvertCheck(j) \/ ConvertDownload(j) \/ ConvertWrite(j)
    <3>1. convert[j].pc \in OwnSection /\ delete' = delete
      BY <2>5 DEF ConvertCheck, ConvertDownload, ConvertWrite, At, OwnSection
    <3>2. ASSUME NEW v \in JobStates, v.pc \in OwnSection, lock' = lock,
                 convert' = [convert EXCEPT ![j] = v]
          PROVE  /\ convert'[j].pc \in OwnSection
                 /\ \A i \in Jobs \ {j} : convert'[i] = convert[i]
                 /\ lock' = lock
      BY <3>2 DEF TypeOK
    <3>3. CASE ConvertCheck(j)
      <4> DEFINE v == [convert[j] EXCEPT !.pc = "download",
                                         !.stale = RowsOf(rows, File(j)) \ {Key(j)}]
      <4>1. v \in JobStates /\ v.pc \in OwnSection
        BY <2>j DEF JobStates, ConvertSteps, RowsOf, OwnSection
      <4>2. \/ Finish(j) /\ Release(Key(j))
            \/ convert' = [convert EXCEPT ![j] = v] /\ lock' = lock
        BY <3>3 DEF ConvertCheck
      <4> QED
        BY <3>1, <3>2, <4>1, <4>2, <2>3, <2>4
    <3>4. CASE ConvertDownload(j)
      <4> DEFINE v == [convert[j] EXCEPT !.pc = "pending",
                                         !.content = drive[File(j)].content]
      <4>1. drive[File(j)].content \in Nat
        BY DEF TypeOK, Jobs, File, DriveFiles
      <4>2. v \in JobStates /\ v.pc \in OwnSection
        BY <2>j, <4>1 DEF JobStates, ConvertSteps, OwnSection
      <4>3. \/ Finish(j) /\ Release(Key(j))
            \/ convert' = [convert EXCEPT ![j] = v] /\ lock' = lock
        BY <3>4 DEF ConvertDownload
      <4> QED
        BY <3>1, <3>2, <4>2, <4>3, <2>3, <2>4
    <3>5. CASE ConvertWrite(j)
      <4> DEFINE v == [convert[j] EXCEPT !.pc = "finalize"]
      <4>1. v \in JobStates /\ v.pc \in OwnSection
        BY <2>j DEF JobStates, ConvertSteps, OwnSection
      <4>2. \/ Finish(j) /\ Release(Key(j))
            \/ convert' = [convert EXCEPT ![j] = v] /\ lock' = lock
        BY <3>5 DEF ConvertWrite, PersistFailure, Goto
      <4> QED
        BY <3>1, <3>2, <4>1, <4>2, <2>3, <2>4
    <3> QED
      BY <2>5, <3>3, <3>4, <3>5
  <2>6. CASE ConvertPending(j) \/ ConvertPages(j)
    <3>1. convert[j].pc \in OwnSection /\ UNCHANGED <<lock, delete>>
      BY <2>6 DEF ConvertPending, ConvertPages, At, OwnSection
    <3>2. /\ convert'[j].pc \in OwnSection
          /\ \A i \in Jobs \ {j} : convert'[i] = convert[i]
      BY <2>6, <2>j DEF TypeOK, ConvertPending, ConvertPages, Goto, JobStates, OwnSection
    <3> QED
      BY <3>1, <3>2, <2>4
  <2>7. CASE ConvertFinalize(j)
    <3>1. /\ convert[j].pc = "finalize" /\ convert'[j].pc = "moved"
          /\ \A i \in Jobs \ {j} : convert'[i] = convert[i]
      BY <2>7, <2>j DEF TypeOK, ConvertFinalize, At, Goto, JobStates
    <3>2. Release(Key(j)) /\ delete' = delete
      BY <2>7 DEF ConvertFinalize
    <3>3. lock[Key(j)] = j
      BY <2>j, <3>1, JobHolds DEF OwnSection
    <3> QED
      BY <2>j, <3>1, <3>2, <3>3, AfterRelease, JobHolds, JobMoves DEF OwnSection
  <2>8. CASE CleanupOld(j)
    <3>1. convert[j].pc = "moved" /\ delete' = delete
      BY <2>8 DEF CleanupOld, At
    <3>2. \A old \in convert[j].stale : old \in Keys
      BY <2>j DEF JobStates
    <3>3. CASE \E old \in convert[j].stale :
                  /\ Acquire(old, j)
                  /\ convert' = [convert EXCEPT ![j] =
                                    [@ EXCEPT !.pc = "oldrows", !.old = old]]
      <4> PICK old \in Keys :
                  /\ Acquire(old, j)
                  /\ convert' = [convert EXCEPT ![j] =
                                    [@ EXCEPT !.pc = "oldrows", !.old = old]]
        BY <3>2, <3>3
      <4>1. /\ convert'[j].pc = "oldrows" /\ convert'[j].old = old
            /\ \A i \in Jobs \ {j} : convert'[i] = convert[i]
        BY <2>j DEF TypeOK, JobStates
      <4> QED
        BY <2>j, <3>1, <4>1, AfterAcquire, JobHolds, JobMoves DEF OwnSection
    <3>4. CASE \E old \in convert[j].stale :
                  /\ convert' = [convert EXCEPT ![j].stale = @ \ {old}]
                  /\ lock' = lock
      <4>1. /\ convert'[j].pc = "moved"
            /\ \A i \in Jobs \ {j} : convert'[i] = convert[i]
        BY <2>j, <3>1, <3>4 DEF TypeOK, JobStates
      <4> QED
        BY <3>1, <3>4, <4>1, SameSections DEF OwnSection
    <3> PICK old \in convert[j].stale :
          \/ /\ Acquire(old, j)
             /\ convert' = [convert EXCEPT ![j] =
                               [@ EXCEPT !.pc = "oldrows", !.old = old]]
          \/ /\ convert' = [convert EXCEPT ![j].stale = @ \ {old}]
             /\ lock' = lock
      <4>1. CASE \E o \in convert[j].stale : o \in RowsOf(rows, File(j)) /\ rows[o].out
        BY <2>8 DEF CleanupOld
      <4> QED
        BY <2>8, <4>1 DEF CleanupOld
    <3> QED
      BY <3>3, <3>4
  <2>9. CASE CleanupOldRows(j)
    <3>1. /\ convert[j].pc = "oldrows" /\ convert'[j].pc = "moved"
          /\ \A i \in Jobs \ {j} : convert'[i] = convert[i]
      BY <2>9, <2>j DEF TypeOK, CleanupOldRows, At, JobStates
    <3>2. Release(convert[j].old) /\ delete' = delete /\ convert[j].old \in Keys
      BY <2>9, <2>j DEF CleanupOldRows, JobStates
    <3>3. lock[convert[j].old] = j
      BY <3>1, <3>2, JobHolds
    <3> QED
      BY <2>j, <3>1, <3>2, <3>3, AfterRelease, JobHolds, JobMoves DEF OwnSection
  <2> QED
    BY <2>1, <2>2, <2>5, <2>6, <2>7, <2>8, <2>9 DEF ConvertStep
<1>6. CASE \E j \in Jobs : ConvertFails(j)
  <2> PICK j \in Jobs : ConvertFails(j)
    BY <1>6
  <2>1. j \in Workers /\ Key(j) \in Keys /\ delete' = delete /\ Finish(j)
    BY DEF Workers, Jobs, Key, ConvertFails, PersistFailure
  <2>2. convert'[j].pc = "idle" /\ \A i \in Jobs \ {j} : convert'[i] = convert[i]
    BY <2>1 DEF TypeOK, Finish, NewJob
  <2>3. CASE convert[j].pc = "started" /\ lock' = lock
    BY <2>1, <2>2, <2>3, SameSections DEF OwnSection
  <2>4. CASE convert[j].pc \in OwnSection /\ Release(Key(j))
    <3>1. lock[Key(j)] = j
      BY <2>1, <2>4, JobHolds
    <3> QED
      BY <2>1, <2>2, <2>4, <3>1, AfterRelease, JobHolds, JobMoves DEF OwnSection
  <2> QED
    BY <2>3, <2>4 DEF ConvertFails, PersistFailure, At, OwnSection
<1>7. CASE \/ \E d \in Deleters, f \in Files : DeleteStart(d, f)
           \/ \E d \in Deleters : DeleteStep(d) \/ DeleteLookupFails(d)
  <2> PICK d \in Deleters : \/ \E f \in Files : DeleteStart(d, f)
                            \/ DeleteStep(d) \/ DeleteLookupFails(d)
    BY <1>7
  <2>d. d \in Workers /\ delete[d] \in DeleteStates /\ delete[d].key \in Keys
    BY DEF TypeOK, Workers, DeleteStates
  <2>u. ASSUME NEW v, Update(d, v)
        PROVE  delete'[d] = v /\ \A e \in Deleters \ {d} : delete'[e] = delete[e]
    BY <2>u DEF TypeOK, Update
  <2>n. ASSUME NEW pc, NEW f PROVE NewDelete(pc, f).pc = pc
    BY DEF NewDelete
  <2>r. ASSUME delete[d].pc \in DeleteSection, Release(delete[d].key),
               delete'[d].pc \notin DeleteSection, convert' = convert,
               \A e \in Deleters \ {d} : delete'[e] = delete[e]
        PROVE  LockOwnership'
    <3>1. lock[delete[d].key] = d
      BY <2>r, <2>d, DeleteHolds
    <3> QED
      BY <2>r, <2>d, <3>1, AfterRelease, DeleteHolds, DeleteMoves
  <2>o. ASSUME delete[d].pc \notin DeleteSection, delete'[d].pc \notin DeleteSection,
               \A e \in Deleters \ {d} : delete'[e] = delete[e],
               UNCHANGED <<lock, convert>>
        PROVE  LockOwnership'
    BY <2>o, SameSections
  <2>1. CASE \E f \in Files : DeleteStart(d, f)
    BY <2>1, <2>u, <2>n, <2>o DEF DeleteStart, Deleting, DeleteSection
  <2>2. CASE DeleteFirstRead(d)
    <3>1. \A k \in Keys : [delete[d] EXCEPT !.pc = "reread", !.key = k].pc = "reread"
      BY <2>d DEF DeleteStates
    <3>v. \E v : Update(d, v) /\ v.pc \in {"idle", "reread"}
      <4>1. CASE DeleteEnds(d)
        BY <4>1, <2>n DEF DeleteEnds
      <4>2. CASE \E k \in Keys :
                    Update(d, [delete[d] EXCEPT !.pc = "reread", !.key = k])
        BY <4>2, <3>1
      <4> QED
        BY <2>2, <4>1, <4>2 DEF DeleteFirstRead, Earliest, RowsOf
    <3>2. /\ delete'[d].pc \in {"idle", "reread"}
          /\ \A e \in Deleters \ {d} : delete'[e] = delete[e]
      BY <2>u, <3>v
    <3> QED
      BY <2>2, <2>o, <3>2 DEF DeleteFirstRead, Deleting, DeleteSection
  <2>3. CASE DeleteReread(d)
    <3>1. CASE DeleteEnds(d) /\ lock' = lock
      <4>1. /\ delete'[d].pc = "idle"
            /\ \A e \in Deleters \ {d} : delete'[e] = delete[e]
        BY <3>1, <2>u, <2>n DEF DeleteEnds
      <4> QED
        BY <2>3, <3>1, <4>1, <2>o DEF DeleteReread, Deleting, DeleteSection
    <3>2. CASE \E k \in Earliest(rows, RowsOf(rows, delete[d].file)) :
             /\ Update(d, [delete[d] EXCEPT
                     !.pc = IF rows[k].parent = NoFolder THEN "rmtree" ELSE "lookup",
                     !.row = rows[k], !.target = k])
             /\ Acquire(delete[d].key, d)
      <4>0. \A k \in Keys, pc \in DeleteSection :
               LET v == [delete[d] EXCEPT !.pc = pc, !.row = rows[k], !.target = k]
               IN  v.pc = pc /\ v.key = delete[d].key
        BY <2>d DEF DeleteStates
      <4>v. \E v : Update(d, v) /\ v.pc \in DeleteSection /\ v.key = delete[d].key
        BY <3>2, <4>0 DEF DeleteSection, Earliest, RowsOf
      <4>1. /\ delete'[d].pc \in DeleteSection /\ delete'[d].key = delete[d].key
            /\ \A e \in Deleters \ {d} : delete'[e] = delete[e]
        BY <2>u, <4>v
      <4>2. delete[d].pc \notin DeleteSection /\ convert' = convert
        BY <2>3 DEF DeleteReread, Deleting, DeleteSection
      <4> QED
        BY <2>d, <3>2, <4>1, <4>2, AfterAcquire, DeleteHolds, DeleteMoves
    <3> QED
      BY <2>3, <3>1, <3>2 DEF DeleteReread
  <2>4. CASE DeleteLookup(d)
    <3>0. \A twin : LET v == [delete[d] EXCEPT !.pc = "repoint", !.twin = twin]
                    IN  v.pc \in DeleteSection /\ v.key = delete[d].key
      BY <2>d DEF DeleteStates, DeleteSection
    <3>n. LET v == [delete[d] EXCEPT !.pc = "rmtree"]
          IN  v.pc \in DeleteSection /\ v.key = delete[d].key
      BY <2>d DEF DeleteStates, DeleteSection
    <3>v. \E v : Update(d, v) /\ v.pc \in DeleteSection /\ v.key = delete[d].key
      BY <2>4, <3>0, <3>n DEF DeleteLookup
    <3>1. /\ delete'[d].pc \in DeleteSection /\ delete'[d].key = delete[d].key
          /\ \A e \in Deleters \ {d} : delete'[e] = delete[e]
      BY <2>u, <3>v
    <3>2. delete[d].pc \in DeleteSection /\ UNCHANGED <<lock, convert>>
      BY <2>4 DEF DeleteLookup, Deleting, DeleteSection
    <3> QED
      BY <3>1, <3>2, SameSections
  <2>5. CASE DeleteRepoint(d)
    <3>1. /\ delete'[d].pc = "enqueue"
          /\ \A e \in Deleters \ {d} : delete'[e] = delete[e]
      BY <2>5, <2>d DEF TypeOK, DeleteRepoint, Update, DeleteStates
    <3> QED
      BY <2>5, <2>r, <3>1 DEF DeleteRepoint, Deleting, DeleteSection
  <2>6. CASE DeleteEnqueue(d)
    <3>1. /\ delete'[d].pc = "idle"
          /\ \A e \in Deleters \ {d} : delete'[e] = delete[e]
      BY <2>6, <2>u, <2>n DEF DeleteEnqueue, DeleteEnds
    <3>2. /\ delete[d].pc = "enqueue" /\ lock' = lock
          /\ EnqueueConvert(delete[d].twin, delete[d].target)
      BY <2>6 DEF DeleteEnqueue, Deleting
    <3> QED
      BY <3>1, <3>2, EnqueueKeepsSections, SameSections DEF DeleteSection
  <2>7. CASE DeleteRmtree(d)
    <3>1. CASE delete[d].row.out
      <4>1. /\ delete'[d].pc = "rows" /\ delete'[d].key = delete[d].key
            /\ \A e \in Deleters \ {d} : delete'[e] = delete[e]
        BY <2>7, <3>1, <2>d DEF TypeOK, DeleteRmtree, Update, DeleteStates
      <4> QED
        BY <2>7, <3>1, <4>1, SameSections DEF DeleteRmtree, Deleting, DeleteSection
    <3>2. CASE ~ delete[d].row.out
      BY <2>7, <3>2, <2>u, <2>n, <2>r
      DEF DeleteRmtree, DeleteEnds, Deleting, DeleteSection
    <3> QED
      BY <3>1, <3>2
  <2>8. CASE DeleteRows(d) \/ DeleteLookupFails(d)
    BY <2>8, <2>u, <2>n, <2>r
    DEF DeleteRows, DeleteLookupFails, DeleteEnds, Deleting, DeleteSection
  <2> QED
    BY <2>1, <2>2, <2>3, <2>4, <2>5, <2>6, <2>7, <2>8 DEF DeleteStep
<1>8. CASE Crash \/ Upgrade
  <2>1. \A k \in Keys : lock'[k] = Nobody
    BY <1>8 DEF Crash, Upgrade
  <2>2. \A j \in Jobs : convert'[j].pc \in {"idle", "queued"}
    BY <1>8 DEF Crash, Upgrade, At, NewJob
  <2>3. \A d \in Deleters : delete'[d].pc \notin DeleteSection
    <3>1. CASE Upgrade
      BY <3>1 DEF Upgrade, NewDelete, DeleteSection
    <3>2. CASE Crash
      <4>1. \A d \in Deleters : \A w \in AfterCrash(d) : w.pc \notin DeleteSection
        BY DEF AfterCrash, Deleting, NewDelete, DeleteSection
      <4> QED
        BY <3>2, <4>1 DEF Crash
    <3> QED
      BY <1>8, <3>1, <3>2
  <2> QED
    BY <2>1, <2>2, <2>3, NobodyAssumption
    DEF LockOwnership, Inside, OwnSection
<1> QED
  BY <1>1, <1>2, <1>3, <1>4, <1>5, <1>6, <1>7, <1>8
  DEF Next, WorkerStep, Failure

(* A lock's block is entered by one worker at a time, in every behaviour:  *)
(* conversions that clean up other keys, exceptions and restarts included. *)
THEOREM Locks == Spec => []LockOwnership
<1>1. TypeOK /\ LockOwnership /\ [Next]_vars => (TypeOK /\ LockOwnership)'
  BY TypeStep, LockStep
<1> QED
  BY <1>1, TypeInit, LockInit, PTL DEF Spec

-----------------------------------------------------------------------------
(* SuccessIsWhole is not inductive by itself. What it rests on: while a    *)
(* run is between its PENDING row and its end the row is still PENDING, or *)
(* gone, so its torn directory stands beside no claim; until the run's     *)
(* last write the directory is torn or gone, and at the end it is the      *)
(* run's own or gone; what a run renders was downloaded after the md5 it   *)
(* records was read, and Drive's contents only grow; and seeding, the one  *)
(* write that comes before the PENDING row, is only done when the key has  *)
(* no pages on record, which a key with a SUCCESS row has.                 *)
RunIsPending(j) ==
    convert[j].pc \in {"pages", "write", "finalize"} =>
        rows[Key(j)].status \in {"PENDING", "ABSENT"}

RunIsWhole(j) ==
    /\ convert[j].pc = "write" => vault[Key(j)] \in {NoDir, Torn}
    /\ convert[j].pc = "finalize" =>
          vault[Key(j)] \in {NoDir, Whole(convert[j].content)}

RunIsPaged(j) ==
    convert[j].pc \in {"write", "finalize"} /\ HasRow(rows, Key(j)) =>
        Key(j) \in paged

DownloadIsNewer(j) ==
    /\ convert[j].pc \in {"check", "download"} =>
          /\ drive[File(j)].state # "absent"
          /\ convert[j].md5 <= drive[File(j)].content
    /\ convert[j].pc \in {"pending", "pages", "write", "finalize"} =>
          convert[j].md5 <= convert[j].content

JobInv(j) ==
    RunIsPending(j) /\ RunIsWhole(j) /\ RunIsPaged(j) /\ DownloadIsNewer(j)

KeyInv(k) ==
    rows[k].status = "SUCCESS" =>
        /\ k \in paged
        /\ vault[k].state # "torn"
        /\ vault[k].state = "whole" => vault[k].content >= rows[k].md5

ContentsAreNumbered == \A f \in Files : drive[f].content <= top

WholeInv ==
    /\ \A j \in Jobs : JobInv(j)
    /\ \A k \in Keys : KeyInv(k)
    /\ ContentsAreNumbered

(* The strengthening implies the property. *)
LEMMA WholeInvSuffices == WholeInv => SuccessIsWhole
BY DEF WholeInv, KeyInv, SuccessIsWhole

(* The strengthening holds of the empty tables and directories. *)
LEMMA WholeInit == Init => WholeInv
<1> SUFFICES ASSUME Init PROVE WholeInv
  OBVIOUS
<1>1. \A j \in Jobs : convert[j].pc = "idle"
  BY DEF Init, NewJob
<1>2. \A k \in Keys : rows[k].status = "ABSENT"
  BY DEF Init, NoRow
<1>3. ContentsAreNumbered
  <2>1. top = 0 /\ \A f \in Files : drive[f].content = 0
    BY DEF Init
  <2>2. 0 <= 0
    OBVIOUS
  <2> QED
    BY <2>1, <2>2, Zenon DEF ContentsAreNumbered
<1> QED
  BY <1>1, <1>2, <1>3
  DEF WholeInv, JobInv, KeyInv, RunIsPending, RunIsWhole, RunIsPaged, DownloadIsNewer

(* Steps that only take away: a conversion leaves its run, a directory or  *)
(* a record goes, Drive moves on.                                          *)
LEMMA TakesAway ==
    ASSUME TypeOK, TypeOK', WholeInv,
           \A i \in Jobs : \/ convert'[i] = convert[i]
                           \/ convert'[i].pc \in {"idle", "queued", "started",
                                                  "moved", "oldrows"},
           \A k \in Keys : vault'[k] \in {vault[k], NoDir},
           \A k \in Keys :
              \/ rows'[k].status = "ABSENT"
              \/ /\ rows'[k].status = rows[k].status
                 /\ rows'[k].md5 = rows[k].md5
                 /\ k \in paged <=> k \in paged',
           \A f \in Files :
              drive[f].state # "absent" =>
                 /\ drive'[f].state # "absent"
                 /\ drive[f].content <= drive'[f].content,
           ContentsAreNumbered'
    PROVE  WholeInv'
<1>1. ASSUME NEW k \in Keys PROVE KeyInv(k)'
  BY DEF WholeInv, KeyInv, NoDir
<1>2. ASSUME NEW j \in Jobs PROVE JobInv(j)'
  <2>1. CASE convert'[j].pc \in {"idle", "queued", "started", "moved", "oldrows"}
    BY <2>1 DEF JobInv, RunIsPending, RunIsWhole, RunIsPaged, DownloadIsNewer
  <2>2. CASE convert'[j] = convert[j]
    <3>1. JobInv(j) /\ Key(j) \in Keys /\ File(j) \in Files
      BY DEF WholeInv, Jobs, Key, File
    <3>2. RunIsPending(j)' /\ RunIsPaged(j)'
      BY <2>2, <3>1 DEF JobInv, RunIsPending, RunIsPaged, HasRow
    <3>3. RunIsWhole(j)'
      BY <2>2, <3>1 DEF JobInv, RunIsWhole
    <3>4. DownloadIsNewer(j)'
      <4>1. /\ convert[j].md5 \in Nat /\ drive[File(j)].content \in Nat
            /\ drive'[File(j)].content \in Nat
        BY <3>1 DEF TypeOK, JobStates, DriveFiles, Md5s
      <4> QED
        BY <2>2, <3>1, <4>1 DEF JobInv, DownloadIsNewer
    <3> QED
      BY <3>2, <3>3, <3>4 DEF JobInv
  <2> QED
    BY <2>1, <2>2
<1> QED
  BY <1>1, <1>2 DEF WholeInv

(* A step of one conversion at its own key, where no other one is in its   *)
(* lock's block, has to answer for that key and that job alone.            *)
LEMMA OwnKeyStep ==
    ASSUME WholeInv, UNCHANGED driveVars, NEW j \in Jobs,
           \A i \in Jobs \ {j} :
              /\ convert'[i] = convert[i]
              /\ Key(i) = Key(j) => convert[i].pc \notin OwnSection,
           \A o \in Keys \ {Key(j)} :
              /\ rows'[o] = rows[o] /\ vault'[o] = vault[o]
              /\ o \in paged <=> o \in paged',
           KeyInv(Key(j))', JobInv(j)'
    PROVE  WholeInv'
<1>1. ASSUME NEW k \in Keys PROVE KeyInv(k)'
  BY DEF WholeInv, KeyInv
<1>2. ASSUME NEW i \in Jobs \ {j} PROVE JobInv(i)'
  <2>1. JobInv(i) /\ Key(i) \in Keys
    BY DEF WholeInv, Jobs, Key
  <2>2. CASE Key(i) = Key(j)
    BY <2>2 DEF JobInv, RunIsPending, RunIsWhole, RunIsPaged, DownloadIsNewer, OwnSection
  <2>3. CASE Key(i) # Key(j)
    <3>1. RunIsPending(i)' /\ RunIsPaged(i)'
      BY <2>1, <2>3 DEF JobInv, RunIsPending, RunIsPaged, HasRow
    <3>2. RunIsWhole(i)'
      BY <2>1, <2>3 DEF JobInv, RunIsWhole
    <3>3. DownloadIsNewer(i)'
      BY <2>1 DEF JobInv, DownloadIsNewer, driveVars
    <3> QED
      BY <3>1, <3>2, <3>3 DEF JobInv
  <2> QED
    BY <2>2, <2>3
<1>3. ContentsAreNumbered'
  BY DEF WholeInv, ContentsAreNumbered, driveVars
<1> QED
  BY <1>1, <1>2, <1>3 DEF WholeInv

(* The lock keeps other conversions of a key out, held or free. *)
LEMMA AloneAtKey ==
    ASSUME LockOwnership, NEW j \in Jobs,
           lock[Key(j)] = Nobody \/ convert[j].pc \in OwnSection
    PROVE  \A i \in Jobs \ {j} : Key(i) = Key(j) => convert[i].pc \notin OwnSection
<1>1. \A i \in Jobs : Key(i) \in Keys /\ i # Nobody
  BY NobodyAssumption DEF Jobs, Key, Workers
<1> QED
  BY <1>1, JobHolds

(* Drive's contents are numbered upwards, and nothing becomes absent.      *)
LEMMA DriveGrows ==
    ASSUME TypeOK, ContentsAreNumbered, DriveStep
    PROVE  /\ ContentsAreNumbered'
           /\ \A f \in Files :
                 drive[f].state # "absent" =>
                    /\ drive'[f].state # "absent"
                    /\ drive[f].content <= drive'[f].content
<1> USE DEF ContentsAreNumbered
<1>t. top \in Nat /\ \A f \in Files : drive[f].content \in Nat /\ drive[f] \in DriveFiles
  BY DEF TypeOK, DriveFiles
<1>1. CASE \E f \in Files, p \in Places : Create(f, p)
  BY <1>1, <1>t DEF TypeOK, Create, Upload
<1>2. CASE \E f \in Files, p \in Places : Move(f, p)
  BY <1>2, <1>t DEF TypeOK, Move, DriveFiles
<1>3. CASE \E f, g \in Files, p \in Places : Copy(f, p, g)
  BY <1>3, <1>t DEF TypeOK, Copy, Upload
<1>4. CASE \E f \in Files : Edit(f)
  BY <1>4, <1>t DEF TypeOK, Edit, DriveFiles
<1>5. CASE \E f \in Files : Trash(f) \/ Restore(f) \/ Remove(f)
  BY <1>5, <1>t DEF TypeOK, Trash, Restore, Remove, DriveFiles
<1> QED
  BY <1>1, <1>2, <1>3, <1>4, <1>5 DEF DriveStep

(* Every step keeps the invariant. *)
LEMMA WholeStep ==
    TypeOK /\ TypeOK' /\ LockOwnership /\ WholeInv /\ [Next]_vars => WholeInv'
<1> SUFFICES ASSUME TypeOK, TypeOK', LockOwnership, WholeInv, [Next]_vars
             PROVE  WholeInv'
  OBVIOUS
<1> USE DEF driveVars, stores, queues
<1>r. ASSUME UNCHANGED driveVars
      PROVE  /\ ContentsAreNumbered'
             /\ \A f \in Files :
                   drive[f].state # "absent" =>
                      /\ drive'[f].state # "absent"
                      /\ drive[f].content <= drive'[f].content
  BY <1>r DEF WholeInv, ContentsAreNumbered, TypeOK, DriveFiles
<1>1. CASE DriveStep
  <2>1. UNCHANGED <<rows, paged, vault, convert>>
    BY <1>1 DEF DriveStep, Create, Move, Copy, Edit, Trash, Restore, Remove, Change
  <2> QED
    BY <1>1, <2>1, DriveGrows, TakesAway DEF WholeInv
<1>2. CASE \/ \E f \in Files : Dispatch(f) \/ Sweep(f) \/ DispatchFails(f)
           \/ \E d \in Deleters, f \in Files : DeleteStart(d, f)
           \/ \E d \in Deleters : DeleteFirstRead(d) \/ DeleteReread(d)
                 \/ DeleteLookup(d) \/ DeleteEnqueue(d) \/ DeleteLookupFails(d)
           \/ CursorExpires \/ Crash \/ Upgrade \/ UNCHANGED vars
  <2>1. UNCHANGED <<driveVars, rows, paged, vault>>
    BY <1>2
    DEF Dispatch, Sweep, DispatchFails, DeleteStart, DeleteFirstRead, DeleteReread,
        DeleteLookup, DeleteEnqueue, DeleteLookupFails, CursorExpires, Crash, Upgrade,
        vars
  <2>2. ASSUME NEW f, NEW k, EnqueueConvert(f, k), NEW i \in Jobs
        PROVE  convert'[i] = convert[i] \/ convert'[i].pc = "queued"
    BY <2>2 DEF TypeOK, EnqueueConvert, NewJob
  <2>3. \A i \in Jobs : convert'[i] = convert[i] \/ convert'[i].pc \in {"idle", "queued"}
    <3>1. CASE convert' = convert
      BY <3>1
    <3>2. CASE \E f, k : EnqueueConvert(f, k)
      BY <2>2, <3>2
    <3>3. CASE Crash \/ Upgrade
      BY <3>3 DEF Crash, Upgrade, NewJob
    <3> QED
      BY <1>2, <3>1, <3>2, <3>3
      DEF Dispatch, Sweep, DispatchFails, DeleteStart, DeleteFirstRead, DeleteReread,
          DeleteLookup, DeleteEnqueue, DeleteLookupFails, CursorExpires, vars
  <2> QED
    BY <1>r, <2>1, <2>3, TakesAway
<1>3. CASE \E d \in Deleters : DeleteRepoint(d)
  <2> PICK d \in Deleters : DeleteRepoint(d)
    BY <1>3
  <2>1. delete[d].target \in Keys /\ delete[d].twin \in Files \cup {NoFile}
    BY DEF TypeOK, DeleteStates
  <2>2. \A k \in Keys : rows'[k].status = rows[k].status /\ rows'[k].md5 = rows[k].md5
    BY <2>1, SetCurrentFileIdType DEF TypeOK, DeleteRepoint
  <2> QED
    BY <1>r, <2>2, TakesAway DEF DeleteRepoint
<1>4. CASE \E d \in Deleters : DeleteRmtree(d)
  <2> PICK d \in Deleters : DeleteRmtree(d)
    BY <1>4
  <2>1. \A k \in Keys : vault'[k] \in {vault[k], NoDir}
    BY DEF TypeOK, DeleteRmtree
  <2> QED
    BY <1>r, <2>1, TakesAway DEF DeleteRmtree
<1>5. CASE \E d \in Deleters : DeleteRows(d)
  <2> PICK d \in Deleters : DeleteRows(d)
    BY <1>5
  <2>1. delete[d].target \in Keys
    BY DEF TypeOK, DeleteStates
  <2>2. \A k \in Keys :
           \/ rows'[k].status = "ABSENT"
           \/ /\ rows'[k].status = rows[k].status
              /\ rows'[k].md5 = rows[k].md5
              /\ k \in paged <=> k \in paged'
    BY <2>1, DeleteByLogicalKeyType DEF TypeOK, DeleteRows
  <2> QED
    BY <1>r, <2>2, TakesAway DEF DeleteRows
<1>6. CASE \E j \in Jobs : ConvertStart(j) \/ ConvertStep(j) \/ ConvertFails(j)
  <2> PICK j \in Jobs : ConvertStart(j) \/ ConvertStep(j) \/ ConvertFails(j)
    BY <1>6
  <2>j. /\ Key(j) \in Keys /\ File(j) \in Files /\ convert[j] \in JobStates
        /\ JobInv(j) /\ KeyInv(Key(j))
    BY DEF TypeOK, WholeInv, Jobs, Key, File
  <2>n. /\ convert[j].md5 \in Nat /\ convert[j].content \in Nat
        /\ drive[File(j)].content \in Nat
    BY <2>j DEF TypeOK, JobStates, DriveFiles, Md5s
  <2>c. ASSUME NEW v, convert' = [convert EXCEPT ![j] = v]
        PROVE  convert'[j] = v /\ \A i \in Jobs \ {j} : convert'[i] = convert[i]
    BY <2>c DEF TypeOK
  <2>f. ASSUME Finish(j)
        PROVE  convert'[j].pc = "idle" /\ \A i \in Jobs \ {j} : convert'[i] = convert[i]
    BY <2>f, <2>c DEF Finish, NewJob
  <2>g. ASSUME NEW pc, Goto(j, pc)
        PROVE  /\ convert'[j].pc = pc
               /\ convert'[j].md5 = convert[j].md5
               /\ convert'[j].content = convert[j].content
               /\ \A i \in Jobs \ {j} : convert'[i] = convert[i]
    BY <2>g, <2>j DEF TypeOK, Goto, JobStates
  <2>i. ASSUME convert'[j].pc \in {"idle", "queued", "started", "moved", "oldrows"}
        PROVE  JobInv(j)'
    BY <2>i DEF JobInv, RunIsPending, RunIsWhole, RunIsPaged, DownloadIsNewer
  <2>1. CASE ConvertStart(j) \/ (ConvertMetadata(j) /\ ~ Live(File(j))) \/ ConvertEnd(j)
    <3>1. convert'[j].pc \in {"idle", "started"}
      BY <2>1, <2>f, <2>g DEF ConvertStart, ConvertMetadata, ConvertEnd
    <3>2. \A i \in Jobs \ {j} : convert'[i] = convert[i]
      BY <2>1, <2>f, <2>g DEF ConvertStart, ConvertMetadata, ConvertEnd
    <3>3. UNCHANGED <<driveVars, rows, paged, vault>>
      BY <2>1 DEF ConvertStart, ConvertMetadata, ConvertEnd
    <3> QED
      BY <1>r, <3>1, <3>2, <3>3, TakesAway
  <2>2. CASE ConvertMetadata(j) /\ Live(File(j))
    <3> DEFINE v == [convert[j] EXCEPT !.pc = "check", !.md5 = drive[File(j)].content,
                                       !.at = drive[File(j)].at]
    <3>1. v.pc = "check" /\ v.md5 = drive[File(j)].content
      BY <2>j DEF JobStates
    <3>2. convert' = [convert EXCEPT ![j] = v] /\ lock[Key(j)] = Nobody
      BY <2>2 DEF ConvertMetadata
    <3> HIDE DEF v
    <3>3. UNCHANGED <<driveVars, rows, paged, vault>>
      BY <2>2 DEF ConvertMetadata
    <3>4. KeyInv(Key(j))'
      BY <2>j, <3>3 DEF KeyInv
    <3>5. JobInv(j)'
      <4>1. convert'[j].pc = "check" /\ convert'[j].md5 = drive[File(j)].content
        BY <2>c, <3>1, <3>2
      <4>2. /\ drive'[File(j)].state = "live"
            /\ convert'[j].md5 <= drive'[File(j)].content
        BY <2>2, <2>n, <3>3, <4>1 DEF Live
      <4> QED
        BY <4>1, <4>2
        DEF JobInv, RunIsPending, RunIsWhole, RunIsPaged, DownloadIsNewer
    <3> QED
      BY <2>c, <3>2, <3>3, <3>4, <3>5, AloneAtKey, OwnKeyStep
  <2>3. CASE ConvertCheck(j)
    <3> DEFINE stale == RowsOf(rows, File(j)) \ {Key(j)}
               v == [convert[j] EXCEPT !.pc = "download", !.stale = stale]
    <3>1. /\ convert[j].pc = "check" /\ UNCHANGED <<driveVars, rows, paged>>
      BY <2>3 DEF ConvertCheck, At
    <3>2. v.pc = "download" /\ v.md5 = convert[j].md5
      BY <2>j DEF JobStates
    <3>3. \/ Finish(j) /\ vault' = vault
          \/ /\ convert' = [convert EXCEPT ![j] = v]
             /\ \/ vault' = vault
                \/ Key(j) \notin paged /\ vault' = [vault EXCEPT ![Key(j)] = Torn]
      BY <2>3 DEF ConvertCheck, Seeds, Seeded
    <3> HIDE DEF v
    <3>4. KeyInv(Key(j))'
      BY <2>j, <3>1, <3>3 DEF KeyInv
    <3>5. JobInv(j)'
      <4>1. CASE Finish(j)
        BY <4>1, <2>f, <2>i
      <4>2. CASE convert' = [convert EXCEPT ![j] = v]
        BY <4>2, <2>c, <2>j, <3>1, <3>2
        DEF JobInv, RunIsPending, RunIsWhole, RunIsPaged, DownloadIsNewer
      <4> QED
        BY <3>3, <4>1, <4>2
    <3>6. \A o \in Keys \ {Key(j)} : vault'[o] = vault[o]
      BY <3>3 DEF TypeOK
    <3>7. \A i \in Jobs \ {j} : convert'[i] = convert[i]
      BY <2>c, <2>f, <3>3
    <3> QED
      BY <3>1, <3>4, <3>5, <3>6, <3>7, AloneAtKey, OwnKeyStep DEF OwnSection
  <2>4. CASE ConvertDownload(j)
    <3> DEFINE v == [convert[j] EXCEPT !.pc = "pending",
                                       !.content = drive[File(j)].content]
    <3>1. /\ convert[j].pc = "download" /\ UNCHANGED <<driveVars, rows, paged, vault>>
      BY <2>4 DEF ConvertDownload, At
    <3>2. /\ v.pc = "pending" /\ v.md5 = convert[j].md5
          /\ v.content = drive[File(j)].content
      BY <2>j DEF JobStates
    <3>3. Finish(j) \/ convert' = [convert EXCEPT ![j] = v]
      BY <2>4 DEF ConvertDownload
    <3> HIDE DEF v
    <3>4. KeyInv(Key(j))'
      BY <2>j, <3>1 DEF KeyInv
    <3>5. JobInv(j)'
      <4>1. CASE Finish(j)
        BY <4>1, <2>f, <2>i
      <4>2. CASE convert' = [convert EXCEPT ![j] = v]
        BY <4>2, <2>c, <2>j, <3>1, <3>2
        DEF JobInv, RunIsPending, RunIsWhole, RunIsPaged, DownloadIsNewer
      <4> QED
        BY <3>3, <4>1, <4>2
    <3>6. \A i \in Jobs \ {j} : convert'[i] = convert[i]
      BY <2>c, <2>f, <3>3
    <3> QED
      BY <3>1, <3>4, <3>5, <3>6, AloneAtKey, OwnKeyStep DEF OwnSection
  <2>5. CASE ConvertPending(j)
    <3>1. /\ convert[j].pc = "pending" /\ Goto(j, "pages")
          /\ UNCHANGED <<driveVars, paged, vault>>
      BY <2>5 DEF ConvertPending, At
    <3>2. /\ rows'[Key(j)].status = "PENDING"
          /\ \A o \in Keys \ {Key(j)} : rows'[o] = rows[o]
      BY <2>5, <2>j, UpsertPendingType DEF TypeOK, ConvertPending, JobStates
    <3>3. KeyInv(Key(j))'
      BY <3>2 DEF KeyInv
    <3>4. JobInv(j)'
      BY <2>j, <2>g, <3>1, <3>2
      DEF JobInv, RunIsPending, RunIsWhole, RunIsPaged, DownloadIsNewer
    <3> QED
      BY <2>g, <3>1, <3>2, <3>3, <3>4, AloneAtKey, OwnKeyStep DEF OwnSection
  <2>6. CASE ConvertPages(j)
    <3>1. /\ convert[j].pc = "pages" /\ Goto(j, "write") /\ UNCHANGED <<driveVars, rows>>
          /\ vault' = [vault EXCEPT ![Key(j)] = Torn] /\ paged' = paged \cup {Key(j)}
      BY <2>6 DEF ConvertPages, At
    <3>2. rows[Key(j)].status # "SUCCESS"
      BY <2>j, <3>1 DEF JobInv, RunIsPending
    <3>3. KeyInv(Key(j))'
      BY <3>1, <3>2 DEF KeyInv
    <3>4. JobInv(j)'
      <4>1. vault'[Key(j)] = Torn /\ Key(j) \in paged'
        BY <2>j, <3>1 DEF TypeOK
      <4> QED
        BY <2>j, <2>g, <3>1, <4>1
        DEF JobInv, RunIsPending, RunIsWhole, RunIsPaged, DownloadIsNewer
    <3>5. \A o \in Keys \ {Key(j)} :
             vault'[o] = vault[o] /\ (o \in paged <=> o \in paged')
      BY <3>1 DEF TypeOK
    <3> QED
      BY <2>g, <3>1, <3>3, <3>4, <3>5, AloneAtKey, OwnKeyStep DEF OwnSection
  <2>7. CASE ConvertWrite(j) /\ vault[Key(j)] # NoDir
    <3>1. /\ convert[j].pc = "write" /\ Goto(j, "finalize")
          /\ UNCHANGED <<driveVars, rows, paged>>
          /\ vault' = [vault EXCEPT ![Key(j)] = Whole(convert[j].content)]
      BY <2>7 DEF ConvertWrite, At
    <3>2. rows[Key(j)].status # "SUCCESS"
      BY <2>j, <3>1 DEF JobInv, RunIsPending
    <3>3. KeyInv(Key(j))'
      BY <3>1, <3>2 DEF KeyInv
    <3>4. vault'[Key(j)] = Whole(convert'[j].content)
      BY <2>j, <2>g, <3>1 DEF TypeOK
    <3>5. JobInv(j)'
      BY <2>j, <2>g, <3>1, <3>2, <3>4
      DEF JobInv, RunIsPending, RunIsWhole, RunIsPaged, DownloadIsNewer, HasRow
    <3>6. \A o \in Keys \ {Key(j)} : vault'[o] = vault[o]
      BY <3>1 DEF TypeOK
    <3> QED
      BY <2>g, <3>1, <3>3, <3>5, <3>6, AloneAtKey, OwnKeyStep DEF OwnSection
  <2>8. CASE ConvertFails(j) \/ (ConvertWrite(j) /\ vault[Key(j)] = NoDir)
    <3>1. Finish(j) /\ UNCHANGED <<driveVars, paged, vault>>
      BY <2>8 DEF ConvertFails, ConvertWrite, PersistFailure
    <3>2. lock[Key(j)] = Nobody \/ convert[j].pc \in OwnSection
      BY <2>8 DEF ConvertFails, ConvertWrite, At, OwnSection
    <3>3. Name(Key(j)) \in Names /\ Name(convert[j].at) \in Names
      BY <2>j, PlaceParts, KeysAssumption DEF JobStates
    <3>4. /\ rows'[Key(j)].status = "ERROR"
          /\ \A o \in Keys \ {Key(j)} : rows'[o] = rows[o]
      BY <2>8, <2>j, <3>3, RecordFailureType
      DEF TypeOK, ConvertFails, ConvertWrite, PersistFailure
    <3>5. KeyInv(Key(j))' /\ JobInv(j)'
      BY <2>f, <2>i, <3>1, <3>4 DEF KeyInv
    <3> QED
      BY <2>f, <3>1, <3>2, <3>4, <3>5, AloneAtKey, OwnKeyStep
  <2>9. CASE ConvertFinalize(j)
    <3>1. /\ convert[j].pc = "finalize" /\ Goto(j, "moved")
          /\ UNCHANGED <<driveVars, paged, vault>>
          /\ rows' = MarkSuccess(rows, Key(j), convert[j].md5)
      BY <2>9 DEF ConvertFinalize, At
    <3>2. /\ ~ HasRow(rows, Key(j)) => rows' = rows
          /\ HasRow(rows, Key(j)) => rows'[Key(j)].md5 = convert[j].md5
          /\ \A o \in Keys \ {Key(j)} : rows'[o] = rows[o]
      <4>1. rows \in Tables /\ convert[j].md5 \in Md5s
        BY <2>j DEF TypeOK, JobStates
      <4> QED
        BY <2>j, <3>1, <4>1, MarkSuccessType
    <3>3. /\ vault[Key(j)] \in {NoDir, Whole(convert[j].content)}
          /\ HasRow(rows, Key(j)) => Key(j) \in paged
          /\ convert[j].md5 <= convert[j].content
      BY <2>j, <3>1 DEF JobInv, RunIsWhole, RunIsPaged, DownloadIsNewer
    <3>4. KeyInv(Key(j))'
      <4>1. CASE ~ HasRow(rows, Key(j))
        BY <4>1, <2>j, <3>1, <3>2 DEF KeyInv
      <4>2. CASE HasRow(rows, Key(j))
        BY <4>2, <2>n, <3>1, <3>2, <3>3 DEF KeyInv, NoDir, Whole
      <4> QED
        BY <4>1, <4>2
    <3>5. JobInv(j)'
      BY <2>g, <2>i, <3>1
    <3> QED
      BY <2>g, <3>1, <3>2, <3>4, <3>5, AloneAtKey, OwnKeyStep DEF OwnSection
  <2>10. CASE CleanupOld(j)
    <3>1. convert[j].pc = "moved" /\ UNCHANGED <<driveVars, rows, paged>>
      BY <2>10 DEF CleanupOld, At
    <3>2. PICK old \in convert[j].stale :
             \/ /\ vault' = [vault EXCEPT ![old] = NoDir]
                /\ convert' = [convert EXCEPT ![j] =
                                  [@ EXCEPT !.pc = "oldrows", !.old = old]]
             \/ /\ convert' = [convert EXCEPT ![j].stale = @ \ {old}]
                /\ vault' = vault
      <4>1. CASE \E o \in convert[j].stale : o \in RowsOf(rows, File(j)) /\ rows[o].out
        BY <2>10 DEF CleanupOld
      <4> QED
        BY <2>10, <4>1 DEF CleanupOld
    <3>3. \A k \in Keys : vault'[k] \in {vault[k], NoDir}
      BY <3>2 DEF TypeOK
    <3>4. /\ convert'[j].pc \in {"moved", "oldrows"}
          /\ \A i \in Jobs \ {j} : convert'[i] = convert[i]
      <4>1. /\ [convert[j] EXCEPT !.pc = "oldrows", !.old = old].pc = "oldrows"
            /\ [convert[j] EXCEPT !.stale = @ \ {old}].pc = "moved"
        BY <2>j, <3>1 DEF JobStates
      <4> QED
        BY <2>c, <3>2, <4>1
    <3> QED
      BY <1>r, <3>1, <3>3, <3>4, TakesAway
  <2>11. CASE CleanupOldRows(j)
    <3>1. convert[j].old \in Keys /\ UNCHANGED <<driveVars, vault>>
      BY <2>11, <2>j DEF CleanupOldRows, JobStates
    <3>2. /\ convert'[j].pc = "moved"
          /\ \A i \in Jobs \ {j} : convert'[i] = convert[i]
      BY <2>11, <2>j DEF TypeOK, CleanupOldRows, JobStates
    <3>3. \A k \in Keys :
             \/ rows'[k].status = "ABSENT"
             \/ /\ rows'[k].status = rows[k].status
                /\ rows'[k].md5 = rows[k].md5
                /\ k \in paged <=> k \in paged'
      BY <2>11, <3>1, DeleteByLogicalKeyType DEF TypeOK, CleanupOldRows
    <3> QED
      BY <1>r, <3>1, <3>2, <3>3, TakesAway
  <2> QED
    BY <2>1, <2>2, <2>3, <2>4, <2>5, <2>6, <2>7, <2>8, <2>9, <2>10, <2>11
    DEF ConvertStep
<1> QED
  BY <1>1, <1>2, <1>3, <1>4, <1>5, <1>6
  DEF Next, WorkerStep, Failure, DeleteStep

(* A SUCCESS record never stands beside a torn directory, nor beside one   *)
(* older than its md5, in any behaviour.                                   *)
THEOREM SuccessStaysWhole == Spec => []SuccessIsWhole
<1> DEFINE IInv == TypeOK /\ LockOwnership /\ WholeInv
<1>1. Init => IInv
  BY TypeInit, LockInit, WholeInit
<1>2. IInv /\ [Next]_vars => IInv'
  BY TypeStep, LockStep, WholeStep
<1>3. IInv => SuccessIsWhole
  BY WholeInvSuffices
<1> QED
  BY <1>1, <1>2, <1>3, PTL DEF Spec
=============================================================================

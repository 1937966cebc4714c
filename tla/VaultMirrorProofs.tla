-------------------------- MODULE VaultMirrorProofs --------------------------
(***************************************************************************)
(* For any number of files, places, keys and workers and any budgets, the  *)
(* records and the vault that NoteSync leaves behind behave as VaultMirror *)
(* says: every step of a conversion, a delete, Drive, a failure, a crash   *)
(* or an upgrade is a step of VaultMirror at one key, or changes none of   *)
(* what VaultMirror sees.                                                  *)
(***************************************************************************)
EXTENDS NoteSyncProofs

(* The initial tables and directories are VaultMirror's.                   *)
LEMMA MirrorInit == Init => Mirror!Init
<1> SUFFICES ASSUME Init PROVE Mirror!Init
  OBVIOUS
<1>1. \A k \in Keys : rows[k].status = "ABSENT"
  BY DEF Init, NoRow
<1>2. Status = [k \in Keys |-> "ABSENT"] /\ Claimed = [k \in Keys |-> 0]
  BY <1>1 DEF Status, Claimed, HasRow, NoMd5
<1> QED
  BY <1>2 DEF Init, Mirror!Init, NoDir, Mirror!NoDir

(* A table that changes in status and md5 at most at k changes there what  *)
(* VaultMirror sees, and nowhere else.                                     *)
LEMMA RowMoves ==
    ASSUME NEW k \in Keys,
           \A o \in Keys \ {k} : /\ rows'[o].status = rows[o].status
                                 /\ rows'[o].md5 = rows[o].md5
    PROVE  /\ Status' = [Status EXCEPT ![k] = rows'[k].status]
           /\ Claimed' = [Claimed EXCEPT ![k] = Claimed'[k]]
           /\ Claimed'[k] = IF rows'[k].status # "ABSENT"
                            THEN rows'[k].md5 ELSE NoMd5
BY DEF Status, Claimed, HasRow

(* A table whose statuses and md5s stay as they are looks the same.        *)
LEMMA RowsStay ==
    ASSUME \A o \in Keys : /\ rows'[o].status = rows[o].status
                           /\ rows'[o].md5 = rows[o].md5
    PROVE  Status' = Status /\ Claimed' = Claimed
BY DEF Status, Claimed, HasRow

(* What a stutter of VaultMirror is.                                       *)
LEMMA MirrorStutters ==
    ASSUME Status' = Status, Claimed' = Claimed, vault' = vault
    PROVE  [Mirror!Next]_(Mirror!vars)
BY DEF Mirror!vars

(* A row that becomes PENDING or ERROR and keeps its md5 is a conversion   *)
(* that begins or fails.                                                   *)
LEMMA MirrorBegins ==
    ASSUME NEW k \in Keys, vault' = vault,
           rows'[k].status \in {"PENDING", "ERROR"},
           rows'[k].md5 = IF HasRow(rows, k) THEN rows[k].md5 ELSE NoMd5,
           \A o \in Keys \ {k} : rows'[o] = rows[o]
    PROVE  Mirror!Next
<1>1. Status' = [Status EXCEPT ![k] = rows'[k].status]
  BY RowMoves
<1>2. Claimed' = Claimed
  BY DEF Claimed, HasRow
<1>3. Mirror!Begin(k) \/ Mirror!Fail(k)
  BY <1>1, <1>2 DEF Mirror!Begin, Mirror!Fail, Mirror!Becomes
<1> QED
  BY <1>3 DEF Mirror!Next

(* A directory torn beside a row that makes no claim.                      *)
LEMMA MirrorTears ==
    ASSUME NEW k \in Keys, rows' = rows, rows[k].status # "SUCCESS",
           vault' = [vault EXCEPT ![k] = Torn]
    PROVE  Mirror!Next
<1>1. Status' = Status /\ Claimed' = Claimed
  BY RowsStay
<1>2. Status[k] # "SUCCESS"
  BY DEF Status
<1>3. Mirror!Tear(k)
  BY <1>1, <1>2 DEF Mirror!Tear, Torn, Mirror!Torn
<1> QED
  BY <1>3 DEF Mirror!Next

(* A directory removed.                                                    *)
LEMMA MirrorClears ==
    ASSUME NEW k \in Keys, rows' = rows, vault' = [vault EXCEPT ![k] = NoDir]
    PROVE  Mirror!Next
<1>1. Status' = Status /\ Claimed' = Claimed
  BY RowsStay
<1>2. Mirror!Clear(k)
  BY <1>1 DEF Mirror!Clear, NoDir, Mirror!NoDir
<1> QED
  BY <1>2 DEF Mirror!Next

(* A row deleted.                                                          *)
LEMMA MirrorForgets ==
    ASSUME NEW k \in Keys, vault' = vault, rows \in Tables,
           rows' = DeleteByLogicalKey(rows, k)
    PROVE  Mirror!Next
<1>1. /\ rows'[k].status = "ABSENT"
      /\ \A o \in Keys \ {k} : /\ rows'[o].status = rows[o].status
                               /\ rows'[o].md5 = rows[o].md5
  BY DeleteByLogicalKeyType
<1>2. /\ Status' = [Status EXCEPT ![k] = "ABSENT"]
      /\ Claimed' = [Claimed EXCEPT ![k] = 0]
  BY <1>1, RowMoves DEF NoMd5
<1>3. Mirror!Forget(k)
  BY <1>2 DEF Mirror!Forget, Mirror!Becomes
<1> QED
  BY <1>3 DEF Mirror!Next

(* A step of a conversion is a step of VaultMirror at the conversion's key *)
(* or at a key it cleans up.                                               *)
LEMMA MirrorConvert ==
    ASSUME TypeOK, WholeInv, NEW j \in Jobs,
           ConvertStep(j) \/ ConvertFails(j)
    PROVE  [Mirror!Next]_(Mirror!vars)
<1> USE DEF stores
<1>j. /\ Key(j) \in Keys /\ File(j) \in Files /\ convert[j] \in JobStates
      /\ JobInv(j) /\ KeyInv(Key(j))
  BY DEF TypeOK, WholeInv, Jobs, Key, File
<1>t. rows \in Tables
  BY DEF TypeOK
<1>n. Name(Key(j)) \in Names /\ Name(convert[j].at) \in Names
  BY <1>j, PlaceParts, KeysAssumption DEF JobStates
<1>1. CASE ConvertMetadata(j) \/ ConvertDownload(j) \/ ConvertEnd(j)
  <2>1. rows' = rows /\ vault' = vault
    BY <1>1 DEF ConvertMetadata, ConvertDownload, ConvertEnd
  <2> QED
    BY <2>1, RowsStay, MirrorStutters
<1>2. CASE ConvertCheck(j)
  <2>1. /\ rows' = rows
        /\ \/ vault' = vault
           \/ Key(j) \notin paged /\ vault' = [vault EXCEPT ![Key(j)] = Torn]
    BY <1>2 DEF ConvertCheck, Seeds, Seeded
  <2>2. Key(j) \notin paged => rows[Key(j)].status # "SUCCESS"
    BY <1>j DEF KeyInv
  <2> QED
    BY <1>j, <2>1, <2>2, RowsStay, MirrorStutters, MirrorTears
<1>3. CASE ConvertPending(j)
  <2>1. vault' = vault /\ rows' = UpsertPending(rows, Key(j), File(j), convert[j].at)
    BY <1>3 DEF ConvertPending
  <2>2. convert[j].at \in Places
    BY <1>j DEF JobStates
  <2> QED
    BY <1>j, <1>t, <2>1, <2>2, UpsertPendingType, MirrorBegins
<1>4. CASE ConvertPages(j)
  <2>1. /\ rows' = rows /\ vault' = [vault EXCEPT ![Key(j)] = Torn]
        /\ rows[Key(j)].status # "SUCCESS"
    BY <1>4, <1>j DEF ConvertPages, At, JobInv, RunIsPending
  <2> QED
    BY <1>j, <2>1, MirrorTears
<1>5. CASE ConvertWrite(j) /\ vault[Key(j)] # NoDir
  <2>1. /\ rows' = rows /\ convert[j].pc = "write"
        /\ vault' = [vault EXCEPT ![Key(j)] = Whole(convert[j].content)]
    BY <1>5 DEF ConvertWrite, At
  <2>2. rows[Key(j)].status # "SUCCESS" /\ vault[Key(j)] = Torn
    BY <1>5, <1>j, <2>1 DEF JobInv, RunIsPending, RunIsWhole
  <2>3. Status' = Status /\ Claimed' = Claimed /\ Status[Key(j)] # "SUCCESS"
    BY <1>j, <2>1, <2>2, RowsStay DEF Status
  <2>4. vault'[Key(j)].content = convert[j].content
    BY <1>j, <2>1 DEF TypeOK, Whole
  <2>5. Mirror!Complete(Key(j))
    BY <2>1, <2>2, <2>3, <2>4
    DEF Mirror!Complete, Torn, Whole, Mirror!Torn, Mirror!Whole
  <2> QED
    BY <1>j, <2>5 DEF Mirror!Next
<1>6. CASE ConvertFails(j) \/ (ConvertWrite(j) /\ vault[Key(j)] = NoDir)
  <2>1. /\ vault' = vault
        /\ \E name \in Names : rows' = RecordFailure(rows, Key(j), File(j), name)
    BY <1>6, <1>n DEF ConvertFails, ConvertWrite, PersistFailure
  <2> QED
    BY <1>j, <1>t, <2>1, RecordFailureType, MirrorBegins
<1>7. CASE ConvertFinalize(j)
  <2> DEFINE k == Key(j)
  <2>1. /\ convert[j].pc = "finalize" /\ vault' = vault
        /\ rows' = MarkSuccess(rows, k, convert[j].md5)
    BY <1>7 DEF ConvertFinalize, At
  <2>2. /\ convert[j].md5 \in Md5s /\ convert[j].md5 \in Nat
        /\ convert[j].content \in Nat
    BY <1>j DEF JobStates, Md5s
  <2>3. CASE ~ HasRow(rows, k)
    BY <1>j, <1>t, <2>1, <2>2, <2>3, MarkSuccessType, RowsStay, MirrorStutters
  <2>4. CASE HasRow(rows, k)
    <3>1. /\ rows'[k].status = "SUCCESS" /\ rows'[k].md5 = convert[j].md5
          /\ \A o \in Keys \ {k} : rows'[o] = rows[o]
      BY <1>j, <1>t, <2>1, <2>2, <2>4, MarkSuccessType
    <3>2. /\ Status' = [Status EXCEPT ![k] = "SUCCESS"]
          /\ Claimed' = [Claimed EXCEPT ![k] = Claimed'[k]]
          /\ Claimed'[k] = convert[j].md5
      BY <1>j, <3>1, RowMoves
    <3>3. Status[k] = "PENDING"
      BY <1>j, <2>1, <2>4 DEF JobInv, RunIsPending, HasRow, Status
    <3>4. /\ vault[k] \in {NoDir, Whole(convert[j].content)}
          /\ convert[j].md5 <= convert[j].content
      BY <1>j, <2>1 DEF JobInv, RunIsWhole, DownloadIsNewer
    <3>5. Mirror!Agrees(k, Claimed'[k])
      BY <2>2, <3>2, <3>4 DEF Mirror!Agrees, NoDir, Whole
    <3>6. Mirror!Claim(k)
      BY <2>1, <3>2, <3>3, <3>5 DEF Mirror!Claim, Mirror!Becomes
    <3> QED
      BY <1>j, <3>6 DEF Mirror!Next
  <2> QED
    BY <2>3, <2>4
<1>8. CASE CleanupOld(j)
  <2>1. PICK old \in convert[j].stale :
           vault' = vault \/ vault' = [vault EXCEPT ![old] = NoDir]
    BY <1>8 DEF CleanupOld
  <2>2. old \in Keys /\ rows' = rows
    BY <1>8, <1>j DEF CleanupOld, JobStates
  <2> QED
    BY <2>1, <2>2, RowsStay, MirrorStutters, MirrorClears
<1>9. CASE CleanupOldRows(j)
  <2>1. /\ convert[j].old \in Keys /\ vault' = vault
        /\ rows' = rows \/ rows' = DeleteByLogicalKey(rows, convert[j].old)
    BY <1>9, <1>j DEF CleanupOldRows, JobStates
  <2> QED
    BY <1>t, <2>1, RowsStay, MirrorStutters, MirrorForgets
<1> QED
  BY <1>1, <1>2, <1>3, <1>4, <1>5, <1>6, <1>7, <1>8, <1>9 DEF ConvertStep

(* A step of a delete is a step of VaultMirror at the key of the row it    *)
(* read, and a repoint is none.                                            *)
LEMMA MirrorDelete ==
    ASSUME TypeOK, NEW d \in Deleters, DeleteStep(d)
    PROVE  [Mirror!Next]_(Mirror!vars)
<1> USE DEF stores
<1>t. /\ rows \in Tables /\ delete[d].target \in Keys
      /\ delete[d].twin \in Files \cup {NoFile}
  BY DEF TypeOK, DeleteStates
<1>1. CASE \/ DeleteFirstRead(d) \/ DeleteReread(d) \/ DeleteLookup(d)
           \/ DeleteEnqueue(d)
  <2>1. rows' = rows /\ vault' = vault
    BY <1>1 DEF DeleteFirstRead, DeleteReread, DeleteLookup, DeleteEnqueue
  <2> QED
    BY <2>1, RowsStay, MirrorStutters
<1>2. CASE DeleteRepoint(d)
  <2>1. vault' = vault /\ rows' = SetCurrentFileId(rows, delete[d].target, delete[d].twin)
    BY <1>2 DEF DeleteRepoint
  <2> QED
    BY <1>t, <2>1, SetCurrentFileIdType, RowsStay, MirrorStutters
<1>3. CASE DeleteRmtree(d)
  <2>1. /\ rows' = rows
        /\ vault' = vault \/ vault' = [vault EXCEPT ![delete[d].target] = NoDir]
    BY <1>3 DEF DeleteRmtree
  <2> QED
    BY <1>t, <2>1, RowsStay, MirrorStutters, MirrorClears
<1>4. CASE DeleteRows(d)
  <2>1. vault' = vault /\ rows' = DeleteByLogicalKey(rows, delete[d].target)
    BY <1>4 DEF DeleteRows
  <2> QED
    BY <1>t, <2>1, MirrorForgets
<1> QED
  BY <1>1, <1>2, <1>3, <1>4 DEF DeleteStep

(* Every step of the worker, of Drive and of the failures, from a state    *)
(* that keeps the invariants, is a step of VaultMirror or a stutter.       *)
LEMMA MirrorStep ==
    TypeOK /\ WholeInv /\ [Next]_vars => [Mirror!Next]_(Mirror!vars)
<1> SUFFICES ASSUME TypeOK, WholeInv, [Next]_vars
             PROVE  [Mirror!Next]_(Mirror!vars)
  OBVIOUS
<1>1. CASE \E j \in Jobs : ConvertStep(j) \/ ConvertFails(j)
  BY <1>1, MirrorConvert
<1>2. CASE \E d \in Deleters : DeleteStep(d)
  BY <1>2, MirrorDelete
<1>3. CASE DriveStep
  <2>1. rows' = rows /\ vault' = vault
    BY <1>3
    DEF DriveStep, Create, Move, Copy, Edit, Trash, Restore, Remove, Change, stores
  <2> QED
    BY <2>1, RowsStay, MirrorStutters
<1>4. CASE \/ \E f \in Files : Dispatch(f) \/ Sweep(f) \/ DispatchFails(f)
           \/ \E j \in Jobs : ConvertStart(j)
           \/ \E d \in Deleters : DeleteLookupFails(d)
           \/ \E d \in Deleters, f \in Files : DeleteStart(d, f)
           \/ CursorExpires \/ Crash \/ Upgrade \/ UNCHANGED vars
  <2>1. rows' = rows /\ vault' = vault
    BY <1>4
    DEF Dispatch, Sweep, DispatchFails, ConvertStart, DeleteLookupFails, DeleteStart,
        CursorExpires, Crash, Upgrade, stores, vars
  <2> QED
    BY <2>1, RowsStay, MirrorStutters
<1> QED
  BY <1>1, <1>2, <1>3, <1>4 DEF Next, WorkerStep, Failure

(* The worker keeps VaultMirror's promise, in every behaviour.             *)
THEOREM Implements == Spec => MirrorsVault
<1> DEFINE IInv == TypeOK /\ LockOwnership /\ WholeInv
<1>1. Init => IInv /\ Mirror!Init
  BY TypeInit, LockInit, WholeInit, MirrorInit
<1>2. IInv /\ [Next]_vars => IInv'
  BY TypeStep, LockStep, WholeStep
<1>3. IInv /\ [Next]_vars => [Mirror!Next]_(Mirror!vars)
  BY MirrorStep
<1> QED
  BY <1>1, <1>2, <1>3, PTL DEF Spec, MirrorsVault, Mirror!Spec

-----------------------------------------------------------------------------
(* What the promise is worth: of whatever keeps it, a SUCCESS never stands *)
(* beside a directory that is torn, or older than its md5.  Nothing of the *)
(* worker is used here but the tables VaultMirror sees.                    *)
VaultOfKeys == vault = [k \in Keys |-> vault[k]]

(* Each step of VaultMirror keeps Honest.                                  *)
LEMMA HonestStep ==
    VaultOfKeys /\ Mirror!Honest /\ [Mirror!Next]_(Mirror!vars)
       => (VaultOfKeys /\ Mirror!Honest)'
<1> SUFFICES ASSUME VaultOfKeys, Mirror!Honest, [Mirror!Next]_(Mirror!vars)
             PROVE  (VaultOfKeys /\ Mirror!Honest)'
  OBVIOUS
<1>f. /\ Status = [k \in Keys |-> Status[k]]
      /\ Claimed = [k \in Keys |-> Claimed[k]]
  BY DEF Status, Claimed
<1> USE <1>f DEF VaultOfKeys, Mirror!Honest, Mirror!Agrees
<1>1. CASE UNCHANGED Mirror!vars
  BY <1>1 DEF Mirror!vars
<1>2. CASE \E k \in Keys : Mirror!Begin(k) \/ Mirror!Fail(k) \/ Mirror!Forget(k)
  <2> PICK k \in Keys : Mirror!Begin(k) \/ Mirror!Fail(k) \/ Mirror!Forget(k)
    BY <1>2
  <2>1. /\ vault' = vault
        /\ Status'[k] # "SUCCESS"
        /\ \A o \in Keys \ {k} : Status'[o] = Status[o] /\ Claimed'[o] = Claimed[o]
    BY DEF Mirror!Begin, Mirror!Fail, Mirror!Forget, Mirror!Becomes
  <2> QED
    BY <2>1
<1>3. CASE \E k \in Keys : Mirror!Tear(k) \/ Mirror!Complete(k) \/ Mirror!Clear(k)
  <2> PICK k \in Keys : Mirror!Tear(k) \/ Mirror!Complete(k) \/ Mirror!Clear(k)
    BY <1>3
  <2>1. PICK dir : vault' = [vault EXCEPT ![k] = dir]
    BY DEF Mirror!Tear, Mirror!Complete, Mirror!Clear
  <2>2. /\ vault'[k] = dir
        /\ \A o \in Keys \ {k} : vault'[o] = vault[o]
        /\ vault' = [o \in Keys |-> vault'[o]]
    BY <2>1
  <2>3. Status' = Status /\ Claimed' = Claimed
    BY DEF Mirror!Tear, Mirror!Complete, Mirror!Clear
  <2>4. Status[k] = "SUCCESS" => vault'[k].state = "none"
    BY DEF Mirror!Tear, Mirror!Complete, Mirror!Clear, Mirror!NoDir
  <2> QED
    BY <2>2, <2>3, <2>4
<1>4. CASE \E k \in Keys : Mirror!Claim(k)
  <2> PICK k \in Keys : Mirror!Claim(k)
    BY <1>4
  <2>1. /\ vault' = vault
        /\ vault[k].state = "none" \/ (/\ vault[k].state = "whole"
                                       /\ vault[k].content >= Claimed'[k])
        /\ \A o \in Keys \ {k} : Status'[o] = Status[o] /\ Claimed'[o] = Claimed[o]
    BY DEF Mirror!Claim, Mirror!Becomes
  <2> QED
    BY <2>1
<1> QED
  BY <1>1, <1>2, <1>3, <1>4 DEF Mirror!Next

(* VaultMirror's promise implies that a SUCCESS is whole.                  *)
THEOREM MirrorIsHonest == MirrorsVault => []SuccessIsWhole
<1>1. Mirror!Init => VaultOfKeys /\ Mirror!Honest
  BY DEF Mirror!Init, Mirror!Honest, VaultOfKeys
<1>2. Mirror!Honest => SuccessIsWhole
  BY DEF Mirror!Honest, Mirror!Agrees, SuccessIsWhole, Status, Claimed, HasRow
<1> QED
  BY <1>1, <1>2, HonestStep, PTL DEF MirrorsVault, Mirror!Spec
=============================================================================

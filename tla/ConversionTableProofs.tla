----------------------- MODULE ConversionTableProofs -----------------------
(***************************************************************************)
(* Facts about the repository functions of ConversionTable, for any files, *)
(* places and keys: what each returns is a table, what it writes in its    *)
(* row, and which rows it leaves alone.                                    *)
(***************************************************************************)
EXTENDS ConversionTable, TLAPS

(* A place's parts, as columns. *)
LEMMA PlaceParts ==
    ASSUME NEW p \in Places
    PROVE  Folder(p) \in Folders /\ Name(p) \in Names
BY DEF Folders, Names

(* The empty row is a row. *)
LEMMA NoRowType == NoRow \in Rows
BY DEF NoRow, Rows, Md5s, NoMd5, Statuses

(* The row an insert works on is a row. *)
LEMMA InsertedType ==
    ASSUME NEW t \in Tables, NEW k \in Keys
    PROVE  /\ Inserted(t, k) \in Rows
           /\ Inserted(t, k).md5 = IF HasRow(t, k) THEN t[k].md5 ELSE NoMd5
           /\ Inserted(t, k).parent = IF HasRow(t, k) THEN t[k].parent ELSE NoFolder
<1>1. t[k] \in Rows
  BY DEF Tables
<1>2. {o \in Keys : HasRow(t, o)} \in SUBSET Keys
  OBVIOUS
<1>3. LET row == [NoRow EXCEPT !.older = {o \in Keys : HasRow(t, o)}]
      IN  row \in Rows /\ row.md5 = NoMd5 /\ row.parent = NoFolder
  BY <1>2, NoRowType DEF Rows, NoRow
<1> QED
  BY <1>1, <1>3 DEF Inserted

(* upsert(PENDING) returns a table that says PENDING at its key.           *)
LEMMA UpsertPendingType ==
    ASSUME NEW t \in Tables, NEW k \in Keys, NEW f \in Files, NEW at \in Places
    PROVE  /\ UpsertPending(t, k, f, at) \in Tables
           /\ UpsertPending(t, k, f, at)[k].status = "PENDING"
           /\ UpsertPending(t, k, f, at)[k].md5 =
                 IF HasRow(t, k) THEN t[k].md5 ELSE NoMd5
           /\ UpsertPending(t, k, f, at)[k].file = f
           /\ UpsertPending(t, k, f, at)[k].parent = Folder(at)
           /\ UpsertPending(t, k, f, at)[k].name = Name(at)
           /\ \A o \in Keys \ {k} : UpsertPending(t, k, f, at)[o] = t[o]
<1> DEFINE row == [Inserted(t, k) EXCEPT
                      !.file = f, !.parent = Folder(at), !.name = Name(at),
                      !.status = "PENDING", !.out = TRUE]
<1>1. /\ Inserted(t, k) \in Rows
      /\ Inserted(t, k).md5 = IF HasRow(t, k) THEN t[k].md5 ELSE NoMd5
  BY InsertedType
<1>2. Folder(at) \in Folders /\ Name(at) \in Names
  BY PlaceParts
<1>3. /\ row \in Rows /\ row.status = "PENDING" /\ row.md5 = Inserted(t, k).md5
      /\ row.file = f /\ row.parent = Folder(at) /\ row.name = Name(at)
  BY <1>1, <1>2 DEF Rows, Statuses
<1>4. UpsertPending(t, k, f, at) = [t EXCEPT ![k] = row]
  BY DEF UpsertPending
<1> HIDE DEF row
<1> QED
  BY <1>1, <1>3, <1>4 DEF Tables

(* record_failure returns a table that says ERROR at its key.              *)
LEMMA RecordFailureType ==
    ASSUME NEW t \in Tables, NEW k \in Keys, NEW f \in Files, NEW name \in Names
    PROVE  /\ RecordFailure(t, k, f, name) \in Tables
           /\ RecordFailure(t, k, f, name)[k].status = "ERROR"
           /\ RecordFailure(t, k, f, name)[k].md5 =
                 IF HasRow(t, k) THEN t[k].md5 ELSE NoMd5
           /\ RecordFailure(t, k, f, name)[k].file = f
           /\ RecordFailure(t, k, f, name)[k].parent =
                 IF HasRow(t, k) THEN t[k].parent ELSE NoFolder
           /\ RecordFailure(t, k, f, name)[k].name = name
           /\ \A o \in Keys \ {k} : RecordFailure(t, k, f, name)[o] = t[o]
<1> DEFINE row == [Inserted(t, k) EXCEPT
                      !.file = f, !.name = name, !.status = "ERROR"]
<1>1. /\ Inserted(t, k) \in Rows
      /\ Inserted(t, k).md5 = IF HasRow(t, k) THEN t[k].md5 ELSE NoMd5
      /\ Inserted(t, k).parent = IF HasRow(t, k) THEN t[k].parent ELSE NoFolder
  BY InsertedType
<1>2. /\ row \in Rows /\ row.status = "ERROR" /\ row.md5 = Inserted(t, k).md5
      /\ row.file = f /\ row.parent = Inserted(t, k).parent /\ row.name = name
  BY <1>1 DEF Rows, Statuses
<1>3. RecordFailure(t, k, f, name) = [t EXCEPT ![k] = row]
  BY DEF RecordFailure
<1> HIDE DEF row
<1> QED
  BY <1>1, <1>2, <1>3 DEF Tables

(* mark_success gives its md5 to the row of its key, and makes none.       *)
LEMMA MarkSuccessType ==
    ASSUME NEW t \in Tables, NEW k \in Keys, NEW md5 \in Md5s
    PROVE  /\ MarkSuccess(t, k, md5) \in Tables
           /\ ~ HasRow(t, k) => MarkSuccess(t, k, md5) = t
           /\ HasRow(t, k) => /\ MarkSuccess(t, k, md5)[k].md5 = md5
                              /\ MarkSuccess(t, k, md5)[k].status = "SUCCESS"
           /\ MarkSuccess(t, k, md5)[k].file = t[k].file
           /\ MarkSuccess(t, k, md5)[k].parent = t[k].parent
           /\ MarkSuccess(t, k, md5)[k].name = t[k].name
           /\ \A o \in Keys \ {k} : MarkSuccess(t, k, md5)[o] = t[o]
<1> DEFINE row == [t[k] EXCEPT !.md5 = md5, !.status = "SUCCESS"]
<1>1. t[k] \in Rows
  BY DEF Tables
<1>2. /\ row \in Rows /\ row.md5 = md5 /\ row.status = "SUCCESS"
      /\ row.file = t[k].file /\ row.parent = t[k].parent /\ row.name = t[k].name
  BY <1>1 DEF Rows, Statuses
<1>3. MarkSuccess(t, k, md5) = IF HasRow(t, k) THEN [t EXCEPT ![k] = row] ELSE t
  BY DEF MarkSuccess
<1> HIDE DEF row
<1> QED
  BY <1>2, <1>3 DEF Tables

(* A repoint changes no status and no md5, so it turns no stale record     *)
(* into an up-to-date one by itself.                                       *)
LEMMA SetCurrentFileIdType ==
    ASSUME NEW t \in Tables, NEW k \in Keys, NEW f \in Files \cup {NoFile}
    PROVE  /\ SetCurrentFileId(t, k, f) \in Tables
           /\ \A o \in Keys : /\ SetCurrentFileId(t, k, f)[o].status = t[o].status
                              /\ SetCurrentFileId(t, k, f)[o].md5 = t[o].md5
                              /\ SetCurrentFileId(t, k, f)[o].parent = t[o].parent
                              /\ SetCurrentFileId(t, k, f)[o].name = t[o].name
           /\ HasRow(t, k) => SetCurrentFileId(t, k, f)[k].file = f
           /\ \A o \in Keys \ {k} : SetCurrentFileId(t, k, f)[o] = t[o]
<1> DEFINE row == [t[k] EXCEPT !.file = f]
<1>1. t[k] \in Rows
  BY DEF Tables
<1>2. /\ row \in Rows /\ row.status = t[k].status /\ row.md5 = t[k].md5
      /\ row.file = f /\ row.parent = t[k].parent /\ row.name = t[k].name
  BY <1>1 DEF Rows
<1>3. SetCurrentFileId(t, k, f) = IF HasRow(t, k) THEN [t EXCEPT ![k] = row] ELSE t
  BY DEF SetCurrentFileId
<1> HIDE DEF row
<1> QED
  BY <1>2, <1>3 DEF Tables

(* delete_by_logical_key removes the row of its key, and of the others     *)
(* only their memory of it.                                                *)
LEMMA DeleteByLogicalKeyType ==
    ASSUME NEW t \in Tables, NEW k \in Keys
    PROVE  /\ DeleteByLogicalKey(t, k) \in Tables
           /\ DeleteByLogicalKey(t, k)[k].status = "ABSENT"
           /\ \A o \in Keys \ {k} :
                 /\ DeleteByLogicalKey(t, k)[o].status = t[o].status
                 /\ DeleteByLogicalKey(t, k)[o].md5 = t[o].md5
                 /\ DeleteByLogicalKey(t, k)[o].file = t[o].file
                 /\ DeleteByLogicalKey(t, k)[o].parent = t[o].parent
                 /\ DeleteByLogicalKey(t, k)[o].name = t[o].name
<1> DEFINE row(o) == [t[o] EXCEPT !.older = @ \ {k}]
<1>1. \A o \in Keys : t[o] \in Rows
  BY DEF Tables
<1>2. \A o \in Keys : /\ row(o) \in Rows
                      /\ row(o).status = t[o].status
                      /\ row(o).md5 = t[o].md5
                      /\ row(o).file = t[o].file
                      /\ row(o).parent = t[o].parent
                      /\ row(o).name = t[o].name
  BY <1>1 DEF Rows
<1>3. NoRow \in Rows /\ NoRow.status = "ABSENT"
  BY NoRowType DEF NoRow
<1>4. DeleteByLogicalKey(t, k) = [o \in Keys |-> IF o = k THEN NoRow ELSE row(o)]
  BY DEF DeleteByLogicalKey
<1> HIDE DEF row
<1> QED
  BY <1>2, <1>3, <1>4 DEF Tables
=============================================================================

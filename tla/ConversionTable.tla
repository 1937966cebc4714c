-------------------------- MODULE ConversionTable --------------------------
(***************************************************************************)
(* The conversion_records table (state/conversions.py): one row for each   *)
(* logical key, that is for each place (folder, name) inside the source    *)
(* folder.  Every operator is one repository function: it takes a table    *)
(* and returns the table that the function's transaction leaves behind.    *)
(*                                                                         *)
(* A place is a pair <<folder, name>>.  Columns no decision reads          *)
(* (attempts, last_error, timestamps) are left out; source_path is the     *)
(* logical key itself, and of output_rel_path a row keeps whether it is    *)
(* non-empty, since a non-empty one is always the key's own directory.     *)
(* A query by file id answers in rowid order: a row keeps the set of keys  *)
(* whose rows were inserted before it.                                     *)
(***************************************************************************)
EXTENDS Naturals

CONSTANTS
    Files,      \* Drive file ids
    Places,     \* the places a file can be at, pairs <<folder, name>>
    Keys,       \* the places inside the source folder: the logical keys
    NoFile,     \* the file id of a row that is not there
    NoFolder    \* a parent_folder_id that is NULL

Folder(p) == p[1]
Name(p) == p[2]

Folders == {Folder(p) : p \in Places}
Names == {Name(p) : p \in Places}

ASSUME KeysAssumption == Keys \subseteq Places /\ Keys # {}
ASSUME PlacesAssumption == \A p \in Places : p = <<Folder(p), Name(p)>>
ASSUME NoFileAssumption == NoFile \notin Files
ASSUME NoFolderAssumption == NoFolder \notin Folders

(* An md5 is the number of the content it hashes; 0 is a NULL source_md5.  *)
Md5s == Nat
NoMd5 == 0

Statuses == {"ABSENT", "PENDING", "SUCCESS", "ERROR"}

Rows == [file : Files \cup {NoFile}, parent : Folders \cup {NoFolder},
         name : Names \cup {NoFolder}, md5 : Md5s, status : Statuses,
         out : BOOLEAN, older : SUBSET Keys]

NoRow == [file |-> NoFile, parent |-> NoFolder, name |-> NoFolder,
          md5 |-> NoMd5, status |-> "ABSENT", out |-> FALSE, older |-> {}]

Tables == [Keys -> Rows]

HasRow(t, k) == t[k].status # "ABSENT"

(* list_by_current_file_id, and the row that get_by_current_file_id takes  *)
(* from it: the first, that is the one inserted earliest.                  *)
RowsOf(t, f) == {k \in Keys : HasRow(t, k) /\ t[k].file = f}

Earliest(t, S) == {k \in S : t[k].older \cap S = {}}

(* The row an INSERT ... ON CONFLICT DO UPDATE works on: the one there is, *)
(* or a new one, behind all others.                                        *)
Inserted(t, k) ==
    IF HasRow(t, k) THEN t[k]
    ELSE [NoRow EXCEPT !.older = {o \in Keys : HasRow(t, o)}]

(* Mutants of UpsertPending: a status an existing row keeps, and an UPDATE *)
(* in place of the INSERT ... ON CONFLICT.                                 *)
UpsertKeepsStatus(t, k, f, at) ==
    [t EXCEPT ![k] = [Inserted(t, k) EXCEPT
        !.file = f, !.parent = Folder(at), !.name = Name(at), !.out = TRUE,
        !.status = IF HasRow(t, k) THEN @ ELSE "PENDING"]]

UpdatePending(t, k, f, at) ==
    IF HasRow(t, k) THEN UpsertKeepsStatus(t, k, f, at) ELSE t

(* upsert with status PENDING, its only caller: an existing row keeps its  *)
(* md5, everything else is overwritten.                                    *)
UpsertPending(t, k, f, at) ==
    [t EXCEPT ![k] = [Inserted(t, k) EXCEPT
        !.file = f, !.parent = Folder(at), !.name = Name(at),
        !.status = "PENDING", !.out = TRUE]]

(* record_failure: an existing row keeps parent, md5 and output path; a    *)
(* new one has none of them.                                               *)
RecordFailure(t, k, f, name) ==
    [t EXCEPT ![k] = [Inserted(t, k) EXCEPT
        !.file = f, !.name = name, !.status = "ERROR"]]

(* mark_success: an UPDATE, so nothing happens when the row is gone.       *)
MarkSuccess(t, k, md5) ==
    IF HasRow(t, k)
    THEN [t EXCEPT ![k] = [@ EXCEPT !.md5 = md5, !.status = "SUCCESS"]]
    ELSE t

(* set_current_file_id: the repoint of delete_output.                      *)
SetCurrentFileId(t, k, f) ==
    IF HasRow(t, k) THEN [t EXCEPT ![k] = [@ EXCEPT !.file = f]] ELSE t

(* delete_by_logical_key. *)
DeleteByLogicalKey(t, k) ==
    [o \in Keys |-> IF o = k THEN NoRow ELSE [t[o] EXCEPT !.older = @ \ {k}]]

(* Mutant of UpToDate: the md5 is not compared. *)
UpToDateIgnoresMd5(t, k, f, md5) == t[k].status = "SUCCESS" /\ t[k].file = f

(* _already_up_to_date of convert_note; _needs_conversion of backfill is   *)
(* its negation.                                                           *)
UpToDate(t, k, f, md5) ==
    /\ t[k].status = "SUCCESS"
    /\ t[k].file = f
    /\ t[k].md5 = md5
=============================================================================

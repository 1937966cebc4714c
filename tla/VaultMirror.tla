----------------------------- MODULE VaultMirror -----------------------------
(***************************************************************************)
(* What the worker promises of each key to whoever reads the vault and the *)
(* conversion records, whatever happens in Drive and to the process: a     *)
(* directory is only made whole where it is torn and only torn where the   *)
(* record makes no claim, SUCCESS is only claimed by a conversion that has *)
(* begun, beside a directory that is whole and at least as new as the md5  *)
(* claimed, or beside none; a directory may go at any time, and so may a   *)
(* record.  NoteSync implements it.                                        *)
(***************************************************************************)
EXTENDS Naturals

CONSTANT Keys  \* the logical keys

VARIABLES
    status,  \* of each key's record, ABSENT if there is none
    md5,     \* the content a record claims, 0 before its first success
    output   \* the directory of each key

vars == <<status, md5, output>>

NoDir == [state |-> "none", content |-> 0]
Torn == [state |-> "torn", content |-> 0]
Whole(v) == [state |-> "whole", content |-> v]

Init ==
    /\ status = [k \in Keys |-> "ABSENT"]
    /\ md5 = [k \in Keys |-> 0]
    /\ output = [k \in Keys |-> NoDir]

Becomes(k, s) == status' = [status EXCEPT ![k] = s]

(* A conversion begins, over whatever there was, or fails. *)
Begin(k) == Becomes(k, "PENDING") /\ UNCHANGED <<md5, output>>
Fail(k) == Becomes(k, "ERROR") /\ UNCHANGED <<md5, output>>

(* Pages are being written, which takes back any earlier rendering. *)
Tear(k) ==
    /\ status[k] # "SUCCESS"
    /\ output' = [output EXCEPT ![k] = Torn]
    /\ UNCHANGED <<status, md5>>

(* The last page is written. *)
Complete(k) ==
    /\ status[k] # "SUCCESS"
    /\ output[k] = Torn
    /\ output' = [output EXCEPT ![k] = Whole(output'[k].content)]
    /\ UNCHANGED <<status, md5>>

(* The record and the directory of a success agree. *)
Agrees(k, m) ==
    \/ output[k].state = "none"
    \/ output[k].state = "whole" /\ output[k].content >= m

Claim(k) ==
    /\ status[k] = "PENDING"
    /\ Becomes(k, "SUCCESS")
    /\ md5' = [md5 EXCEPT ![k] = md5'[k]]
    /\ Agrees(k, md5'[k])
    /\ UNCHANGED output

(* The directory goes; the record goes. *)
Clear(k) == output' = [output EXCEPT ![k] = NoDir] /\ UNCHANGED <<status, md5>>

Forget(k) ==
    /\ Becomes(k, "ABSENT")
    /\ md5' = [md5 EXCEPT ![k] = 0]
    /\ UNCHANGED output

Next ==
    \E k \in Keys :
        \/ Begin(k) \/ Fail(k) \/ Tear(k) \/ Complete(k) \/ Claim(k)
        \/ Clear(k) \/ Forget(k)

Spec == Init /\ [][Next]_vars

(* What follows: a success is never beside a directory torn or too old.    *)
Honest == \A k \in Keys : status[k] = "SUCCESS" => Agrees(k, md5[k])
=============================================================================

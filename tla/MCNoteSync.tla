----------------------------- MODULE MCNoteSync -----------------------------
(***************************************************************************)
(* Small instances of NoteSync for TLC: the places, the keys and, for each *)
(* run, how often the world outside the worker acts or fails.              *)
(***************************************************************************)
EXTENDS NoteSync, TLC

CONSTANTS f1, f2, d1, d2

(* A note of the source folder, the place it is renamed to, and a place    *)
(* outside the source folder.                                              *)
ka == <<"src", "a">>
kb == <<"src", "b">>
outside == <<"other", "a">>

OneKey == {ka}
TwoKeys == {ka, kb}
KeyAndOutside == {ka, outside}

(* Neither files nor delete workers have names the code looks at. *)
Symmetry == Permutations({f1, f2}) \cup Permutations({d1, d2})

Spending(uses) ==
    [kind \in Kinds |-> IF kind \in DOMAIN uses THEN uses[kind] ELSE 0]

(* One key, two files: a note is replaced by a new upload. *)
ReplaceBudget == Spending([create |-> 2, copy |-> 1, edit |-> 1, trash |-> 2,
                           fault |-> 1, crash |-> 1])

(* Two keys, one file: a note is renamed, edited, and renamed again. *)
MoveBudget == Spending([create |-> 1, edit |-> 1, move |-> 2, expire |-> 1])

(* One key, two files, on the way to convergence. *)
ReplaceLiveBudget == Spending([create |-> 2, trash |-> 1, fault |-> 1,
                               crash |-> 1, upgrade |-> 1])

(* One key and a place outside, one file: a note leaves and comes back. *)
LeaveBudget == Spending([create |-> 1, edit |-> 1, move |-> 1, trash |-> 1,
                         restore |-> 1, remove |-> 1, crash |-> 1])

(* The smallest budgets that show each finding. *)
UnlockedBudget == Spending([create |-> 2, move |-> 1, trash |-> 1])
RemovedBudget == Spending([create |-> 1, trash |-> 1])
RenamedBudget == Spending([create |-> 1, move |-> 1])
LostBudget == Spending([create |-> 1, move |-> 1, crash |-> 1])
=============================================================================

----------------------------- MODULE LogFollower -----------------------------
(***************************************************************************)
(* What the worker promises of Drive's change log, whatever fails, crashes *)
(* or is cancelled on the way: changes are delivered in the order of the   *)
(* log, at most a page ahead of the saved cursor; the cursor is saved only *)
(* where every change before it was delivered, passed over or given up;    *)
(* and changes are only given up where the cursor is set to the log's end. *)
(* ChangeFeed implements it.                                               *)
(***************************************************************************)
EXTENDS Integers

CONSTANTS
    Removals,  \* the changes that report a file removed or trashed
    PageSize   \* how far a page reaches

VARIABLES
    head,   \* the number of the last change in the log
    upto,   \* the saved cursor, -1 if there is none
    done,   \* the changes delivered or passed over
    given   \* the changes up to this one may have been given up

vars == <<head, upto, done, given>>

Init ==
    /\ head = 0
    /\ upto = -1
    /\ done = {}
    /\ given = 0

Answered(i) == i \in done \/ i <= given

(* What a page that starts at the saved cursor may reach. *)
InReach(i) == upto >= 0 /\ i <= upto + PageSize

Log == head' = head + 1 /\ UNCHANGED <<upto, done, given>>

(* A change is delivered once those before it are dealt with. *)
Deliver(i) ==
    /\ InReach(i)
    /\ \A j \in 1..(i - 1) : Answered(j)
    /\ done' = done \cup {i}
    /\ UNCHANGED <<head, upto, given>>

(* Changes that cannot be made sense of are passed over, out of turn. *)
PassOver(bad) ==
    /\ \A i \in bad : InReach(i) /\ i \notin Removals
    /\ done' = done \cup bad
    /\ UNCHANGED <<head, upto, given>>

Save(i) ==
    /\ InReach(i)
    /\ \A j \in 1..i : Answered(j)
    /\ upto' = i
    /\ UNCHANGED <<head, done, given>>

(* The cursor is set to the log's end. *)
Jump ==
    /\ upto' = head
    /\ given' = head
    /\ UNCHANGED <<head, done>>

Next ==
    \/ Log \/ Jump
    \/ \E i \in 1..head : Deliver(i)
    \/ \E bad \in SUBSET (1..head) : PassOver(bad)
    \/ \E i \in 0..head : Save(i)

Spec == Init /\ [][Next]_vars

(* What follows: nothing behind the cursor is missing, and no removal was  *)
(* delivered before the changes that precede it.                           *)
NoneMissing == \A i \in 1..upto : Answered(i)

RemovalsInOrder ==
    \A i \in done \cap Removals : \A j \in 1..(i - 1) : Answered(j)
=============================================================================

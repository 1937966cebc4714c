---------------------------- MODULE MCChangeFeed ----------------------------
(***************************************************************************)
(* A small instance of ChangeFeed for TLC: two changes, the second one a   *)
(* removal, on pages of one, so that a walk has two pages and the cursor   *)
(* is saved between them; one push, one loss of the log, and a failure or  *)
(* a crash anywhere.                                                       *)
(***************************************************************************)
EXTENDS ChangeFeed

SecondChange == {2}

FeedBudget == [change |-> 2, push |-> 1, forget |-> 1, failure |-> 1]
=============================================================================

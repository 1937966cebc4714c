--------------------------- MODULE MCWatchChannel ---------------------------
(***************************************************************************)
(* A small instance of WatchChannel for TLC.  A channel lives for two days *)
(* and is due on its last one, and a single jump of the clock goes one day *)
(* or two: a channel can be left alone, renewed in time, or expire.        *)
(***************************************************************************)
EXTENDS WatchChannel

CONSTANTS u1, u2

(* Three settings: to a URL, to another one, and back. *)
ChannelBudget == [wait |-> 1, setting |-> 3, failure |-> 1]
=============================================================================

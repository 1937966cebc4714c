---------------------------- MODULE MCPageCache ----------------------------
(***************************************************************************)
(* Instances of PageCache for TLC.  Page images are interchangeable.       *)
(***************************************************************************)
EXTENDS PageCache, TLC

Symmetry == Permutations(Pages)
=============================================================================

---------------------------- MODULE MCAccessGuard ----------------------------
(***************************************************************************)
(* Instances of AccessGuard for TLC.                                       *)
(***************************************************************************)
EXTENDS AccessGuard, TLC

Symmetry == Permutations(Threads) \cup Permutations(Keys)
=============================================================================

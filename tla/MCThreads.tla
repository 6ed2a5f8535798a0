----------------------------- MODULE MCThreads -----------------------------
(***************************************************************************)
(* Small instances of Threads.                                             *)
(***************************************************************************)
EXTENDS Threads, TLC

(* Threads other than the idle, timer and main thread play the same role. *)
Symmetry == Permutations(User \ {Main})
=============================================================================

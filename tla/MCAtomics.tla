----------------------------- MODULE MCAtomics -----------------------------
(* The instance of Atomics for TLC: every operation is called. *)
EXTENDS Atomics

Calls == [fn : Function, num : {1}] \cup [fn : {"set"}, num : {0}]

=============================================================================

------------------------------- MODULE MCHeap -------------------------------
(***************************************************************************)
(* Small instances of Heap.                                                *)
(***************************************************************************)
EXTENDS Heap
=============================================================================

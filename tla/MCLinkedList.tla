---------------------------- MODULE MCLinkedList ----------------------------
(* The instance of LinkedList for TLC. *)
EXTENDS LinkedList
=============================================================================

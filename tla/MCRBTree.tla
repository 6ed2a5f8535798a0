------------------------------ MODULE MCRBTree ------------------------------
(***************************************************************************)
(* Small instances of RBTree.                                              *)
(***************************************************************************)
EXTENDS RBTree
=============================================================================

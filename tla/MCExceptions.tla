---------------------------- MODULE MCExceptions ----------------------------
(* Two user threads and a kernel thread on one CPU. *)
EXTENDS Exceptions
=============================================================================

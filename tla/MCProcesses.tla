---------------------------- MODULE MCProcesses ----------------------------
(* Two threads that create and join processes. *)
EXTENDS Processes
=============================================================================

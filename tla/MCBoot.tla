------------------------------- MODULE MCBoot -------------------------------
(***************************************************************************)
(* Small instances of Boot.                                                *)
(***************************************************************************)
EXTENDS Boot
=============================================================================

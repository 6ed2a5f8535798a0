-------------------------- MODULE MCAddressSpaces --------------------------
(***************************************************************************)
(* Small instances of AddressSpaces.                                       *)
(***************************************************************************)
EXTENDS AddressSpaces
=============================================================================

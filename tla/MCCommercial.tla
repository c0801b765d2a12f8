---------------------------- MODULE MCCommercial ----------------------------
(***************************************************************************)
(* Small instances of Commercial.                                          *)
(***************************************************************************)
EXTENDS Commercial

=============================================================================

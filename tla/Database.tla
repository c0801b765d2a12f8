------------------------------ MODULE Database ------------------------------
(***************************************************************************)
(* What the modules about rows of the database share.                      *)
(***************************************************************************)
CONSTANT None  \* NULL: no row, no value, no holder of a lock
=============================================================================

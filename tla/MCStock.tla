------------------------------ MODULE MCStock -------------------------------
(***************************************************************************)
(* Small instances of Stock.                                               *)
(***************************************************************************)
EXTENDS Stock, TLC

Symmetry == Permutations(Requests)
=============================================================================

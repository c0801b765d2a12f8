----------------------------- MODULE MCAccounts -----------------------------
(***************************************************************************)
(* Small instances of Accounts.                                            *)
(***************************************************************************)
EXTENDS Accounts, TLC

\* Requests, tokens, invitations and passwords are alike.
Symmetry == Permutations(Requests) \cup Permutations(Tokens)
              \cup Permutations(Invitations) \cup Permutations(Passwords)
=============================================================================

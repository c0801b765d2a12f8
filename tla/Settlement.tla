----------------------------- MODULE Settlement -----------------------------
(***************************************************************************)
(* What the gateway promises about the money of one appointment: a payment *)
(* is made from a charge only after somebody vouched for it, the provider  *)
(* or the establishment, and a charge is tied to a payment, for good, only *)
(* after one was made from it.  How often one is made is left open.        *)
(***************************************************************************)
EXTENDS Integers

CONSTANT Charges

VARIABLES
  vouched,  \* charges somebody said are paid
  made,     \* [Charges -> Nat]: payments made from each that are not canceled
  backed,   \* charges a payment was made from, canceled since or not
  linked    \* charges tied to a payment

settlementVars == <<vouched, made, backed, linked>>

SettlementInit ==
  /\ vouched = {}
  /\ made = [c \in Charges |-> 0]
  /\ backed = {}
  /\ linked = {}

Vouch(c) ==
  /\ vouched' = vouched \cup {c}
  /\ UNCHANGED <<made, backed, linked>>

Make(c) ==
  /\ c \in vouched
  /\ made' = [made EXCEPT ![c] = @ + 1]
  /\ backed' = backed \cup {c}
  /\ UNCHANGED <<vouched, linked>>

Tie(c) ==
  /\ c \in backed
  /\ linked' = linked \cup {c}
  /\ UNCHANGED <<vouched, made, backed>>

\* The establishment cancels a payment; the charge stays tied to it
Return(c) ==
  /\ made[c] > 0
  /\ made' = [made EXCEPT ![c] = @ - 1]
  /\ UNCHANGED <<vouched, backed, linked>>

SettlementNext == \E c \in Charges : Vouch(c) \/ Make(c) \/ Tie(c) \/ Return(c)

SettlementSpec == SettlementInit /\ [][SettlementNext]_settlementVars
=============================================================================

---------------------------- MODULE MCDiscounts -----------------------------
(***************************************************************************)
(* Small instances of Discounts.                                           *)
(***************************************************************************)
EXTENDS Discounts, TLC

\* Any payment earns two units
TwoUnits == [p \in Payments |-> 2]

\* All payments are alike, and all appointments
Symmetry == Permutations(Requests) \cup Permutations(Redemptions)
              \cup Permutations(Payments) \cup Permutations(Appointments)

Paid == {p \in Payments : payment[p] # "none"}
Used == {a \in Appointments : use[a] # "none"}
Spent == {x \in Redemptions : redeemed[x] # None}
Switched == {b \in {ruled, offered} : ~b}

\* (bound) Two payments or uses of the coupon, and with the redemptions, and a rule
\* or coupon that is switched off, three things.
ThreeThings ==
  /\ Cardinality(Paid) + Cardinality(Used) <= 2
  /\ Cardinality(Paid) + Cardinality(Used) + Cardinality(Spent) + Cardinality(Switched) <= 3
=============================================================================

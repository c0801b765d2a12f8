----------------------------- MODULE MCPayments -----------------------------
(***************************************************************************)
(* Small instances of Payments.                                            *)
(***************************************************************************)
EXTENDS Payments, TLC

\* The amounts paid and their reversals; the desk moves the same
MCAmounts == Cents \cup {-n : n \in Cents}

\* Payments, registers, and requests are interchangeable
Symmetry ==
  Permutations(Ids) \cup Permutations(Registers) \cup Permutations(Requests)

\* What the movements of the payments add to a register
FromPayments(c) ==
  MapThenSumSet(LAMBDA p : IF entry[p] = c THEN amount[p] * (1 - reversals[p]) ELSE 0, Ids)

\* (bound) cash is moved by hand only beside one payment
FewByHand ==
  (\E c \in Registers : balance[c] # FromPayments(c))
    => Cardinality({p \in Ids : status[p] # "none"}) <= 1
=============================================================================

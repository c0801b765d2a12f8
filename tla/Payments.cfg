\* Two payments of the whole price, two requests at a time, one of them at the
\* desk, which may move a cent by hand beside one payment, two registers; one
\* payment may be left unfinished.
SPECIFICATION Spec
CONSTANTS
  None = None
  Registers = {b1, b2}
  Requests = {r1, r2}
  Amounts <- MCAmounts
  Ids = {p1, p2}
  Cents = {1}
  Price = 1
  MaxBalance = 2
  ByHand = {1}
  MaxDesk = 1
  MaxBroken = 1
CONSTRAINT FewByHand
SYMMETRY Symmetry
INVARIANTS
  PaidWithinPrice
  PaidIsComplete
  CancelUndoes
  ReversedOnce
  OneOpenRegister
  ClosingIsTheSum
PROPERTIES
  CashImplemented
\* Every payment may be canceled.
CHECK_DEADLOCK FALSE

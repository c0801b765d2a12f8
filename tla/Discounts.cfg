\* Two payments of two units each, two appointments, two redemptions of a unit or
\* two, one coupon of one or two uses, two requests at a time.
SPECIFICATION Spec
CONSTANTS
  None = None
  Payments = {p1, p2}
  Appointments = {a1, a2}
  Redemptions = {x1, x2}
  Requests = {r1, r2}
  Earn <- TwoUnits
  Units = {1, 2}
  CentsPerUnit = 1
  Price = 3
  Value = 1
  Limits = {1, 2}
SYMMETRY Symmetry
CONSTRAINT ThreeThings
INVARIANTS
  CanceledIsTakenBack
  NegativeOnlyByRace
  CouponWithinLimit
\* Every payment may be made and canceled.
CHECK_DEADLOCK FALSE

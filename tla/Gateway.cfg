\* A charge of pix-local and one of a provider that tells, a cent each, of a price
\* of two; two requests at a time, one webhook.
SPECIFICATION Spec
CONSTANTS
  None = None
  Charges = {pix, card}
  Local = {pix}
  Telling = {card}
  Events = {e1}
  Requests = {r1, r2}
  Cents <- OneCent
  Price = 2
  ByHand = 1
SYMMETRY Symmetry
CONSTRAINTS OneThingMore LittleTrouble
INVARIANTS
  PaidIsRecorded
  PaidOnce
  CanceledIsOver
PROPERTIES
  ImplementsSettlement
\* Every charge may be paid for.
CHECK_DEADLOCK FALSE

\* Double booking: two professionals, two overlapping slots, two rows, two
\* requests at a time; an appointment may run its whole course, and a request
\* that read it early may bring it back afterwards.
SPECIFICATION Spec
CONSTANTS
  None = None
  Ids = {a1, a2}
  Professionals = {p1, p2}
  Requests = {r1, r2}
  Timeouts = FALSE
  Asked = {"CONFIRMED", "IN_PROGRESS", "COMPLETED"}
  Slots <- OverlappingSlots
SYMMETRY Symmetry
INVARIANTS
  CheckedSlotStaysFree
  OverlapOnlyByRevival
PROPERTY
  ImplementsCalendar
\* Every row may have ended and no client need ask for anything.
CHECK_DEADLOCK FALSE

SPECIFICATION AgendaSpec
CONSTANTS
  None = None
  Periods = {p1, p2}
  Absences = {b1, b2}
  Appointments = {a1}
  Units = {u1}
  Requests = {r1, r2}
  Day = 4
  Week = 2
  LastDay = 2
  Hours <- TwoHours
  Spans <- ManySpans
  Lengths = {1, 2}
  Interval = 2
  Advance = 1
  Horizon = 1
  MaxWindows = 1
  MaxPeriods = 2
  MaxThings = 3
CONSTRAINT EditsFirst
SYMMETRY Symmetry
INVARIANTS
  OfferedIsFree
  RoomIsOffered
  ApartUnlessUnseen
CHECK_DEADLOCK FALSE

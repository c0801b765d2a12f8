\* A conversion dies after it booked: NoDoubleConversion is violated.
SPECIFICATION ListSpec
CONSTANTS
  None = None
  Ids = {a1, a2, a3}
  Professionals = {p1}
  Slots <- TwoSlots
  Entries = {1}
  Suits <- AnyVacancy
  Workers = {w1}
  Asked = {}
  Failures = TRUE
INVARIANTS
  NoDoubleConversion
\* Every row and every entry may have ended.
CHECK_DEADLOCK FALSE

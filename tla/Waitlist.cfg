\* Two entries compete for what two appointments release, and one entry is
\* converted over and over into a third: rows are revived, requests read before
\* others write and die, transactions are closed and leave their lock behind.
SPECIFICATION ListSpec
CONSTANTS
  None = None
  Ids = {a1, a2, a3}
  Professionals = {p1}
  Slots <- OneSlot
  Entries = {1, 2}
  Suits <- AnyVacancy
  Workers = {w1, w2}
  Asked = {"CONFIRMED"}
  Failures = TRUE
CONSTRAINT TwoRowsOrOneEntry
SYMMETRY Symmetry
INVARIANTS
  OfferedOnce
  SoldOnce
\* Every row and every entry may have ended.
CHECK_DEADLOCK FALSE

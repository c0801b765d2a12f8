\* Transactions that Prisma closes: named locks stay with pooled connections,
\* are taken again by the next request on the same one, or block the others.
SPECIFICATION FairSpec
CONSTANTS
  None = None
  Ids = {a1, a2}
  Professionals = {p1}
  Requests = {r1, r2}
  Timeouts = TRUE
  Asked = {"CONFIRMED", "NO_SHOW"}
  Slots <- OneSlot
PROPERTY
  NamedLockReleased
\* Every row may have ended and no client need ask for anything.
CHECK_DEADLOCK FALSE

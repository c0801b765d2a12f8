\* One product in two units, balances of at most two, two requests.
SPECIFICATION Spec
CONSTANTS
  Products = {1}
  Units = {1, 2}
  Requests = {r1, r2}
  Quantities = {1}
  MaxStock = 2
  MaxMovements = 2
  None = None
SYMMETRY Symmetry
INVARIANTS
  LedgerExplainsStock
  SettingLands
  TransfersConserve
\* The ledger is bounded.
CHECK_DEADLOCK FALSE

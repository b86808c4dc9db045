SPECIFICATION Spec
CONSTANTS
  Order = {o1}
  Dish = {d1, d2}
  MaxQty = 1
  Stocked = 1
  InitStock <- MCInitStock
  Intent = {}
  NoIntent = NoIntent
  NoOrder = NoOrder
  Request = {r1, r2}
  Serial = FALSE
  Configured = {TRUE, FALSE}
  MayLackAmount = FALSE
  AdjustTo = {}
  EditQty = {}
  NoteMax = 6
  CrashOps = {}
INVARIANTS StaysOnDisplay
CHECK_DEADLOCK FALSE

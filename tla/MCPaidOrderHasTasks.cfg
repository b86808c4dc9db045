SPECIFICATION Spec
CONSTANTS
  Order = {o1}
  Dish = {d1, d2}
  MaxQty = 1
  Stocked = 1
  InitStock <- MCInitStock
  Intent = {i1}
  NoIntent = NoIntent
  NoOrder = NoOrder
  Request = {r1}
  Serial = TRUE
  Configured = {TRUE, FALSE}
  MayLackAmount = FALSE
  AdjustTo = {}
  EditQty = {0}
  NoteMax = 6
  CrashOps = {}
INVARIANTS PaidOrderHasTasks
CHECK_DEADLOCK FALSE

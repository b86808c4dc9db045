SPECIFICATION Spec
CONSTANTS
  Order = {o1}
  Dish = {d1}
  MaxQty = 1
  Stocked = 1
  InitStock <- MCInitStock
  Intent = {i1, i2}
  NoIntent = NoIntent
  NoOrder = NoOrder
  Request = {r1, r2}
  Serial = FALSE
  Configured = {TRUE}
  MayLackAmount = FALSE
  AdjustTo = {0}
  EditQty = {}
  NoteMax = 2
  CrashOps = {"flagPaid"}
SYMMETRY Symmetry
INVARIANTS TypeOK  ReachesKitchenOnce
PROPERTIES SortedOutSawEverything ImplementsLifecycle
CHECK_DEADLOCK FALSE

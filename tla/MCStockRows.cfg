SPECIFICATION Spec
CONSTANTS
  Item <- MCItem
  Counted <- MCCounted
  Rank <- MCRank
  LastRank = 2
  Dish <- MCDish
  Recipe <- MCRecipe
  Order = {o1, o2}
  Lines <- MCLines
  InitStock <- MCStock
  SetTo = {0}
  Delta <- MCDelta
  MaxAdjust = 1
  Job = {j1, j2}
  Nobody = Nobody
  MayStop = TRUE
SYMMETRY Symmetry
INVARIANTS StockTypeOK SomeoneCanGoOn LogAddsUp AvailabilityIsRight
PROPERTIES ImplementsCounts
CHECK_DEADLOCK FALSE

SPECIFICATION Spec
CONSTANTS
  Item <- MCItem
  Counted <- MCCounted
  Rank <- MCRank
  LastRank = 2
  Dish <- MCDish
  Recipe <- MCRecipe
  Order = {o1, o2}
  Lines <- MCLines
  InitStock <- MCStock
  SetTo = {}
  Delta <- MCDelta
  MaxAdjust = 1
  Job = {j1, j2}
  Nobody = Nobody
  MayStop = FALSE
INVARIANTS AvailableWhenServable
CHECK_DEADLOCK FALSE

SPECIFICATION Spec
SYMMETRY Symmetry
CONSTANTS
  Requests = {q1, q2}
  Items = {i1, i2}
  Dishes = {d1}
  NoItem = NoItem
  MaxStock = 1
  Recipes <- MCRecipes
INVARIANT TypeOK
INVARIANT AvailabilityAgreesWithStock
CHECK_DEADLOCK FALSE

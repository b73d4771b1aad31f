SPECIFICATION CatalogueSpec
SYMMETRY Symmetry
CONSTANTS
  lower = lower
  upper = upper
  key = key
  dish = dish
  Requests = {q1, q2}
  Categories = {c1, c2}
  Dishes = {d1, d2}
  Combos = {k1}
  Names = {lower, upper}
  Keys = {key}
  Key <- MCKey
  DishNames = {dish}
  Tills <- MCTills
  Asked <- MCAsked
  Most = 2
  New = New
  Gone = Gone
  Groups = {}
  Options = {}
  MaxNew = 0
  GroupAsks <- MCGroupAsks
INVARIANT CatalogueTypeOK
INVARIANT CatalogueReferencesExist
INVARIANT CategoryNamesUnlessOvertaken
PROPERTY SyncCompletesTheMenu
PROPERTY ComboIsAsAsked
CHECK_DEADLOCK FALSE

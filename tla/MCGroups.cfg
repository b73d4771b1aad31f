SPECIFICATION GroupsSpec
SYMMETRY Symmetry
CONSTANTS
  lower = lower
  upper = upper
  key = key
  dish = dish
  Requests = {q1, q2}
  Categories = {c1}
  Dishes = {d1}
  Combos = {}
  Names = {lower}
  Keys = {key}
  Key <- MCKey
  DishNames = {dish}
  Tills = {}
  Asked = {}
  Most = 2
  New = New
  Gone = Gone
  Groups = {g1}
  Options = {o1, o2}
  MaxNew = 1
  GroupAsks <- MCGroupAsks
INVARIANT CatalogueReferencesExist
PROPERTY GroupIsAsAsked
CHECK_DEADLOCK FALSE

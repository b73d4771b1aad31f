SPECIFICATION MCSpec
CONSTANTS
  OrderIds = {o1}
  Tables = {t1}
  Dishes = {d1}
  Options = {m1}
  Waiters = {w1, w2}
  Clients = {c1, c2}
  Prices = {1}
  Quantities = {2}
  Allowed <- MCAllowed
  AskedTypes = {"DINE_IN"}
  AskedStatuses = {"IN_PROGRESS"}
  MaxLines = 2
  NoTable = NoTable
  NoOption = NoOption
  NoWaiter = NoWaiter
  NoOrder = NoOrder
  Unchanged = Unchanged
SYMMETRY Symmetry
INVARIANT TypeOK
INVARIANT ReferencesExist
PROPERTY ClosedGrowsOnlyWhenOvertaken
PROPERTY WaiterReplacedOnlyWhenOvertaken
PROPERTY ImplementsOrderBook
CHECK_DEADLOCK FALSE

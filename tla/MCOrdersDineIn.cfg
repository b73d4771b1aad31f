SPECIFICATION Spec
CONSTANTS
  OrderIds = {o1}
  Tables = {t1}
  Dishes = {d1}
  Options = {}
  Waiters = {w1}
  Clients = {c1}
  Prices = {1}
  Quantities = {2}
  Allowed <- MCAllowed
  AskedTypes = {"DINE_IN"}
  AskedStatuses = {"IN_PROGRESS"}
  MaxLines = 1
  NoTable = NoTable
  NoOption = NoOption
  NoWaiter = NoWaiter
  NoOrder = NoOrder
  Unchanged = Unchanged
INVARIANT DineInHasTable
CHECK_DEADLOCK FALSE

SPECIFICATION RoomSpec
CONSTANTS
  Handlers = {h1}
  Tables = {t1}
  OrderIds = {o1}
  NoTable = NoTable
  NoOrder = NoOrder
  Null = Null
  Unsent = Unsent
  MaxChanges = 1
  Joiners = {j1, j2}
  Sockets = {s1}
  Users = {u1}
  Nobody = Nobody
INVARIANT RoomTypeOK
INVARIANT RoomIsAsAsked
INVARIANT ListenersHaveAccess
INVARIANT PageIsCurrentWhenQuiet
PROPERTY ListenersAreTold
CHECK_DEADLOCK FALSE

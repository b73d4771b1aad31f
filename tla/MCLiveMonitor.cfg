SPECIFICATION Spec
SYMMETRY Symmetry
CONSTANTS
  Handlers = {h1, h2}
  Tables = {t1, t2}
  OrderIds = {o1}
  NoTable = NoTable
  NoOrder = NoOrder
  Null = Null
  Unsent = Unsent
  MaxChanges = 3
INVARIANT BoardIsCurrentWhenQuiet
PROPERTY BoardGoesBackOnlyOnOverlap
PROPERTY CallRaisedTwiceOnlyOnOverlap
CHECK_DEADLOCK FALSE

SPECIFICATION Spec
SYMMETRY Symmetry
CONSTANTS
  Requests = {q1, q2}
  Ids = {r1, r2}
  Modules = {staff, visual, multi}
  Base = {staff}
  Multi = multi
  DefaultLimit = 1
  MultiLimit = 2
  NoId = NoId
  NoModule = NoModule
INVARIANT TypeOK
INVARIANT ActiveIsPurchased
PROPERTY PurchaseLostOnlyWhenOvertaken
PROPERTY MultiBoughtTwiceOnlyWhenOvertaken
PROPERTY LimitExceededOnlyWhenOvertaken
CHECK_DEADLOCK FALSE

SPECIFICATION Spec
CONSTANTS
  Requests = {q1, q2}
  Dishes = {d1}
  Images = {i1, i2}
  MaxFiles = 2
  MaxAttempts = 1
  NoDish = NoDish
INVARIANT TypeOK
INVARIANT ShownIsSafe
INVARIANT NothingForgotten
PROPERTY DeletionSettled
CHECK_DEADLOCK FALSE

SPECIFICATION Spec
SYMMETRY Symmetry
CONSTANTS
  Requests = {q1, q2}
  UserIds = {u1, u2}
  Codes = {k1, k2}
  NoUser = NoUser
  NoCode = NoCode
  MaxAttempts = 3
  MaxSessions = 2
INVARIANT TypeOK
INVARIANT WrongCodesAreCounted
INVARIANT LockedOutUnlessBegunBefore
PROPERTY CodeGivesOneSessionUnlessOvertaken
PROPERTY CodeKeptUnlessOvertaken
PROPERTY OneAccountUnlessOvertaken
CHECK_DEADLOCK FALSE

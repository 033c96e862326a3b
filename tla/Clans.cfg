SPECIFICATION Spec
CONSTANTS
  a = a
  d = d
  b = b
  k1 = k1
  k2 = k2
  r1 = r1
  r2 = r2
  r3 = r3
  q1 = q1
  q2 = q2
  i1 = i1
  s1 = s1
  s2 = s2
  None = None
  User <- MCUser
  Clan <- MCClan
  Row <- MCRow
  Request <- MCRequest
  Item <- MCItem
  Session <- MCSession
SYMMETRY MCSymmetry
CHECK_DEADLOCK FALSE
INVARIANTS
  OneMasterUnlessMishap
  MembersAsked
PROPERTY DeletedStaysDeleted

SPECIFICATION Spec
CONSTANTS
  u1 = u1
  u2 = u2
  u3 = u3
  s1 = s1
  s2 = s2
  s3 = s3
  SINK = SINK
  NoAccount = NoAccount
  Nobody = Nobody
  User <- MCUsers
  Session <- MCThreeSessions
  Amount <- MCAmount
  Program <- MCServices
  SaveTarget <- MCNone
  Leaver <- MCSaved
  SeedPoints = 1
  MaxTx = 4
CHECK_DEADLOCK FALSE
PROPERTY SerialSpec

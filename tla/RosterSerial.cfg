SPECIFICATION SerialSpec
CONSTANTS
  a = a
  b = b
  r1 = r1
  r2 = r2
  r3 = r3
  None = None
  User <- MCUsers
  Row <- MCRows
  Enrolled <- MCEmpty
  StartPoints = 2
  TeamCount = 2
  BidAmount <- MCNoBids
  Turn = 1
  Candidate <- MCUsers
  NewStart <- MCStart
  NewTeams <- MCTeams
  MaxRequests = 1
  MaxCrashes = 0
INVARIANTS
  RosterTypeOK
  OneRowPerUser
  CaptainsHaveStart
CHECK_DEADLOCK FALSE

SPECIFICATION SetupSpec
CONSTANTS
  a = a
  b = b
  r1 = r1
  r2 = r2
  r3 = r3
  None = None
  User <- MCUsers
  Row <- MCRows
  Enrolled <- MCEmpty
  StartPoints = 2
  TeamCount = 2
  BidAmount <- MCNoBids
  Turn = 1
  Candidate <- MCUsers
  NewStart <- MCNewStart
  NewTeams <- MCNewTeams
  MaxRequests = 1
  MaxCrashes = 0
CHECK_DEADLOCK FALSE
SYMMETRY MCSymmetry
INVARIANT SetUpIsOrderly
PROPERTY PickedTakePart

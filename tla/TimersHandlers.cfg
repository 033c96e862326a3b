SPECIFICATION Spec
CONSTANTS
  c1 = c1
  c2 = c2
  p1 = p1
  p2 = p2
  h1 = h1
  h2 = h2
  None = None
  User <- MCUsers
  Row <- MCUsers
  Enrolled <- MCEnrolled
  StartPoints = 1
  TeamCount = 2
  BidAmount <- MCBids
  Turn = 1
  Handler <- MCTwoHandlers
  Message <- MCEverything
  MaxRestarts = 1
INVARIANT OpenBiddingHasTimer
SYMMETRY MCSymmetry
CHECK_DEADLOCK FALSE

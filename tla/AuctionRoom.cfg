SPECIFICATION RoomSpec
CONSTANTS
  c1 = c1
  p1 = p1
  p2 = p2
  master = master
  tab1 = tab1
  tab2 = tab2
  h1 = h1
  h2 = h2
  None = None
  User <- MCUsers
  Row <- MCUsers
  Enrolled <- MCEnrolled
  StartPoints = 1
  TeamCount = 1
  BidAmount <- MCBids
  Turn = 1
  Client <- MCClients
  Master = master
  UserOf <- MCUserOf
  Task <- MCOneTask
  Direct <- MCDirect
  Flaky <- MCFlaky
  MaxInbox = 1
CHECK_DEADLOCK FALSE
SYMMETRY MCSymmetry
INVARIANTS
  PagesFollowBroadcasts
  ChangesAreTold
PROPERTY BidsOnThePlayerShown

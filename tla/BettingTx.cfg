SPECIFICATION TxSpec
CONSTANTS
  u1 = u1
  u2 = u2
  m1 = m1
  ta = ta
  tb = tb
  fx = fx
  w1 = w1
  w2 = w2
  r1 = r1
  SINK = SINK
  NoAccount = NoAccount
  None = None
  User <- MCUsers
  Match <- MCMatch
  Team <- MCTeams
  Market <- MCWinOnly
  WinMarket <- MCWinOnly
  MatchOf <- MCMatchOf
  RakeBps <- MCRake
  Foreign <- MCNone
  Placements <- MCPlacements
  StakeAmount <- MCAmounts
  Amount <- MCOne
  Leaver <- MCUsers
  MaxFlow = 1
  SeedPoints = 3
CHECK_DEADLOCK FALSE
SYMMETRY MCSymmetry
INVARIANTS
  FoundIsStillSo
  LateMarketIsEmpty
  NoStrandedStake
  BooksReconcile
  Solvency
PROPERTIES
  BookSpec
  BookCloses

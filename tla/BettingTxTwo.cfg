SPECIFICATION TxSpec
CONSTANTS
  u1 = u1
  u2 = u2
  m1 = m1
  ta = ta
  tb = tb
  fx = fx
  w1 = w1
  w2 = w2
  r1 = r1
  SINK = SINK
  NoAccount = NoAccount
  None = None
  User <- MCOneUser
  Match <- MCMatch
  Team <- MCTeams
  Market <- MCWinAndRank
  WinMarket <- MCWinOnly
  MatchOf <- MCMatchOf
  RakeBps <- MCRake
  Foreign <- MCNone
  Placements <- MCPlacements
  StakeAmount <- MCAmounts
  Amount <- MCOne
  Leaver <- MCOneUser
  MaxFlow = 0
  SeedPoints = 2
CHECK_DEADLOCK FALSE
INVARIANTS
  TxTypeOK
  FoundIsStillSo
  StakesFollowMarket
  LateMarketIsEmpty
  NoStrandedStake
  PoolMatchesStakes
  StakesReconcile
  Solvency
PROPERTIES
  BookSpec
  BookCloses
  ResolvedOnce

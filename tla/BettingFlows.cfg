SPECIFICATION FairPagesSpec
CONSTANTS
  u1 = u1
  m1 = m1
  ta = ta
  tb = tb
  w1 = w1
  r1 = r1
  d1 = d1
  SINK = SINK
  NoAccount = NoAccount
  None = None
  User <- MCUsers
  Match <- MCMatch
  Team <- MCTeams
  Market <- MCMarkets
  WinMarket <- MCWin
  MatchOf <- MCMatchOf
  RakeBps <- MCRake
  Foreign <- MCMarkets
  Placements <- MCPlacements
  StakeAmount <- MCAmounts
  Amount <- MCNone
  Leaver <- MCNone
  MaxFlow = 0
  SeedPoints = 1
  Session <- MCSessions
  MaxClicks = 3
  MaxWaiting = 2
  MaxPlace = 2
  MaxRank = 2
CHECK_DEADLOCK FALSE
INVARIANT ToldTheResult
PROPERTIES
  CommandsStakeOnSides
  AsConfirmed
  PagesChangeWhatTheyShow
  ChatsEnd

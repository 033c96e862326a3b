SPECIFICATION FairSpec
CONSTANTS
  u1 = u1
  u2 = u2
  u3 = u3
  s1 = s1
  s2 = s2
  s3 = s3
  SINK = SINK
  NoAccount = NoAccount
  Nobody = Nobody
  User <- MCUsers
  Session <- MCSessions
  Amount <- MCAmount
  Program <- MCSettlements
  SaveTarget <- MCSaved
  Leaver <- MCSaved
  SeedPoints = 1
  MaxTx = 3
INVARIANT UnsavedBalanceIsLedgerSum
PROPERTY EveryTxEnds
CHECK_DEADLOCK FALSE

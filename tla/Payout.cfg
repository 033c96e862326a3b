SPECIFICATION PayoutSpec
CONSTANTS
  u1 = u1
  u2 = u2
  r1 = r1
  r2 = r2
  k1 = k1
  k2 = k2
  SINK = SINK
  NoAccount = NoAccount
  User <- MCUser
  Leaver <- MCLeaver
  Amount <- MCAmount
  Delta <- MCDelta
  Reward <- MCReward
  EntryRole <- MCEntryRole
  Row <- MCRow
  Call <- MCCall
  SeedPoints = 1
  MaxFlow = 2
SYMMETRY MCSymmetry
CHECK_DEADLOCK FALSE
INVARIANTS
  BalanceIsLedgerSum
  NoOverdraft
  CirculatingSupply
  PaidOnce
PROPERTY AllOrNothing

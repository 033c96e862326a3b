SPECIFICATION FairSpec
CONSTANTS
  u1 = u1
  c1 = c1
  c2 = c2
  SINK = SINK
  NoAccount = NoAccount
  NoUser = NoUser
  User <- MCUser
  Attender <- MCUser
  Leaver <- MCUser
  Amount <- MCNone
  SeedPoints = 1
  Claim <- MCClaim
  Daily <- MCDaily
  Milestone <- MCMilestone
  Bonus <- MCBonus
  Window = 3
  MaxAttachRetries = 1
  LastDay = 3
CHECK_DEADLOCK FALSE
INVARIANTS
  OnceADay
  MilestoneOncePerRun
PROPERTY LongStayIsPaid

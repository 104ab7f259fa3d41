CONSTANTS
  PointsScale = 100
  HalfRange = 512
  admin = admin
  member = member
  r1 = r1
  r2 = r2
  r3 = r3
  Accounts = {admin, member}
  Refs = {r1, r2, r3}
  Calls = {c1, c2}
  NoRequest = NoRequest
  InitiallyOpen = {admin}
  Requests <- MixedRequests
SPECIFICATION FairSpec
INVARIANTS
  TypeOK
  BalanceChain
  TransactionsApart
  DuplicateIsTruthful
  BalanceIsSum
  DeadlockThroughActor
  WaitsLeadToProgress
PROPERTIES
  AcceptedIsDurable
  Implements
  EveryCallEnds

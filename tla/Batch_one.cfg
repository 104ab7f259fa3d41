CONSTANTS
  admin = admin
  member = member
  r1 = r1
  r2 = r2
  Accounts = {admin, member}
  Refs = {r1, r2}
  PointsScale = 100
  HalfRange = 512
  Uploader = admin
  Workers = {w1, w2}
  Jobs = {j1}
  Files <- ThreeRows
SPECIFICATION FairSpec
INVARIANTS
  TypeOK
  RowsAccountedFor
  CompletedCountsEveryRow
  NoRowInvalid
  RejectedLeavesNoRow
PROPERTIES
  WorkShrinks
  JobDrains

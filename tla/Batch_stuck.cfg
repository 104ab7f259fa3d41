CONSTANTS
  admin = admin
  member = member
  r1 = r1
  r2 = r2
  Accounts = {admin, member}
  Refs = {r1, r2}
  PointsScale = 100
  HalfRange = 512
  Uploader = admin
  Workers = {w1, w2}
  Jobs = {j1}
  Files <- TwoRows
SPECIFICATION FairSpec
PROPERTY JobsEnd

CONSTANTS
  admin = admin
  member = member
  r1 = r1
  r2 = r2
  Accounts = {admin}
  Refs = {r1, r2}
  PointsScale = 100
  HalfRange = 512
  Uploader = admin
  Workers = {w1}
  Jobs = {j1, j2}
  Files <- Reupload
SPECIFICATION Spec
INVARIANTS
  AcceptedOncePerRef
  AcceptedIsInLedger
  ProcessingIsAlive

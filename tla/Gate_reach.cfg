CONSTANTS
  IDs = {"root", "me"}
  Seeded = "root"
  Tokens = {t1, t2}
  Calls = {c1, c2}
  Paths <- SomePaths
  AccountBodies <- SomeAccountBodies
  TransactionBodies <- SomeTransactionBodies
  Nobody = Nobody
  PointsScale = 100
  HalfRange = 512
SYMMETRY Symmetry
SPECIFICATION Spec
INVARIANTS
  TypeOK
  DeletedNeverServed
PROPERTIES
  OthersOnlyByAdmins
  ChangesNamedAccount
  Implements
\* Nobody can log in once every account is deleted.
CHECK_DEADLOCK FALSE

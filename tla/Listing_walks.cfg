CONSTANTS
  Rows = {1, 2, 3}
  DefaultLimit = 1
  MaxLimit = 2
  RawLimits <- Limits
  RawOffsets <- Offsets
SPECIFICATION FairSpec
INVARIANTS
  TypeOK
  OrderedUnlessConcurrent
  MissedBoundedByRaces
  RepeatsBoundedByCommits
PROPERTY WalkEnds

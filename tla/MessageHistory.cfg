SPECIFICATION FairSpec
CONSTANTS
  Readers = {r1}
  Syncers = {c1}
  Limits <- MCLimits
  DefaultLimit = 2
  MaxLimit = 3
  ResyncLimit = 2
  MaxSeq = 4
INVARIANTS
  TypeOK
  NothingTwice
  WalkIsComplete
  ResyncMissesOnlyOvertaken
PROPERTIES
  EveryPageAdvances
  WalkEnds

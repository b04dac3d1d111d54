SPECIFICATION Spec
CONSTANTS
  FirstSize = 1
  PageSize = 2
  MaxPages = 2
  MaxId = 6
  Kinds <- AllKinds
  NoValue = NoValue
INVARIANTS
  TypeOK
  NothingSkipped
  NoRecordReadTwice
  Bounded
  GapMeansGone

SPECIFICATION Spec
CONSTANTS
  NoValue = NoValue
  StepDegrees = 30
  MaxDegrees = 90
  EmissionLimit = 3
  RecentLimit = 3
  MaxBatch = 3
  Batches <- AllKinds
INVARIANTS
  TypeOK
  EveryRecordAccountedFor
  OldestFirst
  PageOrderIrrelevant
  RereadingIsSilent
  CuttingIntoPollsIrrelevant
  NeverRepublished

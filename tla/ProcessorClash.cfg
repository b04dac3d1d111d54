SPECIFICATION Spec
CONSTANTS
  NoValue = NoValue
  StepDegrees = 30
  MaxDegrees = 90
  EmissionLimit = 3
  RecentLimit = 4
  MaxBatch = 2
  Batches <- Clashing
INVARIANTS
  MalformedRecordsAdvancedPast

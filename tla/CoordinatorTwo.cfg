SPECIFICATION Spec
CONSTANTS
  button1 = button1
  button2 = button2
  Children <- Two
  MaxRecords = 2
  StepCounts <- JustSteps
  Depth = 2
  EmissionLimit = 2
  Healthy = {}
  Absent = Absent
  Unset = Unset
INVARIANTS
  TypeOK
  AtMostOnce
  DiskNotBehindMemory
  NothingSkippedSilently
PROPERTIES
  OneBatchLostPerRestart
SYMMETRY Symmetry

SPECIFICATION Spec
CONSTANTS
  button1 = button1
  button2 = button2
  Children <- One
  MaxRecords = 2
  StepCounts <- JustSteps
  Depth = 2
  EmissionLimit = 2
  Healthy = {}
  Absent = Absent
  Unset = Unset
PROPERTIES
  FirstRefreshPublishes

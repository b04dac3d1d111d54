SPECIFICATION SessionSpec
CONSTANTS
  button1 = button1
  button2 = button2
  Children <- Two
  MaxRecords = 2
  StepCounts <- JustSteps
  Depth = 2
  EmissionLimit = 2
  Healthy = {button1}
  Absent = Absent
  Unset = Unset
PROPERTIES
  HealthyChildServed
CHECK_DEADLOCK FALSE

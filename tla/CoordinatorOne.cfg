SPECIFICATION Spec
CONSTANTS
  button1 = button1
  button2 = button2
  Children <- One
  MaxRecords = 3
  StepCounts <- ZeroOneThree
  Depth = 2
  EmissionLimit = 3
  Healthy = {}
  Absent = Absent
  Unset = Unset
INVARIANTS
  DeliveryInv
  AccountInv
PROPERTIES
  PersistBeforePublish
  ImplementsFeed

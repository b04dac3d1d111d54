SPECIFICATION Spec
CONSTANTS
  setup1 = setup1
  setup2 = setup2
  setup3 = setup3
  Callers <- Three
  MaxScans = 3
  MaxTime = 4
  CacheTime = 2
  None = None
SYMMETRY Symmetry
INVARIANTS
  TypeOK
  SharedUntilDeserted
  TaskHasWaiter
  AnswersFresh
PROPERTIES
  NewestKept
CHECK_DEADLOCK FALSE

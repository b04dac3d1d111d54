SPECIFICATION Spec
CONSTANTS
  Models = {h100, h999}
  SupportedModels = {h100}
  DeviceIds = {id1, id2}
  Macs = {mac1, mac2}
  Hosts = {host1, host2}
  MaxAnswers = 3
  None = None
INVARIANTS
  TypeOK
  OutcomeOfTheSet
  ChosenAgrees
PROPERTIES
  NeverRedirected
CHECK_DEADLOCK FALSE

SPECIFICATION FairSpec
CONSTANTS
  Polls = {poll}
  Refreshes = {refresh, another}
  Presses = {press}
  Last = 2
  Cloud = {2}
  MaxVersion = 1
  None = None
INVARIANTS
  TypeOK
  OneRequestAtATime
  NeverOlder
PROPERTIES
  PressesEnd
CHECK_DEADLOCK FALSE

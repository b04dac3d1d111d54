SPECIFICATION Spec
CONSTANTS
  hub = hub
  other = other
  twin = twin
  Hubs <- Three
  Mine = hub
  Namesakes <- Twins
  h1 = h1
  h2 = h2
  Hosts <- Two
  Home = h1
  MaxMoves = 0
  MaxPassword = 1
  MaxOfficial = 1
  None = None
INVARIANTS
  AcceptedPasswordKept

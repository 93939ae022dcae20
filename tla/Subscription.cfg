CONSTANTS
  Clients = {c1, c2}
  Final = 2
  MaxRank = 2
SPECIFICATION FairSpec
INVARIANTS
  TypeOK
  ClientSeesFinal
PROPERTIES
  
  StreamEnds
CHECK_DEADLOCK FALSE

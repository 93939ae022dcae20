CONSTANTS
  Requests = {r1}
  MaxLosses = 1
  MaxWire = 2
SPECIFICATION Spec
INVARIANTS
  TypeOK
PROPERTIES
  FollowersEnd
CHECK_DEADLOCK FALSE

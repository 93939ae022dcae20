CONSTANTS
  Submissions = {s1, s2, s3}
  Graders = {1, 2}
  Callers = {}
  GraderTags <- OneTagged
  RequestTags <- OneAsks
  Concurrency <- OneEach
  Operations = {}
  FaultKinds = {}
  MaxStreams = 1
  MaxFaults = 0
SPECIFICATION Spec
SYMMETRY SymmetryOfOthers
INVARIANTS
  PassLoads
  NoMissedCapacity
CHECK_DEADLOCK FALSE

CONSTANTS
  Submissions = {s1, s2}
  Graders = {1}
  Callers = {}
  GraderTags <- NoTags
  RequestTags <- NoRequestTags
  Concurrency <- OneEach
  Operations = {}
  FaultKinds = {"break", "crash", "timeout", "restart"}
  MaxStreams = 2
  MaxFaults = 1
SPECIFICATION Spec
SYMMETRY Symmetry
INVARIANTS
  CapacityRespected
  UnfinishedIsTracked
  NoMissedCapacity
CHECK_DEADLOCK FALSE

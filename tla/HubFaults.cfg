CONSTANTS
  Submissions = {s1}
  Graders = {1}
  Callers = {}
  GraderTags <- NoTags
  RequestTags <- NoRequestTags
  Concurrency <- OneEach
  Operations = {}
  FaultKinds = {"break", "crash", "timeout", "restart"}
  MaxStreams = 2
  MaxFaults = 2
SPECIFICATION Spec
INVARIANTS
  UnfinishedIsTracked
CHECK_DEADLOCK FALSE

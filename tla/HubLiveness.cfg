CONSTANTS
  Submissions = {s1, s2}
  Graders = {1}
  Callers = {}
  GraderTags <- NoTags
  RequestTags <- NoRequestTags
  Concurrency <- OneEach
  Operations = {}
  FaultKinds = {"restart"}
  MaxStreams = 2
  MaxFaults = 1
SPECIFICATION FairSpec
PROPERTIES
  UnfinishedFinishes
CHECK_DEADLOCK FALSE

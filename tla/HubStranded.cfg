CONSTANTS
  Submissions = {s1}
  Graders = {1}
  Callers = {}
  GraderTags <- NoTags
  RequestTags <- NoRequestTags
  Concurrency <- OneEach
  Operations = {}
  FaultKinds = {"break"}
  MaxStreams = 4
  MaxFaults = 1
SPECIFICATION FairSpec
PROPERTIES
  UnfinishedFinishes
CHECK_DEADLOCK FALSE

CONSTANTS
  Submissions = {s1, s2}
  Graders = {1}
  Callers = {c1}
  GraderTags <- NoTags
  RequestTags <- NoRequestTags
  Concurrency <- OneEach
  Operations = {"cancel", "regrade"}
  FaultKinds = {}
  MaxStreams = 1
  MaxFaults = 0
SPECIFICATION Spec
SYMMETRY Symmetry
INVARIANTS
  TypeOK
  RankIsPosition
  IndexedIsPending
  ViewsAgree
CHECK_DEADLOCK FALSE

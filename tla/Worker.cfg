SPECIFICATION Spec
CONSTANTS
  Jobs = {1}
  SubmissionOf <- MCOneJob
  Concurrency = 1
  Disturbances = {"break", "offline", "cancel"}
  MaxDisturbances = 3
INVARIANTS
  TypeOK
  DeliveredUnlessBroken
  AppliedInOrder
  OpenBufferHasWriter
PROPERTY JobsEnd
CHECK_DEADLOCK FALSE

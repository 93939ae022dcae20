CONSTANTS
  Calls = {c1, c2}
  GC = gc
  Files = {f1, f2}
  Sizes = {1}
  UploadLimit = 1
  SubmissionLimit = 1
  Mutexes = {1, 2, 3, 4}
  BatchSize = 1
  MaxManifests = 1
  MaxSubmissions = 3
  MaxRestarts = 1
SPECIFICATION Spec
SYMMETRY Symmetry
INVARIANTS
  TypeOK
  IdsFresh
  OneInSection
  CounterCoversFiles
  OvershootBounded
  HandedOver
  HolderRuns
CHECK_DEADLOCK FALSE

CONSTANTS
  p1 = p1
  p2 = p2
  Calls = {p1, p2}
  MethodsOf <- MCMethodsOf
  Users = {1, 2, 3}
  Root = 1
  Instructor = 2
  Student = 3
  Windows <- MCWindows
  MaxTime = 1
  MaxCourses = 2
  MaxAssignments = 2
  MaxSubmissions = 2
  MaxManifests = 2
  MaxCalls = 2
SPECIFICATION Spec
INVARIANTS
  TypeOK
  NoMissingKey
  ObjectAccess
  WithinDates
  AdminCalls
CHECK_DEADLOCK FALSE

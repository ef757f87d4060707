SPECIFICATION MCSpec
CHECK_DEADLOCK FALSE
CONSTANTS
  MaxRuns = 2
  MaxRevision = 2
  MaxSignIns = 2
  MaxRequests = 2
  MaxOperations = 2
  MaxMounts = 2
  MaxInstalls = 2
  MaxLaunches = 2
  Windows = FALSE
  MaxFailures = 1
  MaxRetries = 1
  MaxTasks = 2
  Streak = 2
  MaxResizes = 4
  MaxNotices = 2
INVARIANTS
  SignedOutShowsNothing
  NotLeftDown
PROPERTIES
  NeverGoesBack
  SignInStands
  ComesBack
  ControlsSettle
  StartupEnds
  HeaderSettles

SPECIFICATION Spec
CONSTANTS
  jqf1 = jqf1
  jqf2 = jqf2
  conf = conf
  data = data
  inode1 = inode1
  inode2 = inode2
  Procs = {jqf1, jqf2}
  Targets = {conf, data}
  Existing = {conf}
  Fresh <- MCFresh
  Out = Out
  Plans <- MCPlans
  Chunks = 2
  MaxFaults = 1
  MaxCrashes = 1
SYMMETRY Symmetry
INVARIANTS TargetsWhole SyncedSurvives NothingLeftBehind SuccessIsPublished FailureHasCause
CHECK_DEADLOCK FALSE

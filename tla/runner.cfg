SPECIFICATION FairSpec
CONSTANTS
  MaxNoProgress = 2
  MaxCompactionRetries = 1
  Interruptions = {"signal", "error", "killed"}
CHECK_DEADLOCK FALSE
INVARIANTS HarnessStopped WedgedRunEnds FollowerSeesAll
PROPERTIES BoundedRunEnds

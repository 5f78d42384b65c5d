SPECIFICATION FairSpec
CONSTANTS
  MaxEvents = 2
  LineBytes = 2
  MaxPolls = 2
  Faults = {"put", "read", "live", "crash"}
  MaxFaults = 1
CHECK_DEADLOCK FALSE
INVARIANTS NothingSkipped
PROPERTIES CopyCatchesUp ViewSettles

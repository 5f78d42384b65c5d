SPECIFICATION FairSpec
CONSTANTS
  Kinds = {"docker", "local"}
  Faults = {"fail", "late", "die", "rm", "hang", "exit", "chown", "kill"}
  MaxTroubles = 8
CHECK_DEADLOCK FALSE
INVARIANTS RolledBack HandleIsWhole StopDestroys
PROPERTIES WaiterReturns

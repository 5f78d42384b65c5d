SPECIFICATION FairSpec
CONSTANTS
  MaxRestarts = 1
  Cap = 2
  SessionEvent = 1
  Faults = {"read", "put", "report", "create", "start", "status", "lost"}
  MaxEvents = 2
  MaxLaunched = 4
  MaxCrashes = 1
  MaxHosts = 1
  MaxTroubles = 2
INVARIANTS OrchestratorsAccounted CopyIsCurrent
PROPERTIES MetaNeverRollsBack Relaunched

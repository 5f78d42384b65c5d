SPECIFICATION FairSpec
CONSTANTS
  Count = 2
  Workers = 2
  Retries = 2
  Proxies = {"None", "good", "malformed"}
  Faults = {"lookup", "mint", "create", "late", "step", "delete", "terminate", "tags", "expire", "die", "quit"}
  MaxTroubles = 2
  MaxStops = 2
CHECK_DEADLOCK FALSE
INVARIANTS LaunchKeepsCount TokenAccounted
PROPERTIES StopsAll LaunchEnds

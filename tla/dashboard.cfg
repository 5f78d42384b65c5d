SPECIFICATION FairSpec
CONSTANTS
  d1 = d1
  d2 = d2
  b1 = b1
  b2 = b2
  b3 = b3
  Nobody = Nobody
  Dashboards = {d1, d2}
  Browsers = {b1, b2, b3}
  At <- TwoOnTheFirst
  MaxControllers = 3
  Faults = {"endpoint", "put", "read"}
  MaxFaults = 2
  MaxCrashes = 1
INVARIANTS OncePerDashboard
PROPERTIES WatchedIsDriven

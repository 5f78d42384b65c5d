SPECIFICATION Spec
CONSTANTS
  r1 = r1
  r2 = r2
  r3 = r3
  r4 = r4
  b1 = b1
  None = None
  Requests = {r1, r3, r4}
  Verb <- Verbs
  Bases = {"wf"}
  Base <- SameBase
  Plan <- SmallPlans
  Target <- StopsAgent
  Boxes = {b1, b2, b3, b4, b5}
  Faults = {"put", "create", "start", "stop", "lost"}
  MaxFaults = 2
  MaxCrashes = 1
  GoneReads = {"raises"}
INVARIANTS AtMostOnce RecordedPoolBound

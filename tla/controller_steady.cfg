SPECIFICATION FairSpec
CONSTANTS
  r1 = r1
  r2 = r2
  r3 = r3
  r4 = r4
  b1 = b1
  None = None
  Requests = {r1, r2, r3}
  Verb <- Verbs
  Bases = {"wf"}
  Base <- SameBase
  Plan <- SmallPlans
  Target <- StopsWorkflow
  Boxes = {b1, b2, b3, b4, b5}
  Faults = {"read", "create", "start", "status", "stop", "lost"}
  MaxFaults = 1
  MaxCrashes = 0
  GoneReads = {"raises", "starting"}
INVARIANTS WaitNamedSound
PROPERTIES ImplementsWaves StoppedStartsNothing EveryRequestAnswered AcceptedGetsDone

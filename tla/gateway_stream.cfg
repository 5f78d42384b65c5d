SPECIFICATION StreamFairSpec
CONSTANTS
  Tools = {t1, t2}
  NoTool = NoTool
  MaxSent = 4
  MaxQueue = 1
CHECK_DEADLOCK FALSE
INVARIANTS VerdictIsTrue
PROPERTIES KeepsPromise BothSidesEnd

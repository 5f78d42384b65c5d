SPECIFICATION FairSpec
CONSTANTS
  Files <- TwoFiles
  Revisions = {1, 2}
  Repo <- TwoRepos
  Root = "config"
  Contents <- TwoContents
  Size <- TwoSizes
  Base <- BaseFiles
  BaseDisk <- BaseTree
  Deployers = {"d1"}
  Containers = {"k1"}
  Requests = {"q1"}
  Limits <- OneLimit
  Kinds = {"sglang", "llamacpp"}
  Faults = {"build", "hub", "lost", "skip", "cut", "engine", "hang", "gateway", "token"}
  MaxTroubles = 1
CHECK_DEADLOCK FALSE
INVARIANTS CommittedIsComplete LatchIsLive
PROPERTIES RequestIsOver DeployedServes

SPECIFICATION TunnelFairSpec
CONSTANTS
  Listeners = {"forward", "model", "relay_http", "relay_socks", "auth"}
  Proxies = {"none", "http", "socks5", "socks5h"}
  Answers <- FewAnswers
  Chunks = 1
  Faults = {"unreachable", "refuse", "shut", "flood", "slow", "reset", "stall"}
  MaxTroubles = 1
CHECK_DEADLOCK FALSE
INVARIANTS DialsWhatItChecked NoUpstreamLeft Answered
PROPERTIES DirectionCompletes TunnelEnds

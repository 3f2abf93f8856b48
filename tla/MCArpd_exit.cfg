SPECIFICATION ArpdSpec
CONSTANTS
  broadcast_rate = 1
  broadcast_burst = 2
  MaxTime = 1
  Addrs = {"x"}
  Watched = {"x"}
  Macs = {"m", "n"}
  active_probing = 1
  negative_timeout = 1
  Interfaces = TRUE
  Budgets <- TwoSignals
INVARIANTS
  Graceful
CHECK_DEADLOCK FALSE

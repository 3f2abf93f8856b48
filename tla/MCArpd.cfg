SPECIFICATION ArpdSpec
CONSTANTS
  broadcast_rate = 1
  broadcast_burst = 2
  MaxTime = 2
  Addrs = {"x", "y"}
  Watched = {"x"}
  Macs = {"m", "n"}
  active_probing = 1
  negative_timeout = 1
  Interfaces = TRUE
  Budgets <- MessagesOrSignals
INVARIANTS
  KernelToldHeard
  BurstBound
  SyncKept
  ExitsGracefully
PROPERTY
  Exits
CHECK_DEADLOCK FALSE

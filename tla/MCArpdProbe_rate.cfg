SPECIFICATION ProbeSpec
CONSTANTS
  broadcast_rate = 2
  broadcast_burst = 6
  MaxTime = 7
INVARIANTS
  ProbeRate
CHECK_DEADLOCK FALSE

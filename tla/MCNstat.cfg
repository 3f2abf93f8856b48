SPECIFICATION NstatSpec
CONSTANTS
  MaxRuns = 3
  Counters = {1, 2}
  MaxVal = 3
  MaxInode = 2
  Settings <- AllSettings
INVARIANTS
  Exclusive
  Conserved
  NoOverflow
CHECK_DEADLOCK FALSE

SPECIFICATION NstatSpec
CONSTANTS
  MaxRuns = 3
  Counters = {1, 2}
  MaxVal = 2
  MaxInode = 2
  Settings <- BusyDaemon
INVARIANTS
  IncrementsOnly
CHECK_DEADLOCK FALSE

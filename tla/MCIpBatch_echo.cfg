SPECIFICATION BatchSpec
CONSTANTS
  MaxSeq = 3
  MaxObjs = 1
  PerDatagram = 1
  MaxPeer = 0
  Settings <- WithEcho
INVARIANTS
  ExitCodeReportsErrors
CHECK_DEADLOCK FALSE

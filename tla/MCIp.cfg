SPECIFICATION MCSpec
CONSTANTS
  Indexes = {1, 2}
  Names = {"a", "b", "c"}
  Hash <- HashColliding
  OtherLinks <- OtherNamespace
  MaxChanges = 3
  MaxQueue = 2
  MaxCommands = 5
  Commands <- AllCommands
  Entries = {1, 2, 3, 4}
  Unselected = {3}
  Dependent <- DependentPair
  Refused = {4}
  BufSize = 1
  PerPart = 1
  MaxOthers = 1
  Procs = {"p", "q"}
  NsNames = {"a", "b"}
  MaxCmds = 2
  MaxKills = 1
  Settings <- NetnsSettings
  Tasks = {"t", "u"}
  BoundNames = {"n", "o"}
  Inodes = {1, 2}
  MaxMoves = 4
  SavedRoutes <- SingleHop
  MaxDeletions = 1
INVARIANTS
  MonitorNamesRight
  MonitorCacheComplete
  BatchNamesRight
  FlushComplete
  FlushWarned
  MountedOnce
  NamesBound
  NothingHalfMade
  DeleteRepairs
  ScanExact
  RestoreComplete
PROPERTY
  FlushEnds
  CommandEnds
CHECK_DEADLOCK FALSE

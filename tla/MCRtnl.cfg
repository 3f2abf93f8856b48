SPECIFICATION MCSpec
CONSTANTS
  MaxSeq = 3
  MaxObjs = 2
  PerDatagram = 1
  MaxPeer = 1
  Settings <- AllSettings
INVARIANTS
  TypeOK
  CleanTalkTruthful
  TalkTruthful
  DumpComplete
  DumpIntrReported
  FlushTruthful
  BatchReportsErrors
PROPERTY
  CallReturns
CHECK_DEADLOCK FALSE

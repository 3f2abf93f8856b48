SPECIFICATION MCSpec
CONSTANTS
  Conditions <- OneAddress
  MaxList = 3
  Room = 10
  MaxToken = 5
  COL_MAX = 3
  Lengths = {1, 6}
  MaxRows = 3
  Setups <- OutSetups
  WidthInputs <- SmallScreens
  MaxStatus = 3
  MaxQueue = 3
  FlashSetups <- SomeFlashSetups
  Loaders = {1, 2, 3}
  MaxMaps = 9
  MapNames = {"m", "in", "out"}
  BpfSetups <- SomeBpfSetups
INVARIANTS
  CompiledAgrees
  WithinChunk
  RenderedAsWritten
  LinesLeast
  SpreadEqually
  FlashTruthful
  StatusShown
  RetryEnough
  OuterFilled
PROPERTY
  FlashReturns
  PinningAtomic
CHECK_DEADLOCK FALSE

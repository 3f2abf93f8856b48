SPECIFICATION Spec
CONSTANTS
  Commands <- AddressFlush
  Entries = {1, 2, 3}
  Unselected = {3}
  Dependent <- DependentPair
  Refused = {}
  BufSize = 1
  PerPart = 1
  MaxOthers = 1
INVARIANTS
  AddressesRemoved
CHECK_DEADLOCK FALSE

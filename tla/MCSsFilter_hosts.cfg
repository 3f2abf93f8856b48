SPECIFICATION SsSpec
CONSTANTS
  Conditions <- TwoAddresses
  MaxList = 3
INVARIANTS
  HostsAsDocumented
CHECK_DEADLOCK FALSE

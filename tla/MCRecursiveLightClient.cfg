SPECIFICATION FairSpec
CONSTANTS
  KeysetSizes <- MCKeysetSizes
  NEras = 3
  MaxFaults = 2
  None = None
INVARIANTS
  InStep
  PanicsOnlyOnFaults
PROPERTIES
  ClientFollowsChain
  Terminates

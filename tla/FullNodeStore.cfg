SPECIFICATION Spec
CONSTANTS
  Lengths = {1, 3, 5, 7}
  EpochSize = 2
  MaxFileSize = 5
  MaxCreations = 3
INVARIANTS
  ServesWholeChain
  SavedChainLoads
PROPERTY
  ChainNeverReplaced

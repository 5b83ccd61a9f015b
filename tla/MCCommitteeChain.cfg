SPECIFICATION Spec
CONSTANTS
  Quorum = 2
  N = 3
  Batch = 2
  MaxLength = 7
  MaxPeriod = 8
  Args <- SafeCalls
INVARIANTS
  ChainWellFormed
  SlotInForce
  OverwrittenSliceIsPrivate
PROPERTY
  Terminates

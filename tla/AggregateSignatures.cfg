SPECIFICATION Spec
CONSTANTS
  MaxLen = 5
  MaxCPU = 4
INVARIANTS
  EachOnce
  BadInputsContained
PROPERTY
  AllDelivered

SPECIFICATION Spec
CONSTANTS
  Quorum = 2
  MaxLength = 3
  PeriodicLength = 0
  Provers <- SmallProvers
INVARIANT ValidProofUpdates

SPECIFICATION FairSpec
CONSTANTS
  Quorum = 2
  MaxLength = 5
  PeriodicLength = 9
  Provers <- MixedProvers
INVARIANTS
  ClientInForce
  AcceptedExactly
PROPERTIES
  LimitsStable
  CallCompletes
  ImplementsAbstract

SPECIFICATION StayingSpec
CONSTANTS
  HonestChain = seedme0
  GenesisChain = seedme0
  NoChain = NoChain
  NoCommittee = NoCommittee
  None = None
  N = 3
  MaxSize = 6
  MaxDegree = 3
  MaxChanges = 2
  Deployments <- MCDeployments
INVARIANTS
  FirstDifference
  OnlyNetworkErrors
PROPERTIES
  KeepsPromise
  Terminates

SPECIFICATION Spec
CONSTANTS
  HonestChain = seedme0
  GenesisChain = seedme0
  NoChain = NoChain
  NoCommittee = NoCommittee
  None = None
  N = 3
  batchSize = 2
  MaxSize = 4
  Deployments <- MCDeployments
INVARIANTS
  LastHashIsHonest
PROPERTIES
  KeepsPromise
  Terminates

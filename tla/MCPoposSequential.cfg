SPECIFICATION Spec
CONSTANTS
  HonestChain = seedme0
  GenesisChain = seedme0
  NoChain = NoChain
  NoCommittee = NoCommittee
  None = None
  N = 3
  batchSize = 2
  MaxSize = 3
  MaxChanges = 1
  Deployments <- MCDeployments
INVARIANTS
  AcceptedIsHonest
  FindsHonest
PROPERTIES
  KeepsPromise
  Terminates

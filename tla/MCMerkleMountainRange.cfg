SPECIFICATION RangeSpec
CONSTANTS
  MaxLeaves = 9
  MaxDegree = 4
INVARIANTS
  ProofsFit
  RangesFit

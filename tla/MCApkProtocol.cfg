SPECIFICATION ProtocolSpec
CONSTANTS
  P = 257
  Generator = 3
  BITS_IN_LIMB = 2
  CountBits = 4
  bits_in_bitmask_chunk = 4
  PaddingPk <- Padding
  point_in_g1_complement <- H
  Statements <- MCStatements
  BitmaskChallenges = {16, 100}
  ConstraintChallenges = {5, 130}
  EvaluationPoints = {3, 77}
  DrawsInARow <- MCDrawsInARow
  NoValue = NoValue
CHECK_DEADLOCK FALSE
INVARIANTS
  HonestProofAccepted
  ChallengesBind
  SrsSuffices
  EvaluationsAgree
  BitmaskFaithful

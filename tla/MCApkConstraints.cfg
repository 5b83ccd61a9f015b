SPECIFICATION Spec
CONSTANTS
  P = 257
  Generator = 3
  BITS_IN_LIMB = 1
  CountBits = 4
  bits_in_bitmask_chunk = 2
  PaddingPk <- Padding
  point_in_g1_complement <- H
  Keysets <- MCKeysets
  FirstPoints <- MCFirstPoints
  Points <- MCPoints
  BitValues = {0, 1, 2}
  FirstValues = {0, 1}
  BitmaskChallenges = {16, 100}
  Apks <- MCApks
  Counts = {0, 1, 2, 3, 4, 16, 19}
CHECK_DEADLOCK FALSE
INVARIANTS
  SimpleSound
  PackedSound
  CountingSound

CONSTANTS
  Rate = 3
  Bytes = {0, 1}
  RawSize = 7
  MaxSize = 8
  MaxOut = 7
  LaneBits = 4
  Copies = 3
  Lanes = 6
  RateLanes = 4
  Rounds = 2
  Loads = 17
  Rebuilt = 1
  Iotas = 1
  Rotations = 2
  MaxDepth = 16
  Stages <- MCStages
  TestStates <- MCStates
  TestMsgs <- MCMsgs
SPECIFICATION LifeSpec
INVARIANTS
  BatchIsSponge
  RawIsOnePermutation
  ResultIsShake
  MuIsTotal
  RuntimeIsTheCore
CHECK_DEADLOCK FALSE

SPECIFICATION RecoverSpec
CONSTANTS
  Q = 7681
  FwT <- MCFwT
  InvT <- MCInvT
  NINV = 7651
  ACCQ30 = 768100000
  ACCQ31 = 768100000
  KQ28 = 67592800
  PKBound = 512
  Rows = 2
  Inputs <- MCInputs
  A <- MCA
  T1 <- MCT1
  Slacks <- MCSlacks
  Dirt <- MCDirt
  D = 160
  Hints <- MCHints
  W1Dirt = 170
INVARIANTS
  LaneBounds
  NoBorrow
  ForwardIsNtt
  RowIsAlgorithm8
  W1IsEncoded
CHECK_DEADLOCK FALSE

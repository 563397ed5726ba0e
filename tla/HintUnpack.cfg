CONSTANTS
  K = 3
  Omega = 3
  Word = 2
  MaxByte = 4
  Lengths = {5, 6, 7}
  L = 2
  Blocks = 2
  Quads = 2
  ZLanes = 4
  FieldBits = 6
  ZGamma1 = 32
  ZBeta = 3
  ZQ = 97
  FlagBit = 128
  ZInputs <- MCInputs
  Dirt <- MCDirt
SPECIFICATION DecodeSpec
INVARIANTS
  DecodesAsAlgorithm21
  ScanInBounds
  OracleDiffersOnRepeatsOnly
  ZIsBitUnpack
CHECK_DEADLOCK FALSE

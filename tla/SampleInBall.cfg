CONSTANTS
  N = 4
  Tau = 3
  Rate = 3
  ByteBits = 2
  SignBytes = 2
  Q = 5
  MaxBlocks = 3
SPECIFICATION Spec
INVARIANTS
  StreamInOrder
PROPERTIES
  ImplementsAlgorithm29
CHECK_DEADLOCK FALSE

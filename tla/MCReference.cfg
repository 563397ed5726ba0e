SPECIFICATION ReferenceSpec
CONSTANTS
  Q = 41
  Gamma2 = 5
  M = 4
  N = 2
  K = 2
  L = 2
  D = 4
  Eta = 1
  Gamma1 = 8
  Omega = 1
  T1Bits = 2
  SBits = 2
  ZBits = 4
  W1Bits = 2
  Tau = 1
  CtxMax = 1
  NonceMax = 4
  Matrices <- MCMatrices
  Secrets1 <- MCSecrets1
  Secrets2 <- MCSecrets2
  MaskPolys <- MCMasks
  Messages <- MCMessages
  Contexts <- MCContexts
  SamplerQ = 1000
  SamplerN = 4
  SamplerTau = 2
  SamplerEta = 1
  SamplerGamma1 = 4
  SamplerZBits = 3
  Block = 1
  Out = 2
  MinBlock = 2
  HalfBits = 2
  SignBytes = 1
  MinSpare = 1
  Period = 5
  ByteValues = {0, 3, 14}
INVARIANTS
  SampledIsSpec
  SignedVerifies
  OtherMessageRejected
  NoncesFresh
PROPERTIES
  SamplingEnds
  SigningEnds

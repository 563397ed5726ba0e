SPECIFICATION LifeSpec
CONSTANTS
  Addr <- MCAddr
  Codes <- MCCodes
  Msgs <- MCMsgs
  Sigs <- MCSigs
  HelperCode <- Pinned
  K = 2
  TrLen = 1
  T1Len = 4
  ALen = 8
  SigLen = 9
  Omega = 2
  Challenge <- MCChallenge
  N = 4
  Q = 17
  D = 2
  Zeta = 2
  T1Bits = 4
  RhoLen = 1
  PerWord = 2
  CoefBytes = 1
  CandidateTop = 2
  ByteBase = 4
  Want = 12
  Shake128 <- MCShake128
  Shake256 <- MCShake256
  Keys <- MCKeys
  Writings <- MCWritings
  Cuts <- MCCuts
  KeyAddr <- MCKeyAddr
INVARIANTS
  VerdictIsAlgorithm3
  RegisteredIsTheKey
PROPERTIES
  ImplementsInterface

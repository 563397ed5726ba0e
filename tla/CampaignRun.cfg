SPECIFICATION FairSpec
CONSTANTS
  Todo <- MCTodo
  Catalogue <- MCCatalogue
  Equivalent <- MCEquivalent
  Full = TRUE
  Jobs = 2
  Keep = FALSE
  MaxSignals = 1
  MaxErrors = 1
  SignalBy = 0
INVARIANTS
  VerdictIsOfItsMutant
  ZeroMeansJudged
  VerdictsWritten
  NothingLeft
  CompleteIsWholeCampaign
PROPERTIES
  RunEnds
CHECK_DEADLOCK FALSE

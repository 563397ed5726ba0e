SPECIFICATION FairSpec
CONSTANTS
  Todo <- MCShort
  Catalogue <- MCCatalogue
  Equivalent <- MCEquivalent
  Full = FALSE
  Jobs = 1
  Keep = FALSE
  MaxSignals = 1
  MaxErrors = 0
  SignalBy = 2
PROPERTIES
  SignalEnds
CHECK_DEADLOCK FALSE

SPECIFICATION ToolsSpec
CONSTANTS
  Reviewed <- MCReviewed
  PinParts <- MCPinParts
  IdParts <- MCIdParts
  SavedTexts <- MCSaved
  Trees <- MCTrees
  Catalogue <- MCCatalogue
  Selections <- MCSelections
  MaxSaves = 2
  Walk <- MCWalk
  Imported <- MCImported
  Pinned <- MCPinned
  LeanTrees <- MCLeanTrees
  LeanSaves <- MCLeanSaves
  MaxLeanSaves = 1
  PinnedMutants <- MCMutants
  PinnedEquivalent <- MCEquivalent
  SolePins <- MCSolePins
  MutantTexts <- MCMutantTexts
  GapsTexts <- MCGapsTexts
  CorpusTexts <- MCCorpusTexts
  Claims <- MCClaims
  Kills <- MCKills
  MaxEdits = 1
INVARIANTS
  QuotedIsOfTheseSources
CHECK_DEADLOCK FALSE

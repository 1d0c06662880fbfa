SPECIFICATION Spec
CONSTANTS
  Yaz <- Library
  MaxBody = 2
  MaxArgs = 2
  MaxFacets = 4
  MaxHits = 4
  MaxAsk = 3
  RecordSizes = {1, 2, 3, 4}
  MaxText = 4
  BufferSizes = {10, 12}
  PqfMaxAttr = 8
  MaxTokens = 4
  CclMaxTokens = 3
INVARIANTS WireSurvives SruSurvives ServicesAreTrue CharactersSurvive PqfSurvives QueriesAskTheSame FormatsKeepRecords
CHECK_DEADLOCK FALSE

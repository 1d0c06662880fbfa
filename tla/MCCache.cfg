SPECIFICATION Spec
CONSTANTS
  Clients = {1, 2}
  Identities <- McIdentities
  Options <- McOptions
  Scripts <- McScripts
  Databases = {"db"}
  Ranges <- McRanges
  Hits <- McHits
  Liberties = {}
  MaxCalls <- McMaxCalls
INVARIANTS CacheIsTransparent QueriesAreWhole
CHECK_DEADLOCK FALSE

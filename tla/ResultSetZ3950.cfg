SPECIFICATION FairSpec
CONSTANTS
  Proto = "Z3950"
  Named = TRUE
  Starts = {0, 1}
  Counts = {0, 2}
  Steps = {1}
  Piggybacks = {TRUE}
  Liberties = {}
  MaxHits = 2
  MaxSets = 2
  MaxCalls = 3
INVARIANTS TypeOK NoFault KeptWhileUsed CachedRightly
PROPERTIES FetchedOrTold TasksEnd
CHECK_DEADLOCK FALSE

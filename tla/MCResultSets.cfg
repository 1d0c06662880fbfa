SPECIFICATION FairSpec
INVARIANTS CachedRightly
PROPERTIES FetchedOrTold TasksEnd
CHECK_DEADLOCK FALSE

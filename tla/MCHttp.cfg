SPECIFICATION FairSpec
INVARIANTS IdleOrListening
PROPERTIES TasksFinish
CHECK_DEADLOCK FALSE

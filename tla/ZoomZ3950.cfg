SPECIFICATION FairSpec
CONSTANTS
  HostProto = "Z3950"
  TaskKinds = {"SEARCH", "SCAN", "PACKAGE", "SORT"}
  ConnectWhenBusy = FALSE
  CallOnError = FALSE
  ReuseAfterRedirect = TRUE
  Redirects = FALSE
  MaxRedirects = 1
  MaxRounds = 1
  MaxPieces = 1
  MaxCalls = 3
INVARIANTS TypeOK NoFault AnswerBelongsToHead ZeroMeansDone EndIsLast
PROPERTIES KeptErrorPersists TasksFinish
CHECK_DEADLOCK FALSE

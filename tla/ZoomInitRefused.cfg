SPECIFICATION Spec
CONSTANTS
  HostProto = "Z3950"
  TaskKinds = {"SEARCH"}
  ConnectWhenBusy = FALSE
  CallOnError = FALSE
  ReuseAfterRedirect = TRUE
  Redirects = FALSE
  MaxRedirects = 1
  MaxRounds = 0
  MaxPieces = 1
  MaxCalls = 3
PROPERTIES FatalErrorPersists
CHECK_DEADLOCK FALSE

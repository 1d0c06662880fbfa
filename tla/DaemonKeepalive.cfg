SPECIFICATION Spec
CONSTANTS
  MaxCrashes = 2
  Fork = TRUE
  Keepalive = TRUE
PROPERTY CrashIsRestarted
CHECK_DEADLOCK FALSE

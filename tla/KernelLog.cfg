SPECIFICATION KernelLogSpec
CONSTANTS
  PATHS <- MCPATHS
  FROM_START = FALSE
  MaxFiles = 3
  MaxEvents = 3
  MaxCuts = 1
  MaxFaults = 1
CHECK_DEADLOCK FALSE
INVARIANTS
  KernelLogTypeOK
  CountedOnce
  NothingLeftBehind
  DeadWatcherIsVisible
PROPERTIES
  FollowsTheFile

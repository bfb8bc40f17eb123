SPECIFICATION PastSpec
CONSTANTS
  WINDOW_SECONDS = 2
  ENGINE_TIMEOUT_RECURRENCE = 2
  NODE_CONDITION_INTERVAL_SECONDS = 1
  Watched = {"fatal"}
  Disturbed = {"stuck"}
  MaxLines = 1
  MaxChanges = 1
  MaxClock = 4
CHECK_DEADLOCK FALSE
INVARIANTS
  NoEventMeansNone

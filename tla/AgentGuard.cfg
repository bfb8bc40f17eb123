SPECIFICATION AgentGuardSpec
CONSTANTS
  WINDOW_SECONDS = 7
  ENGINE_TIMEOUT_RECURRENCE = 2
  NODE_CONDITION_INTERVAL_SECONDS = 1
  CONDITION_MIN_AGE_SECONDS = 2
  LOOP_INTERVAL_SECONDS = 1
  Watched = {"fatal"}
  Disturbed = {}
  MaxLines = 1
  MaxChanges = 1
  MaxClock = 10
  MaxRound = 1
  MaxLoop = 1
  MaxFaults = 1
CHECK_DEADLOCK FALSE
INVARIANTS
  AgentGuardTypeOK
  DwellHeld
PROPERTIES
  ImplementsReportedConditions
  CordonBeatsExpiry

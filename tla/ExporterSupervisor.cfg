SPECIFICATION SpecForever
CONSTANTS
  Pod = {1, 2}
  Node = {"n"}
  NodeOf <- MCNodeOf
  MODE = "enforce"
  EXPORTER_SUPERVISION_ENABLED = TRUE
  EXPORTER_UNREACHABLE_SECONDS = 1
  EXPORTER_DELETE_COOLDOWN_SECONDS = 2
  MaxClock = 3
  MaxChanges = 2
  MaxFaults = 1
INVARIANTS
  SupervisorTypeOK
  SilentThroughGrace
  CooldownKept
PROPERTIES
  DeadIsTriedAgain

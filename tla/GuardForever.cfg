SPECIFICATION SpecForever
CONSTANTS
  Replica = {g1, g2}
  Nobody = Nobody
  LEASE_DURATION_SECONDS = 2
  LOOP_INTERVAL_SECONDS = 2
  SECOND = 2
  MaxClock = 4
  Node = {1, 2}
  MODE = "enforce"
  ENFORCE_NODES = {}
  CONDITION_MIN_AGE_SECONDS = 2
  MIN_HEALTHY_NODES = 0
  MAX_CORDONS_PER_WINDOW = 1
  RATE_LIMIT_WINDOW_SECONDS = 2
  Signals = {"GPUWorkqueueStalled"}
  MaxChanges = 0
  MaxFaults = 1
INVARIANTS
  OneFreshLeader
PROPERTIES
  NoTheft
  LeaderAgain
  DueNodeCordoned

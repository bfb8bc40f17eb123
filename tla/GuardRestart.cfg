SPECIFICATION Spec
CONSTANTS
  Replica = {g1}
  Nobody = Nobody
  LEASE_DURATION_SECONDS = 1
  LOOP_INTERVAL_SECONDS = 1
  SECOND = 1
  MaxClock = 4
  Node = {1, 2, 3}
  MODE = "enforce"
  ENFORCE_NODES = {}
  CONDITION_MIN_AGE_SECONDS = 1
  MIN_HEALTHY_NODES = 1
  MAX_CORDONS_PER_WINDOW = 1
  RATE_LIMIT_WINDOW_SECONDS = 3
  Signals = {"GPUWorkqueueStalled"}
  MaxChanges = 0
INVARIANT
  FleetRateLimit

SPECIFICATION ViewSpec
CONSTANTS
  Replica = {g1}
  Nobody = Nobody
  LEASE_DURATION_SECONDS = 1
  LOOP_INTERVAL_SECONDS = 1
  SECOND = 1
  MaxClock = 3
  Node = {1, 2, 3}
  MODE = "enforce"
  ENFORCE_NODES = {}
  CONDITION_MIN_AGE_SECONDS = 1
  MIN_HEALTHY_NODES = 1
  MAX_CORDONS_PER_WINDOW = 2
  RATE_LIMIT_WINDOW_SECONDS = 2
  Signals = {"GPUWorkqueueStalled"}
  MaxChanges = 1
  Stale = 1
INVARIANTS
  TypeOK
  RateLimit
  FloorTogether
  CountExact
  LossIsSaid
PROPERTIES
  ImplementsCordonBudget
  FloorKept

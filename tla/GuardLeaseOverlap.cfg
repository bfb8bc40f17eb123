SPECIFICATION LeaseSpec
CONSTANTS
  Replica = {g1, g2}
  Nobody = Nobody
  LEASE_DURATION_SECONDS = 2
  LOOP_INTERVAL_SECONDS = 2
  SECOND = 2
  MaxClock = 6
INVARIANT
  OnlyOneReplicaActs

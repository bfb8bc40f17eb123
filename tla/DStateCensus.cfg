SPECIFICATION CensusSpec
CONSTANTS
  Tid = {1, 2}
  GpuNamed = {2}
  STUCK_SECONDS = 2
  MaxClock = 3
  MaxChanges = 2
  MaxFaults = 1
CHECK_DEADLOCK FALSE
INVARIANTS
  CensusTypeOK
  StuckAsSeen
  WaitedIsStuck
  BlindnessShows

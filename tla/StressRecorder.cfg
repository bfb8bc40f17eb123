SPECIFICATION RecorderSpec
CONSTANTS
  AgentAddress = {a1, a2}
  GuardAddress = {g1, g2}
  NoAddress = NoAddress
  MaxMarkers = 2
  MaxChanges = 2
CHECK_DEADLOCK FALSE
INVARIANTS
  RecorderTypeOK
  EachRecovers
  LandsInNext
  OnceInOrder

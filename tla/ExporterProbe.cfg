SPECIFICATION ProbeSpec
CONSTANTS
  own = own
  next = next
  a1 = a1
  a2 = a2
  a3 = a3
  Node = {own, next}
  Self = own
  Address = {a1, a2, a3}
  NoAddress = NoAddress
  Pool <- Pools
INVARIANTS
  ProbeTypeOK
  MisattributedOnlyByReuse
  SelfHeals

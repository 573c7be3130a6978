SPECIFICATION Spec
CONSTANTS
  Order = {o1, o2}
  Rid = {i1, i2}
  Req = {r1, r2}
  Event = {e1}
  EventOf <- OneOrder
  FreshIds = FALSE
  Chatless = {}
  NoOrder = NoOrder
  NoEvent = NoEvent
  Ops <- CartOps
  Deltas <- NoDelta
  InitStock = 1
  MaxQty = 1
  MaxInv = 1
  MaxStock = 1
INVARIANTS NoOversell
CHECK_DEADLOCK FALSE

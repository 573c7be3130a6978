SPECIFICATION FairSpec
CONSTANTS
  Order = {o1}
  Rid = {i1}
  Req = {r1, r2}
  Event = {e1, e2}
  EventOf <- OneOrder
  FreshIds = TRUE
  Chatless = {o1}
  NoOrder = NoOrder
  NoEvent = NoEvent
  Ops <- PayOps
  Deltas <- NoDelta
  InitStock = 1
  MaxQty = 1
  MaxInv = 1
  MaxStock = 1
PROPERTIES PaymentRecorded
CHECK_DEADLOCK FALSE

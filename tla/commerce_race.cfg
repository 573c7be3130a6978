SPECIFICATION Spec
CONSTANTS
  Order = {o1}
  Rid = {i1, i2}
  Req = {r1, r2}
  Event = {e1}
  EventOf <- OneOrder
  FreshIds = FALSE
  Chatless = {o1}
  NoOrder = NoOrder
  NoEvent = NoEvent
  Ops <- OrderOps
  Deltas <- NoDelta
  InitStock = 2
  MaxQty = 2
  MaxInv = 1
  MaxStock = 2
SYMMETRY ReqSymmetry
INVARIANTS PaidHoldsNoReservation PaidBacked DeductedOnce 
PROPERTIES SettlementRefinement ReservationsMoveOn
CHECK_DEADLOCK FALSE

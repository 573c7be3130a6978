SPECIFICATION Spec
CONSTANTS
  Order = {o1, o2}
  Rid = {i1, i2, i3}
  Req = {r1}
  Event = {e1, e2}
  EventOf <- OneAndStray
  FreshIds = FALSE
  Chatless = {}
  NoOrder = NoOrder
  NoEvent = NoEvent
  Ops <- NoCancel
  Deltas <- BothWays
  InitStock = 2
  MaxQty = 2
  MaxInv = 2
  MaxStock = 2
SYMMETRY RidSymmetry
INVARIANTS TypeOK NotifiedOnce ReservedMatchesActive NoOversell
PROPERTIES LedgerRefinement
CHECK_DEADLOCK FALSE

SPECIFICATION Spec
CONSTANTS
  Agent = {a1, a2}
  Call = {c1, c2}
  MaxReq = 2
  MaxCalls = 4
  None = None
SYMMETRY Symmetry
INVARIANTS TypeOK SomebodyPrimary AssigneeTakesPart  TriagedInOrder
CHECK_DEADLOCK FALSE

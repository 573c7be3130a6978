SPECIFICATION FairSpec
CONSTANTS
  Msg = {m1}
  Disp = {d1, d2}
  NRules = 2
  First = First
  None = None
  Prompt = TRUE
  Faults = {"throw", "crash", "stale", "write", "late", "empty", "off", "resolve"}
  MaxFault = 1
INVARIANTS TypeOK SentOnce 
PROPERTIES FollowUpSent
CHECK_DEADLOCK FALSE

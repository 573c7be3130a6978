SPECIFICATION FairSpec
CONSTANTS
  Event = {e1}
  Msg = {m1}
  Contact = {c1}
  Batch <- Repeated
  SenderOf <- OneSender
  Known = {e1}
  Conv = {k1, k2}
  Handler = {h1, h2}
  Loop = {boot,minute}
  MaxRetries = 2
  Attempts = 3
  ReplayTries = 3
  None = None
  Faults = {"crash","message","settle","lookup","resolve","delete","api_crash","forget"}
  MaxFault = 3
INVARIANTS TypeOK StoredOnce  ClaimedOnce
PROPERTIES EventsSettle
CHECK_DEADLOCK FALSE

SPECIFICATION FairSpec
CONSTANTS
  Msg = {m1, m2}
  Parts = 2
  MaxReplies = 3
  Attempts = 2
  Prompt = TRUE
  Outcomes = {"text", "nothing", "handoff", "silent_handoff"}
  None = None
  Faults = {"throw", "crash", "redis", "flow", "expire", "takeover", "escalation"}
  MaxFault = 2
INVARIANTS TypeOK AnsweredOnce
PROPERTIES  BurstAnswered
CHECK_DEADLOCK FALSE

SPECIFICATION FairSpec
CONSTANTS
  Send = {s1}
  Sweep = {d1, d2}
  Worker = {w1, w2}
  N = 2
  None = None
  Faults = {"invalid", "throw", "log", "mark", "crash", "refused", "lost_answer", "send_stops", "sweep_stops"}
  MaxFault = 2
INVARIANTS TypeOK SentPerRequest NobodyLeftOut
PROPERTIES BroadcastEnds
CHECK_DEADLOCK FALSE

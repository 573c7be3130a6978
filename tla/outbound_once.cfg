SPECIFICATION Spec
CONSTANTS
  NMsg = 2
  Conv = {c1}
  ConvOf <- OneConv
  Worker = {w1, w2}
  Bridge <- Second
  Free = Free
  Events = {"delete", "job_lost", "status", "late_row"}
  MaxFault = 1
SYMMETRY WorkerSymmetry
INVARIANTS SentOnce PendingCovered
CHECK_DEADLOCK FALSE

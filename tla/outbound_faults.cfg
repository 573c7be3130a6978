SPECIFICATION Spec
CONSTANTS
  NMsg = 1
  Conv = {c1}
  ConvOf <- OneConv
  Worker = {w1, w2}
  Bridge <- NoBridge
  Free = Free
  Events = {"delete", "status", "patch", "repend", "late_row", "error", "mark_error", "crash", "api_crash", "job_lost", "lock_expiry"}
  MaxFault = 2
SYMMETRY WorkerSymmetry
INVARIANTS TypeOK SendsBounded
CHECK_DEADLOCK FALSE

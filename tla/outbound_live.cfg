SPECIFICATION FairSpec
CONSTANTS
  NMsg = 2
  Conv = {c1}
  ConvOf <- OneConv
  Worker = {w1, w2}
  Bridge <- NoBridge
  Free = Free
  Events = {"crash"}
  MaxFault = 1
PROPERTIES InOrder PendingSettles
CHECK_DEADLOCK FALSE

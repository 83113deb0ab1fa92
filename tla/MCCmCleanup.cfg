\* What a teardown leaves behind.
SPECIFICATION Spec
CONSTANTS
  CmIds = {i1}
  NoId = NoId
  JunkId = JunkId
  QpCount = 1
  UseEvent = FALSE
  UseSrq = FALSE
  TypeKnown = TRUE
  CqField = "send_cq"
  MaxCtx = 1
INVARIANT
  CleanupComplete
CHECK_DEADLOCK FALSE

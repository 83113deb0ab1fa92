\* The comment about rdma_ctx->srq at the QP creation.
SPECIFICATION Spec
CONSTANTS
  CmIds = {i1}
  NoId = NoId
  JunkId = JunkId
  QpCount = 1
  UseEvent = FALSE
  UseSrq = FALSE
  TypeKnown = TRUE
  CqField = "send_cq"
  MaxCtx = 1
INVARIANT
  SrqNullWhenUnused
CHECK_DEADLOCK FALSE

\* One context under the fairness of librdmacm's timeouts: a client's
\* connection, or a listener with two callers.
SPECIFICATION FairSpec
CONSTANTS
  CmIds = {i1, i2, i3}
  NoId = NoId
  JunkId = JunkId
  QpCount = 2
  UseEvent = TRUE
  UseSrq = FALSE
  TypeKnown = TRUE
  CqField = "send_cq"
  MaxCtx = 1
INVARIANTS
  TypeOK
  CleanupTouchesOwned
  DestroyedIdUnused
  EstablishedIsServed
PROPERTIES
  ConnectSettles
\* A crashed or exited process, or a hung event loop, is where it stops.
CHECK_DEADLOCK FALSE

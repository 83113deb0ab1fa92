\* One context, a client's or a listener's with one caller, and the reads of one post.
SPECIFICATION SysSpec
CONSTANTS
  CmIds = {i1, i2}
  NoId = NoId
  JunkId = JunkId
  QpCount = 1
  UseEvent = TRUE
  UseSrq = FALSE
  TypeKnown = TRUE
  CqField = "send_cq"
  MaxCtx = 1
  Posts = {p1}
  MaxChunks = 2
  MaxCalls = 2
INVARIANTS
  ServedReadsFindQp
PROPERTIES
  ImplementsReads
\* A crashed process, a hung event loop or a freed post is where it stops.
CHECK_DEADLOCK FALSE

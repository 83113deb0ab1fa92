\* Two posts on one queue pair, up to two calls of two chunks each.
SPECIFICATION FairSpec
CONSTANTS
  Posts = {p1, p2}
  MaxChunks = 2
  MaxCalls = 2
INVARIANTS
  TypeOK
  PostOutlivesReads
  RefBalance
PROPERTIES
  PostReclaimed
  ImplementsSharedPost
\* The process stops when every post is freed or a destroyed queue pair is used.
CHECK_DEADLOCK FALSE

\* work_rdma_cm OFF: three attempts with three retries each, one server,
\* both processes running on.
SPECIFICATION FairSpec
CONSTANTS
  NumOfRetries = 3
  MaxRetries = 3
  Work = FALSE
  UseRdmaCm = FALSE
  Ud = FALSE
  NeedsAh = FALSE
INVARIANTS
  TypeOK
  RetryBudget
  PeersReady
  SocketsClosed
PROPERTIES
  ClientReturns
  ServerReturns
\* Both processes end, or the server waits for a request or an address.
CHECK_DEADLOCK FALSE

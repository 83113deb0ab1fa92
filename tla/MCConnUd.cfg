\* UD latency test with work_rdma_cm ON.
SPECIFICATION FairSpec
CONSTANTS
  NumOfRetries = 1
  MaxRetries = 1
  Work = TRUE
  UseRdmaCm = TRUE
  Ud = TRUE
  NeedsAh = TRUE
PROPERTIES
  BothEstablished
\* Both processes end, or the server waits for a request or an address.
CHECK_DEADLOCK FALSE

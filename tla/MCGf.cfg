\* Two transports, two devices, one waiting event for each identifier.
SPECIFICATION FairSpec
CONSTANTS
  t1 = t1
  t2 = t2
  d1 = d1
  d2 = d2
  Transports <- MCTransports
  Devices <- MCDevices
  MaxEvents = 1
INVARIANTS
  TypeOK
  PoolReady
  AckedOnce
  PeerFound
PROPERTIES
  LoopReturns
  InitReturns
CHECK_DEADLOCK FALSE

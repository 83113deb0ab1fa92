\* Two contexts whose connections overlap: clients, or a client and a listener.
SPECIFICATION Spec
CONSTANTS
  CmIds = {i1, i2, i3}
  NoId = NoId
  JunkId = JunkId
  QpCount = 1
  UseEvent = FALSE
  UseSrq = FALSE
  TypeKnown = TRUE
  CqField = "recv_cq"
  MaxCtx = 2
SYMMETRY IdSymmetry
INVARIANTS
  
  HangRoot
  
  EstablishedIsServed

  
CHECK_DEADLOCK FALSE

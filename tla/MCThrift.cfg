\* Every choice of methods in both classes, buffers of up to two bytes.
SPECIFICATION FairSpec
CONSTANTS
  Modulus = 4
  MaxLen = 2
INVARIANTS
  TypeOK
  ReadAllWhole
  ProperSubclass
PROPERTIES
  CallEnds

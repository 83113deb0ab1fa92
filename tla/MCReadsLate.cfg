\* What the connected flag says after the teardown.
SPECIFICATION Spec
CONSTANTS
  Posts = {p1}
  MaxChunks = 2
  MaxCalls = 1
INVARIANTS
  NoReadsAfterTeardown
CHECK_DEADLOCK FALSE

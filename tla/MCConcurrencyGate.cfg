SPECIFICATION GateFairSpec
CONSTANTS
  Requests = {r1, r2, r3}
  Limits = {0, 1, 2}
  None = None
INVARIANTS
  GateHolds
PROPERTIES
  ImplementsSemaphore
  LoopDecides

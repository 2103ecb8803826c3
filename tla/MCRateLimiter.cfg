SPECIFICATION Spec
CONSTANTS
  Rpm = 2
  Window = 5
  Second = 2
  MaxTime = 13
INVARIANTS
  WindowBound
  RetryAfterSuffices
PROPERTIES
  ImplementsSlidingWindow

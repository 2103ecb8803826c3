SPECIFICATION Spec
CONSTANTS
  a = a
  b = b
  m1 = m1
  m2 = m2
  Ids = {a, b}
  NoId = NoId
  Models = {m1, m2}
  NoModel = NoModel
  Definitions <- Colliding
  Requests = {r1}
  Admins = {w}
  MaxIncarnations = 2
  MaxResets = 1
INVARIANTS
  IndexSound
  ServedOnItsRoute
  CapturedBeforeCounted
  CountersAreExact
  AttemptsWereCaptured
PROPERTY ClaimsMoveByTakeover
CHECK_DEADLOCK FALSE

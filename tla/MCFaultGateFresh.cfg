SPECIFICATION Spec
CONSTANTS
  Requests = {r1, r2}
  Scenarios = {}
  Configs <- CountConfigs
  InitialConfig <- Plain
  ScenarioConfig <- CountScenario
  Headers <- CountHeaders
  NoHeader = NoHeader
  BadHeader = BadHeader
  NoLimiter = NoLimiter
  MaxSwaps = 1
  MaxZeroings = 0
INVARIANT FreshSequence
CHECK_DEADLOCK FALSE

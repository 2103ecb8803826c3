SPECIFICATION Spec
CONSTANTS
  Requests = {r1}
  Scenarios = {}
  Configs <- LimitConfigs
  InitialConfig <- Plain
  ScenarioConfig <- LimitScenario
  Headers <- BypassHeaders
  NoHeader = NoHeader
  BadHeader = BadHeader
  NoLimiter = NoLimiter
  MaxSwaps = 1
  MaxZeroings = 0
INVARIANT LimiterUntargetable
CHECK_DEADLOCK FALSE

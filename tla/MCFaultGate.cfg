SPECIFICATION FairSpec
CONSTANTS
  Requests = {r1, r2}
  Scenarios = {s1}
  Configs <- GateConfigs
  InitialConfig <- Unlucky
  ScenarioConfig <- GateScenario
  Headers <- GateHeaders
  NoHeader = NoHeader
  BadHeader = BadHeader
  NoLimiter = NoLimiter
  MaxSwaps = 1
  MaxZeroings = 1
INVARIANTS
  AttemptsInSequence
  CountIsExact
  FailFirstBudget
  OneAnswer
  LimitersKeepTheirRate
PROPERTY FaultProcessingEnds
CHECK_DEADLOCK FALSE

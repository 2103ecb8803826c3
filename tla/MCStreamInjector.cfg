CONSTANTS
  Configs <- StreamConfigs
  MaxPings = 1
SPECIFICATION FairSpec
CHECK_DEADLOCK FALSE
INVARIANTS UncutIsComplete BlocksDoNotCollide CutsAreExact CutFollowsError SpecsFireOnce
PROPERTIES ImplementsOrderedStream StreamsEnd

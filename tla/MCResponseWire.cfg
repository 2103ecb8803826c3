SPECIFICATION Spec
CONSTANTS
  Alphabet <- Characters
  WordList <- Vocabulary
  ByteLimit = 8
  Requests <- WireRequests
  MaxPings = 1
INVARIANTS TextArrives ChunksAreClean AskedCountsAreClamped FaultsLandWhereAsked
CHECK_DEADLOCK FALSE

CONSTANTS
  Requests = {r1, r2, r3}
  Arrivals <- AllArrivals
  Crowds <- OneTwoOrThree
  MaxConcurrent <- Gated
  MaxRecorded = 2
  MaxClears = 1
SPECIFICATION FairSpec
CHECK_DEADLOCK FALSE
INVARIANTS SlotsAreReturned RecordingIsRecent OraclesAgree LeakIsNotMasked
PROPERTY RequestsEnd

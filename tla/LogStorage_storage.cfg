SPECIFICATION FairSpec
CONSTANTS
  PreserveCount = 1
  Capacity = 5
  MaxSegments = 7
  MaxMarks = 2
  MaxFaults = 1
  MaxStarts = 1
  MaxRoutes = 2
  Recorded = 5
INVARIANTS RecordingKept
PROPERTIES PreservedLast SpaceRecovers UploadsSettle
CHECK_DEADLOCK FALSE

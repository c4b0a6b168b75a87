SPECIFICATION Spec
CONSTANTS
  PreserveCount = 1
  Capacity = 2
  MaxSegments = 5
  MaxMarks = 1
  MaxFaults = 0
  MaxStarts = 0
  MaxRoutes = 1
  Recorded = 2
PROPERTY BookmarksPreserved
CHECK_DEADLOCK FALSE

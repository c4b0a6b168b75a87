SPECIFICATION Spec
CONSTANTS
  Encoders = {road, wide}
  Length = 6
  Gop = 4
  Slack = 3
  Patience = 4
  MaxQueue = 3
  MaxLag = 3
  MaxTime = 18
  MaxStalls = 1
SYMMETRY Symmetry
INVARIANTS Aligned NothingLost LengthBounded
CHECK_DEADLOCK FALSE

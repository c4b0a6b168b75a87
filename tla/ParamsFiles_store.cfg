SPECIFICATION Spec
CONSTANTS
  p1 = p1
  p2 = p2
  k1 = k1
  k2 = k2
  Procs <- TwoProcs
  Keys <- TwoKeys
  Flagged <- TwoKeys
  None = None
  Torn = Torn
  MaxOps = 3
  MaxFaults = 1
SYMMETRY Symmetry
INVARIANTS AcknowledgedIsDurable SnapshotIsConsistent
PROPERTIES AsyncInOrder StoreSpec
CHECK_DEADLOCK FALSE

SPECIFICATION Spec
CONSTANTS
  FullAwareness = 4
  Step <- SmallStep
  Alert1 <- SmallAlert1
  Alert2 <- SmallAlert2
  RecoveryMax = 5
  FilterLow = 0
  FilterHigh = 2
  FilterMax = 2
  HiStdFallback = 1
  MaxAlert3 = 2
  NoResponseTimeout = 2
  LockoutTimes <- OneLockoutTime
  Frames <- DistinctFrames
  FrameIds = 2
  AlwaysOnValues = {TRUE, FALSE}
  MaxCycles = 1
INVARIANTS WarnedBeforeRed
PROPERTIES RedStays DecelerationHolds RecordedLockoutHolds DistractionIsAnswered

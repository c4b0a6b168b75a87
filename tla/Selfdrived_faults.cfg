SPECIFICATION Spec
CONSTANTS
  SoftDisableTicks = 4
  MismatchLimit = 2
  SteeringModes = {"REMAIN_ACTIVE"}
  AllowAlways = FALSE
  NoMainCruise = FALSE
  PcmCruise = FALSE
  CarStates <- EngagementStates
  Toggles <- UnifiedToggles
PROPERTY SoftDisableAlerted
PROPERTY SoftDisableGrace
INVARIANT MismatchDisengages
PROPERTY ParkDisengages

SPECIFICATION Spec
CONSTANTS
  SoftDisableTicks = 3
  MismatchLimit = 2
  SteeringModes = {"REMAIN_ACTIVE"}
  AllowAlways = FALSE
  NoMainCruise = FALSE
  PcmCruise = FALSE
  CarStates <- StuckStates
  Toggles <- FixedToggles
PROPERTY SoftDisableTimerReset

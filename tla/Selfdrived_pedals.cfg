SPECIFICATION Spec
CONSTANTS
  SoftDisableTicks = 3
  MismatchLimit = 2
  SteeringModes = {"REMAIN_ACTIVE", "PAUSE", "DISENGAGE"}
  AllowAlways = FALSE
  NoMainCruise = FALSE
  PcmCruise = TRUE
  CarStates <- PedalStates
  Toggles <- PedalToggles
PROPERTY BrakeReleasesSteering
PROPERTY NoResumeWhileBraking
PROPERTY NoUnrequestedSteering

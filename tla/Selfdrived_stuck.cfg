SPECIFICATION FairSpec
CONSTANTS
  SoftDisableTicks = 8
  MismatchLimit = 2
  SteeringModes = {"REMAIN_ACTIVE"}
  AllowAlways = FALSE
  NoMainCruise = FALSE
  PcmCruise = FALSE
  CarStates <- StuckStates
  Toggles <- FixedToggles
INVARIANT SoftDisableBounded
PROPERTY StuckMalfunctionDisengages

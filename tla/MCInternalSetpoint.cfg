SPECIFICATION Spec
CONSTANTS
  Limits <- MCLimits
  HwCurrents = {1}
  Voltage = 1
  SolarMin = 1
  Surpluses = {0, 3}
  Rooms <- MCRooms
  DlbEnabled = TRUE
  PhaseSwitching = FALSE
  RecoveryEnabled = FALSE
  ResetOnDisconnect = TRUE
  DefaultMode = "solar"
  ModeChoices = {"manual", "min_solar"}
  PhaseChoices = {}
  ManualChoices = {2}
  DrawChoices = {"one"}
  MayFail = {"setCurrent"}
  Settle = 1
  Quiet = 1
  MinCharge = 1
  Dwell = 1
  Observe = 1
  Pause = 1
  Resume = 1
CHECK_DEADLOCK FALSE
INVARIANT TypeOK
PROPERTIES PollLands OffHolds FuseRespected

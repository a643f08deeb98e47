SPECIFICATION FairSpec
CONSTANTS
  Limits <- MCLimits
  HwCurrents = {1}
  Voltage = 1
  SolarMin = 1
  Surpluses = {}
  Rooms = {}
  DlbEnabled = FALSE
  PhaseSwitching = TRUE
  RecoveryEnabled = TRUE
  ResetOnDisconnect = TRUE
  DefaultMode = "fast"
  ModeChoices = {}
  PhaseChoices = {"1"}
  ManualChoices = {}
  DrawChoices = {"three"}
  MayFail = {}
  Settle = 1
  Quiet = 1
  MinCharge = 1
  Dwell = 1
  Observe = 1
  Pause = 1
  Resume = 1
CHECK_DEADLOCK FALSE
PROPERTIES OffLands RecoveryEnds ChargingResumes

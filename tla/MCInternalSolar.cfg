SPECIFICATION Spec
CONSTANTS
  Limits <- MCLimits
  HwCurrents = {1}
  Voltage = 1
  SolarMin = 1
  Surpluses = {1, 3}
  Rooms = {}
  DlbEnabled = FALSE
  PhaseSwitching = TRUE
  RecoveryEnabled = FALSE
  ResetOnDisconnect = TRUE
  DefaultMode = "solar"
  ModeChoices = {}
  PhaseChoices = {"auto", "1"}
  ManualChoices = {}
  DrawChoices = {"one", "unclear"}
  MayFail = {}
  Settle = 1
  Quiet = 1
  MinCharge = 2
  Dwell = 2
  Observe = 1
  Pause = 1
  Resume = 1
CHECK_DEADLOCK FALSE
PROPERTIES SolarChargeLasts NoFlapping

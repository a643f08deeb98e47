SPECIFICATION Spec
CONSTANTS
  Limits <- MCLimits
  HwCurrents = {1}
  Voltage = 1
  SolarMin = 1
  Surpluses = {0, 3}
  Rooms = {}
  DlbEnabled = FALSE
  PhaseSwitching = FALSE
  RecoveryEnabled = FALSE
  ResetOnDisconnect = TRUE
  DefaultMode = "solar"
  ModeChoices = {"fast", "solar"}
  PhaseChoices = {}
  ManualChoices = {}
  DrawChoices = {"one"}
  MayFail = {}
  Settle = 1
  Quiet = 1
  MinCharge = 2
  Dwell = 1
  Observe = 1
  Pause = 1
  Resume = 1
CHECK_DEADLOCK FALSE
PROPERTY SolarChargeLasts

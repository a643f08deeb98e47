SPECIFICATION Spec
CONSTANTS
  Limits <- MCLimits
  HwCurrents = {1}
  Voltage = 1
  SolarMin = 1
  Surpluses = {}
  Rooms = {}
  DlbEnabled = FALSE
  PhaseSwitching = TRUE
  RecoveryEnabled = TRUE
  ResetOnDisconnect = TRUE
  DefaultMode = "fast"
  ModeChoices = {}
  PhaseChoices = {"auto", "1"}
  ManualChoices = {}
  DrawChoices = {"one", "three"}
  MayFail = {}
  Settle = 1
  Quiet = 2
  MinCharge = 1
  Dwell = 1
  Observe = 1
  Pause = 1
  Resume = 1
CHECK_DEADLOCK FALSE
INVARIANT QuietKept
PROPERTIES PollLands RecoveryOwnsCurrent ImplementsPhaseFix

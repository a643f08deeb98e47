SPECIFICATION Spec
CONSTANTS
  AbsMax = 2
  MaxCurrent = 2
  Commands = {1}
  PhaseRequests = {1, 3}
  HwCurrents = {1}
  DrawChoices = {"one", "three"}
  RecoveryEnabled = TRUE
  PhaseUnreadable = FALSE
  Patience = 1
  QuickReplug = TRUE
  LateMinimum = TRUE
  QueueBound = 1
CHECK_DEADLOCK FALSE
INVARIANTS TypeOK StopLands NeverMoreThanAsked
PROPERTIES PauseHolds ImplementsPhaseFix

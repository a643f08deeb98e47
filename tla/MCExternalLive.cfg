SPECIFICATION FairSpec
CONSTANTS
  AbsMax = 1
  MaxCurrent = 1
  Commands = {}
  PhaseRequests = {1}
  HwCurrents = {1}
  DrawChoices = {"three"}
  RecoveryEnabled = TRUE
  PhaseUnreadable = FALSE
  Patience = 2
  QuickReplug = FALSE
  LateMinimum = FALSE
  QueueBound = 1
CHECK_DEADLOCK FALSE
PROPERTIES PhaseLands StopTakesEffect

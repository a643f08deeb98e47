SPECIFICATION FairSpec
CONSTANTS
  AbsMax = 1
  MaxCurrent = 1
  Commands = {}
  PhaseRequests = {}
  HwCurrents = {1}
  DrawChoices = {"three"}
  RecoveryEnabled = FALSE
  PhaseUnreadable = FALSE
  Patience = 2
  QuickReplug = FALSE
  LateMinimum = TRUE
  QueueBound = 1
CHECK_DEADLOCK FALSE
PROPERTY StopTakesEffect

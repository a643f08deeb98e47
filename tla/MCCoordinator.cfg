SPECIFICATION Spec
CONSTANTS
  StoreFails = FALSE
  RfidAnswers = {"tag", "refused", "lost"}
  MaxStrikes = 2
  GridPhases = "3"
  RestoreEnabled = TRUE
  SettleDelay = TRUE
  JsonListed = TRUE
CHECK_DEADLOCK FALSE
INVARIANTS TypeOK BaselineOriginal FailsafeArmed HandsBack ProbeLossesBounded LeftOnlyByFailure
